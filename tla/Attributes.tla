----------------------------- MODULE Attributes -----------------------------
(***************************************************************************)
(* The attributes of the actor of Effects towards one other actor:         *)
(* calculate_relative_attributes, and the systems of a tick that ask for   *)
(* it.  Traits, and whatever else the actor owns for good, and the stacks  *)
(* of Effects carry modifiers and conversions.  Values are integers, in    *)
(* units in which the numbers of a build are, and conversions take         *)
(* percentages.  The secondary attributes, which are functions of the      *)
(* others, and conditions on the other actor are left out.                 *)
(***************************************************************************)
EXTENDS Effects, Sequences

SeqOps == INSTANCE SequencesExt
SetOps == INSTANCE FiniteSetsExt

CONSTANTS
    Attribute,
    static_attributes,
    traits,
    attribute_modifiers,    \* of a source: [attribute, multiplier, addend, condition]
    attribute_conversions,  \* of a source: [from, to, multiplier, addend, condition]
    max_considered_stacks,
    Always                  \* the condition that asks for nothing, others ask for a kind

Sources == Kinds \cup traits
Conditional == Kinds \cup {Always}
Modifier == [attribute : Attribute, multiplier : Int, addend : Int, condition : Conditional]
Conversion == [from : Attribute, to : Attribute, multiplier : Int, addend : Int,
               condition : Conditional]

ASSUME AttributesConfigured ==
    /\ static_attributes \in [Attribute -> Int] /\ max_considered_stacks \in [Kinds -> Nat]
    /\ attribute_modifiers \in [Sources -> Seq(Modifier)]
    /\ attribute_conversions \in [Sources -> Seq(Conversion)]
    /\ traits \cap Kinds = {} /\ Always \notin Kinds

VARIABLE relative_attributes

attributeVars == <<vars, relative_attributes>>

NotCalculated == <<>>

-----------------------------------------------------------------------------
(* calculate_relative_attributes *)

Carriers == Entities \cup traits
SourceOf(carrier) == IF carrier \in traits THEN carrier ELSE effects[carrier].kind

\* The pools of modifiers and of conversions are walked in orders of their own.  A visit is
\* the sources it meets.
Orders == [set \in SUBSET (Entity \cup traits) |-> SeqOps!SetToSeqs(set)]
Visits == {[i \in DOMAIN order |-> SourceOf(order[i])] : order \in Orders[Carriers]}

\* Stacks count whether or not their conditions hold.
IsConsidered(visit, i) ==
    visit[i] \in Kinds =>
        Cardinality({j \in 1..(i - 1) : visit[j] = visit[i]}) < max_considered_stacks[visit[i]]

\* Expired and destroyed stacks remain until the end of the tick.
Satisfied(condition) == condition = Always \/ Of(condition) # {}

Carried(sequences, visit) ==
    LET considered == [i \in DOMAIN visit |->
                           IF IsConsidered(visit, i) THEN sequences[visit[i]] ELSE <<>>]
    IN  SelectSeq(SeqOps!FlattenSeq(considered), LAMBDA carried : Satisfied(carried.condition))

Modified(visit) ==
    SeqOps!FoldLeft(
        LAMBDA values, m : [values EXCEPT ![m.attribute] = @ * m.multiplier + m.addend],
        static_attributes, Carried(attribute_modifiers, visit))

round_to_nearest_even(hundredths) ==
    LET whole == hundredths \div 100
        rest == hundredths % 100
    IN  IF rest > 50 \/ (rest = 50 /\ whole % 2 = 1) THEN whole + 1 ELSE whole

\* All conversions read the values from before any of them.
Converted(values, visit) ==
    LET bonuses == SeqOps!FoldLeft(
            LAMBDA sums, c : [sums EXCEPT ![c.to] =
                                  @ + values[c.from] * c.multiplier + c.addend * 100],
            [a \in Attribute |-> 0], Carried(attribute_conversions, visit))
    IN  [a \in Attribute |-> round_to_nearest_even(values[a] * 100 + bonuses[a])]

Calculated == {Converted(values, visit) : values \in {Modified(v) : v \in Visits}, visit \in Visits}

\* Mutant: whoever asks gets attributes of the moment.
calculate_anew == relative_attributes' \in Calculated
calculate_relative_attributes ==
    IF relative_attributes # NotCalculated THEN UNCHANGED relative_attributes
    ELSE relative_attributes' \in Calculated

-----------------------------------------------------------------------------
(* The tick *)

\* tick asks for the attributes when there are strikes to dispatch, or then effects, and
\* applies no effect before.
dispatch ==
    /\ phase = "effects" /\ relative_attributes = NotCalculated
    /\ calculate_relative_attributes /\ UNCHANGED vars

apply_effects(kind, d) ==
    Apply(kind, d) /\ relative_attributes # NotCalculated /\ UNCHANGED relative_attributes

\* buffer_condition_damage asks for the attributes also when nothing is left to pay.
PaysConditions == clock = 0 \/ \E e \in duration_expired : effects[e].kind \in damaging
buffer_condition_damage ==
    /\ buffer_damage
    /\ IF PaysConditions THEN calculate_relative_attributes ELSE UNCHANGED relative_attributes

clear_temporary_components == cleanup /\ relative_attributes' = NotCalculated

TickStep ==
    \/ progress_durations /\ UNCHANGED relative_attributes
    \/ buffer_condition_damage
    \/ clear_temporary_components

AttributesInit == Init /\ relative_attributes = NotCalculated

AttributesNext ==
    \/ dispatch
    \/ \E kind \in Kinds, d \in Durations : apply_effects(kind, d)
    \/ \E kind \in removable : \E removed \in SUBSET Of(kind) :
          Remove(kind, removed) /\ UNCHANGED relative_attributes
    \/ TickStep

AttributesSpec == AttributesInit /\ [][AttributesNext]_attributeVars

-----------------------------------------------------------------------------
(* Properties *)

\* What the actor has of a source, up to what is considered, without any order.
Shares(sequences) ==
    LET Stacks(source) == IF source \in traits THEN 1
                          ELSE Smaller(Cardinality(Of(source)), max_considered_stacks[source])
    IN  {share \in Sources \X (1..3) \X Entity :
            /\ share[2] \in DOMAIN sequences[share[1]] /\ share[3] <= Stacks(share[1])
            /\ Satisfied(sequences[share[1]][share[2]].condition)}

\* In any order, if every attribute has modifiers that only add or that only multiply.
Expected ==
    LET Fold(op(_, _), base, field(_), set) ==
            SetOps!MapThenFoldSet(op, base, field, LAMBDA s : CHOOSE x \in s : TRUE, set)
        ModifierOf(share) == attribute_modifiers[share[1]][share[2]]
        ConversionOf(share) == attribute_conversions[share[1]][share[2]]
        Multiplier(share) == ModifierOf(share).multiplier
        Addend(share) == ModifierOf(share).addend
        modified == [a \in Attribute |->
            LET shares == {s \in Shares(attribute_modifiers) : ModifierOf(s).attribute = a}
            IN  static_attributes[a] * Fold(LAMBDA x, y : x * y, 1, Multiplier, shares)
                    + Fold(LAMBDA x, y : x + y, 0, Addend, shares)]
        Bonus(share) == modified[ConversionOf(share).from] * ConversionOf(share).multiplier
                            + ConversionOf(share).addend * 100
    IN  [a \in Attribute |->
            LET shares == {s \in Shares(attribute_conversions) : ConversionOf(s).to = a}
            IN  round_to_nearest_even(
                    modified[a] * 100 + Fold(LAMBDA x, y : x + y, 0, Bonus, shares))]

\* Whatever a tick deals, applies and pays comes of one calculation, of the stacks it began
\* with: an effect applied in a tick, or extended, or removed by a hook, changes nothing
\* before the next one, whichever system asked first.  The outcome does not depend on the
\* order in which entt walks its pools, although only some of the stacks are considered and
\* conversions feed on each other's attributes.  Needs modifiers that commute.
OneCalculationPerTick ==
    [][relative_attributes' \notin {relative_attributes, NotCalculated} =>
            /\ relative_attributes = NotCalculated /\ relative_attributes' = Expected
            /\ \A e \in Entities : effects[e].progress > 0]_attributeVars
=============================================================================
