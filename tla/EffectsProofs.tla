---------------------------- MODULE EffectsProofs ----------------------------
(***************************************************************************)
(* The safety properties of Effects for every set of effects, stacking     *)
(* types, limits and durations, and any number of stacks, and of           *)
(* Attributes for any modifiers.                                           *)
(***************************************************************************)
EXTENDS Attributes, FiniteSetTheorems, WellFoundedInduction, TLAPS

Kind(e) == effects[e].kind

\* OneAtATime, of stacks instead of their number.
OneOfAKind ==
    \A e, f \in Entities :
        e # f /\ Kind(e) = Kind(f) =>
            /\ stacking_type[Kind(e)] # "duration"
            /\ stacking_type[Kind(e)] = "replace" => e \in destroy_entity \/ f \in destroy_entity

\* A stack with a duration of its own expires in the very tick its time is up.
TimeLeft ==
    \A e \in Entities :
        stacking_type[Kind(e)] # "duration" =>
            /\ Remaining(e) >= 0
            /\ phase = "casting" \/ e \notin duration_expired \cup destroy_entity
                   => Remaining(e) > 0

\* What a condition owes is the duration it has left since its last payment.
OwesItsDuration ==
    \A e \in Entities :
        Kind(e) \in Conditions =>
            /\ unpaid[e] = effects[e].duration
            /\ e \in duration_expired => Remaining(e) = 0
            /\ e \in duration_expired /\ phase = "cleanup" => effects[e].progress = 0

\* Only removals and replacements destroy stacks.
DestroyedForAReason ==
    \A e \in destroy_entity : Kind(e) \in removable \/ stacking_type[Kind(e)] = "replace"

Inv ==
    /\ TypeOK /\ OneOfAKind /\ TimeLeft /\ OwesItsDuration /\ DestroyedForAReason
    /\ MarkedWhileItLasts

-----------------------------------------------------------------------------
(* Lemmas *)

LEMMA FreshIsNew ==
    ASSUME Entities \subseteq Entity, Entities # Entity
    PROVE  Fresh \in Entity /\ Fresh \notin Entities
<1> DEFINE free == Entity \ Entities
<1>1. free \subseteq Nat
    BY Times DEF Entity
<1>2. free # {}
    OBVIOUS
<1>3. \E e \in free : \A f \in free : e <= f
    <2> HIDE DEF free
    <2>1. PICK e \in free : \A f \in free : ~(<<f, e>> \in OpToRel(<, Nat))
        BY <1>1, <1>2, NatLessThanWellFounded, WFMin, Zenon
    <2>2. \A f \in free : f \in Nat /\ e \in Nat /\ ~(f < e)
        BY <1>1, <2>1, Zenon DEF OpToRel
    <2> QED
        BY <2>2
<1> QED
    BY <1>3 DEF Fresh

LEMMA OneWhenAllEqual ==
    ASSUME NEW S, IsFiniteSet(S), \A x, y \in S : x = y
    PROVE  Cardinality(S) <= 1
<1>1. CASE S = {}
    BY <1>1, FS_EmptySet
<1>2. CASE S # {}
    <2>1. PICK x : S = {x}
        BY <1>2
    <2> QED
        BY <2>1, FS_Singleton
<1> QED
    BY <1>1, <1>2

LEMMA InvImpliesOneAtATime == Inv => OneAtATime
<1> SUFFICES ASSUME Inv, NEW kind \in Kinds
             PROVE  /\ stacking_type[kind] = "duration" => Cardinality(Of(kind)) <= 1
                    /\ stacking_type[kind] = "replace" => Cardinality(Live(kind)) <= 1
    BY DEF OneAtATime
<1>1. IsFiniteSet(Entity)
    BY Times, FS_Interval DEF Entity
<1>2. IsFiniteSet(Of(kind)) /\ IsFiniteSet(Live(kind))
    BY <1>1, FS_Subset DEF Of, Live, Inv, TypeOK
<1>3. stacking_type[kind] = "duration" => \A x, y \in Of(kind) : x = y
    BY DEF Inv, OneOfAKind, Of, Kind
<1>4. stacking_type[kind] = "replace" => \A x, y \in Live(kind) : x = y
    BY DEF Inv, OneOfAKind, Of, Live, Kind
<1> QED
    BY <1>2, <1>3, <1>4, OneWhenAllEqual

LEMMA StackFields ==
    ASSUME Inv
    PROVE  \A e \in Entities :
               /\ Kind(e) \in Kinds /\ effects[e].kind = Kind(e)
               /\ effects[e].duration \in Int /\ effects[e].progress \in Nat
               /\ Remaining(e) \in Int
               /\ Remaining(e) = effects[e].duration - effects[e].progress
<1>1. \A e \in Entities : effects[e] \in Stack
    BY DEF Inv, TypeOK
<1> QED
    BY <1>1 DEF Stack, Kind, Remaining

-----------------------------------------------------------------------------
(* Every step keeps the invariant *)

LEMMA InitInv == Init => Inv
<1> SUFFICES ASSUME Init PROVE Inv
    OBVIOUS
<1>1. /\ Entities = {} /\ duration_expired = {} /\ destroy_entity = {} /\ markers = {}
      /\ effects = [e \in {} |-> 0] /\ unpaid = [e \in {} |-> 0]
    BY DEF Init, Entities
<1>2. TypeOK
    <2>1. effects \in [Entities -> Stack] /\ unpaid \in [Entities -> Int]
        BY <1>1
    <2> QED
        BY <1>1, <2>1 DEF Init, TypeOK
<1> QED
    BY <1>1, <1>2 DEF Inv, OneOfAKind, TimeLeft, OwesItsDuration, DestroyedForAReason,
        MarkedWhileItLasts, Of
(***************************************************************************)
(* Inv but for the types, of a step that creates and destroys no stack and *)
(* changes no kind: what is left to show is about the times alone.         *)
(***************************************************************************)
LEMMA SameStacks ==
    ASSUME Inv, Entities' = Entities, \A e \in Entities : effects'[e].kind = effects[e].kind,
           destroy_entity \subseteq destroy_entity', UNCHANGED markers
    PROVE  OneOfAKind' /\ MarkedWhileItLasts'
<1>1. \A e \in Entities : Kind(e)' = Kind(e)
    BY DEF Kind
<1>2. OneOfAKind'
    BY <1>1 DEF Inv, OneOfAKind
<1>3. \A k : Of(k)' = Of(k)
    BY DEF Of
<1>4. MarkedWhileItLasts'
    BY <1>3 DEF Inv, MarkedWhileItLasts
<1> QED
    BY <1>2, <1>4

LEMMA ExtendInv ==
    ASSUME Inv, NEW kind \in Kinds, NEW d \in Durations, phase = "effects",
           Extend(kind, d), UNCHANGED <<phase, clock>>
    PROVE  Inv'
<1>1. PICK x \in Of(kind) :
          /\ effects' = [effects EXCEPT ![x].progress = 0,
                                        ![x].duration = Extended(kind, Remaining(x), d)]
          /\ \/ duration_expired' = duration_expired
             \/ duration_expired' = duration_expired \ {x}
    BY Zenon DEF Extend, Stackable
<1> DEFINE longer == Extended(kind, Remaining(x), d)
<1>2. /\ stacking_type[kind] = "duration"
      /\ UNCHANGED <<destroy_entity, markers, unpaid, phase, clock>>
    BY DEF Extend
<1>3. x \in Entities /\ Kind(x) = kind
    BY DEF Of, Kind
<1>4. longer \in Int /\ longer <= max_duration[kind] /\ max_duration[kind] \in Nat
    <2>1. max_duration[kind] \in Nat /\ d \in Int /\ Remaining(x) \in Int
        BY <1>3, StackFields, Stacking, Times
    <2> QED
        BY <2>1 DEF Extended, Smaller
<1> HIDE DEF longer
<1>5. /\ Entities' = Entities
      /\ \A e \in Entities \ {x} : effects'[e] = effects[e]
      /\ effects'[x].kind = kind /\ effects'[x].duration = longer /\ effects'[x].progress = 0
      /\ effects' \in [Entities -> Stack]
    <2>1. effects \in [Entities -> [kind : Kinds, duration : Int, progress : Nat]]
        BY DEF Inv, TypeOK, Stack
    <2>2. effects[x].kind = kind
        BY <1>3 DEF Kind
    <2>3. effects' = [effects EXCEPT ![x].progress = 0, ![x].duration = longer]
        BY <1>1 DEF longer
    <2>4. /\ Entities' = Entities
          /\ \A e \in Entities \ {x} : effects'[e] = effects[e]
          /\ effects'[x].kind = kind /\ effects'[x].duration = longer /\ effects'[x].progress = 0
        BY <1>3, <1>4, <2>1, <2>2, <2>3 DEF Entities
    <2>5. effects' \in [Entities -> Stack]
        BY <1>3, <1>4, <2>1, <2>3 DEF Stack
    <2> QED
        BY <2>4, <2>5
<1>6. \A e \in Entities : Kind(e)' = Kind(e)
    BY <1>3, <1>5 DEF Kind
<1>7. TypeOK'
    <2>2. \A e \in Entities' : \E b \in Durations \cup {max_duration[effects'[e].kind]} :
              effects'[e].duration <= b
        BY <1>4, <1>5 DEF Inv, TypeOK
    <2>3. (duration_expired \cup destroy_entity)' \subseteq Entities'
        BY <1>1, <1>2, <1>5 DEF Inv, TypeOK
    <2> QED
        BY <2>2, <2>3, <1>2, <1>5 DEF Inv, TypeOK
<1>8. \A e \in Entities \ {x} : Remaining(e)' = Remaining(e)
    BY <1>5 DEF Remaining
<1>9. \A e \in Entities \ {x} : e \in duration_expired' <=> e \in duration_expired
    BY <1>1
<1>10. TimeLeft'
    BY <1>2, <1>3, <1>5, <1>6, <1>8, <1>9 DEF Inv, TimeLeft
<1>11. OwesItsDuration'
    BY <1>2, <1>3, <1>5, <1>6, <1>8, <1>9 DEF Inv, OwesItsDuration, Conditions
<1>12. DestroyedForAReason'
    BY <1>2, <1>6 DEF Inv, DestroyedForAReason, TypeOK
<1>13. OneOfAKind' /\ MarkedWhileItLasts'
    BY <1>2, <1>5, <1>6, SameStacks DEF Kind
<1> QED
    BY <1>7, <1>10, <1>11, <1>12, <1>13 DEF Inv

LEMMA RemoveInv ==
    ASSUME Inv, NEW kind \in removable, NEW removed \in SUBSET Of(kind), Remove(kind, removed)
    PROVE  Inv'
<1>1. /\ destroy_entity' = destroy_entity \cup removed
      /\ UNCHANGED <<phase, clock, effects, duration_expired, markers, unpaid>>
    BY DEF Remove
<1>2. removed \subseteq Entities /\ \A e \in removed : Kind(e) = kind
    BY DEF Of, Kind
<1>3. Entities' = Entities /\ \A e \in Entities : Kind(e)' = Kind(e) /\ Remaining(e)' = Remaining(e)
    BY <1>1 DEF Entities, Kind, Remaining
<1>4. TypeOK'
    BY <1>1, <1>2, <1>3 DEF Inv, TypeOK
<1>5. TimeLeft' /\ OwesItsDuration'
    BY <1>1, <1>3 DEF Inv, TimeLeft, OwesItsDuration
<1>6. DestroyedForAReason'
    BY <1>1, <1>2, <1>3 DEF Inv, DestroyedForAReason, TypeOK
<1>7. OneOfAKind' /\ MarkedWhileItLasts'
    BY <1>1, <1>3, SameStacks
<1> QED
    BY <1>4, <1>5, <1>6, <1>7 DEF Inv

LEMMA ProgressInv ==
    ASSUME Inv, progress_durations
    PROVE  Inv'
<1>1. /\ phase = "casting" /\ phase' = "effects"
      /\ duration_expired' = {e \in Entities : effects'[e].progress >= effects'[e].duration}
      /\ UNCHANGED <<clock, destroy_entity, markers, unpaid>>
    BY DEF progress_durations
<1>2. effects \in [Entities -> [kind : Kinds, duration : Int, progress : Nat]]
    BY DEF Inv, TypeOK, Stack
<1>3. /\ Entities' = Entities /\ effects' \in [Entities -> Stack]
      /\ \A e \in Entities :
            /\ effects'[e].kind = effects[e].kind /\ effects'[e].duration = effects[e].duration
            /\ effects'[e].progress = effects[e].progress + 1
    BY <1>2 DEF progress_durations, Entities, Stack
<1>4. ASSUME NEW e \in Entities
      PROVE  /\ Remaining(e)' = Remaining(e) - 1 /\ Remaining(e) \in Int
             /\ e \in duration_expired' <=> Remaining(e)' <= 0
    <2>1. effects[e].duration \in Int /\ effects[e].progress \in Nat
        BY <1>2
    <2> QED
        BY <2>1, <1>1, <1>3 DEF Remaining
<1>5. \A e \in Entities : Kind(e)' = Kind(e)
    BY <1>3 DEF Kind
<1>6. TypeOK'
    <2>1. \A e \in Entities' : \E b \in Durations \cup {max_duration[effects'[e].kind]} :
              effects'[e].duration <= b
        BY <1>3 DEF Inv, TypeOK
    <2> QED
        BY <1>1, <1>3, <2>1 DEF Inv, TypeOK
<1>7. TimeLeft'
    BY <1>1, <1>3, <1>4, <1>5 DEF Inv, TimeLeft
<1>8. OwesItsDuration'
    <2>1. ASSUME NEW e \in Entities, Kind(e) \in Conditions
          PROVE  Remaining(e) > 0 /\ unpaid[e] = effects[e].duration
        BY <2>1, <1>1 DEF Conditions, Inv, TimeLeft, OwesItsDuration
    <2> QED
        BY <2>1, <1>1, <1>3, <1>4, <1>5 DEF OwesItsDuration
<1>9. DestroyedForAReason'
    BY <1>1, <1>3, <1>5 DEF Inv, DestroyedForAReason, TypeOK
<1>10. OneOfAKind' /\ MarkedWhileItLasts'
    BY <1>1, <1>3, SameStacks
<1> QED
    BY <1>6, <1>7, <1>8, <1>9, <1>10 DEF Inv
LEMMA BufferInv ==
    ASSUME Inv, buffer_damage
    PROVE  Inv'
<1> DEFINE paying == {e \in Due : effects[e].kind \in damaging}
<1>1. /\ phase = "effects" /\ phase' = "cleanup" /\ Buffer(paying)
      /\ UNCHANGED <<clock, duration_expired, destroy_entity, markers>>
    BY DEF buffer_damage, marks
<1>2. /\ \A e \in Entities : e \in paying => effects[e].kind \in damaging
      /\ \A e \in duration_expired : effects[e].kind \in damaging => e \in paying
    BY DEF Due, Inv, TypeOK
<1> HIDE DEF paying
<1>3. effects \in [Entities -> [kind : Kinds, duration : Int, progress : Nat]]
    BY DEF Inv, TypeOK, Stack
<1>4. /\ \A e \in Entities : Remaining(e) \in Int
      /\ \A e \in Entities : Remaining(e) = effects[e].duration - effects[e].progress
    BY <1>3 DEF Remaining
<1>5. /\ Entities' = Entities /\ effects' \in [Entities -> Stack]
      /\ \A e \in Entities : effects'[e].kind = effects[e].kind
      /\ \A e \in Entities \ paying : effects'[e] = effects[e]
      /\ \A e \in Entities : e \in paying =>
             effects'[e].duration = Remaining(e) /\ effects'[e].progress = 0
    BY <1>1, <1>3, <1>4 DEF Buffer, Entities, Stack
<1>6. /\ unpaid' = [e \in Entities |-> IF e \in paying THEN Pay(unpaid[e], effects[e].progress)
                                       ELSE unpaid[e]]
      /\ unpaid' \in [Entities -> Int]
    <2>1. ASSUME NEW owed \in Int, NEW amount \in Int PROVE Pay(owed, amount) \in Int
        BY DEF Pay
    <2>2. \A e \in Entities : unpaid[e] \in Int /\ effects[e].progress \in Int
        BY <1>3 DEF Inv, TypeOK
    <2> QED
        BY <1>1, <2>1, <2>2 DEF Buffer
<1>7. ASSUME NEW e \in Entities PROVE Remaining(e)' = Remaining(e) /\ Kind(e)' = Kind(e)
    <2>1. CASE e \in paying
        BY <2>1, <1>4, <1>5 DEF Remaining, Kind
    <2>2. CASE e \notin paying
        BY <2>2, <1>5 DEF Remaining, Kind
    <2> QED
        BY <2>1, <2>2
<1>8. TypeOK'
    <2>1. ASSUME NEW e \in Entities
          PROVE  \E b \in Durations \cup {max_duration[effects'[e].kind]} :
                     effects'[e].duration <= b
        <3>1. PICK b \in Durations \cup {max_duration[effects[e].kind]} : effects[e].duration <= b
            BY DEF Inv, TypeOK
        <3>2. b \in Int /\ effects[e].duration \in Int /\ effects[e].progress \in Nat
            BY <1>3, Times, Stacking
        <3>3. effects'[e].duration <= effects[e].duration
            BY <3>2, <1>4, <1>5
        <3>4. effects'[e].duration \in Int
            BY <1>5 DEF Stack
        <3> QED
            BY <3>1, <3>2, <3>3, <3>4, <1>5
    <2> QED
        BY <1>1, <1>5, <1>6, <2>1 DEF Inv, TypeOK
<1>9. TimeLeft'
    BY <1>1, <1>5, <1>7 DEF Inv, TimeLeft
<1>10. OwesItsDuration'
    <2> SUFFICES ASSUME NEW e \in Entities, Kind(e) \in Conditions
                 PROVE  /\ unpaid'[e] = effects'[e].duration
                        /\ e \in duration_expired =>
                               Remaining(e)' = 0 /\ effects'[e].progress = 0
        BY <1>1, <1>5, <1>7 DEF OwesItsDuration
    <2>1. /\ unpaid[e] = effects[e].duration /\ (e \in duration_expired => Remaining(e) = 0)
          /\ Kind(e) \in damaging /\ stacking_type[Kind(e)] # "duration"
        BY DEF Inv, OwesItsDuration, Conditions
    <2>2. Remaining(e) >= 0
        BY <2>1 DEF Inv, TimeLeft
    <2>3. unpaid'[e] = effects'[e].duration
        BY <2>1, <2>2, <1>3, <1>4, <1>5, <1>6 DEF Pay
    <2>4. e \in duration_expired => e \in paying
        BY <2>1, <1>2 DEF Kind
    <2> QED
        BY <2>1, <2>3, <2>4, <1>5, <1>7
<1>11. DestroyedForAReason'
    BY <1>1, <1>7 DEF Inv, DestroyedForAReason, TypeOK
<1>12. OneOfAKind' /\ MarkedWhileItLasts'
    BY <1>1, <1>5, SameStacks
<1> QED
    BY <1>8, <1>9, <1>10, <1>11, <1>12 DEF Inv

LEMMA CleanupInv ==
    ASSUME Inv, cleanup
    PROVE  Inv'
<1> DEFINE remaining == Entities \ (destroy_entity \cup duration_expired)
<1>1. /\ phase' = "casting" /\ clock' = (clock + 1) % interval
      /\ markers' = markers \ {effects[e].kind : e \in duration_expired}
      /\ effects' = [e \in remaining |-> effects[e]] /\ unpaid' = [e \in remaining |-> unpaid[e]]
      /\ duration_expired' = {} /\ destroy_entity' = {}
    BY DEF cleanup
<1>2. /\ Entities' = remaining
      /\ \A e \in remaining : effects'[e] = effects[e] /\ unpaid'[e] = unpaid[e]
    BY <1>1 DEF Entities
<1>3. \A e \in remaining :
          e \in Entities /\ e \notin duration_expired /\ e \notin destroy_entity
    OBVIOUS
<1> HIDE DEF remaining
<1>4. \A e \in remaining : Kind(e)' = Kind(e) /\ Remaining(e)' = Remaining(e)
    BY <1>2 DEF Kind, Remaining
<1>5. TypeOK'
    <2>1. clock' \in 0..(interval - 1)
        BY <1>1, Times DEF Inv, TypeOK
    <2> QED
        BY <2>1, <1>1, <1>2, <1>3 DEF Inv, TypeOK
<1>6. OneOfAKind'
    BY <1>1, <1>2, <1>3, <1>4 DEF Inv, OneOfAKind
<1>7. TimeLeft'
    BY <1>1, <1>2, <1>3, <1>4 DEF Inv, TimeLeft
<1>8. OwesItsDuration'
    BY <1>1, <1>2, <1>3, <1>4 DEF Inv, OwesItsDuration
<1>9. DestroyedForAReason'
    BY <1>1 DEF DestroyedForAReason
<1>10. ASSUME NEW kind \in marking
       PROVE  /\ Of(kind)' # {} => kind \in markers'
              /\ kind \notin removable /\ kind \in markers' => Of(kind)' # {}
    <2>1. kind \in Kinds /\ stacking_type[kind] = "duration"
        BY Marking DEF Kinds
    <2>2. Of(kind)' = Of(kind) \cap remaining
        BY <1>2, <1>3 DEF Of
    <2>3. ASSUME NEW e \in Of(kind)' PROVE kind \in markers'
        <3>1. e \in Of(kind) /\ e \in remaining /\ e \in Entities /\ Kind(e) = kind
            BY <2>2, <2>3 DEF Of, Kind
        <3>2. kind \in markers
            BY <3>1 DEF Inv, MarkedWhileItLasts
        <3>3. ASSUME NEW f \in duration_expired, effects[f].kind = kind PROVE FALSE
            <4>1. f \in Entities /\ f # e /\ Kind(f) = kind
                BY <3>1, <3>3, <1>3 DEF Inv, TypeOK, Kind
            <4> QED
                BY <4>1, <3>1, <2>1 DEF Inv, OneOfAKind
        <3> QED
            BY <3>2, <3>3, <1>1
    <2>4. ASSUME kind \notin removable, kind \in markers' PROVE Of(kind)' # {}
        <3>1. kind \in markers /\ \A f \in duration_expired : effects[f].kind # kind
            BY <2>4, <1>1
        <3>2. PICK e \in Of(kind) : TRUE
            BY <3>1, <2>4 DEF Inv, MarkedWhileItLasts
        <3>3. e \in Entities /\ Kind(e) = kind /\ e \notin duration_expired
            BY <3>1, <3>2 DEF Of, Kind
        <3>4. e \notin destroy_entity
            BY <3>3, <2>1, <2>4 DEF Inv, DestroyedForAReason
        <3>5. e \in remaining
            BY <3>3, <3>4 DEF remaining
        <3> QED
            BY <3>2, <3>5, <2>2
    <2> QED
        BY <2>3, <2>4
<1> QED
    BY <1>5, <1>6, <1>7, <1>8, <1>9, <1>10 DEF Inv, MarkedWhileItLasts
(***************************************************************************)
(* What Create does to the stacks there are: replaced ones are at their    *)
(* end and about to be destroyed, refreshed ones start over, the others    *)
(* stay as they are, conditions among them.                                *)
(***************************************************************************)
LEMMA CreateKeepsOthers ==
    ASSUME Inv, NEW kind \in Kinds, NEW d \in Durations, Create(kind, d)
    PROVE  /\ Entities \subseteq Entities' /\ destroy_entity \subseteq destroy_entity'
           /\ stacking_type[kind] = "replace" => Of(kind) \subseteq destroy_entity'
           /\ \A e \in Entities :
                 /\ effects'[e] \in Stack /\ unpaid'[e] = unpaid[e]
                 /\ effects'[e].kind = effects[e].kind
                 /\ effects'[e].duration = effects[e].duration
                 /\ Kind(e) \in Conditions => effects'[e] = effects[e]
                 /\ Remaining(e) \in Int /\ Remaining(e)' \in Int
                 /\ Remaining(e)' >= Remaining(e) \/ (e \in destroy_entity' /\ Remaining(e)' = 0)
<1>1. effects \in [Entities -> [kind : Kinds, duration : Int, progress : Nat]]
    BY DEF Inv, TypeOK, Stack
<1>2. destroy_entity' = IF stacking_type[kind] = "replace" THEN destroy_entity \cup Of(kind)
                        ELSE destroy_entity
    BY DEF Create
<1> DEFINE repl == Replaced(kind)
           others == Refreshed(kind, repl)
<1>3. /\ repl \in [Entities -> Stack]
      /\ \A e \in Entities :
             /\ repl[e].kind = effects[e].kind /\ repl[e].duration = effects[e].duration
             /\ \/ repl[e] = effects[e]
                \/ /\ stacking_type[kind] = "replace" /\ e \in Of(kind)
                   /\ repl[e].progress = effects[e].duration
    <2>1. ASSUME NEW e \in Entities, stacking_type[kind] = "replace", e \in Of(kind)
          PROVE  effects[e].duration \in Nat
        <3>1. effects[e].duration \in Int /\ effects[e].progress \in Nat
            BY <1>1
        <3>2. stacking_type[Kind(e)] # "duration"
            BY <2>1 DEF Of, Kind
        <3>3. Remaining(e) >= 0
            BY <3>2 DEF Inv, TimeLeft
        <3> QED
            BY <3>1, <3>3 DEF Remaining
    <2> QED
        BY <1>1, <2>1 DEF Replaced, Stack
<1> HIDE DEF repl
<1>4. /\ others \in [Entities -> Stack]
      /\ \A e \in Entities :
             /\ others[e].kind = repl[e].kind /\ others[e].duration = repl[e].duration
             /\ \/ others[e] = repl[e]
                \/ kind \in refreshes_other_stacks /\ effects[e].kind = kind /\ others[e].progress = 0
    <2>1. DOMAIN repl = Entities
        BY <1>3
    <2> QED
        BY <1>3, <2>1 DEF Refreshed, Stack
<1> HIDE DEF others
<1>5. \/ effects' = repl /\ unpaid' = unpaid
      \/ /\ Fresh \in Entity /\ Fresh \notin Entities
         /\ Entities' = Entities \cup {Fresh}
         /\ \A e \in Entities : effects'[e] = others[e] /\ unpaid'[e] = unpaid[e]
    <2>1. CASE CanStore(kind)
        <3>1. Fresh \in Entity /\ Fresh \notin Entities
            BY FreshIsNew DEF Create, Inv, TypeOK
        <3>2. \E new :
                 /\ effects' = [e \in Entities \cup {Fresh} |-> IF e = Fresh THEN new ELSE others[e]]
                 /\ unpaid' = [e \in Entities \cup {Fresh} |-> IF e = Fresh THEN d ELSE unpaid[e]]
            BY <2>1 DEF Create, others, repl
        <3> HIDE DEF Fresh
        <3> QED
            BY <3>1, <3>2 DEF Entities
    <2>2. CASE ~CanStore(kind)
        BY <2>2 DEF Create, repl
    <2> QED
        BY <2>1, <2>2
<1>6. /\ Entities \subseteq Entities'
      /\ \A e \in Entities :
             unpaid'[e] = unpaid[e] /\ (effects'[e] = repl[e] \/ effects'[e] = others[e])
    BY <1>3, <1>5 DEF Entities
<1>7. ASSUME NEW e \in Entities
      PROVE  /\ effects'[e] \in Stack
             /\ effects'[e].kind = effects[e].kind
             /\ effects'[e].duration = effects[e].duration
             /\ Kind(e) \in Conditions => effects'[e] = effects[e]
             /\ Remaining(e) \in Int /\ Remaining(e)' \in Int
             /\ Remaining(e)' >= Remaining(e) \/ (e \in destroy_entity' /\ Remaining(e)' = 0)
    <2>1. /\ effects'[e] \in Stack
          /\ effects'[e].kind = effects[e].kind
          /\ effects'[e].duration = effects[e].duration
        BY <1>3, <1>4, <1>6
    <2>2. \/ effects'[e] = effects[e]
          \/ /\ stacking_type[kind] = "replace" /\ e \in Of(kind)
             /\ effects'[e].progress = effects[e].duration
          \/ kind \in refreshes_other_stacks /\ effects[e].kind = kind /\ effects'[e].progress = 0
        BY <1>3, <1>4, <1>6
    <2>3. Kind(e) \in Conditions => effects'[e] = effects[e]
        BY <2>2, KindsDisjoint, Stacking DEF Of, Kind, Conditions
    <2>4. /\ effects[e].duration \in Int /\ effects[e].progress \in Nat
          /\ effects'[e].duration \in Int /\ effects'[e].progress \in Nat
        BY <1>1, <2>1 DEF Stack
    <2>5. /\ Remaining(e) = effects[e].duration - effects[e].progress
          /\ Remaining(e)' = effects'[e].duration - effects'[e].progress
        BY DEF Remaining
    <2>6. stacking_type[kind] = "replace" /\ e \in Of(kind) => e \in destroy_entity'
        BY <1>2
    <2> QED
        BY <2>1, <2>2, <2>3, <2>4, <2>5, <2>6
<1> QED
    BY <1>2, <1>6, <1>7

\* The new stack, if the limit of the kind leaves room for it.
LEMMA CreateAdds ==
    ASSUME Inv, NEW kind \in Kinds, NEW d \in Durations, Create(kind, d)
    PROVE  \/ /\ Entities' = Entities /\ effects' \in [Entities -> Stack] /\ UNCHANGED markers
              /\ unpaid' \in [Entities -> Int]
           \/ /\ Fresh \in Entity /\ Fresh \notin Entities /\ Entities' = Entities \cup {Fresh}
              /\ effects'[Fresh] = [kind |-> kind, duration |-> d, progress |-> 0]
              /\ unpaid'[Fresh] = d /\ markers' = markers \cup ({kind} \cap marking)
              /\ effects' \in [Entities' -> Stack] /\ unpaid' \in [Entities' -> Int]
<1>1. d \in Int
    BY Times
<1>2. \A e \in Entities : effects'[e] \in Stack
    BY CreateKeepsOthers
<1>3. CASE CanStore(kind)
    <2>1. Fresh \in Entity /\ Fresh \notin Entities
        BY FreshIsNew DEF Create, Inv, TypeOK
    <2> DEFINE new == [kind |-> kind, duration |-> d, progress |-> 0]
    <2>2. /\ \E others : effects' = [e \in Entities \cup {Fresh} |-> IF e = Fresh THEN new ELSE others[e]]
          /\ unpaid' = [e \in Entities \cup {Fresh} |-> IF e = Fresh THEN d ELSE unpaid[e]]
          /\ markers' = markers \cup ({kind} \cap marking)
        BY <1>3 DEF Create
    <2>3. new \in Stack
        BY <1>1 DEF Stack
    <2> HIDE DEF Fresh, new
    <2>4. /\ Entities' = Entities \cup {Fresh} /\ effects'[Fresh] = new /\ unpaid'[Fresh] = d
          /\ effects' = [e \in Entities \cup {Fresh} |-> effects'[e]]
        BY <2>2 DEF Entities
    <2>5. effects' \in [Entities' -> Stack]
        BY <2>3, <2>4, <1>2
    <2>6. unpaid' \in [Entities' -> Int]
        BY <2>2, <2>4, <1>1 DEF Inv, TypeOK
    <2> QED
        BY <2>1, <2>2, <2>4, <2>5, <2>6 DEF new
<1>4. CASE ~CanStore(kind)
    <2>1. effects' = Replaced(kind) /\ UNCHANGED <<unpaid, markers>>
        BY <1>4 DEF Create
    <2>2. Entities' = Entities /\ effects' = [e \in Entities |-> effects'[e]]
        BY <2>1 DEF Replaced, Entities
    <2> QED
        BY <2>1, <2>2, <1>2 DEF Inv, TypeOK
<1> QED
    BY <1>3, <1>4
LEMMA CreateInv ==
    ASSUME Inv, NEW kind \in Kinds, NEW d \in Durations, phase = "effects",
           Create(kind, d), UNCHANGED <<phase, clock>>
    PROVE  Inv'
<1>1. /\ stacking_type[kind] = "duration" => Of(kind) = {}
      /\ destroy_entity' = IF stacking_type[kind] = "replace" THEN destroy_entity \cup Of(kind)
                           ELSE destroy_entity
      /\ duration_expired' = duration_expired
    BY DEF Create, Stackable
<1>2. d \in Nat /\ d > 0
    BY Times
<1> DEFINE new == Entities' \ Entities
<1>3. /\ Entities \subseteq Entities' /\ destroy_entity \subseteq destroy_entity'
      /\ \A e \in Entities :
            /\ unpaid'[e] = unpaid[e]
            /\ effects'[e].kind = effects[e].kind
            /\ effects'[e].duration = effects[e].duration
            /\ Kind(e) \in Conditions => effects'[e] = effects[e]
            /\ Remaining(e) \in Int /\ Remaining(e)' \in Int
            /\ Remaining(e)' >= Remaining(e) \/ (e \in destroy_entity' /\ Remaining(e)' = 0)
    BY CreateKeepsOthers
<1>4. /\ Entities' \subseteq Entity /\ effects' \in [Entities' -> Stack]
      /\ unpaid' \in [Entities' -> Int]
      /\ \A e, f \in new : e = f
      /\ \A e \in new :
            /\ effects'[e].kind = kind /\ effects'[e].duration = d /\ effects'[e].progress = 0
            /\ unpaid'[e] = d /\ (kind \in marking => kind \in markers')
      /\ markers \subseteq markers' /\ markers' \subseteq markers \cup ({kind} \cap marking)
      /\ markers' # markers => new # {}
    <2>1. CASE Entities' = Entities /\ effects' \in [Entities -> Stack] /\ UNCHANGED markers
               /\ unpaid' \in [Entities -> Int]
        BY <2>1 DEF Inv, TypeOK
    <2>2. CASE /\ Fresh \in Entity /\ Fresh \notin Entities /\ Entities' = Entities \cup {Fresh}
               /\ effects'[Fresh] = [kind |-> kind, duration |-> d, progress |-> 0]
               /\ unpaid'[Fresh] = d /\ markers' = markers \cup ({kind} \cap marking)
               /\ effects' \in [Entities' -> Stack] /\ unpaid' \in [Entities' -> Int]
        <3> HIDE DEF Fresh
        <3>1. new = {Fresh}
            BY <2>2
        <3>2. /\ effects'[Fresh].kind = kind /\ effects'[Fresh].duration = d
              /\ effects'[Fresh].progress = 0
            BY <2>2
        <3> HIDE DEF new
        <3> QED
            BY <2>2, <3>1, <3>2 DEF Inv, TypeOK
    <2> QED
        BY <2>1, <2>2, CreateAdds
<1>5. \A e \in new : e \notin Entities /\ e \notin destroy_entity' /\ e \notin duration_expired
    BY <1>1 DEF Inv, TypeOK, Of
<1>6. \A e \in Entities' : e \in Entities \/ e \in new
    OBVIOUS
<1> HIDE DEF new
<1>7. /\ \A e \in Entities : Kind(e)' = Kind(e) /\ Kind(e) = effects[e].kind
      /\ \A e \in new : Kind(e)' = kind /\ Remaining(e)' = d
    BY <1>2, <1>3, <1>4 DEF Kind, Remaining
<1>8. TypeOK'
    <2>1. ASSUME NEW e \in Entities'
          PROVE  \E b \in Durations \cup {max_duration[effects'[e].kind]} :
                     effects'[e].duration <= b
        <3>1. CASE e \in Entities
            BY <3>1, <1>3 DEF Inv, TypeOK
        <3>2. CASE e \in new
            BY <3>2, <1>2, <1>4
        <3> QED
            BY <3>1, <3>2, <1>6
    <2>2. (duration_expired \cup destroy_entity)' \subseteq Entities'
        BY <1>1, <1>3 DEF Inv, TypeOK, Of
    <2>3. markers' \subseteq marking
        BY <1>4 DEF Inv, TypeOK
    <2> QED
        BY <1>4, <2>1, <2>2, <2>3 DEF Inv, TypeOK
<1>9. OneOfAKind'
    <2> SUFFICES ASSUME NEW e \in Entities', NEW f \in Entities', e # f, Kind(e)' = Kind(f)'
                 PROVE  /\ stacking_type[Kind(e)'] # "duration"
                        /\ stacking_type[Kind(e)'] = "replace" =>
                               e \in destroy_entity' \/ f \in destroy_entity'
        BY DEF OneOfAKind
    <2>1. CASE e \in Entities /\ f \in Entities
        BY <2>1, <1>3, <1>7 DEF Inv, OneOfAKind
    <2>2. ASSUME NEW a \in Entities, Kind(a) = kind
          PROVE  /\ stacking_type[kind] # "duration"
                 /\ stacking_type[kind] = "replace" => a \in destroy_entity'
        BY <2>2, <1>1 DEF Of, Kind
    <2>3. CASE e \in new
        <3>1. f \in Entities
            BY <2>3, <1>4, <1>6
        <3> QED
            BY <3>1, <2>2, <2>3, <1>7
    <2>4. CASE f \in new
        <3>1. e \in Entities
            BY <2>4, <1>4, <1>6
        <3> QED
            BY <3>1, <2>2, <2>4, <1>7
    <2> QED
        BY <2>1, <2>3, <2>4, <1>6
<1>10. TimeLeft'
    <2> SUFFICES ASSUME NEW e \in Entities', stacking_type[Kind(e)'] # "duration"
                 PROVE  /\ Remaining(e)' >= 0
                        /\ e \notin duration_expired' \cup destroy_entity' => Remaining(e)' > 0
        BY DEF TimeLeft
    <2>1. CASE e \in Entities
        <3>1. /\ Remaining(e) >= 0
              /\ e \notin duration_expired \cup destroy_entity => Remaining(e) > 0
            BY <2>1, <1>7 DEF Inv, TimeLeft
        <3>2. /\ Remaining(e) \in Int /\ Remaining(e)' \in Int
              /\ Remaining(e)' >= Remaining(e) \/ (e \in destroy_entity' /\ Remaining(e)' = 0)
            BY <2>1, <1>3
        <3>3. e \notin duration_expired' \cup destroy_entity'
                  => e \notin duration_expired \cup destroy_entity
            BY <1>1, <1>3
        <3> QED
            BY <3>1, <3>2, <3>3
    <2>2. CASE e \in new
        BY <2>2, <1>2, <1>7
    <2> QED
        BY <2>1, <2>2, <1>6
<1>11. OwesItsDuration'
    <2> SUFFICES ASSUME NEW e \in Entities', Kind(e)' \in Conditions
                 PROVE  /\ unpaid'[e] = effects'[e].duration
                        /\ e \in duration_expired => Remaining(e)' = 0
        BY <1>1 DEF OwesItsDuration
    <2>1. CASE e \in Entities
        <3>1. Kind(e) \in Conditions /\ effects'[e] = effects[e] /\ unpaid'[e] = unpaid[e]
            BY <2>1, <1>3, <1>7
        <3>2. Remaining(e)' = Remaining(e)
            BY <3>1 DEF Remaining
        <3> QED
            BY <3>1, <3>2, <2>1 DEF Inv, OwesItsDuration
    <2>2. CASE e \in new
        BY <2>2, <1>4, <1>5
    <2> QED
        BY <2>1, <2>2, <1>6
<1>12. DestroyedForAReason'
    <2> SUFFICES ASSUME NEW e \in destroy_entity'
                 PROVE  Kind(e)' \in removable \/ stacking_type[Kind(e)'] = "replace"
        BY DEF DestroyedForAReason
    <2>1. CASE e \in destroy_entity
        BY <2>1, <1>7 DEF Inv, DestroyedForAReason, TypeOK
    <2>2. CASE stacking_type[kind] = "replace" /\ e \in Of(kind)
        BY <2>2, <1>7 DEF Of
    <2> QED
        BY <2>1, <2>2, <1>1
<1>13. ASSUME NEW k \in marking
       PROVE  /\ Of(k)' # {} => k \in markers'
              /\ k \notin removable /\ k \in markers' => Of(k)' # {}
    <2>1. /\ Of(k) # {} => k \in markers
          /\ k \notin removable /\ k \in markers => Of(k) # {}
        BY DEF Inv, MarkedWhileItLasts
    <2>2. \A e \in Of(k)' : e \in Of(k) \/ (e \in new /\ k = kind)
        BY <1>3, <1>4, <1>6 DEF Of
    <2>3. Of(k) \subseteq Of(k)'
        BY <1>3 DEF Of
    <2>4. k \in markers' => k \in markers \/ (k = kind /\ new # {})
        BY <1>4
    <2>5. k = kind /\ new # {} => Of(k)' # {}
        BY <1>4 DEF Of, new
    <2> QED
        BY <2>1, <2>2, <2>3, <2>4, <2>5, <1>4
<1> QED
    BY <1>8, <1>9, <1>10, <1>11, <1>12, <1>13 DEF Inv, MarkedWhileItLasts

-----------------------------------------------------------------------------
(* The theorems *)

LEMMA StepInv == Inv /\ [Next]_vars => Inv'
<1> SUFFICES ASSUME Inv, [Next]_vars PROVE Inv'
    OBVIOUS
<1>1. ASSUME NEW kind \in Kinds, NEW d \in Durations, Apply(kind, d) PROVE Inv'
    BY <1>1, ExtendInv, CreateInv DEF Apply
<1>2. ASSUME NEW kind \in removable, NEW removed \in SUBSET Of(kind), Remove(kind, removed)
      PROVE  Inv'
    BY <1>2, RemoveInv
<1>3. CASE Step
    BY <1>3, ProgressInv, BufferInv, CleanupInv DEF Step
<1>4. CASE UNCHANGED vars
    <2>1. UNCHANGED <<phase, clock, effects, duration_expired, destroy_entity, markers, unpaid>>
        BY <1>4 DEF vars, marks
    <2> QED
        BY <2>1 DEF Inv, TypeOK, OneOfAKind, TimeLeft, OwesItsDuration, DestroyedForAReason,
            MarkedWhileItLasts, Entities, Of, Kind, Remaining
<1> QED
    BY <1>1, <1>2, <1>3, <1>4 DEF Next

\* The invariant holds for every configuration, however applications, removals and the
\* phases of the ticks follow one another.
THEOREM InvHolds == Spec => []Inv
BY InitInv, StepInv, PTL DEF Spec
\* Stacks, marks and markers keep their types, and no stack lasts longer than an application
\* or than max_duration, for all effects, limits and durations.
THEOREM TypeCorrect == Spec => []TypeOK
BY InvHolds, PTL DEF Inv

\* In whatever order effects are applied, expire and are removed within a tick, what stacks
\* in duration is one entity, and what replaces is one entity but for those about to go.
THEOREM StacksOneAtATime == Spec => []OneAtATime
BY InvHolds, InvImpliesOneAtATime, PTL

\* has_quickness and has_alacrity go with their effects, whether an extension comes before
\* or after the expiry in its tick, for every choice of what may be removed.
THEOREM MarkersFollowEffects == Spec => []MarkedWhileItLasts
BY InvHolds, PTL DEF Inv

LEMMA ExpiredHasPaid ==
    ASSUME Inv, [Next]_vars, NEW e \in duration_expired \ DOMAIN effects',
           effects[e].kind \in Conditions
    PROVE  unpaid[e] = 0
<1>1. /\ e \in duration_expired /\ e \in Entities /\ e \notin Entities'
      /\ Kind(e) \in Conditions
    BY DEF Inv, TypeOK, Kind, Entities
<1>2. CASE phase = "cleanup"
    <2>1. /\ unpaid[e] = effects[e].duration /\ Remaining(e) = 0 /\ effects[e].progress = 0
          /\ effects[e].duration \in Int
        BY <1>1, <1>2, StackFields DEF Inv, OwesItsDuration
    <2>2. Remaining(e) = effects[e].duration - effects[e].progress
        BY DEF Remaining
    <2> QED
        BY <2>1, <2>2
<1>3. CASE phase # "cleanup"
    <2>1. ASSUME NEW kind \in Kinds, NEW d \in Durations, Extend(kind, d) \/ Create(kind, d)
          PROVE  Entities \subseteq Entities'
        <3>1. CASE Extend(kind, d)
            <4>1. \E x : \E longer :
                      effects' = [effects EXCEPT ![x].progress = 0, ![x].duration = longer]
                BY <3>1 DEF Extend
            <4> QED
                BY <4>1 DEF Entities
        <3>2. CASE Create(kind, d)
            BY <3>2, CreateKeepsOthers
        <3> QED
            BY <3>1, <3>2, <2>1
    <2>2. ASSUME NEW kind \in Kinds, NEW d \in Durations, Apply(kind, d)
          PROVE  Entities \subseteq Entities'
        BY <2>1, <2>2 DEF Apply
    <2>3. progress_durations \/ buffer_damage => Entities \subseteq Entities'
        BY DEF progress_durations, buffer_damage, Buffer, Entities
    <2>4. ASSUME NEW kind \in removable, NEW removed, Remove(kind, removed)
          PROVE  Entities \subseteq Entities'
        BY <2>4 DEF Remove, Entities
    <2>5. UNCHANGED vars => Entities \subseteq Entities'
        BY DEF vars, Entities
    <2>6. ~cleanup
        BY <1>3 DEF cleanup
    <2>7. Entities \subseteq Entities'
        BY <2>2, <2>3, <2>4, <2>5, <2>6 DEF Next, Step
    <2> QED
        BY <1>1, <2>7
<1> QED
    BY <1>2, <1>3

\* A condition is paid for exactly the time it was granted: payments at the interval and at
\* the expiry never overlap and never leave a rest, for every interval and duration.
THEOREM ConditionsPayInFull == Spec => PaidInFull
<1>1. Inv /\ [Next]_vars
      => [\A e \in duration_expired \ DOMAIN effects' :
             effects[e].kind \in Conditions => unpaid[e] = 0]_vars
    BY ExpiredHasPaid
<1> QED
    BY <1>1, InvHolds, PTL DEF Spec, PaidInFull

(***************************************************************************)
(* No application asks for more than max_duration allows, and unique       *)
(* effects that replace each other are stored while there are entities.    *)
(***************************************************************************)
WithinLimits ==
    /\ \A k \in Kinds : stacking_type[k] = "duration" => \A d \in Durations : d <= max_duration[k]
    /\ \A k \in UniqueEffects :
          stacking_type[k] = "replace" => max_stored_stacks[k] >= MaxEntities

LEMMA ExtendNeverShortens ==
    ASSUME Inv, WithinLimits, NEW kind \in Kinds, NEW d \in Durations, Extend(kind, d),
           NEW k \in Kinds, NEW e \in Live(k)
    PROVE  e \in Live(k)' /\ Remaining(e)' >= Remaining(e)
<1>1. PICK x \in Of(kind) :
          effects' = [effects EXCEPT ![x].progress = 0,
                                     ![x].duration = Extended(kind, Remaining(x), d)]
    BY Zenon DEF Extend, Stackable
<1>2. stacking_type[kind] = "duration" /\ UNCHANGED destroy_entity
    BY DEF Extend
<1>3. x \in Entities /\ effects[x].kind = kind /\ e \in Entities /\ effects[e].kind = k
    BY DEF Of, Live
<1>4. effects \in [Entities -> [kind : Kinds, duration : Int, progress : Nat]]
    BY DEF Inv, TypeOK, Stack
<1>5. /\ Remaining(x) \in Int /\ Remaining(x) <= max_duration[kind]
      /\ max_duration[kind] \in Nat /\ d \in Nat
    <2>1. PICK b \in Durations \cup {max_duration[kind]} : effects[x].duration <= b
        BY <1>3 DEF Inv, TypeOK
    <2>2. b \in Nat /\ b <= max_duration[kind] /\ max_duration[kind] \in Nat /\ d \in Nat
        BY <1>2, Times, Stacking DEF WithinLimits
    <2>3. effects[x].duration \in Int /\ effects[x].progress \in Nat
        BY <1>3, <1>4
    <2> QED
        BY <2>1, <2>2, <2>3 DEF Remaining
<1> DEFINE longer == Extended(kind, Remaining(x), d)
<1>6. longer \in Int /\ longer >= Remaining(x)
    BY <1>5 DEF Extended, Smaller
<1> HIDE DEF longer
<1>7. /\ Entities' = Entities
      /\ \A f \in Entities \ {x} : effects'[f] = effects[f]
      /\ effects'[x].kind = kind /\ effects'[x].duration = longer /\ effects'[x].progress = 0
    BY <1>1, <1>3, <1>4, <1>6 DEF Entities, longer
<1>8. e \in Live(k)'
    BY <1>2, <1>3, <1>7 DEF Live, Of
<1>9. Remaining(e) \in Int
    BY <1>3, StackFields
<1>10. CASE e = x
    BY <1>6, <1>7, <1>8, <1>10 DEF Remaining
<1>11. CASE e # x
    BY <1>3, <1>7, <1>8, <1>9, <1>11 DEF Remaining
<1> QED
    BY <1>10, <1>11

LEMMA CreateNeverShortens ==
    ASSUME Inv, WithinLimits, NEW kind \in Kinds, NEW d \in Durations, Create(kind, d),
           NEW k \in Kinds, NEW e \in Live(k)
    PROVE  \E f \in Live(k)' : Remaining(f)' >= Remaining(e)
<1>1. e \in Entities /\ effects[e].kind = k /\ e \notin destroy_entity /\ Kind(e) = k
    BY DEF Of, Live, Kind
<1>2. /\ e \in Entities' /\ effects'[e].kind = k
      /\ Remaining(e) \in Int /\ Remaining(e)' \in Int
      /\ Remaining(e)' >= Remaining(e) \/ (e \in destroy_entity' /\ Remaining(e)' = 0)
    BY <1>1, CreateKeepsOthers
<1>3. CASE e \notin destroy_entity'
    <2>1. e \in Live(k)'
        BY <1>2, <1>3 DEF Live, Of
    <2> QED
        BY <2>1, <1>2, <1>3
<1>4. CASE e \in destroy_entity'
    <2>1. stacking_type[kind] = "replace" /\ e \in Of(kind) /\ k = kind
        BY <1>1, <1>4 DEF Create, Of
    <2>2. Remaining(e) <= d
        BY <2>1 DEF Create, Outlasted
    <2>3. CanStore(kind)
        <3>1. CASE kind \in UniqueEffects
            <4>1. IsFiniteSet(Entity) /\ Cardinality(Entity) = MaxEntities
                BY Times, FS_Interval DEF Entity
            <4>2. Of(kind) \subseteq Entity /\ Of(kind) # Entity
                BY DEF Create, Inv, TypeOK, Of
            <4>3. Cardinality(Of(kind)) < Cardinality(Entity)
                <5>1. /\ Cardinality(Of(kind)) <= Cardinality(Entity)
                      /\ Cardinality(Entity) = Cardinality(Of(kind)) => Entity = Of(kind)
                      /\ Cardinality(Of(kind)) \in Nat
                    BY <4>1, <4>2, FS_Subset, FS_CardinalityType
                <5> QED
                    BY <5>1, <4>1, <4>2, Times
            <4>4. max_stored_stacks[kind] \in Nat /\ max_stored_stacks[kind] >= MaxEntities
                BY <3>1, <2>1, Stacking DEF WithinLimits
            <4>5. Cardinality(Of(kind)) \in Nat
                BY <4>1, <4>2, FS_Subset, FS_CardinalityType
            <4> QED
                BY <4>1, <4>3, <4>4, <4>5, Times DEF CanStore
        <3>2. CASE kind \notin UniqueEffects
            BY <3>2 DEF CanStore
        <3> QED
            BY <3>1, <3>2
    <2>4. PICK x :
              /\ x \notin Entities /\ x \in Entities'
              /\ effects'[x] = [kind |-> kind, duration |-> d, progress |-> 0]
        <3>1. Fresh \notin Entities
            BY FreshIsNew DEF Create, Inv, TypeOK
        <3>2. \E others : effects' = [f \in Entities \cup {Fresh} |->
                  IF f = Fresh THEN [kind |-> kind, duration |-> d, progress |-> 0] ELSE others[f]]
            BY <2>3 DEF Create
        <3> HIDE DEF Fresh
        <3> QED
            BY <3>1, <3>2 DEF Entities
    <2>5. x \in Live(k)'
        BY <2>1, <2>4 DEF Live, Of, Create, Inv, TypeOK
    <2>6. Remaining(x)' = d
        BY <2>4, Times DEF Remaining
    <2> QED
        BY <2>2, <2>5, <2>6, Times
<1> QED
    BY <1>3, <1>4

LEMMA StepNeverShortens ==
    ASSUME Inv, WithinLimits, [Next]_vars, phase = "effects", phase' = "effects",
           effects' # effects, NEW k \in Kinds, NEW e \in Live(k)
    PROVE  \E f \in Live(k)' : Remaining(f)' >= Remaining(e)
<1>1. ~progress_durations /\ ~buffer_damage /\ ~cleanup
    BY DEF progress_durations, buffer_damage, cleanup
<1>2. ~UNCHANGED vars
    BY DEF vars
<1>3. ASSUME NEW kind, NEW removed PROVE ~Remove(kind, removed)
    BY DEF Remove
<1>4. PICK kind \in Kinds, d \in Durations : Apply(kind, d)
    BY <1>1, <1>2, <1>3 DEF Next, Step
<1> QED
    BY <1>4, ExtendNeverShortens, CreateNeverShortens DEF Apply

\* Another application never costs an actor time of an effect it has, whatever its stacking
\* type and whichever of its stacks are expired or marked already.
THEOREM ApplicationsNeverShorten == WithinLimits /\ Spec => NeverShortened
<1> SUFFICES ASSUME WithinLimits PROVE Spec => NeverShortened
    OBVIOUS
<1>1. Inv /\ [Next]_vars
      => [phase = "effects" /\ phase' = "effects" /\ effects' # effects =>
             \A kind \in Kinds : \A e \in Live(kind) :
                 \E f \in Live(kind)' : Remaining(f)' >= Remaining(e)]_vars
    BY StepNeverShortens
<1> QED
    BY <1>1, InvHolds, PTL DEF Spec, NeverShortened

-----------------------------------------------------------------------------
(* The attributes *)

LEMMA AttributesStep == [AttributesNext]_attributeVars => [Next]_vars
BY DEF AttributesNext, attributeVars, dispatch, apply_effects, TickStep, buffer_condition_damage,
    clear_temporary_components, Next, Step

\* The systems of a tick that ask for attributes do to the effects what Effects says, so
\* what is proved of Effects holds of them.
THEOREM AttributesImplementEffects == AttributesSpec => Spec
<1>1. AttributesInit => Init
    BY DEF AttributesInit
<1> QED
    BY <1>1, AttributesStep, PTL DEF AttributesSpec, Spec

\* No tick starts with the attributes of the last one, and until they are calculated no
\* stack is new.
Uncalculated ==
    /\ phase = "casting" => relative_attributes = NotCalculated
    /\ phase = "effects" /\ relative_attributes = NotCalculated =>
          \A e \in Entities : effects[e].progress > 0

LEMMA UncalculatedStep ==
    ASSUME Inv, Uncalculated, [AttributesNext]_attributeVars
    PROVE  Uncalculated'
<1>1. CASE dispatch
    <2>1. UNCHANGED vars /\ phase = "effects" /\ relative_attributes = NotCalculated
        BY <1>1 DEF dispatch
    <2>2. UNCHANGED <<phase, effects>>
        BY <2>1 DEF vars
    <2> QED
        BY <2>1, <2>2 DEF Uncalculated, Entities
<1>2. ASSUME NEW kind \in Kinds, NEW d \in Durations, apply_effects(kind, d) PROVE Uncalculated'
    BY <1>2 DEF apply_effects, Apply, Uncalculated
<1>3. ASSUME NEW kind \in removable, NEW removed, Remove(kind, removed),
             UNCHANGED relative_attributes
      PROVE  Uncalculated'
    BY <1>3 DEF Remove, Uncalculated, Entities
<1>4. CASE progress_durations /\ UNCHANGED relative_attributes
    <2>1. effects \in [Entities -> [kind : Kinds, duration : Int, progress : Nat]]
        BY DEF Inv, TypeOK, Stack
    <2>2. Entities' = Entities /\ \A e \in Entities : effects'[e].progress = effects[e].progress + 1
        BY <1>4, <2>1 DEF progress_durations, Entities
    <2>3. \A e \in Entities' : effects'[e].progress > 0
        BY <2>1, <2>2
    <2> QED
        BY <1>4, <2>3 DEF progress_durations, Uncalculated
<1>5. CASE buffer_condition_damage
    BY <1>5 DEF buffer_condition_damage, buffer_damage, Uncalculated
<1>6. CASE clear_temporary_components
    BY <1>6 DEF clear_temporary_components, cleanup, Uncalculated
<1>7. CASE UNCHANGED attributeVars
    BY <1>7 DEF attributeVars, vars, Uncalculated, Entities
<1> QED
    BY <1>1, <1>2, <1>3, <1>4, <1>5, <1>6, <1>7 DEF AttributesNext, TickStep

\* The first half of OneCalculationPerTick, for any modifiers: attributes are calculated
\* once in a tick, of the stacks that were there when the tick began.
CalculatedOnceOfOldStacks ==
    [][relative_attributes' \notin {relative_attributes, NotCalculated} =>
            /\ relative_attributes = NotCalculated
            /\ \A e \in Entities : effects[e].progress > 0]_attributeVars

LEMMA CalculationStep ==
    ASSUME Uncalculated, AttributesNext,
           relative_attributes' \notin {relative_attributes, NotCalculated}
    PROVE  /\ relative_attributes = NotCalculated
           /\ \A e \in Entities : effects[e].progress > 0
<1>1. dispatch \/ buffer_condition_damage
    BY DEF AttributesNext, TickStep, apply_effects, clear_temporary_components
<1>2. phase = "effects"
    BY <1>1 DEF dispatch, buffer_condition_damage, buffer_damage
<1>3. relative_attributes = NotCalculated
    BY <1>1 DEF dispatch, buffer_condition_damage, calculate_relative_attributes
<1> QED
    BY <1>2, <1>3 DEF Uncalculated

\* calculate_relative_attributes keeps what it calculated first, and every effect that a
\* tick applies is applied after that: no actor ever counts a stack of the running tick.
THEOREM OneCalculation == AttributesSpec => CalculatedOnceOfOldStacks
<1>1. AttributesInit => Uncalculated
    BY DEF AttributesInit, Init, Uncalculated
<1>2. Inv /\ Uncalculated /\ [AttributesNext]_attributeVars => Uncalculated'
    BY UncalculatedStep
<1>3. Uncalculated /\ [AttributesNext]_attributeVars
      => [relative_attributes' \notin {relative_attributes, NotCalculated} =>
             /\ relative_attributes = NotCalculated
             /\ \A e \in Entities : effects[e].progress > 0]_attributeVars
    BY CalculationStep
<1> QED
    BY <1>1, <1>2, <1>3, AttributesImplementEffects, InvHolds, PTL
    DEF AttributesSpec, CalculatedOnceOfOldStacks
=============================================================================
