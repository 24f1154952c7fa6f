----------------------------- MODULE MCEffects -----------------------------
(***************************************************************************)
(* An instance of Attributes, and with it of Effects: a condition that     *)
(* stacks in intensity, a boon, BINDING_BLADE, and a unique effect whose   *)
(* stacks refresh each other.  One stack of the unique effect is           *)
(* considered and two are stored; what it carries depends on the boon.     *)
(***************************************************************************)
EXTENDS Attributes, TLC

CONSTANTS BURNING, QUICKNESS, BINDING_BLADE, combo, trait

StackingTypes ==
    BURNING :> "intensity" @@ QUICKNESS :> "duration" @@ BINDING_BLADE :> "replace"
        @@ combo :> "intensity"
MaxDurations == [k \in Kinds |-> IF k = QUICKNESS THEN 3 ELSE 1000]
MaxStored == combo :> 2

Static == [power |-> 10, ferocity |-> 6, condition_damage |-> 8]
Modify(attribute, multiplier, addend, condition) ==
    [attribute |-> attribute, multiplier |-> multiplier, addend |-> addend,
     condition |-> condition]
Convert(from, to, multiplier, addend, condition) ==
    [from |-> from, to |-> to, multiplier |-> multiplier, addend |-> addend,
     condition |-> condition]
Modifiers == [s \in Sources |->
    CASE s = combo -> <<Modify("power", 1, 3, QUICKNESS)>>
      [] s = BURNING -> <<Modify("ferocity", 2, 0, Always)>>
      [] s = trait -> <<Modify("ferocity", 3, 0, combo), Modify("power", 1, 1, Always)>>
      [] OTHER -> <<>>]
Conversions == [s \in Sources |->
    CASE s = BURNING -> <<Convert("power", "power", 0, 1, Always)>>
      [] s = trait -> <<Convert("power", "ferocity", 50, 0, Always),
                        Convert("ferocity", "condition_damage", 25, 0, QUICKNESS)>>
      [] OTHER -> <<>>]
MaxConsidered == [k \in Kinds |-> IF k = BURNING THEN 2 ELSE 1]
=============================================================================
