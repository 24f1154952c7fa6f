----------------------------- MODULE MCCooldown -----------------------------
(***************************************************************************)
(* Instances of Cooldown: a skill with two charges and a cast time, an     *)
(* instant one in a conditional group with it that modifiers change, and   *)
(* one without a cooldown that puts the first on cooldown.                 *)
(***************************************************************************)
EXTENDS Cooldown, TLC

CONSTANTS shot, flip, swap

Durations(a, b) == 0 :> a @@ 1 :> b

\* shot: two charges, a cast time; flip: instant, one charge; swap: instant, no cooldown,
\* puts shot on cooldown; shot and flip in one conditional group
ShotCharges == shot :> 2 @@ flip :> 1 @@ swap :> 1
LongCooldowns == shot :> Durations(13, 11) @@ flip :> Durations(3, 2) @@ swap :> Durations(0, 0)
SwapPutsShot == shot :> <<>> @@ flip :> <<>> @@ swap :> <<shot>>
Grouped == shot :> <<shot, flip>> @@ flip :> <<shot, flip>> @@ swap :> <<swap>>
FlipModifiers ==
    {[skill_key |-> flip, operation |-> o, value |-> 1] : o \in {"ADD", "SUBTRACT"}}
        \cup {[skill_key |-> flip, operation |-> o, value |-> 0] : o \in {"SET", "RESET"}}

\* the three on their own, without modifiers
ShortCooldowns == shot :> Durations(3, 2) @@ flip :> Durations(2, 2) @@ swap :> Durations(0, 0)
Alone == [s \in Skills |-> <<s>>]
NoPuts == [s \in Skills |-> <<>>]
NoModifiers == {}
=============================================================================
