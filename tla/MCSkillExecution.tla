-------------------------- MODULE MCSkillExecution --------------------------
(***************************************************************************)
(* Instances of SkillExecution: a volley with a cast time, a field that    *)
(* pulses on and ticks on long after its instant cast, and a halt that     *)
(* cancels both; and a shot with the lists of "Puncture Shot"              *)
(* (resources/build-dh-virtues.json), in units of 85 ms.                   *)
(***************************************************************************)
EXTENDS SkillExecution, TLC

CONSTANTS volley, field, halt, shot

Both(base, quick) == 0 :> base @@ 1 :> quick
AllKinds(strikes, pulses) ==
    "strike" :> strikes @@ "pulse" :> pulses @@ "whirl" :> [s \in Skills |-> Both(<<>>, <<>>)]

CastDurations == volley :> Both(6, 3) @@ field :> Both(0, 0) @@ halt :> Both(0, 0)
Strikes == volley :> Both(<<2, 6>>, <<1, 3>>) @@ field :> Both(<<>>, <<>>) @@ halt :> Both(<<>>, <<>>)
Pulses == volley :> Both(<<6>>, <<3>>) @@ field :> Both(<<0, 3>>, <<0, 3>>) @@ halt :> Both(<<>>, <<>>)
Lists == AllKinds(Strikes, Pulses)
SkillTicks == volley :> <<1, 4>> @@ field :> <<2, 5>> @@ halt :> <<>>
Cancels == volley :> {} @@ field :> {} @@ halt :> {volley, field}

ShotDuration == shot :> Both(12, 8)
ShotLists == AllKinds(shot :> Both(<<10>>, <<8>>), shot :> Both(<<>>, <<>>))
ShotTicks == shot :> <<>>
NoCancels == shot :> {}
=============================================================================
