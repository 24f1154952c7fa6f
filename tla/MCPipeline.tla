----------------------------- MODULE MCPipeline -----------------------------
(***************************************************************************)
(* An encounter of a hero and an ally against two golems.  The hero's      *)
(* tome gives its team two charges of ashes; the slash, which closes it,   *)
(* strikes up to two golems twice and marks them.  As in the builds of the *)
(* repository, justice is due every third hit, and burn, which uses up a   *)
(* charge, sets alight who is not; flare follows that while the tome is    *)
(* closed, until a regained charge of burn opens it again.                 *)
(***************************************************************************)
EXTENDS Pipeline, TLC

CONSTANTS
    hero, ally, golem, other,
    tome, slash, justice, burn, flare, charge, mark, burning, hit_count, open

ViewOrder == <<golem, ally, hero, other>>
Teams == hero :> 1 @@ ally :> 1 @@ golem :> 2 @@ other :> 2
Health == hero :> 3 @@ ally :> 3 @@ golem :> 6 @@ other :> 4
Rotations == [a \in Actors |-> IF a = hero THEN <<tome, slash>> ELSE <<>>]

NumStrikes == tome :> 0 @@ slash :> 2 @@ justice :> 1 @@ burn :> 0 @@ flare :> 0
NumPulses == tome :> 1 @@ slash :> 0 @@ justice :> 0 @@ burn :> 1 @@ flare :> 0
NumTargets == tome :> 0 @@ slash :> 2 @@ justice :> 1 @@ burn :> 0 @@ flare :> 0
Damage == tome :> 0 @@ slash :> 1 @@ justice :> 2 @@ burn :> 0 @@ flare :> 0

Application(kind, unique, direction, targets, stacks_of_it, condition) ==
    [kind |-> kind, unique |-> unique, direction |-> direction, num_targets |-> targets,
     num_stacks |-> stacks_of_it, condition |-> condition]

OnStrikeApplications ==
    [s \in Skills |-> IF s = slash THEN <<Application(mark, TRUE, "OUTGOING", 2, 1, Always)>>
                      ELSE <<>>]
Unlit == [Always EXCEPT !.nots = {[Always EXCEPT !.on_target = {burning}]}]
OnPulseApplications ==
    [s \in Skills |->
        IF s = tome THEN <<Application(charge, TRUE, "TEAM", 1, 2, Always)>>
        ELSE IF s = burn THEN <<Application(burning, FALSE, "OUTGOING", 1, 1, Unlit)>>
        ELSE <<>>]

Stored == charge :> 2 @@ mark :> 1 @@ burning :> 1

Modifier(counter, operation, operands, condition) ==
    [counter |-> counter, operation |-> operation, operands |-> operands, condition |-> condition,
     from |-> {}]
Begun(s) == [Always EXCEPT !.on = "begun", !.by = {s}]
Gained(s) == [Always EXCEPT !.on = "gained", !.by = {s}]
Applied(k) == [Always EXCEPT !.on = "applied", !.by = {k}]
Modifiers ==
    [a \in Actors |->
        IF a = hero THEN <<Modifier(hit_count, "ADD", <<1>>, OnStrike(Always)),
                           Modifier(hit_count, "SUBTRACT", <<3>>, AtLeast(hit_count, 3)),
                           Modifier(open, "SET", <<1>>, Begun(tome)),
                           Modifier(open, "SET", <<1>>, Gained(burn)),
                           Modifier(open, "RESET", <<>>, Begun(slash))>>
        ELSE <<>>]

Charged == OnStrike([Always EXCEPT !.on_source = {charge}, !.off_cooldown = {burn}])
Removals ==
    [a \in Actors |-> IF a = hero THEN <<[kind |-> charge, num_stacks |-> 1,
                                          condition |-> Charged, from |-> {}]>>
                      ELSE <<>>]
Chained ==
    [a \in Actors |-> IF a = hero
        THEN {[skill_key |-> justice, condition |-> OnStrike(AtLeast(hit_count, 3)), from |-> {}],
              [skill_key |-> burn, condition |-> Charged, from |-> {}]}
        ELSE {}]
Closed == [Applied(burning) EXCEPT !.thresholds = {[type |-> "below", of |-> open, value |-> 1]}]
Unchained ==
    [a \in Actors |-> IF a = hero THEN {[skill_key |-> flare, condition |-> Closed, from |-> {}]}
                      ELSE {}]

Zero == hit_count :> 0 @@ open :> 0
Condition(type, actor, bound) == [type |-> type, actor |-> actor, bound |-> bound]
Encounters ==
    {{Condition("TIME", Nobody, 3), Condition("ACTIVE_SKILLS", Nobody, 1),
      Condition("DAMAGE", other, 3)}}
=============================================================================
