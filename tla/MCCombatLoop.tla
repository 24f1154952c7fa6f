---------------------------- MODULE MCCombatLoop ----------------------------
(* Instances of CombatLoop.  "slow" animates for two ticks, "instant" for    *)
(* none, "bad" is rejected when it would start.                              *)
EXTENDS CombatLoop

Encounter(casts, type, at) ==
  [casts |-> casts, repeat |-> FALSE, stop |-> [type |-> type, at |-> at],
   audit_offset |-> 0, enable_caching |-> TRUE]

S == <<"slow">>
SI == <<"slow", "instant">>
SIS == <<"slow", "instant", "slow">>

MCDuration == [c \in {"slow", "instant", "bad"} |-> IF c = "slow" THEN 2 ELSE 0]

\* A rotation, its continuations (one of them failing), a second offset, an
\* uncached copy and an empty rotation.
Continuations ==
  {Encounter(S, "ROTATION", 0), Encounter(SI, "ROTATION", 0),
   Encounter(SIS, "ROTATION", 0), Encounter(<<"slow", "bad">>, "ROTATION", 0),
   [Encounter(SI, "ROTATION", 0) EXCEPT !.audit_offset = 1],
   [Encounter(SI, "ROTATION", 0) EXCEPT !.enable_caching = FALSE],
   Encounter(<<>>, "TIME", 2)}

\* Runs that end before the last cast starts, and repeating rotations.
EarlyEnds ==
  {Encounter(<<"slow", "slow">>, "TIME", 1), Encounter(<<"slow", "slow", "slow">>, "TIME", 1),
   Encounter(SI, "TIME", 3), Encounter(SI, "DAMAGE", 1), Encounter(SIS, "DAMAGE", 1),
   [Encounter(S, "TIME", 3) EXCEPT !.repeat = TRUE],
   [Encounter(SI, "TIME", 3) EXCEPT !.repeat = TRUE]}

EveryKind == Continuations \cup EarlyEnds

\* Two rotations and the continuation of one of them.
Contended ==
  {Encounter(S, "ROTATION", 0), Encounter(SI, "ROTATION", 0),
   Encounter(<<"instant">>, "ROTATION", 0)}

Failing == Contended \cup {Encounter(<<"slow", "bad">>, "ROTATION", 0)}

OneThread == {"t1"}
TwoThreads == {"t1", "t2"}

\* One thread with every kind of request and a cache that evicts, or two threads
\* with a cache that never does (with one that does they disagree: see
\* CombatLoopEvictionRace.cfg).
Active == IF capacity = 2 THEN OneThread ELSE TwoThreads
Offered == IF capacity = 2 THEN EveryKind ELSE Failing
AnyKind == EveryKind \cup Failing

MCNext ==
  \E t \in Active :
    \/ Serve(t)
    \/ \E encounter \in Offered : ReceiveCached(t, encounter) \/ ReceiveUncached(t, encounter)

MCSpec == Init /\ [][MCNext]_vars /\ \A t \in Threads : WF_vars(Serve(t))
=============================================================================
