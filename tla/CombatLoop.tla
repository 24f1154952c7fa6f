----------------------------- MODULE CombatLoop -----------------------------
(***************************************************************************)
(* src/src/combat_loop.cpp: request threads that simulate encounters and   *)
(* share registry snapshots through the process-wide cache (MruCache).  A  *)
(* thread looks up ever shorter prefixes of its rotation, resumes the      *)
(* snapshot it finds, asks once more whether its own key is cached, runs   *)
(* the tick loop on its private registry, and puts a checkpoint.  Every    *)
(* call on the cache is a step of its own; the work between two calls      *)
(* touches only thread-local state and is part of one of those steps.      *)
(*                                                                         *)
(* A registry is abstracted to what a continuation can tell apart: the     *)
(* tick, the rotation of the first actor, its animation, the casts made so *)
(* far with the random number each drew, and the position of the generator.*)
(***************************************************************************)
EXTENDS Integers, Sequences, FiniteSets, SequencesExt

CONSTANTS Threads,      \* the threads that serve requests
          Requests,     \* the encounters clients send
          Duration,     \* ticks a cast animates; 0 is an instant cast
          Throwing,     \* the casts the castability check rejects
          ReportDraws,  \* random numbers the conditions of a report draw
          MaxTicks,     \* bound: no run of a request takes more ticks
          Capacities,   \* capacities the snapshot cache may have
          None          \* no registry, no report

VARIABLES capacity, mru_list, cache,  \* the shared cache
          pc,        \* where each thread is in combat_loop
          request,   \* its encounter
          prefix,    \* rotation of current_encounter, shortened by lookups
          run,       \* its registry, checkpoint, is_first_tick and whether it threw
          need,      \* need_checkpoint
          report     \* the reply it gave last

\* A registry, and what a thread keeps of its run.
Registry ==
  [tick : Nat, casts : Seq(DOMAIN Duration), repeat : BOOLEAN, idx : Nat, animation : Nat,
   no_more_rotation : BOOLEAN, events : Seq((DOMAIN Duration) \X Nat \X Nat), random : Nat]
Run == [reg : Registry, first : BOOLEAN, threw : BOOLEAN, checkpoint : Registry \cup {None}]
Reply ==
  [tick : Nat, events : Seq((DOMAIN Duration) \X Nat \X Nat), roll : Nat \cup {None},
   error : BOOLEAN]

ASSUME RequestsAssumption ==
  /\ Duration \in [DOMAIN Duration -> Nat]
  /\ Requests \subseteq
       [casts : Seq(DOMAIN Duration), repeat : BOOLEAN,
        stop : [type : {"ROTATION", "TIME", "DAMAGE"}, at : Nat],
        audit_offset : Nat, enable_caching : BOOLEAN]
  /\ ReportDraws \in Nat /\ MaxTicks \in Nat /\ Capacities \subseteq Int
  /\ None \notin Requests \cup Registry \cup Run \cup Reply

shared == <<capacity, mru_list, cache>>
local == <<pc, request, prefix, run, need, report>>
vars == <<shared, local>>
-----------------------------------------------------------------------------
\* Mutant: the termination conditions are left out of the key.
CacheKeyWithoutStop(encounter, casts) ==
  [encounter EXCEPT !.casts = casts, !.audit_offset = 0, !.enable_caching = TRUE,
                    !.stop = [type |-> "ROTATION", at |-> 0]]

\* convert_encounter_to_cache_key: audit_offset and enable_caching do not count.
CacheKey(encounter, casts) ==
  [encounter EXCEPT !.casts = casts, !.audit_offset = 0, !.enable_caching = TRUE]

Keys == {CacheKey(r, r.casts) : r \in Requests}

Cache == INSTANCE MruCache
           WITH Snapshots <- {}, DesiredMiB <- Capacities, AverageMiB <- {1}

setup_encounter(encounter) ==
  [tick |-> 0, casts |-> encounter.casts, repeat |-> encounter.repeat,
   idx |-> 0, animation |-> 0, no_more_rotation |-> FALSE,
   events |-> <<>>, random |-> 0]

\* A resumed registry takes over the request's rotation (an empty request has
\* none to take over) and its first actor may cast again.
Resumed(snapshot, encounter) ==
  IF encounter.casts = <<>> THEN snapshot
  ELSE [snapshot EXCEPT !.casts = encounter.casts, !.repeat = encounter.repeat,
                        !.no_more_rotation = FALSE]
-----------------------------------------------------------------------------
RotationStarted(reg) == reg.idx >= Len(reg.casts)

NextIndex(reg) == IF RotationStarted(reg) /\ reg.repeat THEN 0 ELSE reg.idx

Cast(reg) == reg.casts[NextIndex(reg) + 1]

OutOfRotation(reg) == RotationStarted(reg) /\ ~reg.repeat

\* An instant cast may start during an animation, any other cast may not.
CanStart(reg) == Duration[Cast(reg)] = 0 \/ reg.animation = 0

Started(reg) ==
  [reg EXCEPT !.idx = NextIndex(reg) + 1,
              !.events = Append(@, <<Cast(reg), reg.tick, reg.random>>),
              !.random = @ + 1,
              !.animation = IF Duration[Cast(reg)] = 0 THEN @ ELSE Duration[Cast(reg)]]

\* perform_rotations for the first actor: at most one cast a tick.
Rotated(reg) ==
  IF reg.casts = <<>> THEN reg
  ELSE IF OutOfRotation(reg) THEN [reg EXCEPT !.no_more_rotation = TRUE]
  ELSE IF CanStart(reg) THEN Started(reg)
  ELSE [reg EXCEPT !.idx = NextIndex(reg)]

\* tick(registry): the animation also progresses in the tick that started it.
Ticked(reg) ==
  LET rotated == Rotated(reg)
  IN [rotated EXCEPT !.animation = IF @ > 0 THEN @ - 1 ELSE 0]

TickThrows(reg) ==
  /\ reg.casts # <<>>
  /\ ~OutOfRotation(reg)
  /\ CanStart(reg)
  /\ Cast(reg) \in Throwing

\* Every cast deals one unit of damage.
continue_combat_loop(reg, stop) ==
  ~ \/ /\ stop.type = "ROTATION"
       /\ reg.casts = <<>> \/ (reg.no_more_rotation /\ reg.animation = 0)
    \/ stop.type = "TIME" /\ reg.tick >= stop.at
    \/ stop.type = "DAMAGE" /\ Len(reg.events) >= stop.at

\* The state of the loop over registry reg; first is is_first_tick.
Loop(reg, first) == [reg |-> reg, first |-> first, threw |-> FALSE, checkpoint |-> None]

Continues(loop, stop) == ~loop.threw /\ continue_combat_loop(loop.reg, stop)

\* One turn of the while loop of combat_loop, with its save_checkpoint: the
\* first end of a tick after which every cast of the rotation has started.
Turn(loop, needed) ==
  LET reg == [loop.reg EXCEPT !.tick = IF loop.first THEN @ ELSE @ + 1]
      ticked == Ticked(reg)
      saves == needed /\ loop.checkpoint = None /\ RotationStarted(ticked)
  IN IF TickThrows(reg)
     THEN [loop EXCEPT !.reg = reg, !.first = FALSE, !.threw = TRUE]
     ELSE [loop EXCEPT !.reg = ticked, !.first = FALSE,
                       !.checkpoint = IF saves THEN ticked ELSE @]

\* get_audit_report: events from audit_offset on, and what the random
\* conditions it evaluates drew (nothing when there are none).
Report(loop, encounter) ==
  [tick |-> loop.reg.tick,
   events |-> SubSeq(loop.reg.events, encounter.audit_offset + 1, Len(loop.reg.events)),
   roll |-> IF ReportDraws = 0 THEN None ELSE loop.reg.random,
   error |-> loop.threw]

Reported(reg) == [reg EXCEPT !.random = @ + ReportDraws]

\* What a successful run puts: its checkpoint, else the registry after the report.
ToPut(loop) == IF loop.checkpoint # None THEN loop.checkpoint ELSE Reported(loop.reg)
-----------------------------------------------------------------------------
Init ==
  /\ Cache!Init
  /\ pc = [t \in Threads |-> "idle"]
  /\ request = [t \in Threads |-> None]
  /\ prefix = [t \in Threads |-> <<>>]
  /\ run = [t \in Threads |-> None]
  /\ need = [t \in Threads |-> FALSE]
  /\ report = [t \in Threads |-> None]

Goto(t, label) == pc' = [pc EXCEPT ![t] = label]

FreshLoop(encounter) == Loop(setup_encounter(encounter), TRUE)

\* The start of combat_loop for an encounter that may be cached.
ReceiveCached(t, encounter) ==
  /\ pc[t] = "idle"
  /\ encounter.enable_caching /\ Cache!enabled
  /\ request' = [request EXCEPT ![t] = encounter]
  /\ prefix' = [prefix EXCEPT ![t] = encounter.casts]
  /\ Goto(t, "lookup")
  /\ UNCHANGED <<shared, run, need, report>>

\* And for one that may not: a fresh registry and no checkpoint.
ReceiveUncached(t, encounter) ==
  /\ pc[t] = "idle"
  /\ ~(encounter.enable_caching /\ Cache!enabled)
  /\ request' = [request EXCEPT ![t] = encounter]
  /\ run' = [run EXCEPT ![t] = FreshLoop(encounter)]
  /\ Goto(t, "run")
  /\ UNCHANGED <<shared, prefix, need, report>>

\* Mutant: the snapshot is found but not copied.
LookupHitWithoutCopy(t) ==
  LET key == CacheKey(request[t], prefix[t])
  IN /\ pc[t] = "lookup"
     /\ Cache!contains(key)
     /\ Cache!get(key)
     /\ prefix' = [prefix EXCEPT ![t] = <<>>]
     /\ Goto(t, "check")
     /\ UNCHANGED <<request, run, need, report>>

\* registry_cache.get(prefix_key) found a snapshot.
LookupHit(t) ==
  LET key == CacheKey(request[t], prefix[t])
  IN /\ pc[t] = "lookup"
     /\ Cache!contains(key)
     /\ Cache!get(key)
     /\ run' = [run EXCEPT ![t] = Loop(Resumed(cache[key], request[t]), FALSE)]
     /\ prefix' = [prefix EXCEPT ![t] = <<>>]
     /\ Goto(t, "check")
     /\ UNCHANGED <<request, need, report>>

\* Mutant: an empty prefix is looked up like any other.
LookupMissForEver(t) ==
  LET key == CacheKey(request[t], prefix[t])
  IN /\ pc[t] = "lookup"
     /\ ~Cache!contains(key)
     /\ Cache!get(key)
     /\ prefix' = [prefix EXCEPT ![t] = IF @ = <<>> THEN <<>> ELSE Front(@)]
     /\ UNCHANGED <<pc, request, run, need, report>>

\* It did not: drop the last cast and try again.  A prefix that becomes empty
\* is not looked up: the request starts fresh.
LookupMiss(t) ==
  LET key == CacheKey(request[t], prefix[t])
      shorter == IF prefix[t] = <<>> THEN <<>> ELSE Front(prefix[t])
  IN /\ pc[t] = "lookup"
     /\ ~Cache!contains(key)
     /\ Cache!get(key)
     /\ prefix' = [prefix EXCEPT ![t] = shorter]
     /\ IF shorter # <<>>
        THEN UNCHANGED <<pc, run>>
        ELSE /\ run' = [run EXCEPT ![t] = FreshLoop(request[t])]
             /\ Goto(t, "check")
     /\ UNCHANGED <<request, need, report>>

\* need_checkpoint asks the cache a second time, after the registry was copied.
CheckNeed(t) ==
  /\ pc[t] = "check"
  /\ need' = [need EXCEPT ![t] = ~Cache!contains(CacheKey(request[t], request[t].casts))]
  /\ Goto(t, "run")
  /\ UNCHANGED <<shared, request, prefix, run, report>>

Tick(t) ==
  /\ pc[t] = "run"
  /\ Continues(run[t], request[t].stop)
  /\ run' = [run EXCEPT ![t] = Turn(@, need[t])]
  /\ UNCHANGED <<shared, pc, request, prefix, need, report>>

\* Mutant: the registry of a failed run is put as well.
FinishPutsFailures(t) ==
  /\ pc[t] = "run"
  /\ ~Continues(run[t], request[t].stop)
  /\ report' = [report EXCEPT ![t] = Report(run[t], request[t])]
  /\ Goto(t, IF need[t] THEN "put" ELSE "return")
  /\ UNCHANGED <<shared, request, prefix, run, need>>

\* The loop is over: report.  A run that threw is answered with an error
\* report and puts nothing.
Finish(t) ==
  /\ pc[t] = "run"
  /\ ~Continues(run[t], request[t].stop)
  /\ report' = [report EXCEPT ![t] = Report(run[t], request[t])]
  /\ Goto(t, IF need[t] /\ ~run[t].threw THEN "put" ELSE "return")
  /\ UNCHANGED <<shared, request, prefix, run, need>>

Put(t) ==
  /\ pc[t] = "put"
  /\ Cache!put(CacheKey(request[t], request[t].casts), ToPut(run[t]))
  /\ Goto(t, "return")
  /\ UNCHANGED <<request, prefix, run, need, report>>

\* combat_loop returns; its locals are gone.
Return(t) ==
  /\ pc[t] = "return"
  /\ Goto(t, "idle")
  /\ request' = [request EXCEPT ![t] = None]
  /\ run' = [run EXCEPT ![t] = None]
  /\ need' = [need EXCEPT ![t] = FALSE]
  /\ report' = [report EXCEPT ![t] = None]
  /\ UNCHANGED <<shared, prefix>>

Serve(t) ==
  \/ LookupHit(t) \/ LookupMiss(t) \/ CheckNeed(t)
  \/ Tick(t) \/ Finish(t) \/ Put(t) \/ Return(t)

Next ==
  \E t \in Threads :
    \/ Serve(t)
    \/ \E encounter \in Requests :
         ReceiveCached(t, encounter) \/ ReceiveUncached(t, encounter)

Spec == Init /\ [][Next]_vars

\* A thread that accepted a request keeps running it; clients may stop sending.
FairSpec == Spec /\ \A t \in Threads : WF_vars(Serve(t))
-----------------------------------------------------------------------------
\* The run of a request that no cache takes part in.
Advanced(loop, stop) == IF Continues(loop, stop) THEN Turn(loop, TRUE) ELSE loop

UncachedLoops(fresh, stop) ==
  LET after[n \in 0 .. MaxTicks] == IF n = 0 THEN fresh ELSE Advanced(after[n - 1], stop)
  IN after

UncachedRun(encounter) == UncachedLoops(FreshLoop(encounter), encounter.stop)[MaxTicks]

ASSUME RunsFit == \A r \in Requests : ~Continues(UncachedRun(r), r.stop)

TypeOK ==
  /\ capacity \in Nat /\ Range(mru_list) \subseteq Keys /\ DOMAIN cache \subseteq Keys
  /\ pc \in [Threads -> {"idle", "lookup", "check", "run", "put", "return"}]
  /\ \A t \in Threads :
       /\ IF pc[t] = "idle" THEN request[t] = None ELSE request[t] \in Requests
       /\ pc[t] \in {"idle", "lookup"} <=> run[t] = None
       /\ pc[t] \in {"put", "return"} <=> report[t] # None

\* A reply does not depend on what is cached nor on how the lookups, the
\* evictions and the puts of the threads interleave: it is the reply of a run
\* from tick zero (configuration/encounter.hpp:61-62).
Reproducible ==
  \A t \in Threads : report[t] # None => report[t] = Report(UncachedRun(request[t]), request[t])

\* Whichever way a snapshot came to be made, by a fresh run, a continuation or
\* a repeated request, it is the checkpoint of a run of its key from tick zero,
\* so the tick after the last cast is still to come (combat_loop.cpp:344-357).
\* That run does not throw: no key of a failing rotation is cached, not even
\* when its run resumed a good snapshot of a prefix (combat_loop.cpp:383-387).
CanonicalEntries ==
  \A key \in DOMAIN cache :
    LET loop == UncachedRun(key)
    IN ~loop.threw /\ cache[key] = ToPut(loop)

\* Every request is answered: the lookups run out of prefixes and no thread
\* waits for another.
Answered == \A t \in Threads : pc[t] # "idle" ~> pc[t] = "idle"
=============================================================================
