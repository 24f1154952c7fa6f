-------------------------- MODULE CombatLoopProofs --------------------------
(***************************************************************************)
(* Replies and cached snapshots do not depend on the history, for any      *)
(* requests, casts, capacities and lengths of runs, if one thread serves   *)
(* or no entry is evicted, and reports draw no random numbers.             *)
(***************************************************************************)
EXTENDS CombatLoop, SequenceTheorems, FiniteSetTheorems, WellFoundedInduction, TLAPS

Casts == DOMAIN Duration
Stops == [type : {"ROTATION", "TIME", "DAMAGE"}, at : Nat]
Encounters ==
  [casts : Seq(Casts), repeat : BOOLEAN, stop : Stops, audit_offset : Nat, enable_caching : BOOLEAN]

\* The run of a request that no cache takes part in, after n turns.
After(e, n) == UncachedLoops(FreshLoop(e), e.stop)[n]

Prefix(p, casts) ==
  /\ p # <<>> /\ Len(p) <= Len(casts)
  /\ \A i \in 1 .. Len(p) : p[i] = casts[i]

-----------------------------------------------------------------------------
(* The inductive invariant.  Each thread that runs has the registry of such  *)
(* a run after some turn, and the same checkpoint if it may put one.  When   *)
(* it resumed its own entry the checkpoint is behind it, so the key has to   *)
(* be in the cache until it asks whether it needs one.                       *)

Follows(loop, after, at, e, needed, keys) ==
  /\ loop.reg = after.reg /\ loop.threw = after.threw
  /\ Continues(after, e.stop) => loop.first = after.first
  /\ at = "check" =>
       /\ loop.checkpoint = None
       /\ CacheKey(e, e.casts) \notin keys => after.checkpoint = None
  /\ at \in {"run", "put"} /\ needed => loop.checkpoint = after.checkpoint
  /\ at \in {"put", "return"} => ~Continues(after, e.stop)

\* What a thread at a place of combat_loop knows, when keys are cached.
Consistent(at, e, p, loop, needed, reply, keys) ==
  /\ IF at = "idle" THEN e = None ELSE e \in Requests
  /\ IF at \in {"idle", "lookup"} THEN loop = None
     ELSE /\ loop \in Run
          /\ \E n \in 0 .. MaxTicks : Follows(loop, After(e, n), at, e, needed, keys)
  /\ at = "lookup" => p = e.casts \/ Prefix(p, e.casts)
  /\ at = "put" => needed /\ ~loop.threw
  /\ IF at \in {"put", "return"} THEN reply = Report(UncachedRun(e), e) ELSE reply = None

ThreadOK(t) ==
  Consistent(pc[t], request[t], prefix[t], run[t], need[t], report[t], DOMAIN cache)

Types ==
  /\ pc \in [Threads -> {"idle", "lookup", "check", "run", "put", "return"}]
  /\ request \in [Threads -> Requests \cup {None}]
  /\ prefix \in [Threads -> Seq(Casts)]
  /\ run \in [Threads -> Run \cup {None}]
  /\ need \in [Threads -> BOOLEAN]
  /\ report \in [Threads -> Reply \cup {None}]

CacheOK ==
  /\ capacity \in Nat /\ capacity \in Capacities \cup {0}
  /\ mru_list \in Seq(Keys) /\ Len(mru_list) <= capacity
  /\ DOMAIN cache \subseteq Keys /\ \A key \in DOMAIN cache : cache[key] \in Registry
  /\ Cache!ListIndexesCache

Inv == Types /\ CacheOK /\ CanonicalEntries /\ \A t \in Threads : ThreadOK(t)

\* One thread serves all requests, as in the command line and the TCP server.
SingleThread == \A t, u \in Threads : t = u

\* The cache has room for the keys of all requests.
NothingEvicted ==
  IsFiniteSet(Keys) /\ \A bound \in Capacities : bound > 0 => Cardinality(Keys) <= bound

-----------------------------------------------------------------------------
\* An induction on the numbers up to a bound.
LEMMA InductionUpTo ==
  ASSUME NEW last \in Nat, NEW G, 0 \in G,
         \A n \in Nat : n < last /\ n \in G => n + 1 \in G
  PROVE  0 .. last \subseteq G
<1> SUFFICES ASSUME NEW n \in 0 .. last, n \notin G PROVE FALSE
  OBVIOUS
<1> DEFINE bad == {m \in Nat : m <= last /\ m \notin G}
<1>1. n \in bad /\ bad \subseteq Nat
  OBVIOUS
<1>2. PICK m \in bad : \A k \in bad : ~(<<k, m>> \in OpToRel(<, Nat))
  BY <1>1, NatLessThanWellFounded, WFMin, Zenon
<1>3. m \in Nat /\ m <= last /\ m \notin G /\ m # 0
  BY <1>2
<1>4. m - 1 \in Nat /\ m - 1 < last
  BY <1>3
<1>5. m - 1 \notin G
  BY <1>3, <1>4
<1>6. m - 1 \in bad /\ <<m - 1, m>> \in OpToRel(<, Nat)
  BY <1>3, <1>4, <1>5 DEF OpToRel
<1> QED BY <1>2, <1>6

-----------------------------------------------------------------------------
(* What one turn of the loop does. *)

LEMMA SetupType == ASSUME NEW e \in Encounters PROVE FreshLoop(e) \in Run
<1>1. e.casts \in Seq(Casts) /\ e.repeat \in BOOLEAN
  BY DEF Encounters
<1>2. setup_encounter(e) \in Registry
  BY <1>1 DEF setup_encounter, Registry, Casts
<1> QED BY <1>2 DEF FreshLoop, Loop, Run

LEMMA CastToCome ==
  ASSUME NEW reg \in Registry, reg.casts # <<>>, ~OutOfRotation(reg)
  PROVE  /\ NextIndex(reg) \in Nat /\ NextIndex(reg) < Len(reg.casts)
         /\ Cast(reg) \in Casts
<1>1. reg.casts \in Seq(Casts) /\ reg.idx \in Nat
  BY DEF Registry, Casts
<1>2. Len(reg.casts) \in Nat /\ Len(reg.casts) # 0
  BY <1>1, EmptySeq, LenProperties
<1>3. NextIndex(reg) \in Nat /\ NextIndex(reg) < Len(reg.casts)
  BY <1>1, <1>2 DEF NextIndex, OutOfRotation, RotationStarted
<1>4. NextIndex(reg) + 1 \in 1 .. Len(reg.casts)
  BY <1>2, <1>3
<1> QED BY <1>1, <1>3, <1>4, ElementOfSeq DEF Cast

LEMMA StartedType ==
  ASSUME NEW reg \in Registry, NextIndex(reg) \in Nat, Cast(reg) \in Casts
  PROVE  Started(reg) \in Registry
<1>1. <<Cast(reg), reg.tick, reg.random>> \in Casts \X Nat \X Nat
  BY DEF Registry
<1>2. Append(reg.events, <<Cast(reg), reg.tick, reg.random>>) \in Seq(Casts \X Nat \X Nat)
  BY <1>1, AppendProperties DEF Registry, Casts
<1>3. Duration[Cast(reg)] \in Nat
  BY RequestsAssumption DEF Casts
<1>4. reg.random + 1 \in Nat /\ NextIndex(reg) + 1 \in Nat
  BY DEF Registry
<1>5. (IF Duration[Cast(reg)] = 0 THEN reg.animation ELSE Duration[Cast(reg)]) \in Nat
  BY <1>3 DEF Registry
<1> DEFINE idx == NextIndex(reg) + 1
           events == Append(reg.events, <<Cast(reg), reg.tick, reg.random>>)
           random == reg.random + 1
           animation == IF Duration[Cast(reg)] = 0 THEN reg.animation ELSE Duration[Cast(reg)]
<1>6. Started(reg) = [reg EXCEPT !.idx = idx, !.events = events, !.random = random,
                                 !.animation = animation]
  BY DEF Started
<1>7. idx \in Nat /\ random \in Nat /\ animation \in Nat /\ events \in Seq(Casts \X Nat \X Nat)
  BY <1>2, <1>4, <1>5
<1> HIDE DEF idx, events, random, animation
<1> QED BY <1>6, <1>7 DEF Registry, Casts

LEMMA TickedType == ASSUME NEW reg \in Registry PROVE Ticked(reg) \in Registry
<1>1. Rotated(reg) \in Registry
  <2>1. CASE reg.casts = <<>>
    BY <2>1 DEF Rotated
  <2>2. CASE reg.casts # <<>> /\ OutOfRotation(reg)
    BY <2>2 DEF Rotated, Registry
  <2>3. CASE reg.casts # <<>> /\ ~OutOfRotation(reg)
    <3>1. NextIndex(reg) \in Nat /\ Cast(reg) \in Casts
      BY <2>3, CastToCome
    <3>2. Started(reg) \in Registry
      BY <3>1, StartedType
    <3>3. [reg EXCEPT !.idx = NextIndex(reg)] \in Registry
      BY <3>1 DEF Registry
    <3> QED BY <2>3, <3>2, <3>3 DEF Rotated
  <2> QED BY <2>1, <2>2, <2>3
<1>2. Rotated(reg).animation \in Nat
  BY <1>1 DEF Registry
<1>3. (IF Rotated(reg).animation > 0 THEN Rotated(reg).animation - 1 ELSE 0) \in Nat
  BY <1>2
<1> QED BY <1>1, <1>3 DEF Ticked, Registry

\* The registry a turn ticks.
Awaited(loop) == [loop.reg EXCEPT !.tick = IF loop.first THEN @ ELSE @ + 1]

LEMMA AwaitedType ==
  ASSUME NEW loop \in Run
  PROVE  /\ Awaited(loop) \in Registry /\ Ticked(Awaited(loop)) \in Registry
         /\ Ticked(Awaited(loop)) # None
<1> DEFINE tick == IF loop.first THEN loop.reg.tick ELSE loop.reg.tick + 1
<1>1. loop.reg \in Registry
  BY DEF Run
<1>2. tick \in Nat
  BY <1>1 DEF Registry
<1>3. Awaited(loop) = [loop.reg EXCEPT !.tick = tick]
  BY DEF Awaited
<1> HIDE DEF tick
<1>4. Awaited(loop) \in Registry
  BY <1>1, <1>2, <1>3 DEF Registry
<1> QED BY <1>4, TickedType, RequestsAssumption

LEMMA TurnIs ==
  ASSUME NEW loop \in Run, NEW needed \in BOOLEAN
  PROVE  /\ Turn(loop, needed) \in Run
         /\ Turn(loop, needed).first = FALSE
         /\ TickThrows(Awaited(loop)) =>
              /\ Turn(loop, needed).threw = TRUE
              /\ Turn(loop, needed).reg = Awaited(loop)
              /\ Turn(loop, needed).checkpoint = loop.checkpoint
         /\ ~TickThrows(Awaited(loop)) =>
              /\ Turn(loop, needed).threw = loop.threw
              /\ Turn(loop, needed).reg = Ticked(Awaited(loop))
              /\ Turn(loop, needed).checkpoint =
                   IF needed /\ loop.checkpoint = None /\ RotationStarted(Ticked(Awaited(loop)))
                   THEN Ticked(Awaited(loop)) ELSE loop.checkpoint
<1>1. Awaited(loop) \in Registry /\ Ticked(Awaited(loop)) \in Registry
  BY AwaitedType
<1>2. loop.checkpoint \in Registry \cup {None} /\ loop.threw \in BOOLEAN
  BY DEF Run
<1> DEFINE reg == Awaited(loop)
           ticked == Ticked(reg)
           saves == needed /\ loop.checkpoint = None /\ RotationStarted(ticked)
<1>3. Turn(loop, needed) =
        IF TickThrows(reg) THEN [loop EXCEPT !.reg = reg, !.first = FALSE, !.threw = TRUE]
        ELSE [loop EXCEPT !.reg = ticked, !.first = FALSE,
                          !.checkpoint = IF saves THEN ticked ELSE @]
  BY DEF Turn, Awaited
<1>4. loop = [reg |-> loop.reg, first |-> loop.first, threw |-> loop.threw,
              checkpoint |-> loop.checkpoint]
  BY DEF Run
<1> HIDE DEF reg, ticked, saves
<1>5. CASE TickThrows(reg)
  <2>1. Turn(loop, needed) = [reg |-> reg, first |-> FALSE, threw |-> TRUE,
                              checkpoint |-> loop.checkpoint]
    BY <1>3, <1>4, <1>5
  <2>2. reg \in Registry
    BY <1>1 DEF reg
  <2> QED BY <2>1, <2>2, <1>2, <1>5 DEF Run, reg
<1>6. CASE ~TickThrows(reg)
  <2>1. Turn(loop, needed) = [reg |-> ticked, first |-> FALSE, threw |-> loop.threw,
                              checkpoint |-> IF saves THEN ticked ELSE loop.checkpoint]
    BY <1>3, <1>4, <1>6
  <2>2. ticked \in Registry
    BY <1>1 DEF ticked, reg
  <2> QED BY <2>1, <2>2, <1>2, <1>6 DEF Run, reg, ticked, saves
<1> QED BY <1>5, <1>6

-----------------------------------------------------------------------------
(* The run of a request that no cache takes part in, after each turn. *)

Computes(f, n, fresh, stop) ==
  f = [i \in 0 .. n |-> IF i = 0 THEN fresh ELSE Advanced(f[i - 1], stop)]

LEMMA LoopsAre ==
  ASSUME NEW fresh, NEW stop
  PROVE  /\ UncachedLoops(fresh, stop)[0] = fresh
         /\ \A n \in Nat : n < MaxTicks =>
              UncachedLoops(fresh, stop)[n + 1] = Advanced(UncachedLoops(fresh, stop)[n], stop)
<1> DEFINE G == {n \in Nat : \E f : Computes(f, n, fresh, stop)}
<1>1. MaxTicks \in Nat
  BY RequestsAssumption
<1>2. 0 \in G
  <2> DEFINE f == [i \in 0 .. 0 |-> fresh]
  <2>1. f = [i \in 0 .. 0 |-> IF i = 0 THEN fresh ELSE Advanced(f[i - 1], stop)]
    OBVIOUS
  <2>2. Computes(f, 0, fresh, stop)
    BY <2>1 DEF Computes
  <2> QED BY <2>2
<1>3. ASSUME NEW n \in Nat, n \in G PROVE n + 1 \in G
  <2>1. PICK f : Computes(f, n, fresh, stop)
    BY <1>3
  <2> DEFINE g == [i \in 0 .. n + 1 |-> IF i <= n THEN f[i] ELSE Advanced(f[n], stop)]
             h == [i \in 0 .. n + 1 |-> IF i = 0 THEN fresh ELSE Advanced(g[i - 1], stop)]
  <2>2. \A i \in 0 .. n : f[i] = IF i = 0 THEN fresh ELSE Advanced(f[i - 1], stop)
    BY <2>1 DEF Computes
  <2>3. ASSUME NEW i \in 0 .. n + 1 PROVE g[i] = h[i]
    <3>1. CASE i = 0
      BY <2>2, <3>1
    <3>2. CASE i # 0 /\ i <= n
      <4>1. i \in 0 .. n /\ i - 1 \in 0 .. n + 1 /\ i - 1 <= n
        BY <3>2
      <4>2. g[i] = f[i] /\ g[i - 1] = f[i - 1]
        BY <4>1
      <4>3. h[i] = Advanced(g[i - 1], stop)
        BY <3>2
      <4> QED BY <2>2, <3>2, <4>1, <4>2, <4>3
    <3>3. CASE i = n + 1
      <4>1. g[i] = Advanced(f[n], stop) /\ g[n] = f[n]
        BY <3>3
      <4>2. h[i] = Advanced(g[n], stop)
        BY <3>3
      <4> QED BY <4>1, <4>2
    <3> QED BY <3>1, <3>2, <3>3
  <2>4. g = h
    BY <2>3
  <2>5. Computes(g, n + 1, fresh, stop)
    BY <2>4 DEF Computes
  <2> QED BY <2>5
<1>4. MaxTicks \in G
  <2> HIDE DEF G
  <2>1. 0 .. MaxTicks \subseteq G
    BY <1>1, <1>2, <1>3, InductionUpTo
  <2> QED BY <1>1, <2>1
<1>5. \E f : Computes(f, MaxTicks, fresh, stop)
  BY <1>4
<1>6. Computes(CHOOSE f : Computes(f, MaxTicks, fresh, stop), MaxTicks, fresh, stop)
  BY <1>5, Zenon
<1>7. UncachedLoops(fresh, stop) = CHOOSE f : Computes(f, MaxTicks, fresh, stop)
  BY DEF UncachedLoops, Computes
<1> DEFINE after == UncachedLoops(fresh, stop)
<1>8. Computes(after, MaxTicks, fresh, stop)
  BY <1>6, <1>7
<1> HIDE DEF after
<1>9. \A i \in 0 .. MaxTicks : after[i] = IF i = 0 THEN fresh ELSE Advanced(after[i - 1], stop)
  BY <1>8 DEF Computes
<1>10. after[0] = fresh
  BY <1>1, <1>9
<1>11. ASSUME NEW n \in Nat, n < MaxTicks PROVE after[n + 1] = Advanced(after[n], stop)
  <2>1. n + 1 \in 0 .. MaxTicks /\ n + 1 # 0 /\ (n + 1) - 1 = n
    BY <1>1, <1>11
  <2> QED BY <1>9, <2>1
<1> QED BY <1>10, <1>11 DEF after

LEMMA AfterIs ==
  ASSUME NEW e
  PROVE  /\ After(e, 0) = FreshLoop(e)
         /\ \A n \in Nat : n < MaxTicks => After(e, n + 1) = Advanced(After(e, n), e.stop)
         /\ UncachedRun(e) = After(e, MaxTicks)
BY LoopsAre DEF After, UncachedRun

LEMMA AfterType ==
  ASSUME NEW e \in Encounters, NEW n \in 0 .. MaxTicks
  PROVE  After(e, n) \in Run
<1> DEFINE G == {i \in Nat : After(e, i) \in Run}
<1>1. MaxTicks \in Nat
  BY RequestsAssumption
<1>2. 0 \in G
  BY SetupType, AfterIs
<1>3. ASSUME NEW i \in Nat, i < MaxTicks, i \in G PROVE i + 1 \in G
  <2>1. After(e, i) \in Run /\ After(e, i + 1) = Advanced(After(e, i), e.stop)
    BY <1>3, AfterIs
  <2>2. Turn(After(e, i), TRUE) \in Run
    BY <2>1, TurnIs
  <2>3. After(e, i + 1) \in Run
    BY <2>1, <2>2 DEF Advanced
  <2> QED BY <2>3
<1> HIDE DEF G
<1>4. 0 .. MaxTicks \subseteq G
  BY <1>1, <1>2, <1>3, InductionUpTo
<1> QED BY <1>4 DEF G

\* A run that has stopped stays as it is.
LEMMA StoppedStays ==
  ASSUME NEW e \in Encounters, NEW n \in 0 .. MaxTicks, ~Continues(After(e, n), e.stop)
  PROVE  UncachedRun(e) = After(e, n)
<1> DEFINE last == MaxTicks - n
           G == {i \in Nat : After(e, n + i) = After(e, n)}
<1>1. MaxTicks \in Nat /\ n \in Nat /\ last \in Nat /\ n + last = MaxTicks /\ n + 0 = n
  BY RequestsAssumption
<1>2. 0 \in G
  BY <1>1
<1>3. ASSUME NEW i \in Nat, i < last, i \in G PROVE i + 1 \in G
  <2>1. n + i \in Nat /\ n + i < MaxTicks /\ (n + i) + 1 = n + (i + 1)
    BY <1>1, <1>3
  <2>2. After(e, n + i) = After(e, n)
    BY <1>3
  <2>3. After(e, n + (i + 1)) = Advanced(After(e, n), e.stop)
    BY <2>1, <2>2, AfterIs
  <2>4. After(e, n + (i + 1)) = After(e, n)
    BY <2>3 DEF Advanced
  <2>5. i + 1 \in Nat
    OBVIOUS
  <2> HIDE DEF last
  <2> QED BY <2>4, <2>5
<1>4. 0 .. last \subseteq G
  <2> HIDE DEF G, last
  <2> QED BY <1>1, <1>2, <1>3, InductionUpTo
<1>5. last \in G
  <2> HIDE DEF G
  <2> QED BY <1>1, <1>4
<1> QED BY <1>1, <1>5, AfterIs

\* A checkpoint is the registry after some turn that did not throw.
Checkpointed(e, n, reg) ==
  \E m \in 0 .. n :
    After(e, m).reg = reg /\ After(e, m).first = FALSE /\ After(e, m).threw = FALSE

LEMMA CheckpointIsReached ==
  ASSUME NEW e \in Encounters, NEW n \in 0 .. MaxTicks, After(e, n).checkpoint # None
  PROVE  Checkpointed(e, n, After(e, n).checkpoint)
<1> DEFINE G == {i \in Nat : After(e, i).checkpoint # None =>
                               Checkpointed(e, i, After(e, i).checkpoint)}
<1>1. MaxTicks \in Nat
  BY RequestsAssumption
<1>2. 0 \in G
  BY AfterIs DEF FreshLoop, Loop
<1>3. ASSUME NEW i \in Nat, i < MaxTicks, i \in G PROVE i + 1 \in G
  <2> DEFINE now == After(e, i)
             next == After(e, i + 1)
  <2>1. now \in Run /\ next = Advanced(now, e.stop)
    BY <1>1, <1>3, AfterIs, AfterType
  <2>2. SUFFICES ASSUME next.checkpoint # None PROVE Checkpointed(e, i + 1, next.checkpoint)
    OBVIOUS
  <2>3. CASE next.checkpoint = now.checkpoint
    <3>1. Checkpointed(e, i, next.checkpoint)
      BY <1>3, <2>2, <2>3
    <3>2. 0 .. i \subseteq 0 .. i + 1
      OBVIOUS
    <3> QED BY <3>1, <3>2 DEF Checkpointed
  <2>4. CASE next.checkpoint # now.checkpoint
    <3>1. Continues(now, e.stop) /\ next = Turn(now, TRUE)
      BY <2>1, <2>4 DEF Advanced
    <3>2. /\ next.first = FALSE /\ next.threw = now.threw
          /\ next.checkpoint = next.reg
      <4> HIDE DEF now, next
      <4>1. next.first = FALSE
        BY <2>1, <3>1, TurnIs
      <4>2. ~TickThrows(Awaited(now))
        BY <2>1, <2>4, <3>1, TurnIs
      <4>3. next.threw = now.threw /\ next.reg = Ticked(Awaited(now))
        <5>1. /\ Turn(now, TRUE).threw = now.threw
              /\ Turn(now, TRUE).reg = Ticked(Awaited(now))
          BY <2>1, <4>2, TurnIs
        <5> QED BY <3>1, <5>1
      <4>4. next.checkpoint = Ticked(Awaited(now))
        BY <2>1, <2>4, <3>1, <4>2, TurnIs
      <4> QED BY <4>1, <4>3, <4>4
    <3>3. now.threw = FALSE
      BY <2>1, <3>1 DEF Continues, Run
    <3>4. i + 1 \in 0 .. i + 1
      OBVIOUS
    <3> QED BY <3>2, <3>3, <3>4 DEF Checkpointed
  <2> QED BY <2>3, <2>4
<1> HIDE DEF G
<1>4. 0 .. MaxTicks \subseteq G
  BY <1>1, <1>2, <1>3, InductionUpTo
<1> QED BY <1>4 DEF G

-----------------------------------------------------------------------------
(* The run of a prefix of a rotation, up to its checkpoint. *)

WithCasts(reg, casts) == [reg EXCEPT !.casts = casts]

\* Before its last cast has started.
ToCome(reg, p, repeat) ==
  /\ reg.casts = p /\ reg.repeat = repeat
  /\ reg.idx < Len(p) /\ reg.no_more_rotation = FALSE

LEMMA WithCastsType ==
  ASSUME NEW reg \in Registry, NEW casts \in Seq(Casts)
  PROVE  /\ WithCasts(reg, casts) \in Registry
         /\ WithCasts(reg, casts).casts = casts
         /\ WithCasts(reg, casts).tick = reg.tick
         /\ WithCasts(reg, casts).repeat = reg.repeat
         /\ WithCasts(reg, casts).idx = reg.idx
         /\ WithCasts(reg, casts).animation = reg.animation
         /\ WithCasts(reg, casts).no_more_rotation = reg.no_more_rotation
         /\ WithCasts(reg, casts).events = reg.events
         /\ WithCasts(reg, casts).random = reg.random
BY DEF WithCasts, Registry, Casts

LEMMA SameTick ==
  ASSUME NEW p \in Seq(Casts), NEW casts \in Seq(Casts), Prefix(p, casts),
         NEW repeat, NEW reg \in Registry, ToCome(reg, p, repeat)
  PROVE  /\ TickThrows(WithCasts(reg, casts)) <=> TickThrows(reg)
         /\ Ticked(WithCasts(reg, casts)) = WithCasts(Ticked(reg), casts)
         /\ Ticked(reg).casts = p /\ Ticked(reg).repeat = repeat
         /\ Ticked(reg).idx <= Len(p) /\ Ticked(reg).no_more_rotation = FALSE
<1> DEFINE longer == WithCasts(reg, casts)
<1>1. /\ Len(p) \in Nat /\ Len(casts) \in Nat /\ Len(p) <= Len(casts)
      /\ Len(p) # 0 /\ p # <<>> /\ casts # <<>>
  BY EmptySeq, LenProperties DEF Prefix
<1>2. /\ reg.casts = p /\ reg.idx \in Nat /\ reg.idx < Len(p)
      /\ reg.repeat = repeat /\ reg.no_more_rotation = FALSE
  BY DEF ToCome, Registry
<1>3. /\ longer \in Registry /\ longer.casts = casts /\ longer.idx = reg.idx
      /\ longer.animation = reg.animation /\ longer.repeat = repeat
      /\ longer.tick = reg.tick /\ longer.events = reg.events /\ longer.random = reg.random
  BY <1>2, WithCastsType
<1>4. /\ ~RotationStarted(reg) /\ ~RotationStarted(longer)
      /\ ~OutOfRotation(reg) /\ ~OutOfRotation(longer)
      /\ NextIndex(reg) = reg.idx /\ NextIndex(longer) = reg.idx
  <2>1. ~RotationStarted(reg)
    BY <1>1, <1>2 DEF RotationStarted
  <2>2. ~RotationStarted(longer)
    <3> HIDE DEF longer
    <3> QED BY <1>1, <1>2, <1>3 DEF RotationStarted
  <2> QED BY <2>1, <2>2, <1>3 DEF OutOfRotation, NextIndex
<1>5. Cast(reg) = Cast(longer) /\ Cast(reg) \in Casts
  <2>1. reg.idx + 1 \in 1 .. Len(p)
    BY <1>1, <1>2
  <2>2. p[reg.idx + 1] = casts[reg.idx + 1]
    BY <2>1 DEF Prefix
  <2> QED BY <1>1, <1>2, <1>3, <1>4, <2>2, CastToCome DEF Cast
<1> HIDE DEF longer
<1>6. CanStart(reg) <=> CanStart(longer)
  BY <1>3, <1>5 DEF CanStart
<1>7. TickThrows(longer) <=> TickThrows(reg)
  BY <1>1, <1>2, <1>3, <1>4, <1>5, <1>6 DEF TickThrows
<1>8. /\ Rotated(reg) = IF CanStart(reg) THEN Started(reg) ELSE [reg EXCEPT !.idx = reg.idx]
      /\ Rotated(longer) = IF CanStart(reg) THEN Started(longer) ELSE [longer EXCEPT !.idx = reg.idx]
  BY <1>1, <1>2, <1>3, <1>4, <1>6 DEF Rotated
<1> DEFINE begun == Append(reg.events, <<Cast(reg), reg.tick, reg.random>>)
           left == IF Duration[Cast(reg)] = 0 THEN reg.animation ELSE Duration[Cast(reg)]
           next == reg.idx + 1
           random == reg.random + 1
<1>9. /\ Started(reg) = [reg EXCEPT !.idx = next, !.events = begun, !.random = random,
                                    !.animation = left]
      /\ Started(longer) = [longer EXCEPT !.idx = next, !.events = begun, !.random = random,
                                    !.animation = left]
  BY <1>3, <1>4, <1>5 DEF Started
<1>10. Started(reg) \in Registry /\ next <= Len(p)
  BY <1>1, <1>2, <1>4, <1>5, StartedType
<1> HIDE DEF begun, left, next, random
<1>11. longer = [reg EXCEPT !.casts = casts]
  BY DEF longer, WithCasts
<1>12. /\ Rotated(longer) = [Rotated(reg) EXCEPT !.casts = casts]
       /\ Rotated(reg).casts = p /\ Rotated(reg).repeat = repeat
       /\ Rotated(reg).idx <= Len(p) /\ Rotated(reg).no_more_rotation = FALSE
       /\ Rotated(reg) \in Registry
  <2>1. CASE CanStart(reg)
    <3>1. Rotated(longer) = [Rotated(reg) EXCEPT !.casts = casts]
      <4>1. Rotated(reg) = [reg EXCEPT !.idx = next, !.events = begun, !.random = random,
                                       !.animation = left]
        BY <1>8, <1>9, <2>1
      <4>2. Rotated(longer) = [longer EXCEPT !.idx = next, !.events = begun, !.random = random,
                                             !.animation = left]
        BY <1>8, <1>9, <2>1
      <4>3. Rotated(longer) = [[reg EXCEPT !.casts = casts]
                                 EXCEPT !.idx = next, !.events = begun, !.random = random,
                                        !.animation = left]
        BY <1>11, <4>2
      <4>4. [[reg EXCEPT !.casts = casts] EXCEPT !.idx = next, !.events = begun,
                                                 !.random = random, !.animation = left] =
            [[reg EXCEPT !.idx = next, !.events = begun, !.random = random, !.animation = left]
                EXCEPT !.casts = casts]
        BY DEF Registry
      <4> QED BY <4>1, <4>3, <4>4
    <3>2. /\ Rotated(reg).casts = p /\ Rotated(reg).repeat = repeat
          /\ Rotated(reg).idx = next /\ Rotated(reg).no_more_rotation = FALSE
      BY <1>2, <1>8, <1>9, <2>1 DEF Registry
    <3> QED BY <1>8, <1>10, <2>1, <3>1, <3>2
  <2>2. CASE ~CanStart(reg)
    <3>1. Rotated(reg) = reg
      BY <1>8, <2>2 DEF Registry
    <3>2. Rotated(longer) = longer
      BY <1>3, <1>8, <2>2 DEF Registry
    <3> QED BY <1>1, <1>2, <1>11, <3>1, <3>2
  <2> QED BY <2>1, <2>2
<1> DEFINE rotated == Rotated(reg)
           rest == IF rotated.animation > 0 THEN rotated.animation - 1 ELSE 0
<1> HIDE DEF rotated
<1>13. /\ rotated \in Registry /\ Rotated(longer) = [rotated EXCEPT !.casts = casts]
       /\ rotated.casts = p /\ rotated.repeat = repeat
       /\ rotated.idx <= Len(p) /\ rotated.no_more_rotation = FALSE
  BY <1>12 DEF rotated
<1>14. Rotated(longer).animation = rotated.animation
  BY <1>13 DEF Registry
<1>15. Ticked(reg) = [rotated EXCEPT !.animation = rest]
  BY DEF Ticked, rotated
<1>16. Ticked(longer) = [Rotated(longer) EXCEPT !.animation = rest]
  BY <1>14 DEF Ticked
<1> HIDE DEF rest
<1>17. Ticked(longer) = WithCasts(Ticked(reg), casts)
  BY <1>13, <1>15, <1>16 DEF WithCasts, Registry
<1>18. /\ Ticked(reg).casts = p /\ Ticked(reg).repeat = repeat
       /\ Ticked(reg).idx <= Len(p) /\ Ticked(reg).no_more_rotation = FALSE
  BY <1>13, <1>15 DEF Registry
<1> QED BY <1>7, <1>17, <1>18 DEF longer

\* What is left of a run after its checkpoint does not change the checkpoint.
LEMMA AdvancedIs ==
  ASSUME NEW loop \in Run, NEW stop
  PROVE  /\ ~Continues(loop, stop) => Advanced(loop, stop) = loop
         /\ Continues(loop, stop) => Advanced(loop, stop) = Turn(loop, TRUE)
         /\ loop.checkpoint # None => Advanced(loop, stop).checkpoint = loop.checkpoint
<1>1. ~Continues(loop, stop) => Advanced(loop, stop) = loop
  BY DEF Advanced
<1>2. Continues(loop, stop) => Advanced(loop, stop) = Turn(loop, TRUE)
  BY DEF Advanced
<1>3. loop.checkpoint # None => Turn(loop, TRUE).checkpoint = loop.checkpoint
  BY TurnIs
<1> QED BY <1>1, <1>2, <1>3

LEMMA PrefixContinues ==
  ASSUME NEW p \in Seq(Casts), NEW casts \in Seq(Casts), Prefix(p, casts),
         NEW repeat, NEW reg \in Registry, ToCome(reg, p, repeat), NEW stop
  PROVE  continue_combat_loop(WithCasts(reg, casts), stop) <=> continue_combat_loop(reg, stop)
<1> DEFINE longer == WithCasts(reg, casts)
<1>1. p # <<>> /\ casts # <<>>
  BY EmptySeq, LenProperties DEF Prefix
<1>2. /\ longer.casts = casts /\ longer.no_more_rotation = FALSE
      /\ longer.tick = reg.tick /\ longer.events = reg.events
      /\ reg.casts = p /\ reg.no_more_rotation = FALSE
  BY WithCastsType DEF ToCome
<1> HIDE DEF longer
<1>3. continue_combat_loop(longer, stop) <=> continue_combat_loop(reg, stop)
  BY <1>1, <1>2 DEF continue_combat_loop
<1> QED BY <1>3 DEF longer

LEMMA KeyIs ==
  ASSUME NEW e \in Encounters, NEW p \in Seq(Casts)
  PROVE  /\ CacheKey(e, p) \in Encounters
         /\ CacheKey(e, p).casts = p /\ CacheKey(e, p).repeat = e.repeat
         /\ CacheKey(e, p).stop = e.stop
BY DEF CacheKey, Encounters

\* After n turns the run of the prefix is that of the whole rotation, until its checkpoint
\* is taken; that is a registry of the whole rotation's run as well.
Shared(loop, longer, p, e) ==
  /\ ToCome(loop.reg, p, e.repeat)
  /\ longer.reg = WithCasts(loop.reg, e.casts)
  /\ longer.first = loop.first /\ longer.threw = loop.threw /\ longer.checkpoint = None

Passed(checkpoint, p, e, n) ==
  /\ checkpoint.no_more_rotation = FALSE /\ checkpoint.repeat = e.repeat
  /\ \E m \in 0 .. n :
       /\ After(e, m).reg = WithCasts(checkpoint, e.casts)
       /\ After(e, m).first = FALSE /\ After(e, m).threw = FALSE
       /\ Len(p) < Len(e.casts) => After(e, m).checkpoint = None

SharedUpTo(e, p, n) ==
  LET loop == After(CacheKey(e, p), n)
  IN  IF loop.checkpoint = None THEN Shared(loop, After(e, n), p, e)
      ELSE Passed(loop.checkpoint, p, e, n)

LEMMA SharedTurn ==
  ASSUME NEW e \in Encounters, NEW p \in Seq(Casts), Prefix(p, e.casts),
         NEW loop \in Run, NEW longer \in Run, loop.checkpoint = None,
         Shared(loop, longer, p, e), Continues(loop, e.stop)
  PROVE  LET next == Turn(loop, TRUE)
             beside == Turn(longer, TRUE)
         IN  IF next.checkpoint = None THEN Shared(next, beside, p, e)
             ELSE /\ next.checkpoint.no_more_rotation = FALSE
                  /\ next.checkpoint.repeat = e.repeat
                  /\ beside.reg = WithCasts(next.checkpoint, e.casts)
                  /\ beside.first = FALSE /\ beside.threw = FALSE
                  /\ Len(p) < Len(e.casts) => beside.checkpoint = None
<1> DEFINE next == Turn(loop, TRUE)
           beside == Turn(longer, TRUE)
           awaited == Awaited(loop)
           ticked == Ticked(awaited)
<1>1. e.casts \in Seq(Casts)
  BY DEF Encounters
<1>2. /\ awaited \in Registry /\ ticked \in Registry /\ ticked # None
      /\ loop.reg \in Registry /\ loop.threw = FALSE
  BY AwaitedType DEF Run, Continues
<1>3. awaited = [loop.reg EXCEPT !.tick = IF loop.first THEN loop.reg.tick ELSE loop.reg.tick + 1]
  BY DEF Awaited
<1>4. Awaited(longer) = WithCasts(awaited, e.casts)
  <2> DEFINE tick == IF loop.first THEN loop.reg.tick ELSE loop.reg.tick + 1
  <2>1. /\ longer.first = loop.first /\ longer.reg = WithCasts(loop.reg, e.casts)
        /\ longer.reg.tick = loop.reg.tick
    BY <1>1, <1>2, WithCastsType DEF Shared
  <2>2. Awaited(longer) = [longer.reg EXCEPT !.tick = tick]
    BY <2>1 DEF Awaited
  <2>3. awaited = [loop.reg EXCEPT !.tick = tick]
    BY <1>3
  <2> HIDE DEF tick, awaited
  <2> QED BY <1>2, <2>1, <2>2, <2>3 DEF WithCasts, Registry
<1>5. ToCome(awaited, p, e.repeat)
  <2> HIDE DEF awaited
  <2>1. /\ awaited.casts = loop.reg.casts /\ awaited.repeat = loop.reg.repeat
        /\ awaited.idx = loop.reg.idx /\ awaited.no_more_rotation = loop.reg.no_more_rotation
    BY <1>2, <1>3 DEF Registry
  <2> QED BY <2>1 DEF Shared, ToCome
<1>6. /\ next.first = FALSE /\ beside.first = FALSE
      /\ longer.threw = FALSE /\ longer.checkpoint = None
  BY <1>2, TurnIs DEF Shared
<1>7. /\ TickThrows(Awaited(longer)) <=> TickThrows(awaited)
      /\ Ticked(Awaited(longer)) = WithCasts(ticked, e.casts)
      /\ ticked.casts = p /\ ticked.repeat = e.repeat
      /\ ticked.idx <= Len(p) /\ ticked.no_more_rotation = FALSE
  <2>1. PICK reg \in Registry : reg = awaited
    BY <1>2
  <2> HIDE DEF awaited
  <2>2. PICK casts \in Seq(Casts) : casts = e.casts
    BY <1>1
  <2>3. PICK repeat : repeat = e.repeat
    OBVIOUS
  <2>4. Prefix(p, casts) /\ ToCome(reg, p, repeat)
    BY <1>5, <2>1, <2>2, <2>3
  <2>5. /\ TickThrows(WithCasts(reg, casts)) <=> TickThrows(reg)
        /\ Ticked(WithCasts(reg, casts)) = WithCasts(Ticked(reg), casts)
        /\ Ticked(reg).casts = p /\ Ticked(reg).repeat = repeat
        /\ Ticked(reg).idx <= Len(p) /\ Ticked(reg).no_more_rotation = FALSE
    BY <2>4, SameTick, Zenon
  <2> QED BY <1>4, <2>1, <2>2, <2>3, <2>5
<1>8. CASE TickThrows(awaited)
  <2>1. /\ next.threw = TRUE /\ next.reg = awaited /\ next.checkpoint = None
        /\ beside.threw = TRUE /\ beside.reg = Awaited(longer) /\ beside.checkpoint = None
    BY <1>6, <1>7, <1>8, TurnIs
  <2> HIDE DEF next, beside, awaited
  <2>2. Shared(next, beside, p, e)
    BY <1>4, <1>5, <1>6, <2>1 DEF Shared
  <2> QED BY <2>1, <2>2 DEF next, beside
<1>9. CASE ~TickThrows(awaited)
  <2>1. /\ Ticked(Awaited(longer)) = WithCasts(ticked, e.casts)
        /\ ticked.casts = p /\ ticked.repeat = e.repeat
        /\ ticked.idx <= Len(p) /\ ticked.no_more_rotation = FALSE
    BY <1>7
  <2>2. /\ next.threw = FALSE /\ next.reg = ticked
        /\ next.checkpoint = IF RotationStarted(ticked) THEN ticked ELSE None
    BY <1>2, <1>9, TurnIs
  <2>3. /\ beside.threw = FALSE /\ beside.reg = WithCasts(ticked, e.casts)
        /\ beside.checkpoint = IF RotationStarted(WithCasts(ticked, e.casts))
                               THEN WithCasts(ticked, e.casts) ELSE None
    BY <1>6, <1>7, <1>9, <2>1, TurnIs
  <2>4. /\ Len(p) \in Nat /\ Len(e.casts) \in Nat /\ Len(p) <= Len(e.casts) /\ ticked.idx \in Nat
    BY <1>1, <1>2, LenProperties DEF Prefix, Registry
  <2>5. /\ WithCasts(ticked, e.casts).idx = ticked.idx
        /\ WithCasts(ticked, e.casts).casts = e.casts
    BY <1>1, <1>2, WithCastsType
  <2> HIDE DEF next, beside, awaited, ticked
  <2>6. CASE RotationStarted(ticked)
    <3>1. Len(p) < Len(e.casts) => ~RotationStarted(WithCasts(ticked, e.casts))
      BY <2>1, <2>4, <2>5 DEF RotationStarted
    <3>2. next.checkpoint = ticked /\ next.checkpoint # None
      BY <1>2, <2>2, <2>6
    <3>3. Len(p) < Len(e.casts) => beside.checkpoint = None
      BY <2>3, <3>1
    <3> QED BY <1>6, <2>1, <2>3, <3>2, <3>3 DEF next, beside
  <2>7. CASE ~RotationStarted(ticked)
    <3>1. ticked.idx < Len(p)
      BY <2>1, <2>4, <2>7 DEF RotationStarted
    <3>2. ~RotationStarted(WithCasts(ticked, e.casts))
      BY <2>4, <2>5, <3>1 DEF RotationStarted
    <3>3. Shared(next, beside, p, e) /\ next.checkpoint = None
      BY <1>6, <2>1, <2>2, <2>3, <2>7, <3>1, <3>2 DEF Shared, ToCome
    <3> QED BY <3>3 DEF next, beside
  <2> QED BY <2>6, <2>7
<1> QED BY <1>8, <1>9

LEMMA PrefixRuns ==
  ASSUME NEW e \in Encounters, NEW p \in Seq(Casts), Prefix(p, e.casts),
         NEW n \in 0 .. MaxTicks
  PROVE  SharedUpTo(e, p, n)
<1> DEFINE key == CacheKey(e, p)
           G == {i \in Nat : SharedUpTo(e, p, i)}
<1>1. MaxTicks \in Nat /\ e.casts \in Seq(Casts) /\ e.repeat \in BOOLEAN
  BY RequestsAssumption DEF Encounters
<1>2. key \in Encounters /\ key.casts = p /\ key.repeat = e.repeat /\ key.stop = e.stop
  BY KeyIs
<1> HIDE DEF key
<1>3. 0 \in G
  <2>1. After(key, 0) = FreshLoop(key) /\ After(e, 0) = FreshLoop(e)
    BY AfterIs
  <2>2. Len(p) \in Nat /\ Len(p) # 0
    BY EmptySeq, LenProperties DEF Prefix
  <2>3. setup_encounter(e) = WithCasts(setup_encounter(key), e.casts)
    <3> DEFINE reg == setup_encounter(key)
               longer == WithCasts(reg, e.casts)
    <3>1. reg = [tick |-> 0, casts |-> p, repeat |-> e.repeat, idx |-> 0, animation |-> 0,
                 no_more_rotation |-> FALSE, events |-> <<>>, random |-> 0]
      BY <1>2 DEF setup_encounter
    <3>2. reg \in Registry
      BY <1>2, SetupType DEF FreshLoop, Loop, Run
    <3> HIDE DEF reg
    <3>3. /\ longer \in Registry /\ longer.casts = e.casts
          /\ longer.tick = 0 /\ longer.repeat = e.repeat /\ longer.idx = 0
          /\ longer.animation = 0 /\ longer.no_more_rotation = FALSE
          /\ longer.events = <<>> /\ longer.random = 0
      BY <1>1, <3>1, <3>2, WithCastsType
    <3> HIDE DEF longer
    <3>4. longer =
            [tick |-> 0, casts |-> e.casts, repeat |-> e.repeat, idx |-> 0, animation |-> 0,
             no_more_rotation |-> FALSE, events |-> <<>>, random |-> 0]
      BY <3>3 DEF Registry
    <3> QED BY <3>4 DEF setup_encounter, longer, reg
  <2>4. ToCome(setup_encounter(key), p, e.repeat)
    BY <1>2, <2>2 DEF setup_encounter, ToCome
  <2>5. Shared(FreshLoop(key), FreshLoop(e), p, e) /\ FreshLoop(key).checkpoint = None
    BY <2>3, <2>4 DEF Shared, FreshLoop, Loop
  <2>6. SharedUpTo(e, p, 0)
    BY <2>1, <2>5 DEF SharedUpTo, key
  <2> QED BY <2>6
<1>4. ASSUME NEW i \in Nat, i < MaxTicks, i \in G PROVE i + 1 \in G
  <2> DEFINE loop == After(key, i)
             longer == After(e, i)
             next == After(key, i + 1)
             beside == After(e, i + 1)
  <2>1. i \in 0 .. MaxTicks /\ i + 1 \in 0 .. i + 1 /\ 0 .. i \subseteq 0 .. i + 1
    BY <1>1, <1>4
  <2>2. loop \in Run /\ longer \in Run
    BY <1>2, <2>1, AfterType
  <2>3. next = Advanced(loop, e.stop) /\ beside = Advanced(longer, e.stop)
    BY <1>2, <1>4, AfterIs
  <2>4. SharedUpTo(e, p, i)
    BY <1>4
  <2> SUFFICES SharedUpTo(e, p, i + 1)
    OBVIOUS
  <2>5. CASE loop.checkpoint # None
    <3>1. next.checkpoint = loop.checkpoint
      <4> HIDE DEF loop, next
      <4> QED BY <2>2, <2>3, <2>5, AdvancedIs
    <3>2. Passed(loop.checkpoint, p, e, i)
      BY <2>4, <2>5 DEF SharedUpTo, key
    <3>3. Passed(loop.checkpoint, p, e, i + 1)
      <4> HIDE DEF loop
      <4> QED BY <2>1, <3>2 DEF Passed
    <3>4. next.checkpoint # None /\ Passed(next.checkpoint, p, e, i + 1)
      <4> HIDE DEF loop, next
      <4> QED BY <2>5, <3>1, <3>3
    <3> QED BY <3>4 DEF SharedUpTo, key
  <2>6. CASE loop.checkpoint = None
    <3>1. Shared(loop, longer, p, e)
      BY <2>4, <2>6 DEF SharedUpTo, key
    <3>2. loop.reg \in Registry
      BY <2>2 DEF Run
    <3>3. Continues(loop, e.stop) <=> Continues(longer, e.stop)
      <4> HIDE DEF loop, longer
      <4>1. continue_combat_loop(longer.reg, e.stop) <=> continue_combat_loop(loop.reg, e.stop)
        BY <1>1, <3>1, <3>2, PrefixContinues DEF Shared
      <4> QED BY <3>1, <4>1 DEF Shared, Continues
    <3>4. CASE ~Continues(loop, e.stop)
      <4>1. next = loop /\ beside = longer
        <5> HIDE DEF loop, longer, next, beside
        <5> QED BY <2>2, <2>3, <3>3, <3>4, AdvancedIs
      <4>2. next.checkpoint = None /\ Shared(next, beside, p, e)
        <5> HIDE DEF loop, longer, next, beside
        <5> QED BY <2>6, <3>1, <4>1
      <4> QED BY <4>2 DEF SharedUpTo, key
    <3>5. CASE Continues(loop, e.stop)
      <4>1. next = Turn(loop, TRUE) /\ beside = Turn(longer, TRUE)
        <5> HIDE DEF loop, longer, next, beside
        <5> QED BY <2>2, <2>3, <3>3, <3>5, AdvancedIs
      <4>2. IF next.checkpoint = None THEN Shared(next, beside, p, e)
            ELSE /\ next.checkpoint.no_more_rotation = FALSE
                 /\ next.checkpoint.repeat = e.repeat
                 /\ beside.reg = WithCasts(next.checkpoint, e.casts)
                 /\ beside.first = FALSE /\ beside.threw = FALSE
                 /\ Len(p) < Len(e.casts) => beside.checkpoint = None
        <5> HIDE DEF loop, longer, next, beside
        <5> QED BY <2>2, <2>6, <3>1, <3>5, <4>1, SharedTurn
      <4>3. next.checkpoint # None => Passed(next.checkpoint, p, e, i + 1)
        BY <2>1, <4>2 DEF Passed
      <4> QED BY <4>2, <4>3 DEF SharedUpTo, key
    <3> QED BY <3>4, <3>5
  <2> QED BY <2>5, <2>6
<1> HIDE DEF G
<1>5. 0 .. MaxTicks \subseteq G
  BY <1>1, <1>3, <1>4, InductionUpTo
<1> QED BY <1>5 DEF G

-----------------------------------------------------------------------------
(* What a cached snapshot is to a request that finds it. *)

LEMMA RequestsAre == Requests \subseteq Encounters
BY RequestsAssumption DEF Encounters, Stops, Casts

\* The key of a request has the run of the request.
LEMMA KeyRuns ==
  ASSUME NEW e \in Encounters
  PROVE  /\ UncachedRun(CacheKey(e, e.casts)) = UncachedRun(e)
         /\ CacheKey(e, e.casts).stop = e.stop
<1> DEFINE key == CacheKey(e, e.casts)
<1>1. e.casts \in Seq(Casts)
  BY DEF Encounters
<1>2. key.casts = e.casts /\ key.repeat = e.repeat /\ key.stop = e.stop
  BY <1>1, KeyIs
<1> HIDE DEF key
<1>3. FreshLoop(key) = FreshLoop(e)
  BY <1>2 DEF FreshLoop, setup_encounter
<1>4. UncachedRun(key) = UncachedRun(e)
  BY <1>2, <1>3 DEF UncachedRun
<1> QED BY <1>2, <1>4 DEF key

LEMMA RunsEnd ==
  ASSUME NEW e \in Requests
  PROVE  /\ MaxTicks \in 0 .. MaxTicks
         /\ UncachedRun(e) = After(e, MaxTicks) /\ UncachedRun(e) \in Run
         /\ ~Continues(UncachedRun(e), e.stop)
<1>1. MaxTicks \in 0 .. MaxTicks
  BY RequestsAssumption
<1>2. e \in Encounters
  BY RequestsAre
<1> QED BY <1>1, <1>2, AfterIs, AfterType, RunsFit

LEMMA PutIs ==
  ASSUME NEW loop \in Run, ReportDraws = 0
  PROVE  /\ ToPut(loop) \in Registry
         /\ loop.checkpoint # None => ToPut(loop) = loop.checkpoint
         /\ loop.checkpoint = None => ToPut(loop) = loop.reg
<1>1. loop.reg \in Registry /\ loop.checkpoint \in Registry \cup {None}
  BY DEF Run
<1>2. loop.reg.random + 0 = loop.reg.random
  BY <1>1 DEF Registry
<1>3. Reported(loop.reg) = [loop.reg EXCEPT !.random = loop.reg.random + 0]
  BY DEF Reported
<1>4. Reported(loop.reg) = loop.reg
  BY <1>1, <1>2, <1>3 DEF Registry
<1> QED BY <1>1, <1>4 DEF ToPut

\* The resumed snapshot is a registry of the request's own run.
Resumes(e, p, snapshot, n) ==
  /\ After(e, n).reg = Resumed(snapshot, e) /\ After(e, n).threw = FALSE
  /\ Continues(After(e, n), e.stop) => After(e, n).first = FALSE
  /\ p # e.casts => After(e, n).checkpoint = None

LEMMA EmptyResumes ==
  ASSUME NEW e \in Requests, e.casts = <<>>, ~UncachedRun(e).threw, ReportDraws = 0
  PROVE  \E n \in 0 .. MaxTicks : Resumes(e, e.casts, ToPut(UncachedRun(e)), n)
<1> DEFINE loop == UncachedRun(e)
           snapshot == ToPut(loop)
<1>1. /\ e \in Encounters /\ MaxTicks \in 0 .. MaxTicks /\ loop = After(e, MaxTicks)
      /\ loop \in Run /\ ~Continues(loop, e.stop) /\ loop.threw = FALSE
  BY RequestsAre, RunsEnd DEF Run
<1>2. Resumed(snapshot, e) = snapshot
  BY DEF Resumed
<1>3. CASE loop.checkpoint # None
  <2>1. Checkpointed(e, MaxTicks, After(e, MaxTicks).checkpoint)
    BY <1>1, <1>3, CheckpointIsReached
  <2>2. snapshot = After(e, MaxTicks).checkpoint
    BY <1>1, <1>3, PutIs
  <2>3. PICK m \in 0 .. MaxTicks :
                /\ After(e, m).reg = snapshot
                /\ After(e, m).first = FALSE /\ After(e, m).threw = FALSE
    BY <2>1, <2>2 DEF Checkpointed
  <2> QED BY <1>2, <2>3 DEF Resumes
<1>4. CASE loop.checkpoint = None
  <2>1. snapshot = After(e, MaxTicks).reg
    BY <1>1, <1>4, PutIs
  <2> QED BY <1>1, <1>2, <2>1 DEF Resumes
<1> QED BY <1>3, <1>4

LEMMA PrefixResumes ==
  ASSUME NEW e \in Requests, NEW p \in Seq(Casts), Prefix(p, e.casts),
         NEW other \in Requests, CacheKey(e, p) = CacheKey(other, other.casts),
         ~UncachedRun(CacheKey(e, p)).threw, ReportDraws = 0
  PROVE  \E n \in 0 .. MaxTicks : Resumes(e, p, ToPut(UncachedRun(CacheKey(e, p))), n)
<1> DEFINE key == CacheKey(e, p)
           loop == UncachedRun(key)
           snapshot == ToPut(loop)
<1>1. /\ e \in Encounters /\ other \in Encounters /\ e.casts \in Seq(Casts)
      /\ MaxTicks \in 0 .. MaxTicks
  BY RequestsAre, RunsEnd DEF Encounters
<1>2. /\ loop = UncachedRun(other) /\ key.stop = other.stop /\ key.stop = e.stop
      /\ loop = After(key, MaxTicks)
  BY <1>1, KeyRuns, KeyIs, AfterIs
<1>3. loop \in Run /\ ~Continues(loop, e.stop) /\ loop.threw = FALSE
  BY <1>2, RunsEnd DEF Run
<1>4. SharedUpTo(e, p, MaxTicks)
  BY <1>1, PrefixRuns
<1>5. p # <<>> /\ e.casts # <<>>
  BY <1>1, EmptySeq, LenProperties DEF Prefix
<1>6. Len(p) < Len(e.casts) \/ p = e.casts
  <2>1. /\ Len(p) \in Nat /\ Len(e.casts) \in Nat /\ Len(p) <= Len(e.casts)
        /\ DOMAIN p = 1 .. Len(p) /\ DOMAIN e.casts = 1 .. Len(e.casts)
    BY <1>1, LenProperties DEF Prefix
  <2>2. SUFFICES ASSUME Len(p) = Len(e.casts) PROVE p = e.casts
    BY <2>1
  <2>3. \A i \in 1 .. Len(p) : p[i] = e.casts[i]
    BY DEF Prefix
  <2> QED BY <1>1, <2>2, <2>3, SeqEqual
<1>7. CASE loop.checkpoint # None
  <2>1. Passed(loop.checkpoint, p, e, MaxTicks)
    BY <1>2, <1>4, <1>7 DEF SharedUpTo
  <2>2. snapshot = loop.checkpoint /\ snapshot \in Registry
    <3> HIDE DEF loop
    <3> QED BY <1>3, <1>7, PutIs
  <2> HIDE DEF snapshot, loop
  <2>3. Passed(snapshot, p, e, MaxTicks)
    BY <2>1, <2>2
  <2>4. Resumed(snapshot, e) = WithCasts(snapshot, e.casts)
    <3>1. snapshot.no_more_rotation = FALSE /\ snapshot.repeat = e.repeat
      BY <2>3 DEF Passed
    <3>2. Resumed(snapshot, e) = [snapshot EXCEPT !.casts = e.casts, !.repeat = e.repeat,
                                                  !.no_more_rotation = FALSE]
      BY <1>5 DEF Resumed
    <3> QED BY <2>2, <3>1, <3>2 DEF WithCasts, Registry
  <2>5. PICK m \in 0 .. MaxTicks :
                /\ After(e, m).reg = WithCasts(snapshot, e.casts)
                /\ After(e, m).first = FALSE /\ After(e, m).threw = FALSE
                /\ Len(p) < Len(e.casts) => After(e, m).checkpoint = None
    BY <2>3 DEF Passed
  <2>6. Resumes(e, p, snapshot, m)
    BY <1>6, <2>4, <2>5 DEF Resumes
  <2> QED BY <2>6 DEF snapshot, loop
<1>8. CASE loop.checkpoint = None
  <2> DEFINE longer == After(e, MaxTicks)
  <2>1. Shared(loop, longer, p, e)
    BY <1>2, <1>4, <1>8 DEF SharedUpTo
  <2>2. snapshot = loop.reg /\ snapshot \in Registry
    <3> HIDE DEF loop
    <3> QED BY <1>3, <1>8, PutIs
  <2> HIDE DEF snapshot, loop, longer
  <2>3. /\ ToCome(snapshot, p, e.repeat) /\ longer.reg = WithCasts(snapshot, e.casts)
        /\ longer.threw = FALSE /\ longer.checkpoint = None
    BY <1>3, <2>1, <2>2 DEF Shared
  <2>4. ~Continues(longer, e.stop)
    <3>1. ~continue_combat_loop(snapshot, e.stop)
      BY <1>3, <2>2 DEF Continues
    <3>2. ~continue_combat_loop(WithCasts(snapshot, e.casts), e.stop)
      BY <1>1, <2>2, <2>3, <3>1, PrefixContinues
    <3> QED BY <2>3, <3>2 DEF Continues
  <2>5. Resumed(snapshot, e) = WithCasts(snapshot, e.casts)
    <3>1. snapshot.no_more_rotation = FALSE /\ snapshot.repeat = e.repeat
      BY <2>3 DEF ToCome
    <3>2. Resumed(snapshot, e) = [snapshot EXCEPT !.casts = e.casts, !.repeat = e.repeat,
                                                  !.no_more_rotation = FALSE]
      BY <1>5 DEF Resumed
    <3> QED BY <2>2, <3>1, <3>2 DEF WithCasts, Registry
  <2>6. Resumes(e, p, snapshot, MaxTicks)
    BY <2>3, <2>4, <2>5 DEF Resumes, longer
  <2> QED BY <1>1, <2>6 DEF snapshot, loop
<1> QED BY <1>7, <1>8

-----------------------------------------------------------------------------
(* The cache: MruCache keeps its own invariant, and with room for every key *)
(* it forgets none.                                                         *)

Proved == INSTANCE MruCacheProofs
            WITH Snapshots <- Registry, DesiredMiB <- Capacities, AverageMiB <- {1}

LEMMA CacheIs ==
  CacheOK <=> Proved!Inv /\ capacity \in Capacities \cup {0}
BY DEF CacheOK, Proved!Inv, Proved!TypeOK, Proved!ListIndexesCache, Cache!ListIndexesCache,
       Proved!Range, Cache!Range, Proved!IsInjective, Cache!IsInjective

LEMMA SizesAre == Capacities \subseteq Int /\ {1} \subseteq Int
BY RequestsAssumption

LEMMA CacheInit == Cache!Init => CacheOK
<1> SUFFICES ASSUME Cache!Init PROVE CacheOK
  OBVIOUS
<1>1. Proved!Init
  BY DEF Cache!Init, Proved!Init, Cache!CapacityOf, Proved!CapacityOf
<1>2. Proved!Inv
  BY <1>1, SizesAre, Proved!InitInv
<1>3. capacity \in Capacities \cup {0}
  <2>1. PICK desired \in Capacities, average \in {1} : capacity = Cache!CapacityOf(desired, average)
    BY DEF Cache!Init
  <2>2. desired \in Int /\ average = 1
    BY <2>1, SizesAre
  <2>3. desired \div 1 = desired
    BY <2>2
  <2> QED BY <2>1, <2>2, <2>3 DEF Cache!CapacityOf
<1> QED BY <1>2, <1>3, CacheIs

LEMMA CacheGet ==
  ASSUME CacheOK, NEW key \in Keys, Cache!get(key)
  PROVE  CacheOK' /\ UNCHANGED cache
<1>1. Proved!get(key)
  BY DEF Cache!get, Proved!get, Cache!contains, Proved!contains, Cache!Erased, Proved!Erased,
         Cache!Iterator, Proved!Iterator, Cache!RemoveAt, Proved!RemoveAt
<1>2. Proved!Inv'
  BY <1>1, CacheIs, SizesAre, Proved!GetInv
<1>3. UNCHANGED <<capacity, cache>>
  BY DEF Cache!get
<1>4. capacity' \in Capacities \cup {0}
  BY <1>3 DEF CacheOK
<1>5. (CacheOK <=> Proved!Inv /\ capacity \in Capacities \cup {0})'
  BY CacheIs, PTL
<1> QED BY <1>2, <1>3, <1>4, <1>5

LEMMA CachePut ==
  ASSUME CacheOK, NEW key \in Keys, NEW value \in Registry, Cache!put(key, value)
  PROVE  /\ CacheOK'
         /\ DOMAIN cache' \subseteq DOMAIN cache \cup {key}
         /\ \A k \in DOMAIN cache' : cache'[k] = IF k = key THEN value ELSE cache[k]
         /\ NothingEvicted => DOMAIN cache \subseteq DOMAIN cache'
<1>1. Proved!put(key, value)
  BY DEF Cache!put, Proved!put, Cache!enabled, Proved!enabled, Cache!contains, Proved!contains,
         Cache!PutReplacing, Proved!PutReplacing, Cache!PutInserting, Proved!PutInserting,
         Cache!Erased, Proved!Erased, Cache!Iterator, Proved!Iterator,
         Cache!RemoveAt, Proved!RemoveAt, Cache!Kept, Proved!Kept, Cache!Dropped, Proved!Dropped
<1>2. Proved!Inv'
  BY <1>1, CacheIs, SizesAre, Proved!PutInv
<1>3. UNCHANGED capacity /\ capacity # 0 /\ capacity \in Nat /\ capacity \in Capacities \cup {0}
  BY DEF Cache!put, Cache!enabled, CacheOK
<1>4. capacity' \in Capacities \cup {0}
  BY <1>3
<1>5. (CacheOK <=> Proved!Inv /\ capacity \in Capacities \cup {0})'
  BY CacheIs, PTL
<1>6. CacheOK'
  BY <1>2, <1>4, <1>5
<1>7. CASE Cache!PutReplacing(key, value)
  <2>1. key \in DOMAIN cache /\ cache' = [cache EXCEPT ![key] = value]
    BY <1>7 DEF Cache!PutReplacing, Cache!contains
  <2> QED BY <1>6, <2>1
<1>8. CASE Cache!PutInserting(key, value)
  <2> DEFINE kept == (DOMAIN cache \ Cache!Dropped(capacity - 1)) \cup {key}
  <2>1. /\ key \notin DOMAIN cache
        /\ cache' = [k \in kept |-> IF k = key THEN value ELSE cache[k]]
    BY <1>8 DEF Cache!PutInserting, Cache!contains
  <2>2. ASSUME NothingEvicted PROVE DOMAIN cache \subseteq kept
    <3>1. IsFiniteSet(Keys) /\ capacity > 0 /\ Cardinality(Keys) <= capacity
      BY <1>3, <2>2 DEF NothingEvicted
    <3>2. /\ IsFiniteSet(DOMAIN cache) /\ Cardinality(DOMAIN cache) \in Nat
          /\ Cardinality(Keys) \in Nat
          /\ Cardinality(DOMAIN cache) <= Cardinality(Keys)
          /\ Cardinality(DOMAIN cache) # Cardinality(Keys)
      <4>1. DOMAIN cache \in SUBSET Keys /\ DOMAIN cache # Keys
        BY <2>1 DEF CacheOK
      <4> QED BY <3>1, <4>1, FS_Subset, FS_CardinalityType
    <3> DEFINE positions == 1 .. Len(mru_list)
    <3>3. /\ Len(mru_list) \in Nat /\ DOMAIN mru_list = positions
          /\ \A i \in positions : mru_list[i] \in DOMAIN cache
          /\ \A i, j \in positions : mru_list[i] = mru_list[j] => i = j
      BY LenProperties DEF CacheOK, Cache!ListIndexesCache, Cache!Range, Cache!IsInjective
    <3>4. mru_list \in [positions -> DOMAIN cache]
      BY <3>3, LenProperties DEF CacheOK
    <3>5. IsFiniteSet(positions) /\ Cardinality(positions) = Len(mru_list)
      BY <3>3, FS_Interval
    <3>6. Len(mru_list) <= Cardinality(DOMAIN cache)
      <4>1. mru_list \in Injection(positions, DOMAIN cache)
        BY <3>3, <3>4 DEF Injection, IsInjective
      <4> QED BY <3>2, <3>5, <4>1, FS_Injection
    <3>7. Len(mru_list) <= capacity - 1
      BY <1>3, <3>1, <3>2, <3>3, <3>6
    <3>8. Cache!Dropped(capacity - 1) = {}
      BY <1>3, <3>3, <3>7 DEF Cache!Dropped
    <3> QED BY <3>8
  <2> HIDE DEF kept
  <2>3. kept \subseteq DOMAIN cache \cup {key}
    BY DEF kept
  <2> QED BY <1>6, <2>1, <2>2, <2>3
<1> QED BY <1>7, <1>8 DEF Cache!put

-----------------------------------------------------------------------------
(* One thread takes a step. *)

LEMMA MoreKeys ==
  ASSUME NEW at, NEW e, NEW p, NEW loop, NEW needed, NEW reply, NEW keys, NEW more,
         keys \subseteq more, Consistent(at, e, p, loop, needed, reply, keys)
  PROVE  Consistent(at, e, p, loop, needed, reply, more)
<1>1. ASSUME NEW n \in 0 .. MaxTicks, Follows(loop, After(e, n), at, e, needed, keys)
      PROVE  Follows(loop, After(e, n), at, e, needed, more)
  BY <1>1 DEF Follows
<1> QED BY <1>1 DEF Consistent

OnlyMoves(t) ==
  \A u \in Threads \ {t} :
    /\ pc'[u] = pc[u] /\ request'[u] = request[u] /\ prefix'[u] = prefix[u]
    /\ run'[u] = run[u] /\ need'[u] = need[u] /\ report'[u] = report[u]

LEMMA StepKeepsInv ==
  ASSUME Inv, NEW t \in Threads, OnlyMoves(t), Types', CacheOK', CanonicalEntries', ThreadOK(t)',
         SingleThread \/ DOMAIN cache \subseteq DOMAIN cache'
  PROVE  Inv'
<1>1. ASSUME NEW u \in Threads, u # t PROVE ThreadOK(u)'
  <2>1. DOMAIN cache \subseteq DOMAIN cache'
    BY <1>1 DEF SingleThread
  <2>2. Consistent(pc[u], request[u], prefix[u], run[u], need[u], report[u], DOMAIN cache)
    BY <1>1 DEF Inv, ThreadOK
  <2>3. Consistent(pc[u], request[u], prefix[u], run[u], need[u], report[u], DOMAIN cache')
    BY <2>1, <2>2, MoreKeys
  <2>4. /\ pc'[u] = pc[u] /\ request'[u] = request[u] /\ prefix'[u] = prefix[u]
        /\ run'[u] = run[u] /\ need'[u] = need[u] /\ report'[u] = report[u]
    BY <1>1 DEF OnlyMoves
  <2> QED BY <2>3, <2>4 DEF ThreadOK
<1> QED BY <1>1 DEF Inv

\* Steps that leave the map as it is.
LEMMA LocalStepKeepsInv ==
  ASSUME Inv, NEW t \in Threads, OnlyMoves(t), Types', CacheOK', UNCHANGED cache, ThreadOK(t)'
  PROVE  Inv'
<1>1. CanonicalEntries'
  BY DEF Inv, CanonicalEntries
<1> QED BY <1>1, StepKeepsInv

LEMMA UnchangedCache == CacheOK /\ UNCHANGED shared => CacheOK'
BY DEF CacheOK, shared, Cache!ListIndexesCache

\* A loop that starts at tick zero.
LEMMA FreshFollows ==
  ASSUME NEW e \in Requests, NEW at \in {"check", "run"}, NEW needed, NEW keys
  PROVE  /\ FreshLoop(e) \in Run
         /\ \E n \in 0 .. MaxTicks : Follows(FreshLoop(e), After(e, n), at, e, needed, keys)
<1>1. After(e, 0) = FreshLoop(e) /\ FreshLoop(e) \in Run /\ 0 \in 0 .. MaxTicks
  BY AfterIs, SetupType, RequestsAre, RequestsAssumption
<1>2. FreshLoop(e).checkpoint = None
  BY DEF FreshLoop, Loop
<1>3. Follows(FreshLoop(e), After(e, 0), at, e, needed, keys)
  BY <1>1, <1>2 DEF Follows
<1> QED BY <1>1, <1>3

LEMMA ReceiveInv ==
  ASSUME Inv, NEW t \in Threads, NEW e \in Requests, ReceiveCached(t, e) \/ ReceiveUncached(t, e)
  PROVE  Inv'
<1>1. /\ Types /\ CacheOK /\ pc[t] = "idle" /\ run[t] = None /\ report[t] = None
      /\ UNCHANGED <<shared, need, report>>
  BY DEF Inv, ThreadOK, Consistent, ReceiveCached, ReceiveUncached
<1>2. CacheOK' /\ UNCHANGED cache
  BY <1>1, UnchangedCache DEF shared
<1>3. e.casts \in Seq(Casts)
  BY RequestsAre DEF Encounters
<1>4. CASE ReceiveCached(t, e)
  <2>1. /\ request' = [request EXCEPT ![t] = e] /\ prefix' = [prefix EXCEPT ![t] = e.casts]
        /\ pc' = [pc EXCEPT ![t] = "lookup"] /\ UNCHANGED run
    BY <1>4 DEF ReceiveCached, Goto
  <2>2. Types' /\ OnlyMoves(t)
    BY <1>1, <1>3, <2>1 DEF Types, OnlyMoves
  <2>3. /\ pc'[t] = "lookup" /\ request'[t] = e /\ prefix'[t] = e.casts /\ run'[t] = None
        /\ report'[t] = None
    BY <1>1, <2>1 DEF Types
  <2>4. ThreadOK(t)'
    BY <2>3 DEF ThreadOK, Consistent
  <2> QED BY <1>2, <2>2, <2>4, LocalStepKeepsInv
<1>5. CASE ReceiveUncached(t, e)
  <2>1. /\ request' = [request EXCEPT ![t] = e] /\ run' = [run EXCEPT ![t] = FreshLoop(e)]
        /\ pc' = [pc EXCEPT ![t] = "run"] /\ UNCHANGED prefix
    BY <1>5 DEF ReceiveUncached, Goto
  <2>2. /\ FreshLoop(e) \in Run
        /\ \E n \in 0 .. MaxTicks :
             Follows(FreshLoop(e), After(e, n), "run", e, need'[t], DOMAIN cache')
    BY FreshFollows
  <2>3. Types' /\ OnlyMoves(t)
    BY <1>1, <2>1, <2>2 DEF Types, OnlyMoves
  <2>4. /\ pc'[t] = "run" /\ request'[t] = e /\ run'[t] = FreshLoop(e) /\ report'[t] = None
    BY <1>1, <2>1 DEF Types
  <2>5. ThreadOK(t)'
    BY <2>2, <2>4 DEF ThreadOK, Consistent
  <2> QED BY <1>2, <2>3, <2>5, LocalStepKeepsInv
<1> QED BY <1>4, <1>5

\* A loop that resumes the snapshot of a prefix.
LEMMA HitFollows ==
  ASSUME NEW e \in Requests, NEW p \in Seq(Casts), p = e.casts \/ Prefix(p, e.casts),
         CacheKey(e, p) \in Keys, ~UncachedRun(CacheKey(e, p)).threw, ReportDraws = 0,
         NEW snapshot, snapshot = ToPut(UncachedRun(CacheKey(e, p))),
         NEW needed, NEW keys, CacheKey(e, p) \in keys
  PROVE  LET loop == Loop(Resumed(snapshot, e), FALSE)
         IN  /\ loop \in Run
             /\ \E n \in 0 .. MaxTicks : Follows(loop, After(e, n), "check", e, needed, keys)
<1>1. e \in Encounters /\ e.casts \in Seq(Casts)
  BY RequestsAre DEF Encounters
<1>2. PICK other \in Requests : CacheKey(e, p) = CacheKey(other, other.casts)
  BY DEF Keys
<1>3. \E n \in 0 .. MaxTicks : Resumes(e, p, snapshot, n)
  <2>1. CASE Prefix(p, e.casts)
    BY <1>2, <2>1, PrefixResumes
  <2>2. CASE p = e.casts /\ e.casts = <<>>
    <3>1. UncachedRun(CacheKey(e, p)) = UncachedRun(e)
      BY <1>1, <2>2, KeyRuns
    <3> QED BY <2>2, <3>1, EmptyResumes
  <2>3. CASE p = e.casts /\ e.casts # <<>>
    <3>1. Prefix(p, e.casts)
      BY <1>1, <2>3, LenProperties DEF Prefix
    <3> QED BY <2>1, <3>1
  <2> QED BY <2>1, <2>2, <2>3
<1>4. PICK n \in 0 .. MaxTicks : Resumes(e, p, snapshot, n)
  BY <1>3
<1>5. PICK after : after = After(e, n)
  OBVIOUS
<1>6. PICK loop : loop = Loop(Resumed(snapshot, e), FALSE)
  OBVIOUS
<1>7. /\ after.reg = Resumed(snapshot, e) /\ after.threw = FALSE /\ after \in Run
      /\ Continues(after, e.stop) => after.first = FALSE
      /\ p # e.casts => after.checkpoint = None
  BY <1>1, <1>4, <1>5, AfterType DEF Resumes
<1>8. /\ loop.reg = after.reg /\ loop.first = FALSE /\ loop.threw = FALSE
      /\ loop.checkpoint = None /\ loop \in Run
  <2>1. after.reg \in Registry
    BY <1>7 DEF Run
  <2> QED BY <1>6, <1>7, <2>1 DEF Loop, Run
<1>9. CacheKey(e, e.casts) \notin keys => p # e.casts
  OBVIOUS
<1>10. Follows(loop, after, "check", e, needed, keys)
  BY <1>7, <1>8, <1>9 DEF Follows
<1> QED BY <1>4, <1>5, <1>6, <1>8, <1>10

LEMMA LookupHitInv ==
  ASSUME Inv, ReportDraws = 0, NEW t \in Threads, LookupHit(t)
  PROVE  Inv'
<1>1. PICK e \in Requests : e = request[t]
  BY DEF Inv, ThreadOK, Consistent, LookupHit
<1>2. PICK p \in Seq(Casts) : p = prefix[t]
  BY DEF Inv, Types
<1>3. /\ Types /\ CacheOK /\ CanonicalEntries /\ report[t] = None
      /\ p = e.casts \/ Prefix(p, e.casts)
  BY <1>1, <1>2 DEF Inv, ThreadOK, Consistent, LookupHit
<1>4. PICK key : key = CacheKey(e, p)
  OBVIOUS
<1>5. PICK loop : loop = Loop(Resumed(cache[key], e), FALSE)
  OBVIOUS
<1>6. /\ key \in DOMAIN cache /\ Cache!get(key) /\ UNCHANGED <<request, need, report>>
      /\ run' = [run EXCEPT ![t] = loop] /\ prefix' = [prefix EXCEPT ![t] = <<>>]
      /\ pc' = [pc EXCEPT ![t] = "check"]
  BY <1>1, <1>2, <1>4, <1>5 DEF LookupHit, Goto, Cache!contains
<1>7. key \in Keys
  BY <1>3, <1>6 DEF CacheOK
<1>8. CacheOK' /\ UNCHANGED cache
  BY <1>3, <1>6, <1>7, CacheGet
<1>9. ~UncachedRun(key).threw /\ cache[key] = ToPut(UncachedRun(key))
  BY <1>3, <1>6 DEF CanonicalEntries
<1>10. key \in DOMAIN cache'
  BY <1>6, <1>8
<1>11. PICK snapshot : snapshot = cache[key]
  OBVIOUS
<1>12. PICK needed : needed = need'[t]
  OBVIOUS
<1>13. PICK keys : keys = DOMAIN cache'
  OBVIOUS
<1>14. /\ loop \in Run
       /\ \E n \in 0 .. MaxTicks : Follows(loop, After(e, n), "check", e, needed, keys)
  BY <1>3, <1>4, <1>5, <1>7, <1>9, <1>10, <1>11, <1>13, HitFollows
<1>15. Types' /\ OnlyMoves(t)
  <2>1. <<>> \in Seq(Casts)
    BY EmptySeq
  <2> QED BY <1>3, <1>6, <1>14, <2>1 DEF Types, OnlyMoves
<1>16. /\ pc'[t] = "check" /\ request'[t] = e /\ run'[t] = loop /\ report'[t] = None
  BY <1>1, <1>3, <1>6 DEF Types
<1>17. ThreadOK(t)'
  BY <1>12, <1>13, <1>14, <1>16 DEF ThreadOK, Consistent
<1> QED BY <1>8, <1>15, <1>17, LocalStepKeepsInv

LEMMA ShorterPrefix ==
  ASSUME NEW casts \in Seq(Casts), NEW p \in Seq(Casts), p # <<>>, p = casts \/ Prefix(p, casts)
  PROVE  /\ Front(p) \in Seq(Casts)
         /\ Front(p) # <<>> => Prefix(Front(p), casts)
<1>1. /\ Len(p) \in Nat \ {0} /\ Len(p) <= Len(casts) /\ Len(casts) \in Nat
      /\ \A i \in 1 .. Len(p) : p[i] = casts[i]
  BY EmptySeq, LenProperties DEF Prefix
<1>2. \A i \in 1 .. Len(p) - 1 : p[i] \in Casts
  BY <1>1, ElementOfSeq
<1>3. /\ Front(p) \in Seq(Casts) /\ Len(Front(p)) = Len(p) - 1
      /\ \A i \in 1 .. Len(p) - 1 : Front(p)[i] = p[i]
  <2> PICK n \in Nat : n = Len(p) - 1
    BY <1>1
  <2>1. /\ SubSeq(p, 1, n) \in Seq(Casts) /\ Len(SubSeq(p, 1, n)) = IF 1 <= n THEN n - 1 + 1 ELSE 0
        /\ \A i \in 1 .. n - 1 + 1 : SubSeq(p, 1, n)[i] = p[1 + i - 1]
    BY <1>2, SubSeqProperties
  <2>2. Front(p) = SubSeq(p, 1, n)
    BY DEF Front
  <2>3. \A i \in 1 .. n : SubSeq(p, 1, n)[i] = p[i]
    BY <2>1
  <2> QED BY <2>1, <2>2, <2>3
<1> QED BY <1>1, <1>3 DEF Prefix

LEMMA LookupMissInv ==
  ASSUME Inv, NEW t \in Threads, LookupMiss(t)
  PROVE  Inv'
<1>1. PICK e \in Requests : e = request[t]
  BY DEF Inv, ThreadOK, Consistent, LookupMiss
<1>2. PICK p \in Seq(Casts) : p = prefix[t]
  BY DEF Inv, Types
<1>3. PICK shorter : shorter = IF p = <<>> THEN <<>> ELSE Front(p)
  OBVIOUS
<1>4. /\ Types /\ CacheOK /\ pc[t] = "lookup" /\ report[t] = None /\ run[t] = None
      /\ p = e.casts \/ Prefix(p, e.casts)
  BY <1>1, <1>2 DEF Inv, ThreadOK, Consistent, LookupMiss
<1>5. e.casts \in Seq(Casts)
  BY RequestsAre DEF Encounters
<1>6. shorter \in Seq(Casts) /\ (shorter # <<>> => Prefix(shorter, e.casts))
  BY <1>3, <1>4, <1>5, ShorterPrefix, EmptySeq
<1>7. /\ UNCHANGED shared /\ UNCHANGED <<request, need, report>>
      /\ prefix' = [prefix EXCEPT ![t] = shorter]
  BY <1>2, <1>3 DEF LookupMiss, Cache!get, shared
<1>8. CacheOK' /\ UNCHANGED cache
  BY <1>4, <1>7, UnchangedCache DEF shared
<1>9. CASE shorter # <<>>
  <2>1. UNCHANGED <<pc, run>>
    BY <1>2, <1>3, <1>9 DEF LookupMiss
  <2>2. Types' /\ OnlyMoves(t)
    BY <1>4, <1>6, <1>7, <2>1 DEF Types, OnlyMoves
  <2>3. /\ pc'[t] = "lookup" /\ request'[t] = e /\ prefix'[t] = shorter /\ run'[t] = None
        /\ report'[t] = None
    BY <1>1, <1>4, <1>7, <2>1 DEF Types
  <2>4. ThreadOK(t)'
    BY <1>6, <1>9, <2>3 DEF ThreadOK, Consistent
  <2> QED BY <1>8, <2>2, <2>4, LocalStepKeepsInv
<1>10. CASE shorter = <<>>
  <2>1. run' = [run EXCEPT ![t] = FreshLoop(e)] /\ pc' = [pc EXCEPT ![t] = "check"]
    BY <1>1, <1>2, <1>3, <1>10 DEF LookupMiss, Goto
  <2>2. PICK needed : needed = need'[t]
    OBVIOUS
  <2>3. PICK keys : keys = DOMAIN cache'
    OBVIOUS
  <2>4. /\ FreshLoop(e) \in Run
        /\ \E n \in 0 .. MaxTicks : Follows(FreshLoop(e), After(e, n), "check", e, needed, keys)
    BY FreshFollows
  <2>5. Types' /\ OnlyMoves(t)
    BY <1>4, <1>6, <1>7, <2>1, <2>4 DEF Types, OnlyMoves
  <2>6. /\ pc'[t] = "check" /\ request'[t] = e /\ run'[t] = FreshLoop(e) /\ report'[t] = None
    BY <1>1, <1>4, <1>7, <2>1 DEF Types
  <2>7. ThreadOK(t)'
    BY <2>2, <2>3, <2>4, <2>6 DEF ThreadOK, Consistent
  <2> QED BY <1>8, <2>5, <2>7, LocalStepKeepsInv
<1> QED BY <1>9, <1>10

\* Steps of a thread that has a loop: the facts its step starts from.
LEMMA RunningThread ==
  ASSUME Inv, NEW t \in Threads, pc[t] \in {"check", "run", "put", "return"}
  PROVE  \E e \in Requests, loop \in Run, after \in Run, n \in 0 .. MaxTicks :
           /\ e = request[t] /\ loop = run[t] /\ after = After(e, n)
           /\ Follows(loop, after, pc[t], e, need[t], DOMAIN cache)
<1>1. PICK e \in Requests : e = request[t]
  BY DEF Inv, ThreadOK, Consistent
<1>2. PICK loop \in Run : loop = run[t]
  BY DEF Inv, ThreadOK, Consistent
<1>3. PICK n \in 0 .. MaxTicks : Follows(loop, After(e, n), pc[t], e, need[t], DOMAIN cache)
  BY <1>1, <1>2 DEF Inv, ThreadOK, Consistent
<1>4. After(e, n) \in Run
  BY AfterType, RequestsAre
<1> QED BY <1>1, <1>2, <1>3, <1>4

LEMMA CheckNeedInv ==
  ASSUME Inv, NEW t \in Threads, CheckNeed(t)
  PROVE  Inv'
<1>1. /\ Types /\ CacheOK /\ pc[t] = "check" /\ report[t] = None
      /\ UNCHANGED shared /\ UNCHANGED <<request, prefix, run, report>>
      /\ pc' = [pc EXCEPT ![t] = "run"]
  BY DEF Inv, ThreadOK, Consistent, CheckNeed, Goto
<1>2. PICK e \in Requests, loop \in Run, after \in Run, n \in 0 .. MaxTicks :
        /\ e = request[t] /\ loop = run[t] /\ after = After(e, n)
        /\ Follows(loop, after, "check", e, need[t], DOMAIN cache)
  BY <1>1, RunningThread
<1>3. PICK needed \in BOOLEAN : needed = (CacheKey(e, e.casts) \notin DOMAIN cache)
  OBVIOUS
<1>4. need' = [need EXCEPT ![t] = needed]
  BY <1>2, <1>3 DEF CheckNeed, Cache!contains
<1>5. CacheOK' /\ UNCHANGED cache
  BY <1>1, UnchangedCache DEF shared
<1>6. PICK keys : keys = DOMAIN cache'
  OBVIOUS
<1>7. Follows(loop, after, "run", e, needed, keys)
  BY <1>2, <1>3 DEF Follows
<1>8. Types' /\ OnlyMoves(t)
  BY <1>1, <1>4 DEF Types, OnlyMoves
<1>9. /\ pc'[t] = "run" /\ request'[t] = e /\ run'[t] = loop /\ report'[t] = None
      /\ need'[t] = needed
  BY <1>1, <1>2, <1>4 DEF Types
<1>10. ThreadOK(t)'
  BY <1>2, <1>6, <1>7, <1>9 DEF ThreadOK, Consistent
<1> QED BY <1>5, <1>8, <1>10, LocalStepKeepsInv

\* Two loops over the same registry stay together.
LEMMA TurnFollows ==
  ASSUME NEW e \in Requests, NEW loop \in Run, NEW after \in Run, NEW needed \in BOOLEAN,
         NEW keys, Follows(loop, after, "run", e, needed, keys), Continues(loop, e.stop)
  PROVE  /\ Continues(after, e.stop)
         /\ Follows(Turn(loop, needed), Turn(after, TRUE), "run", e, needed, keys)
<1>1. loop.reg = after.reg /\ loop.threw = after.threw
  BY DEF Follows
<1>2. Continues(after, e.stop)
  BY <1>1 DEF Continues
<1>3. loop.first = after.first /\ (needed => loop.checkpoint = after.checkpoint)
  BY <1>2 DEF Follows
<1>4. Awaited(loop) = Awaited(after)
  BY <1>1, <1>3 DEF Awaited
<1>5. PICK next : next = Turn(loop, needed)
  OBVIOUS
<1>6. PICK beside : beside = Turn(after, TRUE)
  OBVIOUS
<1>7. next.first = FALSE /\ beside.first = FALSE
  BY <1>5, <1>6, TurnIs
<1>8. CASE TickThrows(Awaited(loop))
  <2>1. /\ next.threw = TRUE /\ next.reg = Awaited(loop) /\ next.checkpoint = loop.checkpoint
    BY <1>5, <1>8, TurnIs
  <2>2. /\ beside.threw = TRUE /\ beside.reg = Awaited(after)
        /\ beside.checkpoint = after.checkpoint
    BY <1>4, <1>6, <1>8, TurnIs
  <2>3. needed => next.checkpoint = beside.checkpoint
    BY <1>3, <2>1, <2>2
  <2>4. Follows(next, beside, "run", e, needed, keys)
    BY <1>4, <1>7, <2>1, <2>2, <2>3 DEF Follows
  <2> QED BY <1>2, <1>5, <1>6, <2>4, Zenon
<1>9. CASE ~TickThrows(Awaited(loop))
  <2> PICK ticked : ticked = Ticked(Awaited(loop))
    OBVIOUS
  <2>1. /\ next.threw = loop.threw /\ next.reg = ticked
        /\ next.checkpoint = IF needed /\ loop.checkpoint = None /\ RotationStarted(ticked)
                             THEN ticked ELSE loop.checkpoint
    BY <1>5, <1>9, TurnIs
  <2>2. /\ beside.threw = after.threw /\ beside.reg = ticked
        /\ beside.checkpoint = IF after.checkpoint = None /\ RotationStarted(ticked)
                               THEN ticked ELSE after.checkpoint
    <3>1. /\ Turn(after, TRUE).threw = after.threw
          /\ Turn(after, TRUE).reg = Ticked(Awaited(after))
          /\ Turn(after, TRUE).checkpoint =
               IF TRUE /\ after.checkpoint = None /\ RotationStarted(Ticked(Awaited(after)))
               THEN Ticked(Awaited(after)) ELSE after.checkpoint
      BY <1>4, <1>9, TurnIs
    <3> QED BY <1>4, <1>6, <3>1
  <2>3. needed => next.checkpoint = beside.checkpoint
    BY <1>3, <2>1, <2>2
  <2>4. Follows(next, beside, "run", e, needed, keys)
    BY <1>1, <1>7, <2>1, <2>2, <2>3 DEF Follows
  <2> QED BY <1>2, <1>5, <1>6, <2>4, Zenon
<1> QED BY <1>8, <1>9

LEMMA TickInv ==
  ASSUME Inv, NEW t \in Threads, Tick(t)
  PROVE  Inv'
<1>1. /\ Types /\ CacheOK /\ pc[t] = "run" /\ report[t] = None
      /\ UNCHANGED shared /\ UNCHANGED <<pc, request, prefix, need, report>>
  BY DEF Inv, ThreadOK, Consistent, Tick
<1>2. PICK e \in Requests, loop \in Run, after \in Run, n \in 0 .. MaxTicks :
        /\ e = request[t] /\ loop = run[t] /\ after = After(e, n)
        /\ Follows(loop, after, "run", e, need[t], DOMAIN cache)
  BY <1>1, RunningThread
<1>3. PICK needed \in BOOLEAN : needed = need[t]
  BY <1>1 DEF Types
<1>4. PICK keys : keys = DOMAIN cache
  OBVIOUS
<1>5. PICK next : next = Turn(loop, needed)
  OBVIOUS
<1>6. Continues(loop, e.stop) /\ run' = [run EXCEPT ![t] = next]
  BY <1>2, <1>3, <1>5 DEF Tick
<1>7. next \in Run
  BY <1>5, TurnIs
<1>8. Continues(after, e.stop) /\ Follows(next, Turn(after, TRUE), "run", e, needed, keys)
  <2>1. Follows(loop, after, "run", e, needed, keys)
    BY <1>2, <1>3, <1>4
  <2>2. /\ Continues(after, e.stop)
        /\ Follows(Turn(loop, needed), Turn(after, TRUE), "run", e, needed, keys)
    BY <1>6, <2>1, TurnFollows
  <2> QED BY <1>5, <2>2
<1>9. n \in Nat /\ n < MaxTicks /\ n + 1 \in 0 .. MaxTicks
  <2>1. n # MaxTicks
    BY <1>2, <1>8, RunsEnd
  <2> QED BY <2>1, RequestsAssumption
<1>10. After(e, n + 1) = Turn(after, TRUE)
  BY <1>2, <1>8, <1>9, AfterIs DEF Advanced
<1>11. CacheOK' /\ UNCHANGED cache
  BY <1>1, UnchangedCache DEF shared
<1>12. Types' /\ OnlyMoves(t)
  BY <1>1, <1>6, <1>7 DEF Types, OnlyMoves
<1>13. /\ pc'[t] = "run" /\ request'[t] = e /\ run'[t] = next /\ report'[t] = None
       /\ need'[t] = needed /\ DOMAIN cache' = keys
  BY <1>1, <1>2, <1>3, <1>4, <1>6, <1>11 DEF Types
<1>14. \E m \in 0 .. MaxTicks : Follows(next, After(e, m), "run", e, needed, keys)
  BY <1>8, <1>9, <1>10
<1>15. ThreadOK(t)'
  BY <1>7, <1>13, <1>14 DEF ThreadOK, Consistent
<1> QED BY <1>11, <1>12, <1>15, LocalStepKeepsInv

LEMMA ReportType ==
  ASSUME NEW loop \in Run, NEW e \in Requests
  PROVE  Report(loop, e) \in Reply
<1>1. /\ loop.reg.events \in Seq(Casts \X Nat \X Nat) /\ loop.reg.tick \in Nat
      /\ loop.threw \in BOOLEAN /\ e.audit_offset \in Nat /\ loop.reg.random \in Nat
  BY RequestsAre DEF Run, Registry, Encounters, Casts
<1>2. PICK first \in Nat : first = e.audit_offset + 1
  BY <1>1
<1>3. PICK events \in Seq(Casts \X Nat \X Nat) : events = loop.reg.events
  BY <1>1
<1>4. PICK last \in Nat : last = Len(events)
  BY LenProperties
<1>5. \A i \in first .. last : events[i] \in Casts \X Nat \X Nat
  <2> TAKE i \in first .. last
  <2>1. i \in 1 .. Len(events)
    BY <1>1, <1>2, <1>4
  <2> QED BY <2>1, ElementOfSeq
<1>6. SubSeq(events, first, last) \in Seq(Casts \X Nat \X Nat)
  BY <1>5, SubSeqProperties
<1>7. Report(loop, e) =
        [tick |-> loop.reg.tick, events |-> SubSeq(events, first, last),
         roll |-> IF ReportDraws = 0 THEN None ELSE loop.reg.random, error |-> loop.threw]
  BY <1>2, <1>3, <1>4 DEF Report
<1> QED BY <1>1, <1>6, <1>7 DEF Reply, Casts

LEMMA FinishInv ==
  ASSUME Inv, ReportDraws = 0, NEW t \in Threads, Finish(t)
  PROVE  Inv'
<1>1. /\ Types /\ CacheOK /\ pc[t] = "run"
      /\ UNCHANGED shared /\ UNCHANGED <<request, prefix, run, need>>
  BY DEF Inv, Finish
<1>2. PICK e \in Requests, loop \in Run, after \in Run, n \in 0 .. MaxTicks :
        /\ e = request[t] /\ loop = run[t] /\ after = After(e, n)
        /\ Follows(loop, after, "run", e, need[t], DOMAIN cache)
  BY <1>1, RunningThread
<1>3. PICK needed \in BOOLEAN : needed = need[t]
  BY <1>1 DEF Types
<1>4. PICK keys : keys = DOMAIN cache
  OBVIOUS
<1>5. PICK label \in {"put", "return"} :
        label = IF needed /\ ~loop.threw THEN "put" ELSE "return"
  OBVIOUS
<1>6. /\ ~Continues(loop, e.stop)
      /\ report' = [report EXCEPT ![t] = Report(loop, e)] /\ pc' = [pc EXCEPT ![t] = label]
  BY <1>2, <1>3, <1>5 DEF Finish, Goto
<1>7. loop.reg = after.reg /\ loop.threw = after.threw
  BY <1>2 DEF Follows
<1>8. ~Continues(after, e.stop)
  BY <1>6, <1>7 DEF Continues
<1>9. UncachedRun(e) = after
  BY <1>2, <1>8, StoppedStays, RequestsAre
<1>10. Report(loop, e) = Report(UncachedRun(e), e)
  BY <1>7, <1>9 DEF Report
<1>11. Report(loop, e) \in Reply
  BY ReportType
<1>12. Follows(loop, after, label, e, needed, keys)
  BY <1>2, <1>3, <1>4, <1>8 DEF Follows
<1>13. CacheOK' /\ UNCHANGED cache
  BY <1>1, UnchangedCache DEF shared
<1>14. Types' /\ OnlyMoves(t)
  BY <1>1, <1>6, <1>11 DEF Types, OnlyMoves
<1>15. /\ pc'[t] = label /\ request'[t] = e /\ run'[t] = loop /\ report'[t] = Report(loop, e)
       /\ need'[t] = needed /\ DOMAIN cache' = keys
  BY <1>1, <1>2, <1>3, <1>4, <1>6, <1>13 DEF Types
<1>16. label = "put" => needed /\ ~loop.threw
  BY <1>5
<1>17. \E m \in 0 .. MaxTicks : Follows(loop, After(e, m), label, e, needed, keys)
  BY <1>2, <1>12
<1>18. ThreadOK(t)'
  BY <1>10, <1>15, <1>16, <1>17 DEF ThreadOK, Consistent
<1> QED BY <1>13, <1>14, <1>18, LocalStepKeepsInv

LEMMA PutInv ==
  ASSUME Inv, ReportDraws = 0, SingleThread \/ NothingEvicted, NEW t \in Threads, Put(t)
  PROVE  Inv'
<1>1. /\ Types /\ CacheOK /\ CanonicalEntries /\ pc[t] = "put"
      /\ UNCHANGED <<request, prefix, run, need, report>> /\ pc' = [pc EXCEPT ![t] = "return"]
  BY DEF Inv, Put, Goto
<1>2. PICK e \in Requests, loop \in Run, after \in Run, n \in 0 .. MaxTicks :
        /\ e = request[t] /\ loop = run[t] /\ after = After(e, n)
        /\ Follows(loop, after, "put", e, need[t], DOMAIN cache)
  BY <1>1, RunningThread
<1>3. need[t] /\ ~loop.threw /\ report[t] = Report(UncachedRun(e), e)
  BY <1>1, <1>2 DEF Inv, ThreadOK, Consistent
<1>4. /\ loop.reg = after.reg /\ loop.threw = after.threw
      /\ loop.checkpoint = after.checkpoint /\ ~Continues(after, e.stop)
  BY <1>2, <1>3 DEF Follows
<1>5. UncachedRun(e) = after
  BY <1>2, <1>4, StoppedStays, RequestsAre
<1>6. PICK key \in Keys : key = CacheKey(e, e.casts)
  BY DEF Keys
<1>7. UncachedRun(key) = after
  BY <1>5, <1>6, KeyRuns, RequestsAre
<1>8. PICK value \in Registry : value = ToPut(loop) /\ value = ToPut(after)
  <2>1. ToPut(loop) = ToPut(after)
    BY <1>4 DEF ToPut
  <2> QED BY <2>1, PutIs
<1>9. Cache!put(key, value)
  BY <1>2, <1>6, <1>8 DEF Put
<1>10. /\ CacheOK' /\ DOMAIN cache' \subseteq DOMAIN cache \cup {key}
       /\ \A k \in DOMAIN cache' : cache'[k] = IF k = key THEN value ELSE cache[k]
       /\ NothingEvicted => DOMAIN cache \subseteq DOMAIN cache'
  BY <1>1, <1>9, CachePut
<1>11. CanonicalEntries'
  <2> SUFFICES ASSUME NEW k \in DOMAIN cache'
               PROVE  ~UncachedRun(k).threw /\ cache'[k] = ToPut(UncachedRun(k))
    BY DEF CanonicalEntries
  <2>1. CASE k = key
    BY <1>3, <1>4, <1>7, <1>8, <1>10, <2>1
  <2>2. CASE k # key
    <3>1. k \in DOMAIN cache /\ cache'[k] = cache[k]
      BY <1>10, <2>2
    <3> QED BY <1>1, <3>1 DEF CanonicalEntries
  <2> QED BY <2>1, <2>2
<1>12. PICK keys : keys = DOMAIN cache'
  OBVIOUS
<1>13. Follows(loop, after, "return", e, need[t], keys)
  BY <1>4 DEF Follows
<1>14. Types' /\ OnlyMoves(t)
  BY <1>1 DEF Types, OnlyMoves
<1>15. /\ pc'[t] = "return" /\ request'[t] = e /\ run'[t] = loop /\ need'[t] = need[t]
       /\ report'[t] = Report(UncachedRun(e), e)
  BY <1>1, <1>2, <1>3 DEF Types
<1>16. \E m \in 0 .. MaxTicks : Follows(loop, After(e, m), "return", e, need[t], keys)
  BY <1>2, <1>13
<1>17. ThreadOK(t)'
  BY <1>12, <1>15, <1>16 DEF ThreadOK, Consistent
<1> QED BY <1>10, <1>11, <1>14, <1>17, StepKeepsInv

LEMMA ReturnInv ==
  ASSUME Inv, NEW t \in Threads, Return(t)
  PROVE  Inv'
<1>1. /\ Types /\ CacheOK /\ UNCHANGED shared /\ UNCHANGED prefix
      /\ pc' = [pc EXCEPT ![t] = "idle"] /\ request' = [request EXCEPT ![t] = None]
      /\ run' = [run EXCEPT ![t] = None] /\ need' = [need EXCEPT ![t] = FALSE]
      /\ report' = [report EXCEPT ![t] = None]
  BY DEF Inv, Return, Goto
<1>2. CacheOK' /\ UNCHANGED cache
  BY <1>1, UnchangedCache DEF shared
<1>3. Types' /\ OnlyMoves(t)
  BY <1>1 DEF Types, OnlyMoves
<1>4. /\ pc'[t] = "idle" /\ request'[t] = None /\ run'[t] = None /\ report'[t] = None
  BY <1>1 DEF Types
<1>5. ThreadOK(t)'
  BY <1>4 DEF ThreadOK, Consistent
<1> QED BY <1>2, <1>3, <1>5, LocalStepKeepsInv

LEMMA InitInv == Init => Inv
<1> SUFFICES ASSUME Init PROVE Inv
  OBVIOUS
<1>1. CacheOK
  BY CacheInit DEF Init
<1>2. Types
  BY EmptySeq DEF Init, Types
<1>3. CanonicalEntries
  BY DEF Init, Cache!Init, CanonicalEntries
<1>4. ASSUME NEW t \in Threads PROVE ThreadOK(t)
  BY DEF Init, ThreadOK, Consistent
<1> QED BY <1>1, <1>2, <1>3, <1>4 DEF Inv

LEMMA StutterInv == Inv /\ UNCHANGED vars => Inv'
<1> SUFFICES ASSUME Inv, UNCHANGED vars PROVE Inv'
  OBVIOUS
<1>1. CacheOK' /\ UNCHANGED cache
  BY UnchangedCache DEF Inv, vars, shared
<1>2. Types' /\ CanonicalEntries'
  BY <1>1 DEF Inv, vars, local, Types, CanonicalEntries
<1>3. ASSUME NEW t \in Threads PROVE ThreadOK(t)'
  BY <1>1 DEF Inv, vars, local, ThreadOK
<1> QED BY <1>1, <1>2, <1>3 DEF Inv

\* The invariant holds as long as no thread can lose the entry it resumed before it asks
\* whether it needs one, and reports do not move the generator of a snapshot.
LEMMA InvHolds ==
  ASSUME ReportDraws = 0, SingleThread \/ NothingEvicted
  PROVE  Spec => []Inv
<1>1. Init => Inv
  BY InitInv
<1>2. Inv /\ [Next]_vars => Inv'
  <2> SUFFICES ASSUME Inv, [Next]_vars PROVE Inv'
    OBVIOUS
  <2>1. ASSUME NEW t \in Threads, Serve(t) PROVE Inv'
    BY <2>1, LookupHitInv, LookupMissInv, CheckNeedInv, TickInv, FinishInv, PutInv, ReturnInv
       DEF Serve
  <2>2. ASSUME NEW t \in Threads, NEW e \in Requests, ReceiveCached(t, e) \/ ReceiveUncached(t, e)
        PROVE  Inv'
    BY <2>2, ReceiveInv
  <2>3. CASE UNCHANGED vars
    BY <2>3, StutterInv
  <2> QED BY <2>1, <2>2, <2>3 DEF Next
<1> QED BY <1>1, <1>2, PTL DEF Spec

-----------------------------------------------------------------------------
(* The types need neither hypothesis. *)

Placed(t) ==
  /\ IF pc[t] = "idle" THEN request[t] = None ELSE request[t] \in Requests
  /\ pc[t] \in {"idle", "lookup"} <=> run[t] = None
  /\ pc[t] \in {"put", "return"} <=> report[t] # None

TypeInv == Types /\ CacheOK /\ \A t \in Threads : Placed(t)

LEMMA ResumedType ==
  ASSUME NEW snapshot \in Registry, NEW e \in Requests
  PROVE  Loop(Resumed(snapshot, e), FALSE) \in Run
<1>1. e.casts \in Seq(Casts) /\ e.repeat \in BOOLEAN
  BY RequestsAre DEF Encounters
<1>2. Resumed(snapshot, e) \in Registry
  BY <1>1 DEF Resumed, Registry, Casts
<1> QED BY <1>2 DEF Loop, Run

LEMMA PutType == ASSUME NEW loop \in Run PROVE ToPut(loop) \in Registry
<1>1. loop.reg \in Registry /\ loop.checkpoint \in Registry \cup {None}
  BY DEF Run
<1>2. loop.reg.random + ReportDraws \in Nat
  <2>1. loop.reg.random \in Nat
    BY <1>1 DEF Registry
  <2>2. ReportDraws \in Nat
    BY RequestsAssumption
  <2> QED BY <2>1, <2>2
<1>3. Reported(loop.reg) = [loop.reg EXCEPT !.random = loop.reg.random + ReportDraws]
  BY DEF Reported
<1>4. Reported(loop.reg) \in Registry
  BY <1>1, <1>2, <1>3 DEF Registry
<1> QED BY <1>1, <1>4 DEF ToPut

LEMMA StepKeepsTypes ==
  ASSUME TypeInv, NEW t \in Threads, OnlyMoves(t), Types', CacheOK', Placed(t)'
  PROVE  TypeInv'
<1>1. ASSUME NEW u \in Threads, u # t PROVE Placed(u)'
  BY <1>1 DEF TypeInv, OnlyMoves, Placed
<1> QED BY <1>1 DEF TypeInv

LEMMA NoneIsNot == None \notin Run /\ None \notin Reply /\ None \notin Requests
BY RequestsAssumption

LEMMA ServeTypes ==
  ASSUME TypeInv, NEW t \in Threads, Serve(t)
  PROVE  TypeInv'
<1>1. Types /\ CacheOK /\ Placed(t)
  BY DEF TypeInv
<1>2. pc[t] # "idle"
  BY DEF Serve, LookupHit, LookupMiss, CheckNeed, Tick, Finish, Put, Return
<1>3. PICK e \in Requests : e = request[t]
  BY <1>1, <1>2 DEF Placed
<1>4. e.casts \in Seq(Casts) /\ prefix[t] \in Seq(Casts) /\ need[t] \in BOOLEAN
  BY <1>1, RequestsAre DEF Encounters, Types
<1>5. CASE LookupHit(t)
  <2>1. PICK key : key = CacheKey(e, prefix[t])
    OBVIOUS
  <2>2. key \in DOMAIN cache /\ Cache!get(key)
    BY <1>3, <1>5, <2>1 DEF LookupHit, Cache!contains
  <2>3. key \in Keys /\ cache[key] \in Registry
    BY <1>1, <2>2 DEF CacheOK
  <2>4. CacheOK'
    BY <1>1, <2>2, <2>3, CacheGet
  <2>5. PICK loop \in Run : loop = Loop(Resumed(cache[key], e), FALSE)
    BY <2>3, ResumedType
  <2>6. /\ run' = [run EXCEPT ![t] = loop] /\ prefix' = [prefix EXCEPT ![t] = <<>>]
        /\ pc' = [pc EXCEPT ![t] = "check"] /\ UNCHANGED <<request, need, report>>
        /\ pc[t] = "lookup"
    BY <1>3, <1>5, <2>1, <2>5 DEF LookupHit, Goto
  <2>7. Types' /\ OnlyMoves(t)
    BY <1>1, <2>5, <2>6, EmptySeq DEF Types, OnlyMoves
  <2>8. Placed(t)'
    BY <1>1, <1>3, <2>5, <2>6, NoneIsNot DEF Types, Placed
  <2> QED BY <2>4, <2>7, <2>8, StepKeepsTypes
<1>6. CASE LookupMiss(t)
  <2>1. PICK shorter : shorter = IF prefix[t] = <<>> THEN <<>> ELSE Front(prefix[t])
    OBVIOUS
  <2>2. shorter \in Seq(Casts)
    BY <1>4, <2>1, ShorterPrefix, EmptySeq
  <2>3. /\ UNCHANGED shared /\ UNCHANGED <<request, need, report>> /\ pc[t] = "lookup"
        /\ prefix' = [prefix EXCEPT ![t] = shorter]
    BY <1>6, <2>1 DEF LookupMiss, Cache!get, shared
  <2>4. CacheOK'
    BY <1>1, <2>3, UnchangedCache
  <2>5. CASE shorter # <<>>
    <3>1. UNCHANGED <<pc, run>>
      BY <1>6, <2>1, <2>5 DEF LookupMiss
    <3>2. Types' /\ OnlyMoves(t)
      BY <1>1, <2>2, <2>3, <3>1 DEF Types, OnlyMoves
    <3>3. Placed(t)'
      BY <1>1, <2>3, <3>1 DEF Placed
    <3> QED BY <2>4, <3>2, <3>3, StepKeepsTypes
  <2>6. CASE shorter = <<>>
    <3>1. FreshLoop(e) \in Run
      BY RequestsAre, SetupType
    <3>2. run' = [run EXCEPT ![t] = FreshLoop(e)] /\ pc' = [pc EXCEPT ![t] = "check"]
      BY <1>3, <1>6, <2>1, <2>6 DEF LookupMiss, Goto
    <3>3. Types' /\ OnlyMoves(t)
      BY <1>1, <2>2, <2>3, <3>1, <3>2 DEF Types, OnlyMoves
    <3>4. Placed(t)'
      BY <1>1, <1>3, <2>3, <3>1, <3>2, NoneIsNot DEF Types, Placed
    <3> QED BY <2>4, <3>3, <3>4, StepKeepsTypes
  <2> QED BY <2>5, <2>6
<1>7. CASE CheckNeed(t)
  <2>1. PICK needed \in BOOLEAN : needed = (CacheKey(e, e.casts) \notin DOMAIN cache)
    OBVIOUS
  <2>2. /\ need' = [need EXCEPT ![t] = needed] /\ pc' = [pc EXCEPT ![t] = "run"]
        /\ UNCHANGED shared /\ UNCHANGED <<request, prefix, run, report>> /\ pc[t] = "check"
    BY <1>3, <1>7, <2>1 DEF CheckNeed, Cache!contains, Goto
  <2>3. CacheOK' /\ Types' /\ OnlyMoves(t) /\ Placed(t)'
    BY <1>1, <2>1, <2>2, UnchangedCache DEF Types, OnlyMoves, Placed
  <2> QED BY <2>3, StepKeepsTypes
<1>8. CASE Tick(t)
  <2>1. PICK loop \in Run : loop = run[t]
    BY <1>1, <1>8 DEF Tick, Types, Placed
  <2>2. PICK next \in Run : next = Turn(loop, need[t])
    BY <1>4, <2>1, TurnIs
  <2>3. /\ run' = [run EXCEPT ![t] = next] /\ pc[t] = "run"
        /\ UNCHANGED shared /\ UNCHANGED <<pc, request, prefix, need, report>>
    BY <1>8, <2>1, <2>2 DEF Tick
  <2>4. CacheOK' /\ Types' /\ OnlyMoves(t)
    BY <1>1, <2>2, <2>3, UnchangedCache DEF Types, OnlyMoves
  <2>5. Placed(t)'
    BY <1>1, <2>2, <2>3, NoneIsNot DEF Types, Placed
  <2> QED BY <2>4, <2>5, StepKeepsTypes
<1>9. CASE Finish(t)
  <2>1. PICK loop \in Run : loop = run[t]
    BY <1>1, <1>9 DEF Finish, Types, Placed
  <2>2. PICK reply \in Reply : reply = Report(loop, e)
    BY ReportType
  <2>3. PICK label \in {"put", "return"} :
          label = IF need[t] /\ ~loop.threw THEN "put" ELSE "return"
    OBVIOUS
  <2>4. /\ report' = [report EXCEPT ![t] = reply] /\ pc' = [pc EXCEPT ![t] = label]
        /\ UNCHANGED shared /\ UNCHANGED <<request, prefix, run, need>> /\ pc[t] = "run"
    BY <1>3, <1>9, <2>1, <2>2, <2>3 DEF Finish, Goto
  <2>5. CacheOK' /\ Types' /\ OnlyMoves(t)
    BY <1>1, <2>2, <2>3, <2>4, UnchangedCache DEF Types, OnlyMoves
  <2>6. Placed(t)'
    BY <1>1, <1>3, <2>2, <2>3, <2>4, NoneIsNot DEF Types, Placed
  <2> QED BY <2>5, <2>6, StepKeepsTypes
<1>10. CASE Put(t)
  <2>1. PICK loop \in Run : loop = run[t]
    BY <1>1, <1>10 DEF Put, Types, Placed
  <2>2. PICK value \in Registry : value = ToPut(loop)
    BY PutType
  <2>3. PICK key \in Keys : key = CacheKey(e, e.casts)
    BY DEF Keys
  <2>4. /\ Cache!put(key, value) /\ pc[t] = "put" /\ pc' = [pc EXCEPT ![t] = "return"]
        /\ UNCHANGED <<request, prefix, run, need, report>>
    BY <1>3, <1>10, <2>1, <2>2, <2>3 DEF Put, Goto
  <2>5. CacheOK'
    BY <1>1, <2>4, CachePut
  <2>6. Types' /\ OnlyMoves(t) /\ Placed(t)'
    BY <1>1, <2>4 DEF Types, OnlyMoves, Placed
  <2> QED BY <2>5, <2>6, StepKeepsTypes
<1>11. CASE Return(t)
  <2>1. /\ pc' = [pc EXCEPT ![t] = "idle"] /\ request' = [request EXCEPT ![t] = None]
        /\ run' = [run EXCEPT ![t] = None] /\ need' = [need EXCEPT ![t] = FALSE]
        /\ report' = [report EXCEPT ![t] = None] /\ UNCHANGED shared /\ UNCHANGED prefix
    BY <1>11 DEF Return, Goto
  <2>2. CacheOK' /\ Types' /\ OnlyMoves(t)
    BY <1>1, <2>1, UnchangedCache DEF Types, OnlyMoves
  <2>3. Placed(t)'
    BY <1>1, <2>1 DEF Types, Placed
  <2> QED BY <2>2, <2>3, StepKeepsTypes
<1> QED BY <1>5, <1>6, <1>7, <1>8, <1>9, <1>10, <1>11 DEF Serve

LEMMA ReceiveTypes ==
  ASSUME TypeInv, NEW t \in Threads, NEW e \in Requests, ReceiveCached(t, e) \/ ReceiveUncached(t, e)
  PROVE  TypeInv'
<1>1. /\ Types /\ CacheOK /\ Placed(t) /\ pc[t] = "idle"
      /\ UNCHANGED shared /\ UNCHANGED <<need, report>>
      /\ request' = [request EXCEPT ![t] = e]
  BY DEF TypeInv, ReceiveCached, ReceiveUncached
<1>2. e.casts \in Seq(Casts) /\ FreshLoop(e) \in Run
  BY RequestsAre, SetupType DEF Encounters
<1>3. CacheOK'
  BY <1>1, UnchangedCache
<1>4. CASE ReceiveCached(t, e)
  <2>1. /\ prefix' = [prefix EXCEPT ![t] = e.casts] /\ pc' = [pc EXCEPT ![t] = "lookup"]
        /\ UNCHANGED run
    BY <1>4 DEF ReceiveCached, Goto
  <2>2. Types' /\ OnlyMoves(t)
    BY <1>1, <1>2, <2>1 DEF Types, OnlyMoves
  <2>3. Placed(t)'
    BY <1>1, <2>1 DEF Types, Placed
  <2> QED BY <1>3, <2>2, <2>3, StepKeepsTypes
<1>5. CASE ReceiveUncached(t, e)
  <2>1. /\ run' = [run EXCEPT ![t] = FreshLoop(e)] /\ pc' = [pc EXCEPT ![t] = "run"]
        /\ UNCHANGED prefix
    BY <1>5 DEF ReceiveUncached, Goto
  <2>2. Types' /\ OnlyMoves(t)
    BY <1>1, <1>2, <2>1 DEF Types, OnlyMoves
  <2>3. Placed(t)'
    BY <1>1, <1>2, <2>1, NoneIsNot DEF Types, Placed
  <2> QED BY <1>3, <2>2, <2>3, StepKeepsTypes
<1> QED BY <1>4, <1>5

LEMMA TypeInvHolds == Spec => []TypeInv
<1>1. Init => TypeInv
  <2> SUFFICES ASSUME Init PROVE TypeInv
    OBVIOUS
  <2>1. CacheOK
    BY CacheInit DEF Init
  <2> QED BY <2>1, EmptySeq DEF Init, TypeInv, Types, Placed
<1>2. TypeInv /\ [Next]_vars => TypeInv'
  <2> SUFFICES ASSUME TypeInv, [Next]_vars PROVE TypeInv'
    OBVIOUS
  <2>1. CASE Next
    BY <2>1, ServeTypes, ReceiveTypes DEF Next
  <2>2. CASE UNCHANGED vars
    <3>1. CacheOK'
      BY <2>2, UnchangedCache DEF TypeInv, vars
    <3> QED BY <2>2, <3>1 DEF TypeInv, vars, local, Types, Placed
  <2> QED BY <2>1, <2>2
<1> QED BY <1>1, <1>2, PTL DEF Spec

-----------------------------------------------------------------------------
(* The theorems. *)

\* Every key in the list and in the map is the key of a request, a thread has a registry
\* from the end of its lookups on and a reply from the end of its loop on, for any number of
\* threads and any capacity (combat_loop.cpp:296-400).
THEOREM TypeCorrect == Spec => []TypeOK
<1>1. TypeInv => TypeOK
  <2> SUFFICES ASSUME TypeInv PROVE TypeOK
    OBVIOUS
  <2>1. Range(mru_list) \subseteq Keys
    BY ElementOfSeq, LenProperties DEF TypeInv, CacheOK, Range
  <2> QED BY <2>1 DEF TypeInv, CacheOK, Types, Placed, TypeOK
<1> QED BY <1>1, TypeInvHolds, PTL

\* With one thread, or a cache with room for all keys, a reply is that of a run from tick
\* zero without a cache, whatever was asked before and whatever the other threads cache
\* meanwhile (configuration/encounter.hpp:61-62, combat_loop.cpp:340-400).
THEOREM RepliesAreReproducible ==
  ASSUME ReportDraws = 0, SingleThread \/ NothingEvicted
  PROVE  Spec => []Reproducible
<1>1. Inv /\ TypeInv => Reproducible
  <2> SUFFICES ASSUME Inv, TypeInv, NEW t \in Threads, report[t] # None
               PROVE  report[t] = Report(UncachedRun(request[t]), request[t])
    BY DEF Reproducible
  <2>1. pc[t] \in {"put", "return"}
    BY DEF TypeInv, Placed
  <2> QED BY <2>1 DEF Inv, ThreadOK, Consistent
<1> QED BY <1>1, InvHolds, TypeInvHolds, PTL

\* And every cached snapshot is the one a run of its key from tick zero would put; no run
\* that threw is cached (combat_loop.cpp:344-357, 383-387).
THEOREM SnapshotsAreCanonical ==
  ASSUME ReportDraws = 0, SingleThread \/ NothingEvicted
  PROVE  Spec => []CanonicalEntries
<1>1. Inv => CanonicalEntries
  BY DEF Inv
<1> QED BY <1>1, InvHolds, PTL
=============================================================================
