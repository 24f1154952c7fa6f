--------------------------- MODULE PipelineProofs ---------------------------
(***************************************************************************)
(* What a tick hands from stage to stage is well formed, an actor's        *)
(* health is what the audit has left of it, strikes mark whom they hit,    *)
(* each proc uses up one stack and comes at every n-th hit, and every      *)
(* cast is carried out, for any actors, skills, side effects and number    *)
(* of child actors.                                                        *)
(***************************************************************************)
EXTENDS Pipeline, SequenceTheorems, FiniteSetTheorems, WellFoundedInduction, TLAPS

Living == Actors \cup Alive

-----------------------------------------------------------------------------
(* The inductive invariant of the types. *)

Phases == {"casts", "hooks", "strikes", "effects", "applied", "stats", "ended", "over"}
RunOK == phase \in Phases /\ tick \in Nat /\ termination \in encounters

Casts == [skill : Skills, strikes : Nat, pulses : Nat]
RotationsOK ==
  /\ Alive \subseteq Children /\ owner \in [Alive -> Actors]
  /\ queue \in [Entities -> Seq(Skills)]
  /\ casting \in [DOMAIN casting -> Casts]
  /\ DOMAIN casting \subseteq Living \X Nat /\ IsFiniteSet(DOMAIN casting)
  /\ no_more_rotation \subseteq Living /\ finishing \subseteq Living
  /\ \A e \in Children \ Alive : queue[e] = <<>>

StrikesOut == [source : Living, skill : Skills]
StrikesIn == [source : Actors, target : Actors, skill : Skills]
EffectsOut == [source : Living, application : EffectApplications]
EffectsIn == [source : Actors, target : Actors, application : EffectApplications]
Hooks ==
  [stage : {"any", "begun", "gained", "strike", "applied"}, source : Actors,
   target : Actors \cup {Nobody}, by : Skills \cup Kinds \cup {Nobody}, critical : BOOLEAN]

QueuesOK ==
  /\ outgoing_strikes \in Seq(StrikesOut) /\ outgoing_effects \in Seq(EffectsOut)
  /\ incoming_strikes \in Seq(StrikesIn) /\ incoming_effects \in Seq(EffectsIn)
  /\ hooks \in Seq(Hooks)
  /\ hooks # <<>> => phase \in {"hooks", "strikes", "applied"}
  /\ phase = "strikes" => \A i \in DOMAIN hooks : hooks[i].by \in Skills
  /\ phase = "applied" => Len(hooks) = 1 /\ Head(hooks).stage = "applied"

StacksOK ==
  /\ DOMAIN effects \subseteq 1 .. MaxEffects
  /\ effects \in [DOMAIN effects -> [kind : Kinds, on : Actors, source : Actors]]
  /\ \A a \in Actors, k \in Kinds : Cardinality(Stacks(a, k)) <= max_stored_stacks[k]
  /\ duration_expired \subseteq DOMAIN effects /\ destroy_effect \subseteq DOMAIN effects
  /\ phase \in {"casts", "ended", "over"} => destroy_effect = {} /\ already_triggered = {}

StatsOK ==
  /\ counters \in [Counters -> Int] /\ health \in [Actors -> Int]
  /\ is_downstate = {a \in Actors : health[a] <= 0}
  /\ incoming_damage \in [Actors -> Nat] /\ buffered_condition_damage \in [Actors -> Nat]
  /\ audited \in [Actors -> Nat]

Tallies ==
  [hits : [Actors -> Nat], most : [Actors -> Nat], finished : Nat, spawned : [Skills -> Nat],
   removed : [Kinds -> Nat]]

TypeInv == RunOK /\ RotationsOK /\ QueuesOK /\ StacksOK /\ StatsOK /\ tally \in Tallies

-----------------------------------------------------------------------------
(* Functions that recur over numbers, and what they are made of. *)

LEMMA InductionUpTo ==
  ASSUME NEW last \in Nat, NEW G, 0 \in G,
         \A n \in Nat : n < last /\ n \in G => n + 1 \in G
  PROVE  0 .. last \subseteq G
<1> SUFFICES ASSUME NEW n \in 0 .. last, n \notin G PROVE FALSE
  OBVIOUS
<1> DEFINE bad == {m \in Nat : m <= last /\ m \notin G}
<1>1. n \in bad /\ bad \subseteq Nat
  OBVIOUS
<1>2. PICK m \in bad : \A k \in bad : ~(<<k, m>> \in OpToRel(<, Nat))
  BY <1>1, NatLessThanWellFounded, WFMin, Zenon
<1>3. m \in Nat /\ m <= last /\ m \notin G /\ m # 0
  BY <1>2
<1>4. m - 1 \in Nat /\ m - 1 < last
  BY <1>3
<1>5. m - 1 \notin G
  BY <1>3, <1>4
<1>6. m - 1 \in bad /\ <<m - 1, m>> \in OpToRel(<, Nat)
  BY <1>3, <1>4, <1>5 DEF OpToRel
<1> QED BY <1>2, <1>6

\* f starts at base, and its n-th value is what step[n] makes of the one before.
Follows(f, last, base, step) ==
  \A n \in 0 .. last : f[n] = IF n = 0 THEN base ELSE step[n][f[n - 1]]

LEMMA RecursionExists ==
  ASSUME NEW last \in Nat, NEW V, NEW base \in V, NEW step \in [1 .. last -> [V -> V]]
  PROVE  \E f \in [0 .. last -> V] : Follows(f, last, base, step)
<1> DEFINE G == {n \in Nat : n <= last => \E f \in [0 .. n -> V] : Follows(f, n, base, step)}
<1>1. 0 \in G
  <2>1. PICK f \in [0 .. 0 -> V] : f = [n \in 0 .. 0 |-> base]
    OBVIOUS
  <2>2. Follows(f, 0, base, step)
    BY <2>1 DEF Follows
  <2> QED BY <2>2
<1>2. ASSUME NEW n \in Nat, n < last, n \in G PROVE n + 1 \in G
  <2>1. PICK f \in [0 .. n -> V] : Follows(f, n, base, step)
    BY <1>2
  <2>2. PICK v \in V : v = step[n + 1][f[n]]
    <3>1. n + 1 \in 1 .. last /\ n \in 0 .. n
      BY <1>2
    <3>2. f[n] \in V /\ step[n + 1] \in [V -> V]
      BY <3>1
    <3> QED BY <3>2
  <2>3. PICK g : g = [i \in 0 .. n + 1 |-> IF i <= n THEN f[i] ELSE v]
    OBVIOUS
  <2>4. \A i \in 0 .. n + 1 : g[i] \in V
    <3> TAKE i \in 0 .. n + 1
    <3>1. CASE i <= n
      <4>1. i \in 0 .. n /\ g[i] = f[i]
        BY <2>3, <3>1
      <4> QED BY <4>1
    <3>2. CASE ~(i <= n)
      BY <2>3, <3>2
    <3> QED BY <3>1, <3>2
  <2>5. g \in [0 .. n + 1 -> V]
    BY <2>3, <2>4
  <2>6. ASSUME NEW i \in 0 .. n + 1
        PROVE  g[i] = IF i = 0 THEN base ELSE step[i][g[i - 1]]
    <3>1. CASE i <= n
      <4>1. i \in 0 .. n /\ g[i] = f[i]
        BY <2>3, <3>1
      <4>2. i # 0 => i - 1 \in 0 .. n + 1 /\ i - 1 <= n
        BY <3>1
      <4>3. i # 0 => g[i - 1] = f[i - 1]
        BY <2>3, <4>2
      <4>4. f[i] = IF i = 0 THEN base ELSE step[i][f[i - 1]]
        BY <2>1, <4>1 DEF Follows
      <4> QED BY <4>1, <4>3, <4>4
    <3>2. CASE ~(i <= n)
      <4>1. i = n + 1 /\ i # 0 /\ i - 1 = n /\ g[i] = v
        BY <2>3, <3>2
      <4>2. g[n] = f[n]
        BY <2>3
      <4> QED BY <2>2, <4>1, <4>2
    <3> QED BY <3>1, <3>2
  <2>7. Follows(g, n + 1, base, step)
    BY <2>6 DEF Follows
  <2> QED BY <2>5, <2>7
<1>3. last \in G
  <2> HIDE DEF G
  <2>1. 0 .. last \subseteq G
    BY <1>1, <1>2, InductionUpTo
  <2> QED BY <2>1
<1> QED BY <1>3

\* What holds of the first value, and of each when it holds of the one before, holds of all.
LEMMA RecursionStays ==
  ASSUME NEW last \in Nat, NEW V, NEW f, f[0] \in V,
         \A n \in 0 .. last : n < last /\ f[n] \in V => f[n + 1] \in V
  PROVE  \A n \in 0 .. last : f[n] \in V
<1> DEFINE G == {n \in Nat : n <= last => f[n] \in V}
<1>1. 0 \in G
  OBVIOUS
<1>2. \A n \in Nat : n < last /\ n \in G => n + 1 \in G
  OBVIOUS
<1> HIDE DEF G
<1>3. 0 .. last \subseteq G
  BY <1>1, <1>2, InductionUpTo
<1> QED BY <1>3 DEF G

-----------------------------------------------------------------------------
(* Sequences: flattened, filtered by place, cut off, made of sets. *)

\* Concatenating the sequences of seqs, from the first on.
Glued(f, seqs) ==
  f = [i \in 1 .. Len(seqs) |-> IF i = 1 THEN seqs[i] ELSE f[i - 1] \o seqs[i]]

\* The sequences that FlattenSeq goes through, from the empty one on.
FlattenedBy(f, seqs) ==
  /\ f[0] = <<>> /\ FlattenSeq(seqs) = f[Len(seqs)]
  /\ \A i \in 1 .. Len(seqs) : f[i] = f[i - 1] \o seqs[i]

LEMMA FlattenSteps ==
  ASSUME NEW S, NEW seqs \in Seq(Seq(S))
  PROVE  \E f \in [0 .. Len(seqs) -> Seq(S)] : FlattenedBy(f, seqs)
<1>1. PICK last \in Nat : last = Len(seqs)
  BY LenProperties
<1>2. \A i \in 1 .. last : seqs[i] \in Seq(S)
  BY <1>1, ElementOfSeq
<1>3. PICK step : step = [n \in 1 .. last |-> [v \in Seq(S) |-> v \o seqs[n]]]
  OBVIOUS
<1>4. \A n \in 1 .. last : step[n] \in [Seq(S) -> Seq(S)]
  <2> TAKE n \in 1 .. last
  <2>1. \A v \in Seq(S) : v \o seqs[n] \in Seq(S)
    BY <1>2, ConcatProperties
  <2> QED BY <1>3, <2>1
<1>5. step \in [1 .. last -> [Seq(S) -> Seq(S)]]
  BY <1>3, <1>4
<1>6. <<>> \in Seq(S)
  BY EmptySeq
<1>7. PICK g \in [0 .. last -> Seq(S)] : Follows(g, last, <<>>, step)
  BY <1>5, <1>6, RecursionExists
<1>8. g[0] = <<>> /\ \A i \in 1 .. last : g[i] = g[i - 1] \o seqs[i]
  <2>1. g[0] = <<>>
    BY <1>7 DEF Follows
  <2>2. ASSUME NEW i \in 1 .. last PROVE g[i] = g[i - 1] \o seqs[i]
    <3>1. i \in 0 .. last /\ i # 0 /\ i - 1 \in 0 .. last
      OBVIOUS
    <3>2. PICK v \in Seq(S) : v = g[i - 1]
      BY <3>1
    <3>3. g[i] = step[i][g[i - 1]]
      BY <1>7, <3>1 DEF Follows
    <3>4. step[i][v] = v \o seqs[i]
      BY <1>3
    <3> QED BY <3>2, <3>3, <3>4
  <2> QED BY <2>1, <2>2
<1>9. FlattenSeq(seqs) = g[last]
  <2>1. CASE last = 0
    <3>1. seqs = <<>> /\ FlattenSeq(seqs) = seqs
      BY <1>1, <2>1, EmptySeq DEF FlattenSeq
    <3> QED BY <1>8, <2>1, <3>1
  <2>2. CASE last # 0
    <3>1. \E f : Glued(f, seqs)
      <4>1. PICK f : f = [i \in 1 .. last |-> g[i]]
        OBVIOUS
      <4>2. PICK h : h = [i \in 1 .. last |-> IF i = 1 THEN seqs[i] ELSE f[i - 1] \o seqs[i]]
        OBVIOUS
      <4>3. ASSUME NEW i \in 1 .. last PROVE f[i] = h[i]
        <5>1. CASE i = 1
          <6>1. <<>> \o seqs[i] = seqs[i]
            BY <1>2, ConcatEmptySeq
          <6>2. g[i] = g[i - 1] \o seqs[i] /\ i - 1 = 0
            <7>1. i - 1 = 0
              BY <5>1
            <7> QED BY <1>8, <7>1, Zenon
          <6>3. g[i] = seqs[i]
            BY <1>8, <6>1, <6>2
          <6> QED BY <4>1, <4>2, <5>1, <6>3
        <5>2. CASE i # 1
          <6>1. i - 1 \in 1 .. last
            BY <5>2
          <6>2. f[i - 1] = g[i - 1]
            BY <4>1, <6>1
          <6> QED BY <1>8, <4>1, <4>2, <5>2, <6>2
        <5> QED BY <5>1, <5>2
      <4>4. f = h
        BY <4>1, <4>2, <4>3
      <4> QED BY <1>1, <4>2, <4>4 DEF Glued
    <3>2. PICK f : f = CHOOSE h : Glued(h, seqs)
      OBVIOUS
    <3>3. Glued(f, seqs)
      BY <3>1, <3>2, Zenon
    <3>4. FlattenSeq(seqs) = f[last]
      BY <1>1, <2>2, <3>2 DEF FlattenSeq, Glued
    <3>5. \A i \in 1 .. last : f[i] = IF i = 1 THEN seqs[i] ELSE f[i - 1] \o seqs[i]
      BY <1>1, <3>3, Zenon DEF Glued
    <3> DEFINE G == {n \in Nat : n + 1 <= last => f[n + 1] = g[n + 1]}
    <3>6. 0 \in G
      <4>1. 1 \in 1 .. last
        BY <2>2
      <4>2. <<>> \o seqs[1] = seqs[1]
        BY <1>2, <4>1, ConcatEmptySeq
      <4>3. g[1] = g[0] \o seqs[1]
        <5>1. g[1] = g[1 - 1] \o seqs[1] /\ 1 - 1 = 0
          <6>1. 1 - 1 = 0
            OBVIOUS
          <6> QED BY <1>8, <4>1, <6>1, Zenon
        <5> QED BY <5>1
      <4> QED BY <1>8, <3>5, <4>1, <4>2, <4>3
    <3>7. ASSUME NEW n \in Nat, n < last - 1, n \in G PROVE n + 1 \in G
      <4>1. PICK i \in 1 .. last : i = n + 2 /\ i # 1 /\ i - 1 = n + 1 /\ n + 1 + 1 = i
        BY <2>2, <3>7
      <4>2. f[n + 1] = g[n + 1]
        BY <3>7
      <4>3. f[i] = f[i - 1] \o seqs[i] /\ g[i] = g[i - 1] \o seqs[i]
        BY <1>8, <3>5, <4>1
      <4>4. f[i] = g[i]
        BY <4>1, <4>2, <4>3
      <4> QED BY <4>1, <4>4
    <3>8. last - 1 \in G
      <4> HIDE DEF G
      <4>1. last - 1 \in Nat
        BY <2>2
      <4>2. 0 .. last - 1 \subseteq G
        BY <3>6, <3>7, <4>1, InductionUpTo
      <4> QED BY <4>1, <4>2
    <3> QED BY <2>2, <3>4, <3>8
  <2> QED BY <2>1, <2>2
<1> QED BY <1>1, <1>7, <1>8, <1>9 DEF FlattenedBy

LEMMA FlattenType ==
  ASSUME NEW S, NEW seqs \in Seq(Seq(S))
  PROVE  FlattenSeq(seqs) \in Seq(S)
<1>1. PICK f \in [0 .. Len(seqs) -> Seq(S)] : FlattenedBy(f, seqs)
  BY FlattenSteps
<1>2. Len(seqs) \in 0 .. Len(seqs)
  BY LenProperties
<1> QED BY <1>1, <1>2 DEF FlattenedBy

\* What is in one of the sequences is in the flattened one.
LEMMA FlattenHas ==
  ASSUME NEW S, NEW seqs \in Seq(Seq(S)), NEW i \in DOMAIN seqs, NEW x \in Range(seqs[i])
  PROVE  x \in Range(FlattenSeq(seqs))
<1>1. PICK f \in [0 .. Len(seqs) -> Seq(S)] : FlattenedBy(f, seqs)
  BY FlattenSteps
<1>2. PICK last \in Nat : last = Len(seqs) /\ DOMAIN seqs = 1 .. last
  BY LenProperties
<1>3. ASSUME NEW n \in 1 .. last
      PROVE  Range(f[n]) = Range(f[n - 1]) \cup Range(seqs[n])
  <2>1. n - 1 \in 0 .. last
    OBVIOUS
  <2>2. PICK s \in Seq(S), t \in Seq(S) : s = f[n - 1] /\ t = seqs[n]
    BY <1>1, <1>2, <2>1, ElementOfSeq
  <2>3. f[n] = s \o t
    BY <1>1, <1>2, <2>2 DEF FlattenedBy
  <2>4. Range(s \o t) = Range(s) \cup Range(t)
    BY RangeConcatenation
  <2> QED BY <2>2, <2>3, <2>4
<1> DEFINE G == {n \in Nat : n <= last /\ i <= n => x \in Range(f[n])}
<1>4. 0 \in G
  BY <1>2
<1>5. ASSUME NEW n \in Nat, n < last, n \in G PROVE n + 1 \in G
  <2>1. n + 1 \in 1 .. last /\ (n + 1) - 1 = n
    BY <1>5
  <2>2. Range(f[n + 1]) = Range(f[n]) \cup Range(seqs[n + 1])
    BY <1>3, <2>1
  <2>3. CASE i <= n
    BY <1>5, <2>2, <2>3
  <2>4. CASE i = n + 1
    BY <2>2, <2>4
  <2>5. CASE i > n + 1
    BY <2>5
  <2> QED BY <1>2, <2>3, <2>4, <2>5
<1>6. last \in G
  <2> HIDE DEF G
  <2>1. 0 .. last \subseteq G
    BY <1>4, <1>5, InductionUpTo
  <2> QED BY <2>1
<1> QED BY <1>1, <1>2, <1>6 DEF FlattenedBy

LEMMA FlattenShort ==
  /\ FlattenSeq(<<>>) = <<>>
  /\ \A x : FlattenSeq(<<x>>) = x
<1>1. FlattenSeq(<<>>) = <<>>
  BY DEF FlattenSeq
<1>2. ASSUME NEW x PROVE FlattenSeq(<<x>>) = x
  <2>1. PICK f : f = [i \in 1 .. 1 |-> IF i = 1 THEN <<x>>[i] ELSE f[i - 1] \o <<x>>[i]]
    <3>1. PICK g : g = [i \in 1 .. 1 |-> x]
      OBVIOUS
    <3>2. PICK h : h = [i \in 1 .. 1 |-> IF i = 1 THEN <<x>>[i] ELSE g[i - 1] \o <<x>>[i]]
      OBVIOUS
    <3>3. g = h
      BY <3>1, <3>2
    <3> QED BY <3>2, <3>3
  <2>2. Glued(f, <<x>>)
    BY <2>1 DEF Glued
  <2>3. PICK g : g = CHOOSE h : Glued(h, <<x>>)
    OBVIOUS
  <2>4. Glued(g, <<x>>)
    BY <2>2, <2>3, Zenon
  <2>5. FlattenSeq(<<x>>) = g[1]
    BY <2>3 DEF FlattenSeq, Glued
  <2>6. g[1] = x
    BY <2>4 DEF Glued
  <2> QED BY <2>5, <2>6
<1> QED BY <1>1, <1>2

LEMMA AtType ==
  ASSUME NEW S, NEW s \in Seq(S), NEW I
  PROVE  At(s, I) \in Seq({s[i] : i \in I \cap DOMAIN s}) /\ At(s, I) \in Seq(S)
<1>1. Len(s) \in Nat /\ DOMAIN s = 1 .. Len(s)
  BY LenProperties
<1>2. PICK V : V = {s[i] : i \in I \cap DOMAIN s}
  OBVIOUS
<1>3. V \subseteq S
  BY <1>1, <1>2, ElementOfSeq
<1>4. PICK seqs : seqs = [i \in DOMAIN s |-> IF i \in I THEN <<s[i]>> ELSE <<>>]
  OBVIOUS
<1>5. ASSUME NEW i \in DOMAIN s PROVE seqs[i] \in Seq(V)
  <2>1. CASE i \in I
    <3>1. s[i] \in V /\ seqs[i] = <<s[i]>>
      BY <1>2, <1>4, <2>1
    <3> QED BY <3>1
  <2>2. CASE i \notin I
    BY <1>4, <2>2, EmptySeq
  <2> QED BY <2>1, <2>2
<1>6. seqs \in [1 .. Len(s) -> Seq(V)]
  BY <1>1, <1>4, <1>5
<1>7. seqs \in Seq(Seq(V))
  BY <1>1, <1>6
<1>8. FlattenSeq(seqs) \in Seq(V)
  BY <1>7, FlattenType
<1>9. At(s, I) = FlattenSeq(seqs)
  BY <1>4 DEF At
<1> QED BY <1>2, <1>3, <1>8, <1>9, SeqMonotonic

LEMMA UpToType ==
  ASSUME NEW S, NEW s \in Seq(S), NEW n \in Int
  PROVE  UpTo(s, n) \in Seq(S)
<1>1. Len(s) \in Nat
  BY LenProperties
<1>2. PICK m \in Int : m = IF n < Len(s) THEN n ELSE Len(s)
  BY <1>1
<1>3. m <= Len(s)
  BY <1>1, <1>2
<1>4. \A i \in 1 .. m : s[i] \in S
  BY <1>1, <1>3, ElementOfSeq
<1>5. SubSeq(s, 1, m) \in Seq(S)
  BY <1>4, SubSeqProperties
<1> QED BY <1>2, <1>5 DEF UpTo

LEMMA SetToSeqsType ==
  ASSUME NEW T, IsFiniteSet(T), NEW s \in SetToSeqs(T)
  PROVE  s \in Seq(T) /\ DOMAIN s = 1 .. Cardinality(T) /\ Cardinality(T) \in Nat
<1>1. Cardinality(T) \in Nat
  BY FS_CardinalityType
<1>2. s \in [1 .. Cardinality(T) -> T]
  BY DEF SetToSeqs
<1> QED BY <1>1, <1>2

LEMMA FiniteDomain ==
  ASSUME NEW S, NEW s \in Seq(S)
  PROVE  IsFiniteSet(DOMAIN s) /\ DOMAIN s = 1 .. Len(s) /\ Len(s) \in Nat
                               /\ \A i \in DOMAIN s : s[i] \in S
<1>1. Len(s) \in Nat /\ DOMAIN s = 1 .. Len(s)
  BY LenProperties
<1> QED BY <1>1, FS_Interval, ElementOfSeq

LEMMA AtWithin ==
  ASSUME NEW S, NEW s \in Seq(S), NEW I
  PROVE  Range(At(s, I)) \subseteq Range(s)
<1>1. s \in Seq(Range(s))
  <2>1. DOMAIN s = 1 .. Len(s) /\ Len(s) \in Nat
    BY FiniteDomain
  <2>2. s \in [1 .. Len(s) -> Range(s)]
    BY <2>1 DEF Range
  <2> QED BY <2>1, <2>2
<1>2. At(s, I) \in Seq(Range(s))
  BY <1>1, AtType
<1> QED BY <1>2, FiniteDomain DEF Range

-----------------------------------------------------------------------------
(* What hooks, strikes and side effects are made of. *)

LEMMA Finite ==
  /\ IsFiniteSet(Actors) /\ IsFiniteSet(Children) /\ IsFiniteSet(Entities)
  /\ view_order \in Seq(Actors)
<1>1. view_order \in Seq(Actors)
  BY Encounter
<1>2. PICK last \in Nat : last = Len(view_order) /\ DOMAIN view_order = 1 .. last
  BY <1>1, LenProperties
<1>3. view_order \in Surjection(1 .. last, Actors)
  BY <1>1, <1>2 DEF Surjection, Actors, Range
<1>4. IsFiniteSet(1 .. last) /\ IsFiniteSet(Children)
  <2>1. MaxChildren \in Int /\ last \in Int /\ 1 \in Int
    BY Encounter
  <2> QED BY <2>1, FS_Interval DEF Children
<1>5. IsFiniteSet(Actors)
  BY <1>3, <1>4, FS_Surjection
<1> QED BY <1>1, <1>4, <1>5, FS_Union DEF Entities

LEMMA OwnerType == RotationsOK => \A e \in Living : get_owner(e) \in Actors
<1> QED BY DEF RotationsOK, Living, get_owner

LEMMA ApplicationTypes ==
  /\ on_strike_effect_applications \in [Skills -> Seq(EffectApplications)]
  /\ on_pulse_effect_applications \in [Skills -> Seq(EffectApplications)]
<1> QED BY Applicable

\* The operands of m give the counter its values in turn.
Valued(f, m, cs) ==
  f = [n \in 0 .. Len(m.operands) |->
         IF n = 0 THEN cs[m.counter]
         ELSE Operate(m.operation, f[n - 1], Operand(m.operands[n], cs))]

\* The values that a modifier goes through, from that of its counter on.
LEMMA ModifiedSteps ==
  ASSUME NEW a \in Actors, NEW m \in Range(counter_modifiers[a]), NEW cs \in [Counters -> Int],
         m.operation # "RESET"
  PROVE  \E f \in [0 .. Len(m.operands) -> Int] :
            /\ f[0] = cs[m.counter]
            /\ \A n \in 1 .. Len(m.operands) :
                  f[n] = Operate(m.operation, f[n - 1], Operand(m.operands[n], cs))
            /\ apply_counter_modifications(cs, m) = [cs EXCEPT ![m.counter] = f[Len(m.operands)]]
<1>1. /\ m.counter \in Counters /\ m.operation \in {"ADD", "SUBTRACT", "SET", "RESET"}
      /\ m.operands \in Seq(Counters \cup Int)
  BY SideEffects
<1>2. PICK last \in Nat : last = Len(m.operands)
  BY <1>1, LenProperties
<1>3. \A n \in 1 .. last : Operand(m.operands[n], cs) \in Int
  <2> TAKE n \in 1 .. last
  <2>1. m.operands[n] \in Counters \cup Int
    BY <1>1, <1>2, ElementOfSeq
  <2> QED BY <2>1 DEF Operand
<1>4. PICK start \in Int : start = cs[m.counter]
  BY <1>1
<1>5. ASSUME NEW v \in Int, NEW n \in 1 .. last
      PROVE  Operate(m.operation, v, Operand(m.operands[n], cs)) \in Int
  <2>1. PICK x \in Int : x = Operand(m.operands[n], cs)
    BY <1>3
  <2> QED BY <1>1, <2>1 DEF Operate
<1>6. \E f : Valued(f, m, cs)
  <2>1. PICK step : step = [n \in 1 .. last |->
                        [v \in Int |-> Operate(m.operation, v, Operand(m.operands[n], cs))]]
    OBVIOUS
  <2>2. step \in [1 .. last -> [Int -> Int]]
    BY <1>5, <2>1
  <2>3. PICK f \in [0 .. last -> Int] : Follows(f, last, start, step)
    BY <2>2, RecursionExists
  <2>4. PICK h : h = [n \in 0 .. last |->
                        IF n = 0 THEN cs[m.counter]
                        ELSE Operate(m.operation, f[n - 1], Operand(m.operands[n], cs))]
    OBVIOUS
  <2>5. ASSUME NEW n \in 0 .. last PROVE f[n] = h[n]
    <3>1. f[n] = IF n = 0 THEN start ELSE step[n][f[n - 1]]
      BY <2>3 DEF Follows
    <3>2. CASE n = 0
      BY <1>4, <2>4, <3>1, <3>2
    <3>3. CASE n # 0
      <4>1. n \in 1 .. last /\ n - 1 \in 0 .. last
        BY <3>3
      <4>2. PICK v \in Int : v = f[n - 1]
        BY <4>1
      <4>3. step[n][v] = Operate(m.operation, v, Operand(m.operands[n], cs))
        BY <2>1, <4>1
      <4> QED BY <2>4, <3>1, <3>3, <4>2, <4>3
    <3> QED BY <3>2, <3>3
  <2>6. f = h
    BY <2>4, <2>5
  <2> QED BY <1>2, <2>4, <2>6 DEF Valued
<1>7. PICK f : f = CHOOSE g : Valued(g, m, cs)
  OBVIOUS
<1>8. Valued(f, m, cs)
  BY <1>6, <1>7, Zenon
<1>9. \A n \in 0 .. last : f[n] = IF n = 0 THEN start
          ELSE Operate(m.operation, f[n - 1], Operand(m.operands[n], cs))
  BY <1>2, <1>4, <1>8, Zenon DEF Valued
<1>10. f[0] \in Int
  BY <1>9
<1>11. ASSUME NEW n \in 0 .. last, n < last, f[n] \in Int PROVE f[n + 1] \in Int
  <2>1. n + 1 \in 0 .. last /\ n + 1 \in 1 .. last /\ n + 1 # 0 /\ (n + 1) - 1 = n
    BY <1>11
  <2> QED BY <1>5, <1>9, <1>11, <2>1
<1>12. \A n \in 0 .. last : f[n] \in Int
  BY <1>10, <1>11, RecursionStays
<1>13. f \in [0 .. last -> Int]
  BY <1>2, <1>8, <1>12 DEF Valued
<1>14. apply_counter_modifications(cs, m) = [cs EXCEPT ![m.counter] = f[last]]
  BY <1>2, <1>7 DEF apply_counter_modifications, Valued
<1>15. \A n \in 1 .. last : f[n] = Operate(m.operation, f[n - 1], Operand(m.operands[n], cs))
  BY <1>9
<1>16. f[0] = cs[m.counter]
  BY <1>4, <1>9
<1> QED BY <1>2, <1>13, <1>14, <1>15, <1>16

LEMMA ModifiedType ==
  ASSUME NEW a \in Actors, NEW m \in Range(counter_modifiers[a]), NEW cs \in [Counters -> Int]
  PROVE  apply_counter_modifications(cs, m) \in [Counters -> Int]
<1>1. /\ m.counter \in Counters /\ m.operands \in Seq(Counters \cup Int)
  BY SideEffects
<1>2. CASE m.operation = "RESET"
  <2>1. initial_value[m.counter] \in Int
    BY <1>1, Encounter
  <2> QED BY <1>1, <1>2, <2>1 DEF apply_counter_modifications
<1>3. CASE m.operation # "RESET"
  <2>1. PICK f \in [0 .. Len(m.operands) -> Int] :
            apply_counter_modifications(cs, m) = [cs EXCEPT ![m.counter] = f[Len(m.operands)]]
    BY <1>3, ModifiedSteps
  <2>2. f[Len(m.operands)] \in Int
    BY <1>1, LenProperties
  <2> QED BY <2>1, <2>2
<1> QED BY <1>2, <1>3

\* The modifiers of the hook's source change the counters in turn.
CountedOne(cs, m, hook) ==
  IF Due(m, hook, cs) THEN apply_counter_modifications(cs, m) ELSE cs
CountedUpTo(f, ms, hook) ==
  f = [n \in 0 .. Len(ms) |-> IF n = 0 THEN counters ELSE CountedOne(f[n - 1], ms[n], hook)]

CountedBy(f, ms, hook) ==
  /\ f[0] = counters /\ Counted(hook) = f[Len(ms)]
  /\ \A n \in 1 .. Len(ms) : f[n] = CountedOne(f[n - 1], ms[n], hook)

LEMMA CountedSteps ==
  ASSUME counters \in [Counters -> Int], NEW a \in Actors, NEW hook, hook.source = a,
         NEW ms, ms = counter_modifiers[a]
  PROVE  \E f \in [0 .. Len(ms) -> [Counters -> Int]] : CountedBy(f, ms, hook)
<1>1. PICK V : V = [Counters -> Int]
  OBVIOUS
<1>2. ms \in Seq(Range(counter_modifiers[a]))
  BY SideEffects
<1>3. PICK last \in Nat : last = Len(ms)
  BY <1>2, LenProperties
<1>4. ASSUME NEW cs \in V, NEW n \in 1 .. last PROVE CountedOne(cs, ms[n], hook) \in V
  <2>1. ms[n] \in Range(counter_modifiers[a])
    BY <1>2, <1>3, ElementOfSeq
  <2>2. apply_counter_modifications(cs, ms[n]) \in V
    BY <1>1, <2>1, ModifiedType
  <2> QED BY <2>2 DEF CountedOne
<1>5. \E f : CountedUpTo(f, ms, hook)
  <2>1. PICK step : step = [n \in 1 .. last |-> [cs \in V |-> CountedOne(cs, ms[n], hook)]]
    OBVIOUS
  <2>2. step \in [1 .. last -> [V -> V]]
    BY <1>4, <2>1
  <2>3. PICK f \in [0 .. last -> V] : Follows(f, last, counters, step)
    BY <1>1, <2>2, RecursionExists
  <2>4. PICK h : h = [n \in 0 .. last |->
                        IF n = 0 THEN counters ELSE CountedOne(f[n - 1], ms[n], hook)]
    OBVIOUS
  <2>5. ASSUME NEW n \in 0 .. last PROVE f[n] = h[n]
    <3>1. f[n] = IF n = 0 THEN counters ELSE step[n][f[n - 1]]
      BY <2>3 DEF Follows
    <3>2. CASE n = 0
      BY <2>4, <3>1, <3>2
    <3>3. CASE n # 0
      <4>1. n \in 1 .. last /\ n - 1 \in 0 .. last
        BY <3>3
      <4>2. PICK cs \in V : cs = f[n - 1]
        BY <4>1
      <4>3. step[n][cs] = CountedOne(cs, ms[n], hook)
        BY <2>1, <4>1
      <4> QED BY <2>4, <3>1, <3>3, <4>2, <4>3
    <3> QED BY <3>2, <3>3
  <2>6. f = h
    BY <2>4, <2>5
  <2> QED BY <1>3, <2>4, <2>6 DEF CountedUpTo
<1>6. PICK f : f = CHOOSE g : CountedUpTo(g, ms, hook)
  OBVIOUS
<1>7. CountedUpTo(f, ms, hook)
  BY <1>5, <1>6, Zenon
<1>8. \A n \in 0 .. last :
        f[n] = IF n = 0 THEN counters ELSE CountedOne(f[n - 1], ms[n], hook)
  BY <1>3, <1>7, Zenon DEF CountedUpTo
<1>9. f[0] \in V
  BY <1>1, <1>8
<1>10. ASSUME NEW n \in 0 .. last, n < last, f[n] \in V PROVE f[n + 1] \in V
  <2>1. n + 1 \in 0 .. last /\ n + 1 \in 1 .. last /\ n + 1 # 0 /\ (n + 1) - 1 = n
    BY <1>10
  <2> QED BY <1>4, <1>8, <1>10, <2>1
<1>11. \A n \in 0 .. last : f[n] \in V
  BY <1>9, <1>10, RecursionStays
<1>12. f \in [0 .. last -> V]
  BY <1>3, <1>7, <1>11 DEF CountedUpTo
<1>13. Counted(hook) = f[last]
  BY <1>3, <1>6 DEF Counted, CountedUpTo, CountedOne
<1>14. \A n \in 1 .. last : f[n] = CountedOne(f[n - 1], ms[n], hook)
  BY <1>8
<1>15. f[0] = counters
  BY <1>8
<1> QED BY <1>1, <1>3, <1>12, <1>13, <1>14, <1>15 DEF CountedBy

LEMMA CountedType ==
  ASSUME counters \in [Counters -> Int], NEW hook, hook.source \in Actors
  PROVE  Counted(hook) \in [Counters -> Int]
<1>1. PICK a \in Actors : a = hook.source
  OBVIOUS
<1>2. PICK ms \in Seq(Range(counter_modifiers[a])) : ms = counter_modifiers[a]
  BY SideEffects
<1>3. Len(ms) \in 0 .. Len(ms)
  BY <1>2, LenProperties
<1> QED BY <1>1, <1>2, <1>3, CountedSteps DEF CountedBy

\* What the first hits deal to a.
DealtOne(v, hits, criticals, a, n) ==
  IF hits[n].target # a THEN v
  ELSE v + damage[hits[n].skill] * (IF n \in criticals THEN 2 ELSE 1)
DealtUpTo(f, hits, criticals, a) ==
  f = [n \in 0 .. Len(hits) |-> IF n = 0 THEN 0 ELSE DealtOne(f[n - 1], hits, criticals, a, n)]

LEMMA DealtType ==
  ASSUME NEW hits \in Seq(StrikesIn), NEW criticals, NEW a
  PROVE  Dealt(hits, criticals, a) \in Nat
<1>1. PICK last \in Nat : last = Len(hits)
  BY LenProperties
<1>2. ASSUME NEW v \in Nat, NEW n \in 1 .. last PROVE DealtOne(v, hits, criticals, a, n) \in Nat
  <2>1. PICK x \in StrikesIn : x = hits[n]
    BY <1>1, ElementOfSeq
  <2>2. PICK d \in Nat : d = damage[x.skill]
    BY Encounter DEF StrikesIn
  <2>3. v + d * 2 \in Nat /\ v + d * 1 \in Nat
    OBVIOUS
  <2> QED BY <2>1, <2>2, <2>3 DEF DealtOne
<1>3. \E f : DealtUpTo(f, hits, criticals, a)
  <2>1. PICK step : step = [n \in 1 .. last |-> [v \in Nat |-> DealtOne(v, hits, criticals, a, n)]]
    OBVIOUS
  <2>2. step \in [1 .. last -> [Nat -> Nat]]
    BY <1>2, <2>1
  <2>3. PICK f \in [0 .. last -> Nat] : Follows(f, last, 0, step)
    BY <2>2, RecursionExists
  <2>4. PICK h : h = [n \in 0 .. last |->
                        IF n = 0 THEN 0 ELSE DealtOne(f[n - 1], hits, criticals, a, n)]
    OBVIOUS
  <2>5. ASSUME NEW n \in 0 .. last PROVE f[n] = h[n]
    <3>1. f[n] = IF n = 0 THEN 0 ELSE step[n][f[n - 1]]
      BY <2>3 DEF Follows
    <3>2. CASE n = 0
      BY <2>4, <3>1, <3>2
    <3>3. CASE n # 0
      <4>1. n \in 1 .. last /\ n - 1 \in 0 .. last
        BY <3>3
      <4>2. PICK v \in Nat : v = f[n - 1]
        BY <4>1
      <4>3. step[n][v] = DealtOne(v, hits, criticals, a, n)
        BY <2>1, <4>1
      <4> QED BY <2>4, <3>1, <3>3, <4>2, <4>3
    <3> QED BY <3>2, <3>3
  <2>6. f = h
    BY <2>4, <2>5
  <2> QED BY <1>1, <2>4, <2>6 DEF DealtUpTo
<1>4. PICK f : f = CHOOSE g : DealtUpTo(g, hits, criticals, a)
  OBVIOUS
<1>5. DealtUpTo(f, hits, criticals, a)
  BY <1>3, <1>4, Zenon
<1>6. \A n \in 0 .. last :
        f[n] = IF n = 0 THEN 0 ELSE DealtOne(f[n - 1], hits, criticals, a, n)
  BY <1>1, <1>5, Zenon DEF DealtUpTo
<1>7. f[0] \in Nat
  BY <1>6
<1>8. ASSUME NEW n \in 0 .. last, n < last, f[n] \in Nat PROVE f[n + 1] \in Nat
  <2>1. n + 1 \in 0 .. last /\ n + 1 \in 1 .. last /\ n + 1 # 0 /\ (n + 1) - 1 = n
    BY <1>8
  <2> QED BY <1>2, <1>6, <1>8, <2>1
<1>9. f[last] \in Nat
  <2>1. \A n \in 0 .. last : f[n] \in Nat
    BY <1>7, <1>8, RecursionStays
  <2> QED BY <2>1
<1>10. Dealt(hits, criticals, a) = f[last]
  BY <1>1, <1>4 DEF Dealt, DealtUpTo, DealtOne
<1> QED BY <1>9, <1>10

-----------------------------------------------------------------------------
(* Side effects keep what they change well formed. *)

LEMMA TriggersType ==
  ASSUME NEW a \in Actors, NEW fired, fired \subseteq Triggers(a)
  PROVE  IsFiniteSet(fired) /\ Cardinality(fired) \in Nat /\ \A t \in fired : t.skill_key \in Skills
<1>1. IsFiniteSet(Triggers(a)) /\ \A t \in Triggers(a) : t.skill_key \in Skills
  BY SideEffects
<1> QED BY <1>1, FS_Subset, FS_CardinalityType

LEMMA SpawnType ==
  ASSUME RotationsOK, NEW a \in Actors, NEW fired, fired \subseteq Triggers(a),
         Spawn(a, fired), UNCHANGED <<no_more_rotation, casting, finishing>>
  PROVE  RotationsOK' /\ Alive \subseteq Alive'
<1>1. PICK ids : ids = LowestOf(Children \ Alive, Cardinality(fired))
  OBVIOUS
<1>2. PICK f : f = CHOOSE g \in [ids -> fired] : \A t \in fired : \E i \in ids : g[i] = t
  OBVIOUS
<1>3. /\ Cardinality(ids) = Cardinality(fired)
      /\ owner' = [e \in Alive \cup ids |-> IF e \in ids THEN a ELSE owner[e]]
      /\ queue' = [e \in Entities |-> IF e \in ids THEN <<f[e].skill_key>> ELSE queue[e]]
  BY <1>1, <1>2 DEF Spawn
<1>4. ids \subseteq Children \ Alive
  BY <1>1 DEF LowestOf
<1>5. f \in [ids -> fired]
  <2>1. IsFiniteSet(fired) /\ IsFiniteSet(ids)
    BY <1>4, TriggersType, Finite, FS_Subset
  <2>2. PICK g \in Bijection(ids, fired) : TRUE
    BY <1>3, <2>1, FS_SameCardinalityBij DEF ExistsBijection
  <2>3. g \in [ids -> fired] /\ \A t \in fired : \E i \in ids : g[i] = t
    BY <2>2 DEF Bijection, Surjection
  <2> QED BY <1>2, <2>3
<1>6. \A e \in ids : <<f[e].skill_key>> \in Seq(Skills)
  <2> TAKE e \in ids
  <2>1. f[e].skill_key \in Skills
    BY <1>5, TriggersType
  <2> QED BY <2>1
<1>7. Alive' = Alive \cup ids
  BY <1>3 DEF Alive
<1>8. owner' \in [Alive' -> Actors] /\ Alive' \subseteq Children /\ Alive \subseteq Alive'
  BY <1>3, <1>4, <1>7 DEF RotationsOK
<1>9. queue' \in [Entities -> Seq(Skills)]
  BY <1>3, <1>6 DEF RotationsOK
<1>10. \A e \in Children \ Alive' : queue'[e] = <<>>
  BY <1>3, <1>7 DEF RotationsOK, Entities
<1>11. /\ casting' \in [DOMAIN casting' -> Casts]
       /\ DOMAIN casting' \subseteq Living' \X Nat /\ IsFiniteSet(DOMAIN casting')
  BY <1>8 DEF RotationsOK, Living
<1> QED BY <1>8, <1>9, <1>10, <1>11 DEF RotationsOK, Living

LEMMA StacksFinite ==
  ASSUME StacksOK, NEW a, NEW k
  PROVE  /\ IsFiniteSet(DOMAIN effects) /\ IsFiniteSet(Stacks(a, k))
         /\ Cardinality(Stacks(a, k)) \in Nat /\ Stacks(a, k) \subseteq DOMAIN effects
<1>1. MaxEffects \in Int /\ 1 \in Int
  BY Encounter
<1>2. IsFiniteSet(DOMAIN effects)
  BY <1>1, FS_Interval, FS_Subset DEF StacksOK
<1>3. Stacks(a, k) \subseteq DOMAIN effects
  BY DEF Stacks
<1> QED BY <1>2, <1>3, FS_Subset, FS_CardinalityType

LEMMA SpawnedType ==
  ASSUME tally \in Tallies, NEW a \in Actors, NEW fired, fired \subseteq Triggers(a)
  PROVE  Spawned(fired) \in [Skills -> Nat]
<1>1. \A s \in Skills : Cardinality({t \in fired : t.skill_key = s}) \in Nat
  BY TriggersType
<1>2. tally.spawned \in [Skills -> Nat]
  BY DEF Tallies
<1> QED BY <1>1, <1>2 DEF Spawned

LEMMA SideEffectsType ==
  ASSUME TypeInv, NEW hook \in Hooks, apply_side_effects(hook), UNCHANGED effects
  PROVE  /\ RotationsOK' /\ Alive \subseteq Alive' /\ tally' \in Tallies
         /\ counters' \in [Counters -> Int] /\ destroy_effect' \subseteq DOMAIN effects
<1>1. PICK a \in Actors : a = hook.source
  BY DEF Hooks
<1>2. PICK cs : cs = Counted(hook)
  OBVIOUS
<1>3. PICK fired : fired = Triggered(hook, cs)
  OBVIOUS
<1>4. fired \subseteq Triggers(a)
  BY <1>1, <1>3 DEF Triggered
<1>5. /\ counters' = cs /\ Spawn(a, fired) /\ UNCHANGED <<no_more_rotation, casting, finishing>>
      /\ destroy_effect' = destroy_effect \cup
             UNION {RemovedStacks(hook, r) : r \in
                       {r \in Range(effect_removals[hook.source]) : Due(r, hook, cs)}}
      /\ tally' = [tally EXCEPT !.spawned = Spawned(fired),
                                !.hits[a] = @ + IF hook.stage = "strike" THEN 1 ELSE 0]
  BY <1>1, <1>2, <1>3 DEF apply_side_effects
<1>6. counters' \in [Counters -> Int]
  BY <1>1, <1>2, <1>5, CountedType DEF TypeInv, StatsOK
<1>7. RotationsOK' /\ Alive \subseteq Alive'
  BY <1>4, <1>5, SpawnType DEF TypeInv
<1>8. tally' \in Tallies
  <2>1. PICK spawned \in [Skills -> Nat] : spawned = Spawned(fired)
    BY <1>4, SpawnedType DEF TypeInv
  <2>2. tally \in Tallies
    BY DEF TypeInv
  <2>3. PICK h : h = [tally.hits EXCEPT ![a] = @ + IF hook.stage = "strike" THEN 1 ELSE 0]
    OBVIOUS
  <2>4. h \in [Actors -> Nat]
    BY <2>2, <2>3 DEF Tallies
  <2>5. tally' = [tally EXCEPT !.spawned = spawned, !.hits = h]
    BY <1>5, <2>1, <2>2, <2>3 DEF Tallies
  <2> QED BY <2>2, <2>4, <2>5 DEF Tallies
<1>9. destroy_effect' \subseteq DOMAIN effects
  <2>1. \A r : RemovedStacks(hook, r) \subseteq DOMAIN effects
    BY DEF RemovedStacks, LowestOf, Stacks
  <2>2. destroy_effect \subseteq DOMAIN effects
    BY DEF TypeInv, StacksOK
  <2> QED BY <1>5, <2>1, <2>2
<1> QED BY <1>6, <1>7, <1>8, <1>9

LEMMA TailType ==
  ASSUME NEW S, NEW s \in Seq(S), s # <<>>
  PROVE  /\ Head(s) \in S /\ Head(s) = s[1] /\ 1 \in DOMAIN s /\ Tail(s) \in Seq(S)
         /\ \A i \in DOMAIN Tail(s) : i + 1 \in DOMAIN s /\ Tail(s)[i] = s[i + 1]
         /\ Len(s) = 1 => Tail(s) = <<>>
<1>1. Len(s) \in Nat /\ Len(s) # 0 /\ DOMAIN s = 1 .. Len(s)
  BY LenProperties, EmptySeq
<1>2. Head(s) \in S /\ Tail(s) \in Seq(S) /\ Len(Tail(s)) = Len(s) - 1
  BY HeadTailProperties
<1>3. DOMAIN Tail(s) = 1 .. Len(s) - 1
  BY <1>2, LenProperties
<1>4. \A i \in 1 .. Len(s) - 1 : Tail(s)[i] = s[i + 1]
  BY <1>1
<1>5. Len(s) = 1 => Tail(s) = <<>>
  <2>1. PICK t \in Seq(S) : t = Tail(s)
    BY <1>2
  <2>2. t # <<>> => Len(t) # 0
    BY EmptySeq
  <2> QED BY <1>2, <2>1, <2>2
<1> QED BY <1>1, <1>2, <1>3, <1>4, <1>5

LEMMA HeadOrTail ==
  ASSUME NEW S, NEW s \in Seq(S), s # <<>>, NEW x \in Range(s), x # Head(s)
  PROVE  x \in Range(Tail(s))
<1>1. PICK last \in Nat : last = Len(s) /\ DOMAIN s = 1 .. last /\ last # 0
  BY LenProperties, EmptySeq
<1>2. PICK i \in 1 .. last : x = s[i] /\ i # 1
  BY <1>1, TailType DEF Range
<1>3. Tail(s) \in Seq(S) /\ DOMAIN Tail(s) = 1 .. last - 1
  BY <1>1, HeadTailProperties, LenProperties
<1>4. i - 1 \in DOMAIN Tail(s) /\ (i - 1) + 1 = i
  BY <1>2, <1>3
<1>5. Tail(s)[i - 1] = s[(i - 1) + 1]
  BY <1>4, TailType
<1> QED BY <1>2, <1>4, <1>5 DEF Range

LEMMA TailWithin ==
  ASSUME NEW S, NEW s \in Seq(S), s # <<>>
  PROVE  Range(Tail(s)) \subseteq Range(s) /\ Head(s) \in Range(s)
<1> QED BY TailType DEF Range

LEMMA OutGrows ==
  ASSUME QueuesOK, Living \subseteq Living'
  PROVE  /\ outgoing_strikes \in Seq(StrikesOut') /\ outgoing_effects \in Seq(EffectsOut')
<1>1. StrikesOut \subseteq StrikesOut' /\ EffectsOut \subseteq EffectsOut'
  BY DEF StrikesOut, EffectsOut
<1> QED BY <1>1, SeqMonotonic DEF QueuesOK

\* A hook's side effects, and what goes out with them.
LEMMA HookType ==
  ASSUME TypeInv, hooks # <<>>, apply_side_effects(Head(hooks)), hooks' = Tail(hooks),
         \/ phase \in {"hooks", "strikes"} /\ phase' = phase
         \/ phase = "applied" /\ phase' = "effects",
         outgoing_effects' \in Seq(EffectsOut'),
         UNCHANGED <<tick, termination, outgoing_strikes, incoming_strikes, incoming_effects,
                     effects, duration_expired, stats>>
  PROVE  TypeInv'
<1>1. PICK hook \in Hooks : hook = Head(hooks)
  BY TailType DEF TypeInv, QueuesOK
<1>2. /\ RotationsOK' /\ Alive \subseteq Alive' /\ tally' \in Tallies
      /\ counters' \in [Counters -> Int] /\ destroy_effect' \subseteq DOMAIN effects
  BY <1>1, SideEffectsType
<1>3. RunOK'
  BY DEF TypeInv, RunOK, Phases
<1>4. QueuesOK'
  <2>1. outgoing_strikes' \in Seq(StrikesOut')
    BY <1>2, OutGrows DEF TypeInv, Living
  <2>2. hooks' \in Seq(Hooks) /\ \A i \in DOMAIN hooks' : i + 1 \in DOMAIN hooks
                                                            /\ hooks'[i] = hooks[i + 1]
    BY TailType DEF TypeInv, QueuesOK
  <2>3. phase' = "strikes" => \A i \in DOMAIN hooks' : hooks'[i].by \in Skills
    BY <2>2 DEF TypeInv, QueuesOK
  <2>4. phase = "applied" => hooks' = <<>>
    BY TailType DEF TypeInv, QueuesOK
  <2>5. /\ incoming_strikes' \in Seq(StrikesIn) /\ incoming_effects' \in Seq(EffectsIn)
        /\ hooks' # <<>> => phase' \in {"hooks", "strikes", "applied"}
        /\ phase' # "applied"
    BY <2>4 DEF TypeInv, QueuesOK
  <2> QED BY <2>1, <2>2, <2>3, <2>5 DEF QueuesOK, StrikesIn, EffectsIn, Hooks
<1>5. StacksOK'
  <2>1. \A a, k : Stacks(a, k)' = Stacks(a, k)
    BY DEF Stacks
  <2> QED BY <1>2, <2>1 DEF TypeInv, StacksOK
<1>6. StatsOK'
  BY <1>2 DEF TypeInv, StatsOK, stats
<1> QED BY <1>2, <1>3, <1>4, <1>5, <1>6 DEF TypeInv, Tallies

LEMMA RunHookType == TypeInv /\ run_hook => TypeInv'
<1> SUFFICES ASSUME TypeInv, run_hook PROVE TypeInv'
  OBVIOUS
<1>1. /\ hooks # <<>> /\ apply_side_effects(Head(hooks)) /\ hooks' = Tail(hooks)
      /\ phase = "hooks" /\ phase' = phase
      /\ UNCHANGED <<tick, termination, outgoing_strikes, outgoing_effects, incoming_strikes,
                     incoming_effects, effects, duration_expired, stats>>
  BY DEF run_hook
<1>2. PICK hook \in Hooks : hook = Head(hooks)
  BY <1>1, TailType DEF TypeInv, QueuesOK
<1>3. outgoing_effects' \in Seq(EffectsOut')
  BY <1>1, <1>2, SideEffectsType, OutGrows DEF TypeInv, Living
<1> QED BY <1>1, <1>3, HookType

LEMMA OnStrikeHookType == TypeInv /\ on_strike_hook => TypeInv'
<1> SUFFICES ASSUME TypeInv, on_strike_hook PROVE TypeInv'
  OBVIOUS
<1>1. /\ hooks # <<>> /\ apply_side_effects(Head(hooks)) /\ hooks' = Tail(hooks)
      /\ phase = "strikes" /\ phase' = phase
      /\ outgoing_effects' = outgoing_effects \o Applications(Head(hooks))
      /\ UNCHANGED <<tick, termination, outgoing_strikes, incoming_strikes,
                     incoming_effects, effects, duration_expired, stats>>
  BY DEF on_strike_hook
<1>2. PICK hook \in Hooks : hook = Head(hooks) /\ hook.by \in Skills
  BY <1>1, TailType DEF TypeInv, QueuesOK
<1>3. RotationsOK' /\ outgoing_effects \in Seq(EffectsOut')
  BY <1>1, <1>2, SideEffectsType, OutGrows DEF TypeInv, Living
<1>4. Applications(hook) \in Seq(EffectsOut')
  <2>1. PICK list \in Seq(EffectApplications) : list = on_strike_effect_applications[hook.by]
    BY <1>2, ApplicationTypes
  <2>2. DOMAIN list = 1 .. Len(list) /\ Len(list) \in Nat
        /\ \A i \in DOMAIN list : list[i] \in EffectApplications
    BY FiniteDomain
  <2>3. PICK out : out = [i \in 1 .. Len(list) |-> [source |-> hook.source, application |-> list[i]]]
    OBVIOUS
  <2>4. hook.source \in Living'
    BY <1>2 DEF Hooks, Living
  <2>5. out \in [1 .. Len(list) -> EffectsOut']
    BY <2>2, <2>3, <2>4 DEF EffectsOut
  <2>6. Applications(hook) = out
    BY <2>1, <2>2, <2>3 DEF Applications
  <2> QED BY <2>2, <2>5, <2>6
<1>5. outgoing_effects' \in Seq(EffectsOut')
  BY <1>1, <1>2, <1>3, <1>4, ConcatProperties
<1> QED BY <1>1, <1>5, HookType

LEMMA OnEffectApplicationType == TypeInv /\ on_effect_application => TypeInv'
<1> SUFFICES ASSUME TypeInv, on_effect_application PROVE TypeInv'
  OBVIOUS
<1>1. /\ apply_side_effects(Head(hooks)) /\ hooks' = Tail(hooks)
      /\ phase = "applied" /\ phase' = "effects"
      /\ UNCHANGED <<tick, termination, outgoing_strikes, outgoing_effects, incoming_strikes,
                     incoming_effects, effects, duration_expired, stats>>
  BY DEF on_effect_application
<1>2. hooks # <<>>
  <2>1. Len(hooks) = 1 /\ Len(<<>>) = 0
    BY <1>1 DEF TypeInv, QueuesOK
  <2> QED BY <2>1
<1>3. PICK hook \in Hooks : hook = Head(hooks)
  BY <1>2, TailType DEF TypeInv, QueuesOK
<1>4. outgoing_effects' \in Seq(EffectsOut')
  BY <1>1, <1>3, SideEffectsType, OutGrows DEF TypeInv, Living
<1> QED BY <1>1, <1>2, <1>4, HookType

-----------------------------------------------------------------------------
(* Strikes *)

LEMMA TargetsType ==
  ASSUME NEW e
  PROVE  Enemies(e) \in Seq(Actors) /\ Others(e) \in Seq(Actors)
<1> QED BY Finite, AtType DEF Enemies, Others

LEMMA ByTargetType ==
  ASSUME NEW S, NEW list \in Seq(S), NEW T, NEW order \in Seq(T)
  PROVE  ByTarget(list, order) \in Seq(S)
<1>1. Len(order) \in Nat /\ DOMAIN order = 1 .. Len(order)
  BY LenProperties
<1>2. PICK seqs : seqs = [i \in DOMAIN order |->
                            At(list, {j \in DOMAIN list : list[j].target = order[i]})]
  OBVIOUS
<1>3. \A i \in DOMAIN order : seqs[i] \in Seq(S)
  BY <1>2, AtType
<1>4. seqs \in [1 .. Len(order) -> Seq(S)]
  BY <1>1, <1>2, <1>3
<1>5. seqs \in Seq(Seq(S))
  BY <1>1, <1>4
<1> QED BY <1>2, <1>5, FlattenType DEF ByTarget

LEMMA OwnersOwnThemselves ==
  RotationsOK => \A a \in Actors : get_owner(a) = a
<1> QED BY Encounter DEF RotationsOK, get_owner

LEMMA SameAim ==
  ASSUME RotationsOK, NEW e \in Living, NEW s
  PROVE  Enemies(e) = Enemies(get_owner(e)) /\ Aimed(e, s) = Aimed(get_owner(e), s)
<1>1. PICK a \in Actors : a = get_owner(e)
  BY OwnerType
<1>2. get_owner(a) = a
  BY OwnersOwnThemselves
<1>3. Enemies(e) = Enemies(a)
  BY <1>1, <1>2 DEF Enemies
<1> QED BY <1>1, <1>3 DEF Aimed

\* The incoming strikes whose target is among those the strike of that skill is aimed at.
AimedStrikes == {x \in StrikesIn : x.target \in Range(Aimed(x.source, x.skill))}

LEMMA DispatchedAimed ==
  ASSUME RotationsOK, QueuesOK
  PROVE  Dispatched \in Seq(AimedStrikes)
<1>1. PICK out \in Seq(StrikesOut) : out = outgoing_strikes
  BY DEF QueuesOK
<1>2. DOMAIN out = 1 .. Len(out) /\ Len(out) \in Nat /\ \A i \in DOMAIN out : out[i] \in StrikesOut
  BY FiniteDomain
<1>3. PICK seqs : seqs = [i \in DOMAIN out |->
                 [j \in DOMAIN Aimed(out[i].source, out[i].skill) |->
                    [source |-> get_owner(out[i].source),
                     target |-> Aimed(out[i].source, out[i].skill)[j], skill |-> out[i].skill]]]
  OBVIOUS
<1>4. ASSUME NEW i \in DOMAIN out PROVE seqs[i] \in Seq(AimedStrikes)
  <2>1. PICK x \in StrikesOut : x = out[i]
    BY <1>2
  <2>2. x.source \in Living /\ x.skill \in Skills /\ get_owner(x.source) \in Actors
    BY OwnerType DEF StrikesOut
  <2>3. num_targets[x.skill] \in Int
    BY <2>2, Encounter
  <2>4. PICK aimed \in Seq(Actors) : aimed = Aimed(x.source, x.skill)
    BY <2>3, TargetsType, UpToType DEF Aimed
  <2>5. DOMAIN aimed = 1 .. Len(aimed) /\ Len(aimed) \in Nat
        /\ \A j \in DOMAIN aimed : aimed[j] \in Actors
    BY FiniteDomain
  <2>6. PICK f : f = [j \in 1 .. Len(aimed) |-> [source |-> get_owner(x.source),
                                              target |-> aimed[j], skill |-> x.skill]]
    OBVIOUS
  <2>7. aimed = Aimed(get_owner(x.source), x.skill)
    BY <2>2, <2>4, SameAim
  <2>8. f \in [1 .. Len(aimed) -> AimedStrikes]
    <3> SUFFICES ASSUME NEW j \in 1 .. Len(aimed) PROVE f[j] \in AimedStrikes
      BY <2>6
    <3>1. aimed[j] \in Range(aimed)
      BY <2>5 DEF Range
    <3>2. f[j] \in StrikesIn /\ f[j].target = aimed[j] /\ f[j].skill = x.skill
          /\ f[j].source = get_owner(x.source)
      BY <2>2, <2>5, <2>6 DEF StrikesIn
    <3> QED BY <2>7, <3>1, <3>2 DEF AimedStrikes
  <2>9. f \in Seq(AimedStrikes)
    BY <2>5, <2>8
  <2>10. seqs[i] = f
    BY <1>3, <2>1, <2>4, <2>5, <2>6
  <2> QED BY <2>9, <2>10
<1>5. seqs \in [1 .. Len(out) -> Seq(AimedStrikes)]
  BY <1>2, <1>3, <1>4
<1>6. seqs \in Seq(Seq(AimedStrikes))
  BY <1>2, <1>5
<1>7. Dispatched = FlattenSeq(seqs)
  BY <1>1, <1>3 DEF Dispatched
<1> QED BY <1>6, <1>7, FlattenType

LEMMA DispatchedType ==
  ASSUME RotationsOK, QueuesOK
  PROVE  Dispatched \in Seq(StrikesIn)
<1>1. AimedStrikes \subseteq StrikesIn
  BY DEF AimedStrikes
<1> QED BY <1>1, DispatchedAimed, SeqMonotonic

StrikeHook == {h \in Hooks : h.by \in Skills /\ h.stage = "strike"}

LEMMA StrikeHooksType ==
  ASSUME NEW hits \in Seq(StrikesIn), NEW criticals
  PROVE  StrikeHooks(hits, criticals) \in Seq(StrikeHook)
<1>1. DOMAIN hits = 1 .. Len(hits) /\ Len(hits) \in Nat
      /\ \A i \in DOMAIN hits : hits[i] \in StrikesIn
  BY FiniteDomain
<1>2. PICK all : all = [i \in DOMAIN hits |->
                          [stage |-> "strike", source |-> hits[i].source,
                           target |-> hits[i].target, by |-> hits[i].skill,
                           critical |-> i \in criticals]]
  OBVIOUS
<1>3. ASSUME NEW i \in DOMAIN hits PROVE all[i] \in StrikeHook
  <2>1. PICK x \in StrikesIn : x = hits[i]
    BY <1>1
  <2>2. PICK b \in BOOLEAN : b = (i \in criticals)
    <3>1. CASE i \in criticals
      <4>1. TRUE = (i \in criticals)
        BY <3>1
      <4> QED BY <4>1
    <3>2. CASE i \notin criticals
      <4>1. FALSE = (i \in criticals)
        BY <3>2
      <4> QED BY <4>1
    <3> QED BY <3>1, <3>2
  <2>3. all[i] = [stage |-> "strike", source |-> x.source, target |-> x.target, by |-> x.skill,
                  critical |-> b]
    BY <1>2, <2>1, <2>2, Zenon
  <2> QED BY <2>3 DEF StrikeHook, Hooks, StrikesIn
<1>4. all \in [1 .. Len(hits) -> StrikeHook]
  BY <1>1, <1>2, <1>3
<1>5. all \in Seq(StrikeHook)
  BY <1>1, <1>4
<1>6. StrikeHooks(hits, criticals) = At(all, {i \in DOMAIN hits : hits[i].skill \notin unhooked})
  BY <1>2, Zenon DEF StrikeHooks
<1> QED BY <1>5, <1>6, AtType

LEMMA StrikesType == TypeInv /\ strikes => TypeInv'
<1> SUFFICES ASSUME TypeInv, strikes PROVE TypeInv'
  OBVIOUS
<1>1. PICK d \in Seq(StrikesIn) : d = Dispatched
  BY DispatchedType DEF TypeInv
<1>2. PICK order \in SetToSeqs(Targets(d)) :
        \E criticals : LET hits == ByTarget(d, order) IN
             /\ incoming_strikes' = hits
             /\ hooks' = StrikeHooks(hits, criticals)
             /\ incoming_damage' = [a \in Actors |-> Dealt(hits, criticals, a)]
             /\ tally' = [tally EXCEPT !.most = [a \in Actors |-> Larger(@[a], HitsOf(a, hooks'))]]
  BY <1>1 DEF strikes
<1>3. order \in Seq(Targets(d))
  <2>1. \A i \in DOMAIN d : d[i] \in StrikesIn
    BY FiniteDomain
  <2>2. Targets(d) \subseteq Actors
    BY <2>1 DEF Targets, StrikesIn
  <2> QED BY <2>2, Finite, FS_Subset, SetToSeqsType
<1>4. PICK hits \in Seq(StrikesIn) : hits = ByTarget(d, order)
  BY <1>3, ByTargetType
<1>5. PICK criticals :
        /\ incoming_strikes' = hits
        /\ hooks' = StrikeHooks(hits, criticals)
        /\ incoming_damage' = [a \in Actors |-> Dealt(hits, criticals, a)]
        /\ tally' = [tally EXCEPT !.most = [a \in Actors |-> Larger(@[a], HitsOf(a, hooks'))]]
  BY <1>2, <1>4
<1>6. /\ phase' = "strikes"
      /\ UNCHANGED <<tick, termination, rotations, outgoing_strikes, outgoing_effects,
                     incoming_effects, stacks, sides, health, is_downstate,
                     buffered_condition_damage, audited>>
  BY DEF strikes
<1>7. hooks' \in Seq(StrikeHook)
  BY <1>5, StrikeHooksType
<1>8. RunOK' /\ RotationsOK' /\ Living' = Living
  BY <1>6 DEF TypeInv, RunOK, RotationsOK, Phases, rotations, Living, Alive
<1>9. QueuesOK'
  <2>1. hooks' \in Seq(Hooks) /\ \A i \in DOMAIN hooks' : hooks'[i] \in StrikeHook
    <3>1. StrikeHook \subseteq Hooks
      BY DEF StrikeHook
    <3> QED BY <1>7, <3>1, SeqMonotonic, FiniteDomain
  <2>2. outgoing_strikes' \in Seq(StrikesOut') /\ outgoing_effects' \in Seq(EffectsOut')
    BY <1>6, <1>8, OutGrows DEF TypeInv
  <2>3. \A i \in DOMAIN hooks' : hooks'[i].by \in Skills
    BY <2>1 DEF StrikeHook
  <2> QED BY <1>5, <1>6, <2>1, <2>2, <2>3 DEF TypeInv, QueuesOK, StrikesIn, EffectsIn, Hooks
<1>10. StacksOK'
  <2>1. \A a, k : Stacks(a, k)' = Stacks(a, k)
    BY <1>6 DEF Stacks, stacks
  <2> QED BY <1>6, <2>1 DEF TypeInv, StacksOK, stacks
<1>11. StatsOK'
  <2>1. \A a \in Actors : Dealt(hits, criticals, a) \in Nat
    BY DealtType
  <2>2. incoming_damage' \in [Actors -> Nat]
    BY <1>5, <2>1
  <2> QED BY <1>6, <2>2 DEF TypeInv, StatsOK, sides
<1>12. tally' \in Tallies
  <2>1. \A a : HitsOf(a, hooks') \in Nat
    <3> TAKE a
    <3>1. IsFiniteSet(DOMAIN hooks')
      BY <1>7, FiniteDomain
    <3>2. {i \in DOMAIN hooks' : hooks'[i].source = a} \subseteq DOMAIN hooks'
      OBVIOUS
    <3> QED BY <3>1, <3>2, FS_Subset, FS_CardinalityType DEF HitsOf
  <2>2. tally \in Tallies
    BY DEF TypeInv
  <2>3. PICK most : most = [a \in Actors |-> Larger(tally.most[a], HitsOf(a, hooks'))]
    OBVIOUS
  <2>4. most \in [Actors -> Nat]
    BY <2>1, <2>2, <2>3 DEF Larger, Tallies
  <2>5. tally' = [tally EXCEPT !.most = most]
    BY <1>5, <2>3
  <2> QED BY <2>2, <2>4, <2>5 DEF Tallies
<1> QED BY <1>8, <1>9, <1>10, <1>11, <1>12 DEF TypeInv, Tallies

-----------------------------------------------------------------------------
(* Effects *)

LEMMA FitType ==
  ASSUME NEW application, NEW source, NEW s \in Seq(Actors)
  PROVE  Fit(application, source, s) \in Seq(Actors)
<1> QED BY AtType DEF Fit

LEMMA RecipientsType ==
  ASSUME RotationsOK, NEW e \in Living, NEW application \in EffectApplications
  PROVE  Recipients(e, application) \in Seq(Actors)
<1>1. PICK source \in Actors : source = get_owner(e)
  BY OwnerType
<1>2. /\ application.direction \in {"SELF", "TEAM", "OUTGOING"}
      /\ application.num_targets \in Int /\ application.num_targets - 1 \in Int
  BY Applicable
<1>3. <<source>> \in Seq(Actors)
  OBVIOUS
<1>4. Fit(application, source, <<source>>) \in Seq(Actors)
  BY <1>3, FitType
<1>5. UpTo(Fit(application, source, Others(e)), application.num_targets - 1) \in Seq(Actors)
  BY <1>2, TargetsType, FitType, UpToType
<1>6. <<source>> \o UpTo(Fit(application, source, Others(e)), application.num_targets - 1)
        \in Seq(Actors)
  BY <1>3, <1>5, ConcatProperties
<1>7. Opponents(e, application) \in Seq(Actors)
  BY <1>1, <1>2, TargetsType, FitType, UpToType DEF Opponents
<1> QED BY <1>1, <1>2, <1>4, <1>6, <1>7 DEF Recipients

LEMMA SentType ==
  ASSUME RotationsOK, NEW list \in Seq(EffectsOut)
  PROVE  Sent(list) \in Seq(EffectsIn)
<1>1. DOMAIN list = 1 .. Len(list) /\ Len(list) \in Nat
      /\ \A i \in DOMAIN list : list[i] \in EffectsOut
  BY FiniteDomain
<1>2. PICK seqs : seqs = [i \in DOMAIN list |->
                 [j \in DOMAIN Recipients(list[i].source, list[i].application) |->
                    [source |-> get_owner(list[i].source),
                     target |-> Recipients(list[i].source, list[i].application)[j],
                     application |-> list[i].application]]]
  OBVIOUS
<1>3. ASSUME NEW i \in DOMAIN list PROVE seqs[i] \in Seq(EffectsIn)
  <2>1. PICK x \in EffectsOut : x = list[i]
    BY <1>1
  <2>2. /\ x.source \in Living /\ x.application \in EffectApplications
        /\ get_owner(x.source) \in Actors
    BY OwnerType DEF EffectsOut
  <2>3. PICK to \in Seq(Actors) : to = Recipients(x.source, x.application)
    BY <2>2, RecipientsType
  <2>4. DOMAIN to = 1 .. Len(to) /\ Len(to) \in Nat /\ \A j \in DOMAIN to : to[j] \in Actors
    BY FiniteDomain
  <2>5. PICK f : f = [j \in 1 .. Len(to) |-> [source |-> get_owner(x.source),
                                              target |-> to[j], application |-> x.application]]
    OBVIOUS
  <2>6. f \in [1 .. Len(to) -> EffectsIn]
    BY <2>2, <2>4, <2>5 DEF EffectsIn
  <2>7. f \in Seq(EffectsIn)
    BY <2>4, <2>6
  <2>8. seqs[i] = f
    BY <1>2, <2>1, <2>3, <2>4, <2>5
  <2> QED BY <2>7, <2>8
<1>4. seqs \in [1 .. Len(list) -> Seq(EffectsIn)]
  BY <1>1, <1>2, <1>3
<1>5. seqs \in Seq(Seq(EffectsIn))
  BY <1>1, <1>4
<1>6. Sent(list) = FlattenSeq(seqs)
  BY <1>2 DEF Sent
<1> QED BY <1>5, <1>6, FlattenType

LEMMA DispatchEffectsType == TypeInv /\ dispatch_effects => TypeInv'
<1> SUFFICES ASSUME TypeInv, dispatch_effects PROVE TypeInv'
  OBVIOUS
<1>1. PICK out \in Seq(EffectsOut) : out = outgoing_effects
  BY DEF TypeInv, QueuesOK
<1>2. PICK by \in SetToSeqs({x.source : x \in Range(out)}) :
        LET list == Sent(FlattenSeq([i \in DOMAIN by |->
                          At(out, {j \in DOMAIN out : out[j].source = by[i]})]))
        IN  \E order \in SetToSeqs(Targets(list)) : incoming_effects' = ByTarget(list, order)
  BY <1>1 DEF dispatch_effects
<1>3. by \in Seq({x.source : x \in Range(out)})
  <2>1. \A i \in DOMAIN out : out[i] \in EffectsOut
    BY FiniteDomain
  <2>2. {x.source : x \in Range(out)} \subseteq Living
    BY <2>1 DEF Range, EffectsOut
  <2>3. Living \subseteq Entities
    BY DEF Living, Entities, TypeInv, RotationsOK
  <2>4. IsFiniteSet({x.source : x \in Range(out)})
    BY <2>2, <2>3, Finite, FS_Subset
  <2> QED BY <2>4, SetToSeqsType
<1>4. PICK sorted : sorted = FlattenSeq([i \in DOMAIN by |->
                          At(out, {j \in DOMAIN out : out[j].source = by[i]})])
  OBVIOUS
<1>5. sorted \in Seq(EffectsOut)
  <2>1. Len(by) \in Nat /\ DOMAIN by = 1 .. Len(by)
    BY <1>3, LenProperties
  <2>2. PICK seqs : seqs = [i \in DOMAIN by |->
                              At(out, {j \in DOMAIN out : out[j].source = by[i]})]
    OBVIOUS
  <2>3. \A i \in DOMAIN by : seqs[i] \in Seq(EffectsOut)
    BY <2>2, AtType
  <2>4. seqs \in [1 .. Len(by) -> Seq(EffectsOut)]
    BY <2>1, <2>2, <2>3
  <2>5. seqs \in Seq(Seq(EffectsOut))
    BY <2>1, <2>4
  <2> QED BY <1>4, <2>2, <2>5, FlattenType
<1>6. PICK list \in Seq(EffectsIn) : list = Sent(sorted)
  BY <1>5, SentType DEF TypeInv
<1>7. PICK order \in SetToSeqs(Targets(list)) : incoming_effects' = ByTarget(list, order)
  BY <1>2, <1>4, <1>6
<1>8. order \in Seq(Targets(list))
  <2>1. \A i \in DOMAIN list : list[i] \in EffectsIn
    BY FiniteDomain
  <2>2. Targets(list) \subseteq Actors
    BY <2>1 DEF Targets, EffectsIn
  <2> QED BY <2>2, Finite, FS_Subset, SetToSeqsType
<1>9. incoming_effects' \in Seq(EffectsIn)
  BY <1>7, <1>8, ByTargetType
<1>10. /\ phase' = "effects" /\ hooks = <<>>
       /\ UNCHANGED <<tick, termination, rotations, outgoing_strikes, outgoing_effects,
                      incoming_strikes, hooks, stacks, sides, stats, tally>>
  BY DEF dispatch_effects
<1>11. RunOK' /\ RotationsOK' /\ Living' = Living
  BY <1>10 DEF TypeInv, RunOK, RotationsOK, Phases, rotations, Living, Alive
<1>12. QueuesOK'
  <2>1. outgoing_strikes' \in Seq(StrikesOut') /\ outgoing_effects' \in Seq(EffectsOut')
    BY <1>10, <1>11, OutGrows DEF TypeInv
  <2> QED BY <1>9, <1>10, <2>1 DEF TypeInv, QueuesOK, StrikesIn, EffectsIn, Hooks
<1>13. StacksOK'
  <2>1. \A a, k : Stacks(a, k)' = Stacks(a, k)
    BY <1>10 DEF Stacks, stacks
  <2> QED BY <1>10, <2>1 DEF TypeInv, StacksOK, stacks
<1>14. StatsOK' /\ tally' \in Tallies
  BY <1>10 DEF TypeInv, StatsOK, sides, stats
<1> QED BY <1>11, <1>12, <1>13, <1>14 DEF TypeInv, Tallies

LEMMA RelevantOne ==
  /\ Relevant(<<>>) = <<>>
  /\ \A h : Relevant(<<h>>) \in {<<>>, <<h>>}
<1>1. Relevant(<<>>) = <<>>
  <2>1. PICK seqs : seqs = [i \in DOMAIN <<>> |->
              IF i \in {j \in DOMAIN <<>> : Used(<<>>[j].source) # {}} THEN <<(<<>>)[i]>> ELSE <<>>]
    OBVIOUS
  <2>2. seqs = <<>>
    BY <2>1
  <2> QED BY <2>1, <2>2, FlattenShort DEF Relevant, At
<1>2. ASSUME NEW h PROVE Relevant(<<h>>) \in {<<>>, <<h>>}
  <2>1. PICK I : I = {i \in DOMAIN <<h>> : Used(<<h>>[i].source) # {}}
    OBVIOUS
  <2>2. PICK seqs : seqs = [i \in DOMAIN <<h>> |-> IF i \in I THEN <<(<<h>>)[i]>> ELSE <<>>]
    OBVIOUS
  <2>3. Relevant(<<h>>) = FlattenSeq(seqs)
    BY <2>1, <2>2 DEF Relevant, At
  <2>4. CASE 1 \in I
    <3>1. seqs = << <<h>> >>
      BY <2>2, <2>4
    <3> QED BY <2>3, <3>1, FlattenShort
  <2>5. CASE 1 \notin I
    <3>1. seqs = << <<>> >>
      BY <2>2, <2>5
    <3> QED BY <2>3, <3>1, FlattenShort
  <2> QED BY <2>4, <2>5
<1> QED BY <1>1, <1>2

\* One application adds stacks of its kind to its target, no more than there is room for.
LEMMA StacksGrow ==
  ASSUME TypeInv, NEW target \in Actors, NEW source \in Actors, NEW k \in Kinds, NEW num \in Nat,
         NEW new, new = LowestOf((1 .. MaxEffects) \ DOMAIN effects, Added(target, k, num)),
         Cardinality(new) = Added(target, k, num),
         effects' = [e \in DOMAIN effects \cup new |->
                       IF e \in new THEN [kind |-> k, on |-> target, source |-> source]
                       ELSE effects[e]]
  PROVE  /\ DOMAIN effects' \subseteq 1 .. MaxEffects /\ DOMAIN effects \subseteq DOMAIN effects'
         /\ effects' \in [DOMAIN effects' -> [kind : Kinds, on : Actors, source : Actors]]
         /\ \A a \in Actors, j \in Kinds : Cardinality(Stacks(a, j)') <= max_stored_stacks[j]
         /\ \A e \in DOMAIN effects : effects'[e] = effects[e]
<1>1. new \subseteq 1 .. MaxEffects /\ new \cap DOMAIN effects = {}
  BY DEF LowestOf
<1>2. DOMAIN effects' = DOMAIN effects \cup new /\ DOMAIN effects \subseteq 1 .. MaxEffects
  BY DEF TypeInv, StacksOK
<1>3. \A e \in DOMAIN effects : effects'[e] = effects[e]
  BY <1>1
<1>4. effects' \in [DOMAIN effects' -> [kind : Kinds, on : Actors, source : Actors]]
  <2>1. effects \in [DOMAIN effects -> [kind : Kinds, on : Actors, source : Actors]]
    BY DEF TypeInv, StacksOK
  <2>2. ASSUME NEW e \in DOMAIN effects' PROVE effects'[e] \in [kind : Kinds, on : Actors, source : Actors]
    <3>1. CASE e \in new
      BY <3>1
    <3>2. CASE e \notin new
      BY <1>2, <2>1, <3>2
    <3> QED BY <3>1, <3>2
  <2> QED BY <2>2
<1>5. ASSUME NEW a \in Actors, NEW j \in Kinds
      PROVE  Cardinality(Stacks(a, j)') <= max_stored_stacks[j]
  <2>1. CASE a = target /\ j = k
    <3>1. Stacks(a, j)' = Stacks(target, k) \cup new /\ Stacks(target, k) \cap new = {}
      BY <1>1, <2>1 DEF Stacks
    <3>2. IsFiniteSet(new) /\ IsFiniteSet(Stacks(target, k)) /\ Cardinality(Stacks(target, k)) \in Nat
      <4>1. MaxEffects \in Int /\ 1 \in Int
        BY Encounter
      <4>2. IsFiniteSet(1 .. MaxEffects)
        BY <4>1, FS_Interval
      <4> QED BY <1>1, <4>2, FS_Subset, StacksFinite DEF TypeInv
    <3>3. Cardinality(Stacks(a, j)') = Cardinality(Stacks(target, k)) + Cardinality(new)
      <4>1. Cardinality({}) = 0 /\ Cardinality(new) \in Nat
        BY <3>2, FS_EmptySet, FS_CardinalityType
      <4>2. Cardinality(Stacks(target, k) \cup new)
              = Cardinality(Stacks(target, k)) + Cardinality(new) - Cardinality({})
        BY <3>1, <3>2, FS_Union
      <4> QED BY <3>1, <3>2, <4>1, <4>2
    <3>4. PICK limit \in Int : limit = IF k \in extended THEN 1 ELSE max_stored_stacks[k]
      <4>1. PICK most \in 1 .. MaxEffects : most = max_stored_stacks[k]
        BY Encounter
      <4>2. most \in Int
        BY Encounter
      <4> QED BY <4>1, <4>2
    <3>5. limit <= max_stored_stacks[k] /\ max_stored_stacks[k] \in Nat
      <4>1. PICK most \in 1 .. MaxEffects : most = max_stored_stacks[k]
        BY Encounter
      <4>2. most \in Nat /\ 1 <= most
        BY Encounter
      <4> QED BY <3>4, <4>1, <4>2
    <3>6. PICK there \in Nat : there = Cardinality(Stacks(target, k))
      BY <3>2
    <3>7. Added(target, k, num) = IF num < limit - there THEN num ELSE limit - there
      BY <3>4, <3>6 DEF Added
    <3>8. there + Added(target, k, num) <= limit
      BY <3>7
    <3>9. Added(target, k, num) \in Int
      BY <3>7
    <3> QED BY <2>1, <3>3, <3>5, <3>6, <3>8, <3>9
  <2>2. CASE ~(a = target /\ j = k)
    <3>1. Stacks(a, j)' = Stacks(a, j)
      BY <1>1, <1>2, <1>3, <2>2 DEF Stacks
    <3> QED BY <3>1 DEF TypeInv, StacksOK
  <2> QED BY <2>1, <2>2
<1> QED BY <1>1, <1>2, <1>3, <1>4, <1>5

LEMMA ApplyEffectType == TypeInv /\ apply_effect => TypeInv'
<1> SUFFICES ASSUME TypeInv, apply_effect PROVE TypeInv'
  OBVIOUS
<1>1. PICK in \in EffectsIn : in = Head(incoming_effects)
  BY TailType DEF apply_effect, TypeInv, QueuesOK
<1>2. PICK x \in EffectApplications : x = in.application
  BY <1>1 DEF EffectsIn
<1>3. x.kind \in Kinds /\ x.num_stacks \in Nat
  BY Applicable
<1>4. in.source \in Actors /\ in.target \in Actors
  BY <1>1 DEF EffectsIn
<1>5. PICK new : new = LowestOf((1 .. MaxEffects) \ DOMAIN effects,
                                Added(in.target, x.kind, x.num_stacks))
  OBVIOUS
<1>6. /\ phase = "effects" /\ incoming_effects # <<>>
      /\ Cardinality(new) = Added(in.target, x.kind, x.num_stacks)
      /\ effects' = [e \in DOMAIN effects \cup new |->
                       IF e \in new THEN [kind |-> x.kind, on |-> in.target, source |-> in.source]
                       ELSE effects[e]]
      /\ duration_expired' = IF x.kind \in extended THEN duration_expired \ Stacks(in.target, x.kind)
                             ELSE duration_expired
      /\ hooks' = Relevant(IF x.unique THEN <<>> ELSE <<ApplicationHook(in)>>)
      /\ phase' = IF hooks' = <<>> THEN "effects" ELSE "applied"
      /\ incoming_effects' = Tail(incoming_effects)
      /\ UNCHANGED <<tick, termination, rotations, outgoing_strikes, outgoing_effects,
                     incoming_strikes, destroy_effect, sides, stats, tally>>
  BY <1>1, <1>2, <1>5 DEF apply_effect
<1>7. RunOK' /\ RotationsOK' /\ Living' = Living
  BY <1>6 DEF TypeInv, RunOK, RotationsOK, Phases, rotations, Living, Alive
<1>8. PICK h \in Hooks : h = ApplicationHook(in) /\ h.stage = "applied"
  <2>1. PICK k \in Kinds : k = in.application.kind
    BY <1>2, <1>3
  <2>2. PICK h : h = [stage |-> "applied", source |-> in.source, target |-> in.target,
                      by |-> k, critical |-> FALSE]
    OBVIOUS
  <2>3. h \in Hooks /\ h.stage = "applied"
    BY <1>4, <2>2 DEF Hooks
  <2> QED BY <2>1, <2>2, <2>3 DEF ApplicationHook
<1>9. hooks' = <<>> \/ hooks' = <<h>>
  BY <1>6, <1>8, RelevantOne
<1>10. QueuesOK'
  <2>1. outgoing_strikes' \in Seq(StrikesOut') /\ outgoing_effects' \in Seq(EffectsOut')
    BY <1>6, <1>7, OutGrows DEF TypeInv
  <2>2. hooks' \in Seq(Hooks) /\ (hooks' # <<>> => Len(hooks') = 1 /\ Head(hooks').stage = "applied")
    <3>1. CASE hooks' = <<>>
      BY <3>1, EmptySeq
    <3>2. CASE hooks' = <<h>>
      <4>1. <<h>> \in Seq(Hooks) /\ Len(<<h>>) = 1 /\ Head(<<h>>) = h
        OBVIOUS
      <4> QED BY <1>8, <3>2, <4>1
    <3> QED BY <1>9, <3>1, <3>2
  <2>3. incoming_effects' \in Seq(EffectsIn)
    BY <1>6, TailType DEF TypeInv, QueuesOK
  <2> QED BY <1>6, <2>1, <2>2, <2>3 DEF TypeInv, QueuesOK, StrikesIn, EffectsIn, Hooks
<1>11. StacksOK'
  <2>1. /\ DOMAIN effects' \subseteq 1 .. MaxEffects /\ DOMAIN effects \subseteq DOMAIN effects'
        /\ effects' \in [DOMAIN effects' -> [kind : Kinds, on : Actors, source : Actors]]
        /\ \A a \in Actors, j \in Kinds : Cardinality(Stacks(a, j)') <= max_stored_stacks[j]
    <3>1. PICK k \in Kinds, num \in Nat : k = x.kind /\ num = x.num_stacks
      BY <1>3
    <3>2. PICK target \in Actors, source \in Actors : target = in.target /\ source = in.source
      BY <1>4
    <3>3. /\ new = LowestOf((1 .. MaxEffects) \ DOMAIN effects, Added(target, k, num))
          /\ Cardinality(new) = Added(target, k, num)
      BY <1>5, <1>6, <3>1, <3>2
    <3>4. effects' = [e \in DOMAIN effects \cup new |->
                        IF e \in new THEN [kind |-> k, on |-> target, source |-> source]
                        ELSE effects[e]]
      BY <1>6, <3>1, <3>2
    <3> QED BY <3>3, <3>4, StacksGrow
  <2> QED BY <1>6, <2>1 DEF TypeInv, StacksOK
<1>12. StatsOK' /\ tally' \in Tallies
  BY <1>6 DEF TypeInv, StatsOK, sides, stats
<1> QED BY <1>7, <1>10, <1>11, <1>12 DEF TypeInv, Tallies

-----------------------------------------------------------------------------
(* The end of a tick *)

\* What an actor owes for the conditions that pay, with what it owed before.
Buffer(paying, a) == buffered_condition_damage[a] + Cardinality({e \in paying : effects[e].on = a})

LEMMA BufferType ==
  ASSUME TypeInv, NEW paying, paying \subseteq DOMAIN effects
  PROVE  \A a \in Actors : Buffer(paying, a) \in Nat
<1> TAKE a \in Actors
<1>1. IsFiniteSet(DOMAIN effects)
  BY StacksFinite DEF TypeInv
<1>2. {e \in paying : effects[e].on = a} \subseteq DOMAIN effects
  OBVIOUS
<1>3. Cardinality({e \in paying : effects[e].on = a}) \in Nat
  BY <1>1, <1>2, FS_Subset, FS_CardinalityType
<1>4. buffered_condition_damage[a] \in Nat
  BY DEF TypeInv, StatsOK
<1> QED BY <1>3, <1>4 DEF Buffer

\* Damage has been counted: what incoming_damage has become, health has lost.
LEMMA DamageCounted ==
  ASSUME TypeInv, update_combat_stats
  PROVE  /\ incoming_damage' \in [Actors -> Nat] /\ buffered_condition_damage' \in [Actors -> Nat]
         /\ health' \in [Actors -> Int]
         /\ \A a \in Actors : health'[a] = IF a \in is_downstate THEN health[a]
                                           ELSE health[a] - incoming_damage'[a]
         /\ is_downstate' = is_downstate \cup {a \in Actors : health'[a] <= 0}
<1>1. PICK interval \in BOOLEAN, paying \in SUBSET DOMAIN effects :
        /\ buffered_condition_damage' = IF interval THEN [a \in Actors |-> 0]
                                        ELSE [a \in Actors |-> Buffer(paying, a)]
        /\ incoming_damage' = IF ~interval THEN incoming_damage
             ELSE [a \in Actors |-> incoming_damage[a] + [b \in Actors |-> Buffer(paying, b)][a]]
  <2>1. Conditions \subseteq DOMAIN effects
    BY DEF Conditions
  <2>2. PICK interval \in BOOLEAN :
          LET paying == IF interval THEN Conditions ELSE Conditions \cap duration_expired
          IN  /\ buffered_condition_damage' = IF interval THEN [a \in Actors |-> 0]
                                              ELSE [a \in Actors |-> Buffer(paying, a)]
              /\ incoming_damage' = IF ~interval THEN incoming_damage
                   ELSE [a \in Actors |->
                           incoming_damage[a] + [b \in Actors |-> Buffer(paying, b)][a]]
    BY DEF update_combat_stats, Buffer
  <2>3. PICK paying : paying = IF interval THEN Conditions ELSE Conditions \cap duration_expired
    OBVIOUS
  <2>4. paying \in SUBSET DOMAIN effects
    BY <2>1, <2>3
  <2> QED BY <2>2, <2>3, <2>4
<1>2. \A a \in Actors : Buffer(paying, a) \in Nat
  BY BufferType
<1>3. incoming_damage \in [Actors -> Nat] /\ health \in [Actors -> Int]
  BY DEF TypeInv, StatsOK
<1>4. incoming_damage' \in [Actors -> Nat] /\ buffered_condition_damage' \in [Actors -> Nat]
  BY <1>1, <1>2, <1>3
<1>5. health' = [a \in Actors |-> IF a \in is_downstate THEN health[a]
                                  ELSE health[a] - incoming_damage'[a]]
  BY DEF update_combat_stats
<1>6. health' \in [Actors -> Int]
  BY <1>3, <1>4, <1>5
<1>7. is_downstate' = is_downstate \cup {a \in Actors : health'[a] <= 0}
  BY DEF update_combat_stats
<1> QED BY <1>4, <1>5, <1>6, <1>7

LEMMA UpdateCombatStatsType == TypeInv /\ update_combat_stats => TypeInv'
<1> SUFFICES ASSUME TypeInv, update_combat_stats PROVE TypeInv'
  OBVIOUS
<1>1. /\ phase = "effects" /\ phase' = "stats"
      /\ UNCHANGED <<tick, termination, rotations, queues, stacks, sides, audited, tally>>
  BY DEF update_combat_stats
<1>2. RunOK' /\ RotationsOK' /\ Living' = Living
  BY <1>1 DEF TypeInv, RunOK, RotationsOK, Phases, rotations, Living, Alive
<1>3. QueuesOK'
  <2>1. outgoing_strikes' \in Seq(StrikesOut') /\ outgoing_effects' \in Seq(EffectsOut')
    BY <1>1, <1>2, OutGrows DEF TypeInv, queues
  <2> QED BY <1>1, <2>1 DEF TypeInv, QueuesOK, StrikesIn, EffectsIn, Hooks, queues
<1>4. StacksOK'
  <2>1. \A a, k : Stacks(a, k)' = Stacks(a, k)
    BY <1>1 DEF Stacks, stacks
  <2> QED BY <1>1, <2>1 DEF TypeInv, StacksOK, stacks
<1>5. StatsOK'
  <2>1. is_downstate' = {a \in Actors : health'[a] <= 0}
    <3>1. \A a \in Actors : a \in is_downstate => health'[a] = health[a]
      BY DamageCounted
    <3>2. is_downstate = {a \in Actors : health[a] <= 0}
      BY DEF TypeInv, StatsOK
    <3>3. is_downstate' = is_downstate \cup {a \in Actors : health'[a] <= 0}
      BY DamageCounted
    <3>4. \A a \in is_downstate : a \in Actors /\ health'[a] <= 0
      BY <3>1, <3>2
    <3> QED BY <3>3, <3>4
  <2> QED BY <1>1, <2>1, DamageCounted DEF TypeInv, StatsOK, sides
<1>6. tally' \in Tallies
  BY <1>1 DEF TypeInv
<1> QED BY <1>2, <1>3, <1>4, <1>5, <1>6 DEF TypeInv, Tallies

LEMMA EndTickType == TypeInv /\ end_tick => TypeInv'
<1> SUFFICES ASSUME TypeInv, end_tick PROVE TypeInv'
  OBVIOUS
<1>1. PICK gone, destroyed :
        /\ gone = destroy_effect \cup duration_expired
        /\ destroyed = {e \in Alive \cap no_more_rotation : NoActiveSkills(e)}
  OBVIOUS
<1>2. /\ phase = "stats" /\ phase' = "ended" /\ audited' = audit_damage
      /\ effects' = [e \in DOMAIN effects \ gone |-> effects[e]]
      /\ owner' = [e \in Alive \ destroyed |-> owner[e]]
      /\ no_more_rotation' = no_more_rotation \ destroyed
      /\ queue' = [e \in Entities |-> IF e \in destroyed THEN <<>> ELSE queue[e]]
      /\ finishing' = {} /\ already_triggered' = {}
      /\ duration_expired' = {} /\ destroy_effect' = {}
      /\ outgoing_strikes' = <<>> /\ outgoing_effects' = <<>>
      /\ incoming_strikes' = <<>> /\ incoming_effects' = <<>>
      /\ incoming_damage' = [a \in Actors |-> 0]
      /\ tally' = [tally EXCEPT !.removed = [k \in Kinds |->
                      @[k] + Cardinality({e \in destroy_effect : effects[e].kind = k})]]
      /\ UNCHANGED <<tick, termination, casting, hooks, counters, health, is_downstate,
                     buffered_condition_damage>>
  BY <1>1 DEF end_tick
<1>3. RunOK'
  BY <1>2 DEF TypeInv, RunOK, Phases
<1>4. RotationsOK'
  <2>1. Alive' = Alive \ destroyed /\ Living' = Actors \cup (Alive \ destroyed)
    BY <1>2 DEF Alive, Living
  <2>2. owner' \in [Alive' -> Actors] /\ Alive' \subseteq Children
    BY <1>2, <2>1 DEF TypeInv, RotationsOK
  <2>3. /\ queue' \in [Entities -> Seq(Skills)]
        /\ \A e \in Children \ Alive' : queue'[e] = <<>>
    <3>1. <<>> \in Seq(Skills)
      BY EmptySeq
    <3> QED BY <1>2, <2>1, <3>1 DEF TypeInv, RotationsOK, Entities
  <2>4. no_more_rotation' \subseteq Living' /\ finishing' \subseteq Living'
    BY <1>2, <2>1 DEF TypeInv, RotationsOK, Living
  <2>5. casting' \in [DOMAIN casting' -> Casts] /\ IsFiniteSet(DOMAIN casting')
    BY <1>2 DEF TypeInv, RotationsOK
  <2>6. DOMAIN casting' \subseteq Living' \X Nat
    <3> SUFFICES ASSUME NEW c \in DOMAIN casting PROVE c \in Living' \X Nat
      BY <1>2
    <3>1. c \in Living \X Nat
      BY DEF TypeInv, RotationsOK
    <3>2. c[1] \notin destroyed
      BY <1>1 DEF NoActiveSkills
    <3>3. c[1] \in Living'
      <4>1. destroyed \subseteq Alive /\ Actors \cap Alive = {}
        BY <1>1, Encounter DEF TypeInv, RotationsOK
      <4> QED BY <2>1, <3>1, <3>2 DEF Living
    <3> QED BY <3>1, <3>3
  <2> QED BY <2>2, <2>3, <2>4, <2>5, <2>6 DEF RotationsOK
<1>5. QueuesOK'
  <2>1. hooks = <<>>
    BY <1>2 DEF TypeInv, QueuesOK
  <2>2. /\ <<>> \in Seq(StrikesOut') /\ <<>> \in Seq(EffectsOut') /\ <<>> \in Seq(StrikesIn)
        /\ <<>> \in Seq(EffectsIn) /\ <<>> \in Seq(Hooks)
    BY EmptySeq
  <2> QED BY <1>2, <2>1, <2>2 DEF QueuesOK, StrikesIn, EffectsIn, Hooks
<1>6. StacksOK'
  <2>1. DOMAIN effects' \subseteq DOMAIN effects /\ \A e \in DOMAIN effects' : effects'[e] = effects[e]
    BY <1>2
  <2>2. effects' \in [DOMAIN effects' -> [kind : Kinds, on : Actors, source : Actors]]
    BY <1>2, <2>1 DEF TypeInv, StacksOK
  <2>3. ASSUME NEW a \in Actors, NEW k \in Kinds
        PROVE  Cardinality(Stacks(a, k)') <= max_stored_stacks[k]
    <3>1. Stacks(a, k)' \subseteq Stacks(a, k)
      BY <2>1 DEF Stacks
    <3>2. Cardinality(Stacks(a, k)') <= Cardinality(Stacks(a, k))
          /\ Cardinality(Stacks(a, k)') \in Nat /\ Cardinality(Stacks(a, k)) \in Nat
      BY <3>1, StacksFinite, FS_Subset, FS_CardinalityType DEF TypeInv
    <3>3. Cardinality(Stacks(a, k)) <= max_stored_stacks[k]
      BY DEF TypeInv, StacksOK
    <3>4. max_stored_stacks[k] \in 1 .. MaxEffects /\ MaxEffects \in Nat
      BY Encounter
    <3> QED BY <3>2, <3>3, <3>4
  <2> QED BY <1>2, <2>1, <2>2, <2>3 DEF TypeInv, StacksOK
<1>7. StatsOK'
  BY <1>2 DEF TypeInv, StatsOK, audit_damage
<1>8. tally' \in Tallies
  <2>1. \A k \in Kinds : Cardinality({e \in destroy_effect : effects[e].kind = k}) \in Nat
    <3> TAKE k \in Kinds
    <3>1. {e \in destroy_effect : effects[e].kind = k} \subseteq DOMAIN effects
      BY DEF TypeInv, StacksOK
    <3> QED BY <3>1, StacksFinite, FS_Subset, FS_CardinalityType DEF TypeInv
  <2>2. tally \in Tallies
    BY DEF TypeInv
  <2>3. PICK removed : removed = [k \in Kinds |-> tally.removed[k]
                                 + Cardinality({e \in destroy_effect : effects[e].kind = k})]
    OBVIOUS
  <2>4. removed \in [Kinds -> Nat]
    BY <2>1, <2>2, <2>3 DEF Tallies
  <2>5. tally' = [tally EXCEPT !.removed = removed]
    BY <1>2, <2>3
  <2> QED BY <2>2, <2>4, <2>5 DEF Tallies
<1> QED BY <1>3, <1>4, <1>5, <1>6, <1>7, <1>8 DEF TypeInv, Tallies

LEMMA ContinueCombatLoopType == TypeInv /\ continue_combat_loop => TypeInv'
<1> SUFFICES ASSUME TypeInv, continue_combat_loop PROVE TypeInv'
  OBVIOUS
<1>1. /\ phase = "ended" /\ phase' \in {"casts", "over"} /\ tick' \in {tick, tick + 1}
      /\ UNCHANGED <<termination, rotations, queues, stacks, sides, stats, tally>>
  BY DEF continue_combat_loop
<1>2. RunOK' /\ RotationsOK' /\ Living' = Living
  BY <1>1 DEF TypeInv, RunOK, RotationsOK, Phases, rotations, Living, Alive
<1>3. QueuesOK'
  <2>1. outgoing_strikes' \in Seq(StrikesOut') /\ outgoing_effects' \in Seq(EffectsOut')
    BY <1>1, <1>2, OutGrows DEF TypeInv, queues
  <2>2. hooks = <<>>
    BY <1>1 DEF TypeInv, QueuesOK
  <2> QED BY <1>1, <2>1, <2>2 DEF TypeInv, QueuesOK, StrikesIn, EffectsIn, Hooks, queues
<1>4. StacksOK'
  <2>1. \A a, k : Stacks(a, k)' = Stacks(a, k)
    BY <1>1 DEF Stacks, stacks
  <2> QED BY <1>1, <2>1 DEF TypeInv, StacksOK, stacks, sides
<1>5. StatsOK'
  BY <1>1 DEF TypeInv, StatsOK, sides, stats
<1> QED BY <1>1, <1>2, <1>3, <1>4, <1>5 DEF TypeInv, Tallies

LEMMA InitType == Init => TypeInv
<1> SUFFICES ASSUME Init PROVE TypeInv
  OBVIOUS
<1>1. RunOK
  BY DEF Init, RunOK, Phases
<1>2. Alive = {} /\ <<>> \in Seq(Skills)
  BY EmptySeq DEF Init, Alive
<1>3. RotationsOK
  <2>1. owner \in [Alive -> Actors]
    BY <1>2 DEF Init
  <2>2. queue \in [Entities -> Seq(Skills)]
    BY <1>2, Encounter DEF Init
  <2>3. \A e \in Children \ Alive : queue[e] = <<>>
    BY Encounter DEF Init, Entities
  <2>4. casting = <<>> /\ DOMAIN casting = {}
    BY DEF Init
  <2>5. casting \in [DOMAIN casting -> Casts] /\ IsFiniteSet(DOMAIN casting)
    BY <2>4, FS_EmptySet
  <2> QED BY <1>2, <2>1, <2>2, <2>3, <2>4, <2>5 DEF Init, RotationsOK
<1>4. QueuesOK
  <2>1. /\ <<>> \in Seq(StrikesOut) /\ <<>> \in Seq(EffectsOut) /\ <<>> \in Seq(StrikesIn)
        /\ <<>> \in Seq(EffectsIn) /\ <<>> \in Seq(Hooks)
    BY EmptySeq
  <2> QED BY <2>1 DEF Init, QueuesOK
<1>5. StacksOK
  <2>1. DOMAIN effects = {}
    BY DEF Init
  <2>2. \A a, k : Stacks(a, k) = {}
    BY <2>1 DEF Stacks
  <2>3. \A k \in Kinds : 0 <= max_stored_stacks[k]
    <3> TAKE k \in Kinds
    <3>1. max_stored_stacks[k] \in 1 .. MaxEffects /\ MaxEffects \in Nat
      BY Encounter
    <3> QED BY <3>1
  <2>4. effects \in [DOMAIN effects -> [kind : Kinds, on : Actors, source : Actors]]
    BY <2>1 DEF Init
  <2> QED BY <2>1, <2>2, <2>3, <2>4, FS_EmptySet DEF Init, StacksOK
<1>6. StatsOK
  <2>1. \A a \in Actors : max_health[a] \in Nat /\ max_health[a] # 0
    BY Encounter
  <2> QED BY <2>1, Encounter DEF Init, StatsOK
<1>7. tally \in Tallies
  BY DEF Init, Tallies
<1> QED BY <1>1, <1>3, <1>4, <1>5, <1>6, <1>7 DEF TypeInv

-----------------------------------------------------------------------------
(* Casts *)

LEMMA BegunHooksType ==
  ASSUME RotationsOK, NEW begun, begun \subseteq Living, \A e \in begun : queue[e] # <<>>,
         NEW order \in Seq(begun)
  PROVE  BegunHooks(order) \in Seq(Hooks)
<1>1. DOMAIN order = 1 .. Len(order) /\ Len(order) \in Nat /\ \A i \in DOMAIN order : order[i] \in begun
  BY FiniteDomain
<1>2. PICK f : f = [i \in 1 .. Len(order) |->
        [stage |-> "begun", source |-> get_owner(order[i]), target |-> Nobody,
         by |-> Head(queue[order[i]]), critical |-> FALSE]]
  OBVIOUS
<1>3. ASSUME NEW i \in 1 .. Len(order) PROVE f[i] \in Hooks
  <2>1. PICK e \in Living : e = order[i] /\ queue[e] # <<>>
    BY <1>1
  <2>2. e \in Entities
    BY DEF RotationsOK, Living, Entities
  <2>3. PICK s \in Skills : s = Head(queue[e])
    BY <2>1, <2>2, HeadTailProperties DEF RotationsOK
  <2>4. PICK a \in Actors : a = get_owner(e)
    BY OwnerType
  <2>5. f[i] = [stage |-> "begun", source |-> a, target |-> Nobody, by |-> s, critical |-> FALSE]
    BY <1>2, <2>1, <2>3, <2>4
  <2> QED BY <2>5 DEF Hooks
<1>4. f \in [1 .. Len(order) -> Hooks]
  BY <1>2, <1>3
<1>5. BegunHooks(order) = f
  BY <1>1, <1>2 DEF BegunHooks
<1> QED BY <1>1, <1>4, <1>5

LEMMA GainedHooksType ==
  ASSUME NEW gained, gained \subseteq Actors \X Skills, NEW order \in Seq(gained)
  PROVE  GainedHooks(order) \in Seq(Hooks)
<1>1. DOMAIN order = 1 .. Len(order) /\ Len(order) \in Nat /\ \A i \in DOMAIN order : order[i] \in gained
  BY FiniteDomain
<1>2. PICK f : f = [i \in 1 .. Len(order) |->
        [stage |-> "gained", source |-> order[i][1], target |-> Nobody,
         by |-> order[i][2], critical |-> FALSE]]
  OBVIOUS
<1>3. ASSUME NEW i \in 1 .. Len(order) PROVE f[i] \in Hooks
  <2>1. order[i] \in Actors \X Skills
    BY <1>1
  <2>2. PICK a \in Actors, s \in Skills : a = order[i][1] /\ s = order[i][2]
    BY <2>1
  <2>3. f[i] = [stage |-> "gained", source |-> a, target |-> Nobody, by |-> s, critical |-> FALSE]
    BY <1>2, <2>2
  <2> QED BY <2>3 DEF Hooks
<1>4. f \in [1 .. Len(order) -> Hooks]
  BY <1>2, <1>3
<1>5. GainedHooks(order) = f
  BY <1>1, <1>2 DEF GainedHooks
<1> QED BY <1>1, <1>4, <1>5

LEMMA TickHooksType == TickHooks \in Seq(Hooks)
<1>1. PICK order \in Seq(Actors) : order = view_order
  BY Finite
<1>2. DOMAIN order = 1 .. Len(order) /\ Len(order) \in Nat /\ \A i \in DOMAIN order : order[i] \in Actors
  BY FiniteDomain
<1>3. PICK f : f = [i \in 1 .. Len(order) |->
        [stage |-> "any", source |-> order[i], target |-> Nobody, by |-> Nobody,
         critical |-> FALSE]]
  OBVIOUS
<1>4. f \in [1 .. Len(order) -> Hooks]
  BY <1>2, <1>3 DEF Hooks
<1>5. TickHooks = f
  BY <1>1, <1>2, <1>3 DEF TickHooks
<1> QED BY <1>2, <1>4, <1>5

LEMMA RelevantType ==
  ASSUME NEW hs \in Seq(Hooks)
  PROVE  Relevant(hs) \in Seq(Hooks)
<1> QED BY AtType DEF Relevant

LEMMA PulsesType ==
  ASSUME NEW e \in Living, NEW s \in Skills
  PROVE  Pulses(e, s) \in Seq(EffectsOut)
<1>1. PICK list \in Seq(EffectApplications) : list = on_pulse_effect_applications[s]
  BY ApplicationTypes
<1>2. DOMAIN list = 1 .. Len(list) /\ Len(list) \in Nat
      /\ \A i \in DOMAIN list : list[i] \in EffectApplications
  BY FiniteDomain
<1>3. PICK f : f = [i \in 1 .. Len(list) |-> [source |-> e, application |-> list[i]]]
  OBVIOUS
<1>4. f \in [1 .. Len(list) -> EffectsOut]
  BY <1>2, <1>3 DEF EffectsOut
<1>5. Pulses(e, s) = f
  BY <1>1, <1>2, <1>3 DEF Pulses
<1> QED BY <1>2, <1>4, <1>5

LEMMA SequenceType ==
  ASSUME NEW S, NEW n \in Nat, NEW f \in [1 .. n -> S]
  PROVE  f \in Seq(S)
<1> QED OBVIOUS

LEMMA AgainType ==
  ASSUME NEW S, NEW n \in Nat, NEW list \in Seq(S)
  PROVE  Again(n, list) \in Seq(S)
<1>1. PICK f : f = [i \in 1 .. n |-> list]
  OBVIOUS
<1>2. f \in Seq(Seq(S))
  BY <1>1
<1>3. Again(n, list) = FlattenSeq(f)
  BY <1>1 DEF Again
<1> QED BY <1>2, <1>3, FlattenType

\* What the acting casts send out.
StrikesOf(order, casts, left) ==
  FlattenSeq([i \in DOMAIN order |->
    Again(casts[order[i]].strikes - left[order[i]],
          <<[source |-> order[i][1], skill |-> casts[order[i]].skill]>>)])
PulsesOf(order, casts, left) ==
  FlattenSeq([i \in DOMAIN order |->
    Again(casts[order[i]].pulses - left[order[i]],
          Pulses(order[i][1], casts[order[i]].skill))])

LEMMA SentOut ==
  ASSUME NEW D, D \subseteq Living \X Nat, NEW casts \in [D -> Casts], NEW order \in Seq(D),
         NEW strikes_left, \A c \in D : strikes_left[c] \in 0 .. casts[c].strikes,
         NEW pulses_left, \A c \in D : pulses_left[c] \in 0 .. casts[c].pulses
  PROVE  /\ StrikesOf(order, casts, strikes_left) \in Seq(StrikesOut)
         /\ PulsesOf(order, casts, pulses_left) \in Seq(EffectsOut)
<1>1. /\ DOMAIN order = 1 .. Len(order) /\ Len(order) \in Nat
      /\ \A i \in DOMAIN order : order[i] \in D
  BY FiniteDomain
<1>2. ASSUME NEW c \in D
      PROVE  /\ c[1] \in Living /\ casts[c].skill \in Skills
             /\ casts[c].strikes - strikes_left[c] \in Nat
             /\ casts[c].pulses - pulses_left[c] \in Nat
  <2>1. c[1] \in Living /\ casts[c] \in Casts
    OBVIOUS
  <2>2. casts[c].skill \in Skills /\ casts[c].strikes \in Nat /\ casts[c].pulses \in Nat
    BY <2>1 DEF Casts
  <2>3. strikes_left[c] \in 0 .. casts[c].strikes /\ pulses_left[c] \in 0 .. casts[c].pulses
    OBVIOUS
  <2> QED BY <2>1, <2>2, <2>3
<1>3. StrikesOf(order, casts, strikes_left) \in Seq(StrikesOut)
  <2>1. PICK f : f = [i \in 1 .. Len(order) |->
                        Again(casts[order[i]].strikes - strikes_left[order[i]],
                              <<[source |-> order[i][1], skill |-> casts[order[i]].skill]>>)]
    OBVIOUS
  <2>2. ASSUME NEW i \in 1 .. Len(order) PROVE f[i] \in Seq(StrikesOut)
    <3>1. PICK c \in D : c = order[i]
      BY <1>1
    <3>2. PICK n \in Nat : n = casts[c].strikes - strikes_left[c]
      BY <1>2
    <3>3. PICK list : list = <<[source |-> c[1], skill |-> casts[c].skill]>>
      OBVIOUS
    <3>4. list \in Seq(StrikesOut)
      BY <1>2, <3>3 DEF StrikesOut
    <3>5. f[i] = Again(n, list)
      BY <2>1, <3>1, <3>2, <3>3
    <3> QED BY <3>4, <3>5, AgainType
  <2>3. f \in [1 .. Len(order) -> Seq(StrikesOut)]
    BY <2>1, <2>2
  <2>4. f \in Seq(Seq(StrikesOut))
    BY <1>1, <2>3, SequenceType
  <2>5. StrikesOf(order, casts, strikes_left) = FlattenSeq(f)
    BY <1>1, <2>1 DEF StrikesOf
  <2> QED BY <2>4, <2>5, FlattenType
<1>4. PulsesOf(order, casts, pulses_left) \in Seq(EffectsOut)
  <2>1. PICK f : f = [i \in 1 .. Len(order) |->
                        Again(casts[order[i]].pulses - pulses_left[order[i]],
                              Pulses(order[i][1], casts[order[i]].skill))]
    OBVIOUS
  <2>2. ASSUME NEW i \in 1 .. Len(order) PROVE f[i] \in Seq(EffectsOut)
    <3>1. PICK c \in D : c = order[i]
      BY <1>1
    <3>2. PICK n \in Nat : n = casts[c].pulses - pulses_left[c]
      BY <1>2
    <3>3. PICK list : list = Pulses(c[1], casts[c].skill)
      OBVIOUS
    <3>4. list \in Seq(EffectsOut)
      BY <1>2, <3>3, PulsesType
    <3>5. f[i] = Again(n, list)
      BY <2>1, <3>1, <3>2, <3>3
    <3> QED BY <3>4, <3>5, AgainType
  <2>3. f \in [1 .. Len(order) -> Seq(EffectsOut)]
    BY <2>1, <2>2
  <2>4. f \in Seq(Seq(EffectsOut))
    BY <1>1, <2>3, SequenceType
  <2>5. PulsesOf(order, casts, pulses_left) = FlattenSeq(f)
    BY <1>1, <2>1 DEF PulsesOf
  <2> QED BY <2>4, <2>5, FlattenType
<1> QED BY <1>3, <1>4

\* The casts that begin, named as they are.
New(begun) == {<<e, Len(queue[e])>> : e \in begun}

LEMMA NewCasts ==
  ASSUME RotationsOK, NEW begun, begun \subseteq {e \in Entities : queue[e] # <<>>}
  PROVE  /\ begun \subseteq Living /\ IsFiniteSet(begun) /\ IsFiniteSet(New(begun))
         /\ New(begun) \subseteq Living \X Nat
         /\ Cardinality(New(begun)) = Cardinality(begun)
<1>1. \A e \in begun : e \in Living /\ Len(queue[e]) \in Nat
  BY LenProperties DEF RotationsOK, Living, Entities
<1>2. begun \subseteq Living /\ IsFiniteSet(begun)
  <2>1. begun \subseteq Entities
    OBVIOUS
  <2> QED BY <1>1, <2>1, Finite, FS_Subset
<1>3. PICK name : name = [e \in begun |-> <<e, Len(queue[e])>>]
  OBVIOUS
<1>4. PICK all : all = New(begun)
  OBVIOUS
<1>5. name \in Bijection(begun, all)
  <2>1. name \in [begun -> all] /\ \A c \in all : \E e \in begun : name[e] = c
    BY <1>3, <1>4 DEF New
  <2>2. \A e, f \in begun : name[e] = name[f] => e = f
    BY <1>3
  <2> QED BY <2>1, <2>2 DEF Bijection, Injection, Surjection, IsInjective
<1>6. IsFiniteSet(all) /\ Cardinality(all) = Cardinality(begun)
  <2>1. ExistsBijection(begun, all)
    BY <1>5 DEF ExistsBijection
  <2> QED BY <1>2, <2>1, FS_Bijection
<1>7. all \subseteq Living \X Nat
  BY <1>1, <1>4 DEF New
<1> QED BY <1>2, <1>4, <1>6, <1>7

LEMMA RunningType ==
  ASSUME RotationsOK, NEW begun, begun \subseteq {e \in Entities : queue[e] # <<>>}
  PROVE  /\ DOMAIN Running(begun) = DOMAIN casting \cup New(begun)
         /\ Running(begun) \in [DOMAIN Running(begun) -> Casts]
         /\ DOMAIN Running(begun) \subseteq Living \X Nat /\ IsFiniteSet(DOMAIN Running(begun))
<1>1. PICK new : new = New(begun)
  OBVIOUS
<1>2. PICK casts : casts = Running(begun)
  OBVIOUS
<1>3. casts = [c \in DOMAIN casting \cup new |->
                IF c \notin new THEN casting[c]
                ELSE [skill |-> Head(queue[c[1]]), strikes |-> num_strikes[Head(queue[c[1]])],
                      pulses |-> num_pulses[Head(queue[c[1]])]]]
  BY <1>1, <1>2 DEF Running, New
<1>4. IsFiniteSet(new) /\ new \subseteq Living \X Nat
  BY <1>1, NewCasts
<1>5. ASSUME NEW c \in DOMAIN casting \cup new PROVE casts[c] \in Casts
  <2>1. CASE c \notin new
    BY <1>3, <2>1 DEF RotationsOK
  <2>2. CASE c \in new
    <3>1. PICK e \in begun : c = <<e, Len(queue[e])>>
      BY <1>1, <2>2 DEF New
    <3>2. queue[e] \in Seq(Skills) /\ queue[e] # <<>>
      BY DEF RotationsOK
    <3>3. PICK s \in Skills : s = Head(queue[e])
      BY <3>2, HeadTailProperties
    <3>4. num_strikes[s] \in Nat /\ num_pulses[s] \in Nat
      BY Encounter
    <3>5. casts[c] = [skill |-> s, strikes |-> num_strikes[s], pulses |-> num_pulses[s]]
      BY <1>3, <2>2, <3>1, <3>3
    <3> QED BY <3>4, <3>5 DEF Casts
  <2> QED BY <2>1, <2>2
<1>6. DOMAIN casts = DOMAIN casting \cup new
  BY <1>3
<1>7. casts \in [DOMAIN casts -> Casts]
  BY <1>3, <1>5, <1>6
<1>8. DOMAIN casts \subseteq Living \X Nat /\ IsFiniteSet(DOMAIN casts)
  <2>1. PICK old : old = DOMAIN casting
    OBVIOUS
  <2>2. IsFiniteSet(old) /\ old \subseteq Living \X Nat
    BY <2>1 DEF RotationsOK
  <2>3. IsFiniteSet(old \cup new)
    BY <1>4, <2>2, FS_Union
  <2> QED BY <1>4, <1>6, <2>1, <2>2, <2>3
<1> QED BY <1>1, <1>2, <1>6, <1>7, <1>8

\* What casts, of which left many strikes and pulses are left, have become.
After(casts, finished, strikes_left, pulses_left) ==
  [c \in DOMAIN casts \ finished |->
     [casts[c] EXCEPT !.strikes = strikes_left[c], !.pulses = pulses_left[c]]]

\* What perform does to the casts, of which begun is what begins.
Performs(begun, casts, strikes_left, pulses_left, finished, order) ==
  /\ begun \subseteq {e \in Entities : queue[e] # <<>>} /\ casts = Running(begun)
  /\ \A c \in DOMAIN casts : /\ strikes_left[c] \in 0 .. casts[c].strikes
                             /\ pulses_left[c] \in 0 .. casts[c].pulses
  /\ finished \subseteq DOMAIN casts
  /\ \E acting \in SUBSET DOMAIN casts : order \in SetToSeqs(acting)
  /\ queue' = [e \in Entities |-> IF e \in begun THEN Tail(queue[e]) ELSE queue[e]]
  /\ casting' = After(casts, finished, strikes_left, pulses_left)
  /\ finishing' = {c[1] : c \in finished}
  /\ tally' = [tally EXCEPT !.finished = @ + Cardinality(finished)]
  /\ outgoing_strikes' = StrikesOf(order, casts, strikes_left)
  /\ outgoing_effects' = PulsesOf(order, casts, pulses_left)
  /\ \E gained \in SUBSET Awaited :
        \E first \in SetToSeqs(gained), second \in SetToSeqs(begun) :
           hooks' = Relevant(GainedHooks(first) \o BegunHooks(second) \o TickHooks)

LEMMA PerformPerforms ==
  ASSUME perform
  PROVE  \E begun, casts, strikes_left, pulses_left, finished, order :
            Performs(begun, casts, strikes_left, pulses_left, finished, order)
<1>1. PICK begun \in SUBSET {e \in Entities : queue[e] # <<>>} :
        /\ queue' = [e \in Entities |-> IF e \in begun THEN Tail(queue[e]) ELSE queue[e]]
        /\ LET casts == Running(begun) IN
           \E strikes_left \in Fewer([c \in DOMAIN casts |-> casts[c].strikes]),
              pulses_left \in Fewer([c \in DOMAIN casts |-> casts[c].pulses]) :
              LET strikes_now(c) == casts[c].strikes - strikes_left[c]
                  pulses_now(c) == casts[c].pulses - pulses_left[c]
                  acting == {c \in DOMAIN casts : strikes_now(c) > 0 \/ pulses_now(c) > 0}
              IN  \E finished \in SUBSET {c \in DOMAIN casts :
                                            strikes_left[c] = 0 /\ pulses_left[c] = 0} :
                  \E order \in {o \in SetToSeqs(acting) : InTurn(o)} :
                     /\ casting' = After(casts, finished, strikes_left, pulses_left)
                     /\ finishing' = {c[1] : c \in finished}
                     /\ tally' = [tally EXCEPT !.finished = @ + Cardinality(finished)]
                     /\ outgoing_strikes' = StrikesOf(order, casts, strikes_left)
                     /\ outgoing_effects' = PulsesOf(order, casts, pulses_left)
        /\ \E gained \in SUBSET {g \in Awaited : g[2] \notin off_cooldown'} :
              \E first \in SetToSeqs(gained), second \in SetToSeqs(begun) :
                 hooks' = Relevant(GainedHooks(first) \o BegunHooks(second) \o TickHooks)
  BY DEF perform, After, StrikesOf, PulsesOf
<1>2. PICK casts : casts = Running(begun)
  OBVIOUS
<1>3. PICK strikes_left \in Fewer([c \in DOMAIN casts |-> casts[c].strikes]),
           pulses_left \in Fewer([c \in DOMAIN casts |-> casts[c].pulses]) :
        \E acting \in SUBSET DOMAIN casts, finished \in SUBSET DOMAIN casts :
        \E order \in SetToSeqs(acting) :
           /\ casting' = After(casts, finished, strikes_left, pulses_left)
           /\ finishing' = {c[1] : c \in finished}
           /\ tally' = [tally EXCEPT !.finished = @ + Cardinality(finished)]
           /\ outgoing_strikes' = StrikesOf(order, casts, strikes_left)
           /\ outgoing_effects' = PulsesOf(order, casts, pulses_left)
  BY <1>1, <1>2
<1>4. PICK acting \in SUBSET DOMAIN casts, finished \in SUBSET DOMAIN casts :
        \E order \in SetToSeqs(acting) :
           /\ casting' = After(casts, finished, strikes_left, pulses_left)
           /\ finishing' = {c[1] : c \in finished}
           /\ tally' = [tally EXCEPT !.finished = @ + Cardinality(finished)]
           /\ outgoing_strikes' = StrikesOf(order, casts, strikes_left)
           /\ outgoing_effects' = PulsesOf(order, casts, pulses_left)
  BY <1>3
<1>5. PICK order \in SetToSeqs(acting) :
        /\ casting' = After(casts, finished, strikes_left, pulses_left)
        /\ finishing' = {c[1] : c \in finished}
        /\ tally' = [tally EXCEPT !.finished = @ + Cardinality(finished)]
        /\ outgoing_strikes' = StrikesOf(order, casts, strikes_left)
        /\ outgoing_effects' = PulsesOf(order, casts, pulses_left)
  BY <1>4
<1>6. \A c \in DOMAIN casts : /\ strikes_left[c] \in 0 .. casts[c].strikes
                              /\ pulses_left[c] \in 0 .. casts[c].pulses
  BY <1>3 DEF Fewer
<1>7. \E gained \in SUBSET Awaited :
         \E first \in SetToSeqs(gained), second \in SetToSeqs(begun) :
            hooks' = Relevant(GainedHooks(first) \o BegunHooks(second) \o TickHooks)
  BY <1>1
<1>8. Performs(begun, casts, strikes_left, pulses_left, finished, order)
  BY <1>1, <1>2, <1>4, <1>5, <1>6, <1>7 DEF Performs
<1> QED BY <1>8

LEMMA PerformType == TypeInv /\ perform => TypeInv'
<1> SUFFICES ASSUME TypeInv, perform PROVE TypeInv'
  OBVIOUS
<1>1. /\ phase = "casts" /\ phase' = "hooks"
      /\ no_more_rotation' = no_more_rotation \cup
            {e \in Alive \cup {a \in Actors : rotation[a] # <<>>} : queue[e] = <<>>}
      /\ duration_expired' \in SUBSET {e \in DOMAIN effects : effects[e].kind \notin lasting}
      /\ UNCHANGED <<tick, termination, owner, incoming_strikes, incoming_effects, effects,
                     destroy_effect, sides, stats>>
  BY DEF perform
<1>2. PICK begun, casts, strikes_left, pulses_left, finished, order :
        Performs(begun, casts, strikes_left, pulses_left, finished, order)
  BY PerformPerforms
<1>3. PICK acting \in SUBSET DOMAIN casts : order \in SetToSeqs(acting)
  BY <1>2 DEF Performs
<1>4. PICK gained \in SUBSET Awaited :
        \E first \in SetToSeqs(gained), second \in SetToSeqs(begun) :
          hooks' = Relevant(GainedHooks(first) \o BegunHooks(second) \o TickHooks)
  BY <1>2 DEF Performs
<1>5. PICK first \in SetToSeqs(gained), second \in SetToSeqs(begun) :
        hooks' = Relevant(GainedHooks(first) \o BegunHooks(second) \o TickHooks)
  BY <1>4
<1>6. /\ begun \subseteq {e \in Entities : queue[e] # <<>>} /\ casts = Running(begun)
      /\ RotationsOK
  BY <1>2 DEF TypeInv, Performs
<1>7. PICK D : D = DOMAIN casts
  OBVIOUS
<1>8. casts \in [D -> Casts] /\ D \subseteq Living \X Nat /\ IsFiniteSet(D)
  BY <1>6, <1>7, RunningType
<1>9. begun \subseteq Living /\ IsFiniteSet(begun) /\ \A e \in begun : queue[e] # <<>>
  BY <1>6, NewCasts
<1>10. finished \subseteq D /\ IsFiniteSet(finished)
       /\ \A c \in D : /\ strikes_left[c] \in 0 .. casts[c].strikes
                       /\ pulses_left[c] \in 0 .. casts[c].pulses
  BY <1>2, <1>7, <1>8, FS_Subset DEF Performs
<1>11. IsFiniteSet(acting) /\ IsFiniteSet(gained) /\ gained \subseteq Actors \X Skills
  <2>1. gained \subseteq Actors \X Skills
    BY DEF Awaited
  <2>2. IsFiniteSet(Actors \X Skills)
    BY Finite, Encounter, FS_Product
  <2> QED BY <1>7, <1>8, <2>1, <2>2, FS_Subset
<1>12. order \in Seq(D) /\ first \in Seq(gained) /\ second \in Seq(begun)
  <2>1. order \in Seq(acting) /\ first \in Seq(gained) /\ second \in Seq(begun)
    BY <1>3, <1>5, <1>9, <1>11, SetToSeqsType
  <2> QED BY <1>7, <2>1
<1>13. RunOK' /\ Alive' = Alive /\ Living' = Living
  BY <1>1 DEF TypeInv, RunOK, Phases, Alive, Living
<1>14. RotationsOK'
  <2>1. queue' = [e \in Entities |-> IF e \in begun THEN Tail(queue[e]) ELSE queue[e]]
    BY <1>2 DEF Performs
  <2>2. queue' \in [Entities -> Seq(Skills)]
    <3>1. \A e \in begun : Tail(queue[e]) \in Seq(Skills)
      <4> TAKE e \in begun
      <4>1. queue[e] \in Seq(Skills) /\ queue[e] # <<>>
        BY <1>6, <1>9 DEF RotationsOK
      <4> QED BY <4>1, HeadTailProperties
    <3> QED BY <1>6, <2>1, <3>1 DEF RotationsOK
  <2>3. \A e \in Children \ Alive : queue'[e] = <<>>
    BY <1>6, <2>1 DEF RotationsOK, Entities
  <2>4. casting' = After(casts, finished, strikes_left, pulses_left)
    BY <1>2 DEF Performs
  <2>5. DOMAIN casting' = D \ finished
    BY <1>7, <2>4 DEF After
  <2>6. ASSUME NEW c \in D \ finished PROVE casting'[c] \in Casts
    <3>1. casts[c] \in Casts /\ strikes_left[c] \in 0 .. casts[c].strikes
          /\ pulses_left[c] \in 0 .. casts[c].pulses
      BY <1>8, <1>10
    <3>2. strikes_left[c] \in Nat /\ pulses_left[c] \in Nat
      BY <3>1 DEF Casts
    <3>3. casting'[c] = [casts[c] EXCEPT !.strikes = strikes_left[c], !.pulses = pulses_left[c]]
      BY <1>7, <2>4, <2>6 DEF After
    <3> QED BY <3>1, <3>2, <3>3 DEF Casts
  <2>7. casting' \in [DOMAIN casting' -> Casts]
    <3>1. casting' = [c \in D \ finished |-> casting'[c]]
      BY <1>7, <2>4 DEF After
    <3> QED BY <2>5, <2>6, <3>1
  <2>8. DOMAIN casting' \subseteq Living \X Nat /\ IsFiniteSet(DOMAIN casting')
    BY <1>8, <2>5, FS_Subset
  <2>9. no_more_rotation' \subseteq Living
    BY <1>1, <1>6 DEF RotationsOK, Living
  <2>10. finishing' \subseteq Living
    <3>1. finishing' = {c[1] : c \in finished}
      BY <1>2 DEF Performs
    <3> QED BY <1>8, <1>10, <3>1
  <2> QED BY <1>1, <1>6, <1>13, <2>2, <2>3, <2>7, <2>8, <2>9, <2>10 DEF RotationsOK
<1>15. QueuesOK'
  <2>1. outgoing_strikes' \in Seq(StrikesOut') /\ outgoing_effects' \in Seq(EffectsOut')
    <3>1. outgoing_strikes' = StrikesOf(order, casts, strikes_left)
          /\ outgoing_effects' = PulsesOf(order, casts, pulses_left)
      BY <1>2 DEF Performs
    <3>2. outgoing_strikes' \in Seq(StrikesOut) /\ outgoing_effects' \in Seq(EffectsOut)
      BY <1>8, <1>10, <1>12, <3>1, SentOut
    <3>3. StrikesOut' = StrikesOut /\ EffectsOut' = EffectsOut
      BY <1>13 DEF StrikesOut, EffectsOut
    <3> QED BY <3>2, <3>3
  <2>2. hooks' \in Seq(Hooks)
    <3>1. GainedHooks(first) \in Seq(Hooks)
      BY <1>11, <1>12, GainedHooksType
    <3>2. BegunHooks(second) \in Seq(Hooks)
      BY <1>6, <1>9, <1>12, BegunHooksType
    <3>3. GainedHooks(first) \o BegunHooks(second) \o TickHooks \in Seq(Hooks)
      BY <3>1, <3>2, TickHooksType, ConcatProperties
    <3> QED BY <1>5, <3>3, RelevantType
  <2> QED BY <1>1, <2>1, <2>2 DEF TypeInv, QueuesOK, StrikesIn, EffectsIn, Hooks
<1>16. StacksOK'
  <2>1. \A a, k : Stacks(a, k)' = Stacks(a, k)
    BY <1>1 DEF Stacks
  <2> QED BY <1>1, <2>1 DEF TypeInv, StacksOK, sides
<1>17. StatsOK'
  BY <1>1 DEF TypeInv, StatsOK, sides, stats
<1>18. tally' \in Tallies
  <2>1. Cardinality(finished) \in Nat /\ tally \in Tallies
    BY <1>10, FS_CardinalityType DEF TypeInv
  <2>2. PICK n \in Nat : n = tally.finished + Cardinality(finished)
    BY <2>1 DEF Tallies
  <2>3. tally' = [tally EXCEPT !.finished = n]
    BY <1>2, <2>2 DEF Performs
  <2> QED BY <2>1, <2>3 DEF Tallies
<1> QED BY <1>13, <1>14, <1>15, <1>16, <1>17, <1>18 DEF TypeInv, Tallies

-----------------------------------------------------------------------------
(* Theorems *)

LEMMA TypeStep == TypeInv /\ [Next]_vars => TypeInv'
<1> SUFFICES ASSUME TypeInv, [Next]_vars PROVE TypeInv'
  OBVIOUS
<1>1. CASE UNCHANGED vars
  <2>1. UNCHANGED <<phase, tick, termination, rotations, queues, stacks, sides, stats, tally>>
    BY <1>1 DEF vars
  <2>2. RunOK' /\ RotationsOK' /\ Living' = Living
    BY <2>1 DEF TypeInv, RunOK, RotationsOK, rotations, Living, Alive
  <2>3. QueuesOK'
    <3>1. outgoing_strikes' \in Seq(StrikesOut') /\ outgoing_effects' \in Seq(EffectsOut')
      BY <2>1, <2>2, OutGrows DEF TypeInv, queues
    <3> QED BY <2>1, <3>1 DEF TypeInv, QueuesOK, StrikesIn, EffectsIn, Hooks, queues
  <2>4. StacksOK'
    <3>1. \A a, k : Stacks(a, k)' = Stacks(a, k)
      BY <2>1 DEF Stacks, stacks
    <3> QED BY <2>1, <3>1 DEF TypeInv, StacksOK, stacks, sides
  <2>5. StatsOK'
    BY <2>1 DEF TypeInv, StatsOK, sides, stats
  <2> QED BY <2>1, <2>2, <2>3, <2>4, <2>5 DEF TypeInv, Tallies
<1>2. CASE Next
  BY <1>2, PerformType, RunHookType, StrikesType, OnStrikeHookType, DispatchEffectsType,
     ApplyEffectType, OnEffectApplicationType, UpdateCombatStatsType, EndTickType,
     ContinueCombatLoopType DEF Next
<1> QED BY <1>1, <1>2

LEMMA TypeInvariant == Spec => []TypeInv
<1> QED BY InitType, TypeStep, PTL DEF Spec

LEMMA TypeInvImplies == TypeInv => TypeOK
<1> SUFFICES ASSUME TypeInv PROVE TypeOK
  OBVIOUS
<1>1. /\ {c[1] : c \in DOMAIN casting} \subseteq Actors \cup Alive
      /\ casting \in [DOMAIN casting -> [skill : Skills, strikes : Nat, pulses : Nat]]
  BY DEF TypeInv, RotationsOK, Living, Casts
<1>2. /\ Alive \subseteq Children /\ owner \in [Alive -> Actors]
      /\ queue \in [Entities -> Seq(Skills)]
      /\ no_more_rotation \cup finishing \subseteq Actors \cup Alive
      /\ \A e \in Children \ Alive : queue[e] = <<>>
  BY DEF TypeInv, RotationsOK, Living
<1> QED BY <1>1, <1>2 DEF TypeInv, RunOK, Phases, QueuesOK, StacksOK, StatsOK, TypeOK

\* Whatever casts, side effects, conditions and child actors there are, and in whichever order
\* views visit them: every queue holds what belongs in it, no kind has more stacks than it may
\* store, what is marked for destruction exists, and those that are down are those whose health
\* is used up (tick, combat_loop.cpp).
THEOREM TypeCorrect == Spec => []TypeOK
<1> QED BY TypeInvariant, TypeInvImplies, PTL

-----------------------------------------------------------------------------
(* What an actor has lost is what the audit lists and, between the count of  *)
(* the damage and the audit, what has just been counted.  The run goes on    *)
(* only while nobody is down, and who is not down takes all of it.           *)

HealthInv ==
  /\ phase \notin {"stats", "ended", "over"} => is_downstate = {}
  /\ \A a \in Actors :
       max_health[a] - health[a] = audited[a] + (IF phase = "stats" THEN incoming_damage[a] ELSE 0)

LEMMA HealthInit == Init => HealthInv
<1> SUFFICES ASSUME Init PROVE HealthInv
  OBVIOUS
<1>1. \A a \in Actors : max_health[a] \in Nat
  BY Encounter
<1> QED BY <1>1 DEF Init, HealthInv

LEMMA HealthStep == TypeInv /\ HealthInv /\ [Next]_vars => HealthInv'
<1> SUFFICES ASSUME TypeInv, HealthInv, [Next]_vars PROVE HealthInv'
  OBVIOUS
<1>1. ASSUME UNCHANGED <<health, is_downstate, audited>>, phase # "stats", phase' # "stats",
             phase' \in {phase, "hooks", "strikes", "effects", "applied"},
             phase \in {"ended", "over"} => phase' = phase
      PROVE  HealthInv'
  BY <1>1 DEF HealthInv
<1>2. CASE UNCHANGED vars
  BY <1>2 DEF HealthInv, vars, stats
<1>3. CASE perform
  BY <1>1, <1>3 DEF perform, stats
<1>4. CASE run_hook
  BY <1>1, <1>4 DEF run_hook, stats
<1>5. CASE strikes
  BY <1>1, <1>5 DEF strikes, stats
<1>6. CASE on_strike_hook
  BY <1>1, <1>6 DEF on_strike_hook, stats
<1>7. CASE dispatch_effects
  BY <1>1, <1>7 DEF dispatch_effects, stats
<1>8. CASE apply_effect
  BY <1>1, <1>8 DEF apply_effect, stats
<1>9. CASE on_effect_application
  BY <1>1, <1>9 DEF on_effect_application, stats
<1>10. CASE update_combat_stats
  <2>1. phase = "effects" /\ phase' = "stats" /\ audited' = audited
    BY <1>10 DEF update_combat_stats
  <2>2. /\ incoming_damage' \in [Actors -> Nat] /\ health \in [Actors -> Int]
        /\ max_health \in [Actors -> Nat \ {0}] /\ audited \in [Actors -> Nat]
        /\ \A a \in Actors : health'[a] = IF a \in is_downstate THEN health[a]
                                         ELSE health[a] - incoming_damage'[a]
    BY <1>10, DamageCounted, Encounter DEF TypeInv, StatsOK
  <2>3. is_downstate = {} /\ \A a \in Actors : max_health[a] - health[a] = audited[a] + 0
    BY <2>1 DEF HealthInv
  <2>4. \A a \in Actors : max_health[a] - health'[a] = audited[a] + incoming_damage'[a]
    BY <2>2, <2>3
  <2> QED BY <2>1, <2>4 DEF HealthInv
<1>11. CASE end_tick
  <2>1. /\ phase = "stats" /\ phase' = "ended" /\ UNCHANGED health
        /\ audited' = [a \in Actors |-> audited[a] + incoming_damage[a]]
    BY <1>11 DEF end_tick, audit_damage
  <2>2. \A a \in Actors : max_health[a] - health[a] = audited[a] + incoming_damage[a]
    BY <2>1 DEF HealthInv
  <2>3. \A a \in Actors : audited[a] \in Int /\ incoming_damage[a] \in Int
    BY DEF TypeInv, StatsOK
  <2> QED BY <2>1, <2>2, <2>3 DEF HealthInv
<1>12. CASE continue_combat_loop
  <2>1. /\ phase = "ended" /\ phase' = (IF GoesOn THEN "casts" ELSE "over")
        /\ UNCHANGED <<health, is_downstate, audited>>
    BY <1>12 DEF continue_combat_loop, stats
  <2>2. phase' = "casts" => is_downstate = {}
    BY <2>1 DEF GoesOn
  <2> QED BY <2>1, <2>2 DEF HealthInv
<1> QED BY <1>2, <1>3, <1>4, <1>5, <1>6, <1>7, <1>8, <1>9, <1>10, <1>11, <1>12 DEF Next

LEMMA HealthImplies == TypeInv /\ HealthInv => HealthAccountedFor
<1> SUFFICES ASSUME TypeInv, HealthInv, phase = "ended", NEW a \in Actors
             PROVE  max_health[a] - health[a] = audited[a]
  BY DEF HealthAccountedFor
<1>1. audited[a] \in Nat
  BY DEF TypeInv, StatsOK
<1> QED BY <1>1 DEF HealthInv

\* Whatever is dealt in a tick, and in however many strikes and conditions: at the end of a tick
\* an actor's maximum health is what it has left and what the audit lists, since no tick begins
\* with an actor that is down and would not take its damage (update_combat_stats, audit_damage
\* and continue_combat_loop).
THEOREM HealthIsAccountedFor == Spec => []HealthAccountedFor
<1> QED BY TypeInvariant, HealthInit, HealthStep, HealthImplies, PTL DEF Spec

-----------------------------------------------------------------------------
(* A proc uses up one stack.                                                 *)

\* The stacks of a kind that are marked for destruction.
Marked(k) == {e \in destroy_effect : effects[e].kind = k}

\* While hooks of casts and strikes run, the first stack is marked once the trigger has fired and
\* none is before.
InStep(a, t, r) ==
  /\ tally.spawned[t.skill_key] = tally.removed[r.kind] + Cardinality(Marked(r.kind))
  /\ phase \in {"casts", "hooks", "strikes"} =>
       /\ Marked(r.kind) \subseteq LowestOf(Stacks(a, r.kind), 1)
       /\ Marked(r.kind) # {} <=> <<a, t>> \in already_triggered

AllInStep ==
  \A a \in Actors : \A t \in skill_triggers[a], r \in Range(effect_removals[a]) :
    UsesStacks(a, t, r) => InStep(a, t, r)

\* The lowest of some numbers is one of them, and there is only one.
LEMMA LowestOne ==
  ASSUME NEW T, T \subseteq Nat, T # {}
  PROVE  \E m \in T : LowestOf(T, 1) = {m}
<1>1. PICK m \in T : \A k \in T : ~(<<k, m>> \in OpToRel(<, Nat))
  BY NatLessThanWellFounded, WFMin, Zenon
<1>2. ASSUME NEW k \in T PROVE m <= k
  <2>1. k \in Nat /\ m \in Nat
    OBVIOUS
  <2>2. k < m => <<k, m>> \in OpToRel(<, Nat)
    BY <2>1 DEF OpToRel
  <2>3. ~(<<k, m>> \in OpToRel(<, Nat))
    BY <1>1
  <2>4. ~(k < m)
    BY <2>2, <2>3, Zenon
  <2> QED BY <2>1, <2>4
<1>3. m \in LowestOf(T, 1)
  <2>1. {y \in T : y < m} = {}
    <3>1. ASSUME NEW y \in T PROVE ~(y < m)
      <4>1. y \in Nat /\ m \in Nat /\ m <= y
        BY <1>2
      <4> QED BY <4>1
    <3> QED BY <3>1
  <2>2. Cardinality({y \in T : y < m}) = 0
    BY <2>1, FS_EmptySet
  <2> QED BY <2>2 DEF LowestOf
<1>4. ASSUME NEW k \in T, k # m PROVE k \notin LowestOf(T, 1)
  <2>1. PICK below : below = {y \in T : y < k}
    OBVIOUS
  <2>2. m \in below
    BY <1>2, <1>4, <2>1
  <2>3. IsFiniteSet(below) /\ Cardinality(below) \in Nat
    <3>1. 0 \in Int /\ k \in Int
      BY <1>4
    <3>2. IsFiniteSet(0 .. k)
      BY <3>1, FS_Interval
    <3>3. below \subseteq 0 .. k
      <4>1. \A y \in below : y \in Nat /\ k \in Nat /\ y < k
        BY <1>4, <2>1
      <4> QED BY <4>1
    <3> QED BY <3>2, <3>3, FS_Subset, FS_CardinalityType
  <2>4. Cardinality(below) # 0
    BY <2>2, <2>3, FS_EmptySet
  <2> QED BY <2>1, <2>3, <2>4 DEF LowestOf
<1>5. LowestOf(T, 1) \subseteq T
  BY DEF LowestOf
<1> QED BY <1>3, <1>4, <1>5

LEMMA InStepInit == Init => AllInStep
<1> SUFFICES ASSUME Init, NEW a \in Actors, NEW t \in skill_triggers[a],
                    NEW r \in Range(effect_removals[a]), UsesStacks(a, t, r)
             PROVE  InStep(a, t, r)
  BY DEF AllInStep
<1>1. Marked(r.kind) = {} /\ Cardinality(Marked(r.kind)) = 0
  BY FS_EmptySet DEF Init, Marked
<1>2. t.skill_key \in Skills /\ r.kind \in Kinds
  BY SideEffects DEF Triggers
<1>3. tally.spawned[t.skill_key] = 0 /\ tally.removed[r.kind] = 0
  BY <1>2 DEF Init
<1> QED BY <1>1, <1>3 DEF Init, InStep

\* The hook of a condition that r and t share marks the first stack, and fires t at most once.
LEMMA HookInStep ==
  ASSUME TypeInv, NEW hook \in Hooks, apply_side_effects(hook), UNCHANGED effects,
         NEW a \in Actors, NEW t \in skill_triggers[a], NEW r \in Range(effect_removals[a]),
         UsesStacks(a, t, r), InStep(a, t, r),
         \/ phase \in {"hooks", "strikes"}
         \/ hook.stage = "applied" /\ phase' = "effects"
  PROVE  InStep(a, t, r)'
<1>1. PICK b \in Actors : b = hook.source
  BY DEF Hooks
<1>2. PICK cs : cs = Counted(hook)
  OBVIOUS
<1>3. PICK fired : fired = Triggered(hook, cs)
  OBVIOUS
<1>4. PICK k \in Kinds : k = r.kind
  BY SideEffects
<1>5. PICK key \in Skills : key = t.skill_key
  BY SideEffects DEF Triggers
<1>6. /\ destroy_effect' = destroy_effect \cup
             UNION {RemovedStacks(hook, q) : q \in {q \in Range(effect_removals[b]) : Due(q, hook, cs)}}
      /\ already_triggered' = already_triggered \cup
             {<<b, u>> : u \in fired \cap skill_triggers[b]}
      /\ tally' = [tally EXCEPT !.spawned = Spawned(fired),
                                !.hits[b] = @ + IF hook.stage = "strike" THEN 1 ELSE 0]
  BY <1>1, <1>2, <1>3 DEF apply_side_effects
<1>7. /\ r.condition = t.condition /\ r.condition.on # "applied" /\ r.condition.on_source = {k}
      /\ r.num_stacks = 1 /\ r.from = {} /\ t.from = {} /\ t \in Triggers(a)
      /\ \A c \in Actors : \A u \in Triggers(c) : u.skill_key = key => c = a /\ u = t
      /\ \A c \in Actors : \A q \in Range(effect_removals[c]) : q.kind = k => c = a /\ q = r
  BY <1>4, <1>5 DEF UsesStacks, OnlyTrigger, Triggers
<1>8. b = a => (Due(t, hook, cs) <=> Due(r, hook, cs))
  BY <1>7 DEF Due, InForce
<1>9. b = a /\ Due(r, hook, cs) => Stacks(a, k) # {} /\ hook.stage # "applied"
  BY <1>1, <1>7 DEF Due, OfStage, stage_independent_conditions_satisfied, Plainly
<1>10. t \in fired <=> b = a /\ Due(r, hook, cs) /\ <<a, t>> \notin already_triggered
  <2>1. t \in fired => t \in Triggers(b) /\ Due(t, hook, cs)
                         /\ (t \in skill_triggers[b] => <<b, t>> \notin already_triggered)
    BY <1>1, <1>3 DEF Triggered
  <2>2. t \in Triggers(b) => b = a
    BY <1>5, <1>7
  <2>3. b = a /\ Due(t, hook, cs) /\ <<a, t>> \notin already_triggered => t \in fired
    BY <1>1, <1>3, <1>7 DEF Triggered
  <2> QED BY <1>8, <2>1, <2>2, <2>3
<1>11. <<a, t>> \in already_triggered' <=> (<<a, t>> \in already_triggered \/ t \in fired)
  BY <1>6, <1>10
<1>12. tally'.spawned[key] = tally.spawned[key] + (IF t \in fired THEN 1 ELSE 0)
       /\ tally'.removed = tally.removed
  <2>1. tally \in Tallies
    BY DEF TypeInv
  <2>2. tally'.spawned = Spawned(fired) /\ tally'.removed = tally.removed
    BY <1>6, <2>1 DEF Tallies
  <2>3. \A u \in fired : u.skill_key = key => u = t
    BY <1>1, <1>3, <1>7 DEF Triggered
  <2>4. {u \in fired : u.skill_key = key} = IF t \in fired THEN {t} ELSE {}
    BY <1>5, <2>3
  <2>5. Cardinality({u \in fired : u.skill_key = key}) = IF t \in fired THEN 1 ELSE 0
    BY <2>4, FS_EmptySet, FS_Singleton
  <2> QED BY <2>2, <2>5 DEF Spawned
<1>13. Marked(k)' = Marked(k) \cup (IF b = a /\ Due(r, hook, cs) THEN RemovedStacks(hook, r) ELSE {})
  <2>1. \A q, e : e \in RemovedStacks(hook, q) => e \in DOMAIN effects /\ effects[e].kind = q.kind
    BY DEF RemovedStacks, LowestOf, Stacks
  <2>2. ASSUME NEW e PROVE e \in Marked(k)' <=>
          (e \in Marked(k) \/ (b = a /\ Due(r, hook, cs) /\ e \in RemovedStacks(hook, r)))
    <3>1. e \in Marked(k)' <=> effects[e].kind = k /\ e \in destroy_effect'
      BY DEF Marked
    <3>2. ASSUME NEW q \in Range(effect_removals[b]), Due(q, hook, cs),
                 e \in RemovedStacks(hook, q), effects[e].kind = k
          PROVE  b = a /\ q = r
      BY <1>7, <2>1, <3>2
    <3>3. b = a /\ Due(r, hook, cs) /\ e \in RemovedStacks(hook, r) =>
            e \in destroy_effect' /\ effects[e].kind = k
      BY <1>4, <1>6, <2>1
    <3> QED BY <1>6, <3>1, <3>2, <3>3 DEF Marked
  <2> QED BY <2>2
<1>14. LowestOf(Stacks(a, k), 1)' = LowestOf(Stacks(a, k), 1)
  BY DEF LowestOf, Stacks
<1>15. CASE b = a /\ Due(r, hook, cs)
  <2>1. phase \in {"hooks", "strikes"}
    BY <1>9, <1>15
  <2>2. Stacks(a, k) \subseteq Nat
    <3>1. \A e \in 1 .. MaxEffects : e \in Nat
      BY Encounter
    <3> QED BY <3>1, StacksFinite DEF TypeInv, StacksOK
  <2>3. PICK m \in Stacks(a, k) : LowestOf(Stacks(a, k), 1) = {m}
    BY <1>9, <1>15, <2>2, LowestOne
  <2>4. RemovedStacks(hook, r) = {m}
    BY <1>1, <1>4, <1>7, <1>15, <2>3 DEF RemovedStacks
  <2>5. Marked(k)' = {m} /\ Cardinality(Marked(k)') = 1
    <3>1. Marked(k) \subseteq {m}
      BY <1>4, <2>1, <2>3 DEF InStep
    <3>2. Marked(k)' = {m}
      BY <1>13, <1>15, <2>4, <3>1
    <3> QED BY <3>2, FS_Singleton
  <2>6. CASE <<a, t>> \in already_triggered
    <3>1. Marked(k) = {m}
      BY <1>4, <2>1, <2>3, <2>6 DEF InStep
    <3>2. tally'.spawned[key] = tally.spawned[key] + 0
      BY <1>10, <1>12, <2>6
    <3>3. tally.spawned[key] \in Nat
      BY DEF TypeInv, Tallies
    <3> QED BY <1>4, <1>5, <1>11, <1>12, <1>14, <2>3, <2>5, <2>6, <3>1, <3>2, <3>3 DEF InStep
  <2>7. CASE <<a, t>> \notin already_triggered
    <3>1. Marked(k) = {} /\ Cardinality(Marked(k)) = 0
      BY <1>4, <2>1, <2>7, FS_EmptySet DEF InStep
    <3>2. tally'.spawned[key] = tally.spawned[key] + 1 /\ t \in fired
      BY <1>10, <1>12, <1>15, <2>7
    <3>3. tally.removed[k] \in Nat /\ tally.spawned[key] = tally.removed[k] + 0
      BY <1>4, <1>5, <3>1 DEF InStep, TypeInv, Tallies
    <3> QED BY <1>4, <1>5, <1>11, <1>12, <1>14, <2>3, <2>5, <3>1, <3>2, <3>3 DEF InStep
  <2> QED BY <2>6, <2>7
<1>16. CASE ~(b = a /\ Due(r, hook, cs))
  <2>1. Marked(k)' = Marked(k) /\ t \notin fired
    BY <1>10, <1>13, <1>16
  <2>2. tally'.spawned[key] = tally.spawned[key]
    <3>1. tally.spawned[key] \in Nat
      BY DEF TypeInv, Tallies
    <3> QED BY <1>12, <2>1, <3>1
  <2> QED BY <1>4, <1>5, <1>11, <1>12, <1>14, <2>1, <2>2 DEF InStep
<1> QED BY <1>15, <1>16

LEMMA InStepKept ==
  ASSUME AllInStep, UNCHANGED <<effects, destroy_effect, already_triggered>>,
         tally'.spawned = tally.spawned, tally'.removed = tally.removed,
         phase' \in {"casts", "hooks", "strikes"} => phase \in {"casts", "hooks", "strikes"}
  PROVE  AllInStep'
<1> SUFFICES ASSUME NEW a \in Actors, NEW t \in skill_triggers[a],
                    NEW r \in Range(effect_removals[a]), UsesStacks(a, t, r)
             PROVE  InStep(a, t, r)'
  BY DEF AllInStep
<1>1. InStep(a, t, r)
  BY DEF AllInStep
<1>2. Marked(r.kind)' = Marked(r.kind) /\ Stacks(a, r.kind)' = Stacks(a, r.kind)
  BY DEF Marked, Stacks
<1>3. LowestOf(Stacks(a, r.kind), 1)' = LowestOf(Stacks(a, r.kind), 1)
  BY <1>2 DEF LowestOf
<1> QED BY <1>1, <1>2, <1>3 DEF InStep

LEMMA InStepStep == TypeInv /\ AllInStep /\ [Next]_vars => AllInStep'
<1> SUFFICES ASSUME TypeInv, AllInStep, [Next]_vars PROVE AllInStep'
  OBVIOUS
<1>1. CASE UNCHANGED vars
  BY <1>1, InStepKept DEF vars, stacks, sides
<1>2. ASSUME hooks # <<>>, apply_side_effects(Head(hooks)), UNCHANGED effects,
             phase \in {"hooks", "strikes"} \/ (phase = "applied" /\ phase' = "effects")
      PROVE  AllInStep'
  <2>1. PICK hook \in Hooks : hook = Head(hooks)
    BY <1>2, TailType DEF TypeInv, QueuesOK
  <2>2. phase \in {"hooks", "strikes"} \/ (hook.stage = "applied" /\ phase' = "effects")
    BY <1>2, <2>1 DEF TypeInv, QueuesOK
  <2> SUFFICES ASSUME NEW a \in Actors, NEW t \in skill_triggers[a],
                        NEW r \in Range(effect_removals[a]), UsesStacks(a, t, r)
                 PROVE  InStep(a, t, r)'
    BY DEF AllInStep
  <2>4. InStep(a, t, r)
    BY DEF AllInStep
  <2> QED BY <1>2, <2>1, <2>2, <2>4, HookInStep
<1>3. CASE perform
  <2>1. /\ phase = "casts" /\ UNCHANGED <<effects, destroy_effect, already_triggered>>
        /\ \E n : tally' = [tally EXCEPT !.finished = n]
    <3>1. \E n : tally' = [tally EXCEPT !.finished = n]
      BY <1>3, PerformPerforms DEF Performs
    <3>2. phase = "casts" /\ UNCHANGED <<effects, destroy_effect, already_triggered>>
      BY <1>3 DEF perform, sides
    <3> QED BY <3>1, <3>2
  <2>2. tally'.spawned = tally.spawned /\ tally'.removed = tally.removed
    BY <2>1 DEF TypeInv, Tallies
  <2> QED BY <2>1, <2>2, InStepKept
<1>4. CASE run_hook
  BY <1>2, <1>4 DEF run_hook
<1>5. CASE strikes
  <2>1. /\ phase = "hooks" /\ UNCHANGED <<effects, destroy_effect, already_triggered>>
        /\ \E most : tally' = [tally EXCEPT !.most = most]
    BY <1>5 DEF strikes, stacks, sides
  <2>2. tally'.spawned = tally.spawned /\ tally'.removed = tally.removed
    BY <2>1 DEF TypeInv, Tallies
  <2> QED BY <2>1, <2>2, InStepKept
<1>6. CASE on_strike_hook
  BY <1>2, <1>6 DEF on_strike_hook
<1>7. CASE dispatch_effects
  BY <1>7, InStepKept DEF dispatch_effects, stacks, sides
<1>8. CASE apply_effect
  <2>1. phase = "effects" /\ phase' \in {"effects", "applied"}
        /\ UNCHANGED <<destroy_effect, already_triggered, tally>>
    BY <1>8 DEF apply_effect, sides
  <2>2. \A e \in DOMAIN effects : effects'[e] = effects[e]
    <3>1. PICK new : /\ new \subseteq (1 .. MaxEffects) \ DOMAIN effects
                     /\ \E stack : effects' = [e \in DOMAIN effects \cup new |->
                                                 IF e \in new THEN stack ELSE effects[e]]
      <4>1. PICK new, n :
              /\ new = LowestOf((1 .. MaxEffects) \ DOMAIN effects, n)
              /\ \E stack : effects' = [e \in DOMAIN effects \cup new |->
                                          IF e \in new THEN stack ELSE effects[e]]
        BY <1>8 DEF apply_effect
      <4>2. new \subseteq (1 .. MaxEffects) \ DOMAIN effects
        BY <4>1 DEF LowestOf
      <4> QED BY <4>1, <4>2
    <3> QED BY <3>1
  <2>3. \A k : Marked(k)' = Marked(k)
    BY <2>1, <2>2 DEF Marked, TypeInv, StacksOK
  <2> QED BY <2>1, <2>3 DEF AllInStep, InStep
<1>9. CASE on_effect_application
  <2>1. hooks # <<>>
    <3>1. Len(hooks) = 1 /\ Len(<<>>) = 0
      BY <1>9 DEF TypeInv, QueuesOK, on_effect_application
    <3> QED BY <3>1
  <2> QED BY <1>2, <1>9, <2>1 DEF on_effect_application
<1>10. CASE update_combat_stats
  BY <1>10, InStepKept DEF update_combat_stats, stacks, sides
<1>11. CASE end_tick
  <2>1. /\ phase' = "ended" /\ destroy_effect' = {}
        /\ tally' = [tally EXCEPT !.removed = [k \in Kinds |-> @[k] + Cardinality(Marked(k))]]
    BY <1>11 DEF end_tick, Marked
  <2> SUFFICES ASSUME NEW a \in Actors, NEW t \in skill_triggers[a],
                        NEW r \in Range(effect_removals[a]), UsesStacks(a, t, r)
                 PROVE  InStep(a, t, r)'
    BY DEF AllInStep
  <2>3. PICK k \in Kinds : k = r.kind
    BY SideEffects
  <2>4. PICK removed : removed = [j \in Kinds |-> tally.removed[j] + Cardinality(Marked(j))]
    OBVIOUS
  <2>5. tally'.removed = removed /\ tally'.spawned = tally.spawned
    BY <2>1, <2>4 DEF TypeInv, Tallies
  <2>6. tally.spawned[t.skill_key] = tally.removed[k] + Cardinality(Marked(k))
    <3>1. InStep(a, t, r)
      BY DEF AllInStep
    <3> QED BY <2>3, <3>1 DEF InStep
  <2>7. Marked(k)' = {} /\ Cardinality(Marked(k)') = 0
    BY <2>1, FS_EmptySet DEF Marked
  <2>8. tally.spawned[t.skill_key] \in Nat
    <3>1. t.skill_key \in Skills
      BY SideEffects DEF Triggers
    <3> QED BY <3>1 DEF TypeInv, Tallies
  <2>9. tally.spawned[t.skill_key] = removed[k]
    BY <2>4, <2>6
  <2>10. removed[k] = removed[k] + 0
    BY <2>8, <2>9
  <2> QED BY <2>1, <2>3, <2>5, <2>7, <2>9, <2>10 DEF InStep
<1>12. CASE continue_combat_loop
  <2>1. /\ phase = "ended" /\ UNCHANGED <<effects, destroy_effect, already_triggered, tally>>
        /\ destroy_effect = {} /\ already_triggered = {}
    BY <1>12 DEF continue_combat_loop, stacks, sides, TypeInv, StacksOK
  <2>2. \A k : Marked(k) = {} /\ Marked(k)' = {}
    BY <2>1 DEF Marked
  <2> QED BY <2>1, <2>2 DEF AllInStep, InStep
<1> QED BY <1>1, <1>3, <1>4, <1>5, <1>6, <1>7, <1>8, <1>9, <1>10, <1>11, <1>12 DEF Next

LEMMA InStepImplies == TypeInv /\ AllInStep => OneStackPerProc
<1> SUFFICES ASSUME TypeInv, AllInStep, phase = "ended", NEW a \in Actors,
                    NEW t \in skill_triggers[a], NEW r \in Range(effect_removals[a]),
                    UsesStacks(a, t, r)
             PROVE  tally.spawned[t.skill_key] = tally.removed[r.kind]
  BY DEF OneStackPerProc
<1>1. Marked(r.kind) = {} /\ Cardinality(Marked(r.kind)) = 0
  BY FS_EmptySet DEF TypeInv, StacksOK, Marked
<1>2. tally.removed[r.kind] \in Nat
  BY SideEffects DEF TypeInv, Tallies
<1>3. InStep(a, t, r)
  BY DEF AllInStep
<1> QED BY <1>1, <1>2, <1>3 DEF InStep

\* A trigger and the removal of the one stack it waits for, on the same condition of casts or
\* strikes: however many hooks of a tick satisfy it, the trigger fires once and one stack is gone
\* at the end, so that no proc is paid for twice or not at all (apply_side_effects,
\* already_triggered and destroy_marked_effects).
THEOREM ProcsUseOneStack == Spec => []OneStackPerProc
<1> QED BY TypeInvariant, InStepInit, InStepStep, InStepImplies, PTL DEF Spec

-----------------------------------------------------------------------------
(* What every strike leaves behind. *)

\* A sequence of single elements is flattened to the sequence of them.
LEMMA FlattenSingles ==
  ASSUME NEW S, NEW s \in Seq(S), NEW seqs, seqs = [i \in DOMAIN s |-> <<s[i]>>]
  PROVE  FlattenSeq(seqs) = s
<1>1. PICK last \in Nat : last = Len(s) /\ DOMAIN s = 1 .. last /\ \A i \in 1 .. last : s[i] \in S
  BY FiniteDomain
<1>2. seqs \in Seq(Seq(S)) /\ Len(seqs) = last
  <2>1. seqs \in [1 .. last -> Seq(S)]
    BY <1>1
  <2>2. DOMAIN seqs = 1 .. last /\ seqs \in Seq(Seq(S))
    BY <2>1
  <2> QED BY <2>2, LenProperties
<1>3. PICK f \in [0 .. last -> Seq(S)] : FlattenedBy(f, seqs)
  BY <1>2, FlattenSteps
<1> DEFINE G == {n \in Nat : n <= last => Len(f[n]) = n /\ \A k \in 1 .. n : f[n][k] = s[k]}
<1>4. 0 \in G
  BY <1>3 DEF FlattenedBy
<1>5. ASSUME NEW n \in Nat, n < last, n \in G PROVE n + 1 \in G
  <2>1. n + 1 \in 1 .. last /\ (n + 1) - 1 = n /\ n \in 0 .. last
    BY <1>5
  <2>2. PICK x \in S : x = s[n + 1]
    BY <1>1, <2>1
  <2>3. seqs[n + 1] = <<x>>
    BY <1>1, <2>1, <2>2
  <2>4. f[n + 1] = f[n] \o <<x>>
    BY <1>2, <1>3, <2>1, <2>3, Zenon DEF FlattenedBy
  <2>5. PICK v \in Seq(S) : v = f[n]
    BY <1>3, <2>1
  <2>6. Len(v) = n /\ \A k \in 1 .. n : v[k] = s[k]
    BY <1>5, <2>5
  <2>7. Len(v \o <<x>>) = n + 1 /\ \A k \in 1 .. n + 1 : (v \o <<x>>)[k] = s[k]
    BY <2>2, <2>6
  <2>8. f[n + 1] = v \o <<x>>
    BY <2>4, <2>5
  <2>9. Len(f[n + 1]) = n + 1 /\ \A k \in 1 .. n + 1 : f[n + 1][k] = s[k]
    BY <2>7, <2>8
  <2> QED BY <2>9
<1>6. last \in G
  <2> HIDE DEF G
  <2>1. 0 .. last \subseteq G
    BY <1>4, <1>5, InductionUpTo
  <2> QED BY <2>1
<1>7. PICK v \in Seq(S) : v = f[last]
  BY <1>3
<1>8. Len(v) = last /\ \A k \in 1 .. last : v[k] = s[k]
  BY <1>6, <1>7
<1>9. v = s
  BY <1>1, <1>8, SeqEqual
<1> QED BY <1>2, <1>3, <1>7, <1>9 DEF FlattenedBy

\* At takes the elements at the places, and all of the sequence if the places are all.
LEMMA AtHas ==
  ASSUME NEW S, NEW s \in Seq(S), NEW I, NEW i \in I, i \in DOMAIN s
  PROVE  s[i] \in Range(At(s, I))
<1>1. DOMAIN s = 1 .. Len(s) /\ Len(s) \in Nat /\ \A j \in DOMAIN s : s[j] \in S
  BY FiniteDomain
<1>2. PICK seqs : seqs = [j \in DOMAIN s |-> IF j \in I THEN <<s[j]>> ELSE <<>>]
  OBVIOUS
<1>3. seqs \in Seq(Seq(S)) /\ i \in DOMAIN seqs
  <2>1. \A j \in DOMAIN s : seqs[j] \in Seq(S)
    <3> TAKE j \in DOMAIN s
    <3>1. CASE j \in I
      BY <1>1, <1>2, <3>1
    <3>2. CASE j \notin I
      BY <1>2, <3>2, EmptySeq
    <3> QED BY <3>1, <3>2
  <2>2. seqs \in [1 .. Len(s) -> Seq(S)]
    BY <1>1, <1>2, <2>1
  <2> QED BY <1>1, <2>2
<1>4. s[i] \in Range(seqs[i])
  <2>1. PICK x \in S : x = s[i]
    BY <1>1
  <2>2. 1 \in DOMAIN <<x>> /\ <<x>>[1] = x
    OBVIOUS
  <2>3. x \in Range(<<x>>)
    BY <2>2 DEF Range
  <2>4. seqs[i] = <<x>>
    BY <1>2, <2>1
  <2> QED BY <2>1, <2>3, <2>4
<1>5. At(s, I) = FlattenSeq(seqs)
  BY <1>2 DEF At
<1> QED BY <1>3, <1>4, <1>5, FlattenHas

LEMMA AtAll ==
  ASSUME NEW S, NEW s \in Seq(S), NEW I, DOMAIN s \subseteq I
  PROVE  At(s, I) = s
<1>1. PICK seqs : seqs = [j \in DOMAIN s |-> IF j \in I THEN <<s[j]>> ELSE <<>>]
  OBVIOUS
<1>2. seqs = [j \in DOMAIN s |-> <<s[j]>>]
  BY <1>1
<1> QED BY <1>1, <1>2, FlattenSingles DEF At

\* A sequence that SetToSeqs makes of a finite set has all of it.
LEMMA SetToSeqsHas ==
  ASSUME NEW T, IsFiniteSet(T), NEW s \in SetToSeqs(T), NEW x \in T
  PROVE  \E i \in DOMAIN s : s[i] = x
<1>1. PICK n \in Nat : n = Cardinality(T)
  BY FS_CardinalityType
<1>2. s \in [1 .. n -> T] /\ \A i, j \in 1 .. n : i # j => s[i] # s[j]
  BY <1>1 DEF SetToSeqs
<1>3. s \in Injection(1 .. n, T)
  BY <1>2 DEF Injection, IsInjective
<1>4. Cardinality(1 .. n) = n
  BY FS_Interval
<1>5. s \in Surjection(1 .. n, T)
  BY <1>1, <1>3, <1>4, FS_Injection
<1> QED BY <1>2, <1>5 DEF Surjection

LEMMA ByTargetHas ==
  ASSUME NEW S, NEW list \in Seq(S), IsFiniteSet(Targets(list)),
         NEW order \in SetToSeqs(Targets(list)), NEW x \in Range(list)
  PROVE  x \in Range(ByTarget(list, order))
<1>1. PICK k \in DOMAIN list : x = list[k]
  BY DEF Range
<1>2. PICK i \in DOMAIN order : order[i] = list[k].target
  <2>1. list[k].target \in Targets(list)
    BY DEF Targets
  <2> QED BY <2>1, SetToSeqsHas
<1>3. PICK seqs : seqs = [n \in DOMAIN order |->
                            At(list, {j \in DOMAIN list : list[j].target = order[n]})]
  OBVIOUS
<1>4. seqs \in Seq(Seq(S)) /\ i \in DOMAIN seqs
  <2>1. order \in Seq(Targets(list))
    BY SetToSeqsType
  <2>2. Len(order) \in Nat /\ DOMAIN order = 1 .. Len(order)
    BY <2>1, LenProperties
  <2>3. \A n \in DOMAIN order : seqs[n] \in Seq(S)
    BY <1>3, AtType
  <2>4. seqs \in [1 .. Len(order) -> Seq(S)]
    BY <1>3, <2>2, <2>3
  <2> QED BY <1>3, <2>2, <2>4
<1>5. x \in Range(seqs[i])
  <2>1. k \in {j \in DOMAIN list : list[j].target = order[i]}
    BY <1>2
  <2> QED BY <1>1, <1>3, <2>1, AtHas
<1> QED BY <1>3, <1>4, <1>5, FlattenHas DEF ByTarget
-----------------------------------------------------------------------------
(* Who is hit. *)

LEMMA SteadyAim ==
  ASSUME RotationsOK, RotationsOK', NEW a \in Actors, NEW s
  PROVE  Aimed(a, s)' = Aimed(a, s)
<1>1. get_owner(a) = a /\ get_owner(a)' = a
  <2>1. get_owner(a)' = a
    BY Encounter DEF RotationsOK, get_owner
  <2> QED BY <2>1, OwnersOwnThemselves
<1>2. Enemies(a)' = Enemies(a)
  BY <1>1 DEF Enemies
<1> QED BY <1>2 DEF Aimed

LEMMA StrikeHooksHave ==
  ASSUME NEW hits \in Seq(StrikesIn), NEW criticals, NEW x \in Range(hits), x.skill \notin unhooked
  PROVE  \E h \in Range(StrikeHooks(hits, criticals)) :
            h.stage = "strike" /\ h.source = x.source /\ h.by = x.skill
<1>1. PICK k \in DOMAIN hits : x = hits[k]
  BY DEF Range
<1>2. DOMAIN hits = 1 .. Len(hits) /\ Len(hits) \in Nat
  BY FiniteDomain
<1>3. PICK all : all = [i \in DOMAIN hits |->
                          [stage |-> "strike", source |-> hits[i].source,
                           target |-> hits[i].target, by |-> hits[i].skill,
                           critical |-> i \in criticals]]
  OBVIOUS
<1>4. all \in Seq(Range(all))
  BY <1>2, <1>3 DEF Range
<1>5. all[k] \in Range(At(all, {i \in DOMAIN hits : hits[i].skill \notin unhooked}))
  <2>1. k \in {i \in DOMAIN hits : hits[i].skill \notin unhooked} /\ k \in DOMAIN all
    BY <1>1, <1>3
  <2> QED BY <1>4, <2>1, AtHas
<1>6. StrikeHooks(hits, criticals) = At(all, {i \in DOMAIN hits : hits[i].skill \notin unhooked})
  BY <1>3, Zenon DEF StrikeHooks
<1>7. all[k].stage = "strike" /\ all[k].source = x.source /\ all[k].by = x.skill
  BY <1>1, <1>3
<1> QED BY <1>5, <1>6, <1>7

-----------------------------------------------------------------------------
(* Who gets what a strike sends. *)

LEMMA UpToMore ==
  ASSUME NEW S, NEW s \in Seq(S), NEW m \in Nat, NEW n \in Nat, m <= n
  PROVE  Range(UpTo(s, m)) \subseteq Range(UpTo(s, n))
<1>1. Len(s) \in Nat /\ \A i \in 1 .. Len(s) : s[i] \in S
  BY LenProperties, ElementOfSeq
<1>2. ASSUME NEW k \in Nat
      PROVE  \E l \in Nat : /\ l = (IF k < Len(s) THEN k ELSE Len(s))
                            /\ Range(UpTo(s, k)) = {s[i] : i \in 1 .. l}
  <2>1. PICK l \in Nat : l = (IF k < Len(s) THEN k ELSE Len(s))
    BY <1>1
  <2>2. \A i \in 1 .. l : s[i] \in S
    BY <1>1, <2>1
  <2>3. PICK t : t = SubSeq(s, 1, l)
    OBVIOUS
  <2>4. DOMAIN t = 1 .. l /\ \A i \in 1 .. l : t[i] = s[i]
    BY <1>1, <2>1, <2>3
  <2>5. UpTo(s, k) = t
    BY <2>1, <2>3 DEF UpTo
  <2> QED BY <2>1, <2>4, <2>5 DEF Range
<1>3. PICK i, j \in Nat :
        /\ i = (IF m < Len(s) THEN m ELSE Len(s)) /\ Range(UpTo(s, m)) = {s[k] : k \in 1 .. i}
        /\ j = (IF n < Len(s) THEN n ELSE Len(s)) /\ Range(UpTo(s, n)) = {s[k] : k \in 1 .. j}
  BY <1>2
<1>4. i <= j
  BY <1>1, <1>3
<1> QED BY <1>3, <1>4

\* What a strike of the skill applies to each of its targets, whoever else there is.
Marks(x, s) ==
  /\ x \in Range(on_strike_effect_applications[s]) /\ s \notin unhooked
  /\ x.direction = "OUTGOING" /\ x.condition = Always
  /\ x.num_targets >= num_targets[s] /\ x.num_stacks > 0

LEMMA MarksType ==
  ASSUME NEW s \in Skills, NEW x, Marks(x, s)
  PROVE  /\ x \in EffectApplications /\ x.kind \in Kinds /\ x.num_stacks \in Nat
         /\ x.num_targets \in Nat
<1>1. on_strike_effect_applications[s] \in Seq(EffectApplications)
  BY ApplicationTypes
<1>2. x \in EffectApplications
  BY <1>1, FiniteDomain DEF Marks, Range
<1> QED BY <1>2, Applicable

LEMMA OpponentsHit ==
  ASSUME NEW a \in Actors, NEW s \in Skills, NEW x, Marks(x, s), RotationsOK,
         NEW b \in Range(Aimed(a, s))
  PROVE  b \in Range(Recipients(a, x))
<1>1. get_owner(a) = a
  BY OwnersOwnThemselves
<1>2. PICK enemies \in Seq(Actors) : enemies = Enemies(a)
  BY TargetsType
<1>3. Fit(x, a, enemies) = enemies
  <2>1. \A c : independent_conditions_satisfied(x.condition, a, c)
    BY DEF Marks, Always, independent_conditions_satisfied, Plainly,
           stage_independent_conditions_satisfied
  <2>2. DOMAIN enemies \subseteq
          {i \in DOMAIN enemies : independent_conditions_satisfied(x.condition, a, enemies[i])}
    BY <2>1
  <2> QED BY <2>2, AtAll DEF Fit
<1>4. num_targets[s] \in Nat /\ x.num_targets \in Nat /\ num_targets[s] <= x.num_targets
  BY Encounter, MarksType DEF Marks
<1>5. b \in Range(UpTo(enemies, x.num_targets))
  BY <1>2, <1>4, UpToMore DEF Aimed
<1> QED BY <1>1, <1>2, <1>3, <1>5 DEF Recipients, Opponents, Marks

LEMMA SentHas ==
  ASSUME RotationsOK, NEW list \in Seq(EffectsOut), NEW a \in Actors, NEW x,
         [source |-> a, application |-> x] \in Range(list), NEW b \in Range(Recipients(a, x))
  PROVE  [source |-> a, target |-> b, application |-> x] \in Range(Sent(list))
<1>1. /\ DOMAIN list = 1 .. Len(list) /\ Len(list) \in Nat
      /\ \A i \in DOMAIN list : list[i] \in EffectsOut
  BY FiniteDomain
<1>2. PICK k \in DOMAIN list : list[k] = [source |-> a, application |-> x]
  BY DEF Range
<1>3. get_owner(a) = a /\ x \in EffectApplications /\ list[k].source = a /\ list[k].application = x
  <2>1. [source |-> a, application |-> x] \in EffectsOut
    BY <1>1, <1>2
  <2>2. x \in EffectApplications
    BY <2>1 DEF EffectsOut
  <2> QED BY <1>2, <2>2, OwnersOwnThemselves
<1>4. PICK seqs : seqs = [i \in DOMAIN list |->
                 [j \in DOMAIN Recipients(list[i].source, list[i].application) |->
                    [source |-> get_owner(list[i].source),
                     target |-> Recipients(list[i].source, list[i].application)[j],
                     application |-> list[i].application]]]
  OBVIOUS
<1>5. ASSUME NEW i \in DOMAIN list PROVE seqs[i] \in Seq(EffectsIn)
  <2>1. PICK y \in EffectsOut : y = list[i]
    BY <1>1
  <2>2. /\ y.source \in Living /\ y.application \in EffectApplications
        /\ get_owner(y.source) \in Actors
    BY OwnerType DEF EffectsOut
  <2>3. PICK to \in Seq(Actors) : to = Recipients(y.source, y.application)
    BY <2>2, RecipientsType
  <2>4. DOMAIN to = 1 .. Len(to) /\ Len(to) \in Nat /\ \A j \in DOMAIN to : to[j] \in Actors
    BY FiniteDomain
  <2>5. PICK f : f = [j \in 1 .. Len(to) |-> [source |-> get_owner(y.source),
                                              target |-> to[j], application |-> y.application]]
    OBVIOUS
  <2>6. f \in [1 .. Len(to) -> EffectsIn]
    BY <2>2, <2>4, <2>5 DEF EffectsIn
  <2>7. f \in Seq(EffectsIn)
    BY <2>4, <2>6
  <2>8. seqs[i] = f
    BY <1>4, <2>1, <2>3, <2>4, <2>5
  <2> QED BY <2>7, <2>8
<1>6. seqs \in [1 .. Len(list) -> Seq(EffectsIn)]
  BY <1>1, <1>4, <1>5
<1>7. seqs \in Seq(Seq(EffectsIn)) /\ k \in DOMAIN seqs
  BY <1>1, <1>6
<1>8. [source |-> a, target |-> b, application |-> x] \in Range(seqs[k])
  <2>1. PICK to : to = Recipients(a, x)
    OBVIOUS
  <2>2. PICK j \in DOMAIN to : b = to[j]
    BY <2>1 DEF Range
  <2>3. seqs[k] = [i \in DOMAIN to |-> [source |-> a, target |-> to[i], application |-> x]]
    BY <1>3, <1>4, <2>1
  <2> QED BY <2>2, <2>3 DEF Range
<1>9. Sent(list) = FlattenSeq(seqs)
  BY <1>4 DEF Sent
<1> QED BY <1>7, <1>8, <1>9, FlattenHas

\* Whatever the order of the sources and the targets, what goes out comes in at each recipient.
LEMMA DispatchedEffects ==
  ASSUME TypeInv, dispatch_effects, NEW a \in Actors, NEW x,
         [source |-> a, application |-> x] \in Range(outgoing_effects),
         NEW b \in Range(Recipients(a, x))
  PROVE  [source |-> a, target |-> b, application |-> x] \in Range(incoming_effects')
<1>1. PICK out \in Seq(EffectsOut) : out = outgoing_effects
  BY DEF TypeInv, QueuesOK
<1>2. PICK sources : sources = {y.source : y \in Range(out)}
  OBVIOUS
<1>3. PICK by \in SetToSeqs(sources) :
        LET list == Sent(FlattenSeq([i \in DOMAIN by |->
                          At(out, {j \in DOMAIN out : out[j].source = by[i]})]))
        IN  \E order \in SetToSeqs(Targets(list)) : incoming_effects' = ByTarget(list, order)
  BY <1>1, <1>2 DEF dispatch_effects
<1>4. IsFiniteSet(sources)
  <2>1. \A i \in DOMAIN out : out[i] \in EffectsOut
    BY FiniteDomain
  <2>2. sources \subseteq Living
    BY <1>2, <2>1 DEF Range, EffectsOut
  <2>3. Living \subseteq Entities
    BY DEF Living, Entities, TypeInv, RotationsOK
  <2> QED BY <2>2, <2>3, Finite, FS_Subset
<1>5. PICK seqs : seqs = [i \in DOMAIN by |-> At(out, {j \in DOMAIN out : out[j].source = by[i]})]
  OBVIOUS
<1>6. seqs \in Seq(Seq(EffectsOut))
  <2>1. by \in Seq(sources)
    BY <1>4, SetToSeqsType
  <2>2. Len(by) \in Nat /\ DOMAIN by = 1 .. Len(by)
    BY <2>1, LenProperties
  <2>3. \A i \in DOMAIN by : seqs[i] \in Seq(EffectsOut)
    BY <1>5, AtType
  <2>4. seqs \in [1 .. Len(by) -> Seq(EffectsOut)]
    BY <1>5, <2>2, <2>3
  <2> QED BY <2>2, <2>4
<1>7. PICK sorted \in Seq(EffectsOut) : sorted = FlattenSeq(seqs)
  BY <1>6, FlattenType
<1>8. [source |-> a, application |-> x] \in Range(sorted)
  <2>1. PICK k \in DOMAIN out : out[k] = [source |-> a, application |-> x]
    BY <1>1 DEF Range
  <2>2. out[k].source \in sources
    BY <1>2 DEF Range
  <2>3. PICK i \in DOMAIN by : by[i] = out[k].source
    BY <1>4, <2>2, SetToSeqsHas
  <2>4. k \in {j \in DOMAIN out : out[j].source = by[i]}
    BY <2>3
  <2>5. out[k] \in Range(seqs[i]) /\ i \in DOMAIN seqs
    BY <1>5, <2>4, AtHas
  <2> QED BY <1>6, <1>7, <2>1, <2>5, FlattenHas
<1>9. PICK list \in Seq(EffectsIn) : list = Sent(sorted)
  BY SentType DEF TypeInv
<1>10. PICK order \in SetToSeqs(Targets(list)) : incoming_effects' = ByTarget(list, order)
  BY <1>3, <1>5, <1>7, <1>9
<1>11. IsFiniteSet(Targets(list))
  <2>1. \A i \in DOMAIN list : list[i] \in EffectsIn
    BY FiniteDomain
  <2>2. Targets(list) \subseteq Actors
    BY <2>1 DEF Targets, EffectsIn
  <2> QED BY <2>2, Finite, FS_Subset
<1>12. [source |-> a, target |-> b, application |-> x] \in Range(list)
  BY <1>8, <1>9, SentHas DEF TypeInv
<1> QED BY <1>10, <1>11, <1>12, ByTargetHas

-----------------------------------------------------------------------------
(* Where what a strike marks its target with is, from stage to stage. *)

OnItsWay(hit, x) ==
  /\ phase = "strikes" =>
       \/ \E h \in Range(hooks) : h.source = hit.source /\ h.by = hit.skill
       \/ [source |-> hit.source, application |-> x] \in Range(outgoing_effects)
  /\ phase \in {"effects", "applied"} =>
       \/ [source |-> hit.source, target |-> hit.target, application |-> x]
             \in Range(incoming_effects)
       \/ Stacks(hit.target, x.kind) # {}
  /\ phase = "stats" => Stacks(hit.target, x.kind) # {}

HitsInv ==
  \A hit \in Range(incoming_strikes) :
    /\ hit \in AimedStrikes
    /\ \A x : Marks(x, hit.skill) => OnItsWay(hit, x)

\* Actors aim as before, whatever child actors come and go.
LEMMA HitsKept ==
  ASSUME TypeInv, TypeInv', HitsInv, incoming_strikes' = incoming_strikes,
         \A hit \in Range(incoming_strikes) : \A x :
            hit \in AimedStrikes /\ Marks(x, hit.skill) /\ OnItsWay(hit, x) => OnItsWay(hit, x)'
  PROVE  HitsInv'
<1> SUFFICES ASSUME NEW hit \in Range(incoming_strikes)
             PROVE  /\ (hit \in AimedStrikes)'
                    /\ \A x : Marks(x, hit.skill) => OnItsWay(hit, x)'
  BY DEF HitsInv, Marks
<1>1. hit \in AimedStrikes
  BY DEF HitsInv
<1>2. hit.source \in Actors /\ hit \in StrikesIn /\ hit.target \in Range(Aimed(hit.source, hit.skill))
  BY <1>1 DEF AimedStrikes, StrikesIn
<1>3. Aimed(hit.source, hit.skill)' = Aimed(hit.source, hit.skill)
  BY <1>2, SteadyAim DEF TypeInv
<1> QED BY <1>1, <1>2, <1>3 DEF HitsInv, AimedStrikes, StrikesIn

LEMMA StrikesOnTheirWay == TypeInv /\ TypeInv' /\ strikes => HitsInv'
<1> SUFFICES ASSUME TypeInv, TypeInv', strikes PROVE HitsInv'
  OBVIOUS
<1>1. PICK d \in Seq(AimedStrikes) : d = Dispatched
  BY DispatchedAimed DEF TypeInv
<1>2. PICK order \in SetToSeqs(Targets(d)) :
        \E criticals : /\ incoming_strikes' = ByTarget(d, order)
                       /\ hooks' = StrikeHooks(ByTarget(d, order), criticals)
  BY <1>1 DEF strikes
<1>3. order \in Seq(Targets(d))
  <2>1. \A i \in DOMAIN d : d[i] \in AimedStrikes
    BY FiniteDomain
  <2>2. Targets(d) \subseteq Actors
    BY <2>1 DEF Targets, AimedStrikes, StrikesIn
  <2> QED BY <2>2, Finite, FS_Subset, SetToSeqsType
<1>4. PICK hits \in Seq(AimedStrikes) : hits = ByTarget(d, order)
  BY <1>3, ByTargetType
<1>5. PICK criticals : incoming_strikes' = hits /\ hooks' = StrikeHooks(hits, criticals)
  BY <1>2, <1>4
<1>6. hits \in Seq(StrikesIn)
  <2>1. AimedStrikes \subseteq StrikesIn
    BY DEF AimedStrikes
  <2> QED BY <2>1, SeqMonotonic
<1> SUFFICES ASSUME NEW hit \in Range(hits)
             PROVE  /\ (hit \in AimedStrikes)'
                    /\ \A x : Marks(x, hit.skill) => OnItsWay(hit, x)'
  BY <1>5 DEF HitsInv, Marks
<1>7. hit \in AimedStrikes
  BY FiniteDomain DEF Range
<1>8. hit.source \in Actors /\ hit \in StrikesIn /\ hit.target \in Range(Aimed(hit.source, hit.skill))
  BY <1>7 DEF AimedStrikes, StrikesIn
<1>9. Aimed(hit.source, hit.skill)' = Aimed(hit.source, hit.skill)
  BY <1>8, SteadyAim DEF TypeInv
<1>10. ASSUME NEW x, Marks(x, hit.skill) PROVE OnItsWay(hit, x)'
  <2>1. \E h \in Range(hooks') : h.source = hit.source /\ h.by = hit.skill
    BY <1>5, <1>6, <1>10, StrikeHooksHave DEF Marks
  <2>2. phase' = "strikes"
    BY DEF strikes
  <2> QED BY <2>1, <2>2 DEF OnItsWay
<1> QED BY <1>7, <1>8, <1>9, <1>10 DEF AimedStrikes, StrikesIn

LEMMA HookSends ==
  ASSUME TypeInv, on_strike_hook, NEW hit, NEW x, Marks(x, hit.skill), OnItsWay(hit, x)
  PROVE  OnItsWay(hit, x)'
<1>1. /\ phase = "strikes" /\ phase' = "strikes" /\ hooks # <<>> /\ hooks' = Tail(hooks)
      /\ outgoing_effects' = outgoing_effects \o Applications(Head(hooks))
  BY DEF on_strike_hook
<1>2. PICK first \in Hooks : first = Head(hooks) /\ first = hooks[1] /\ first.by \in Skills
  BY <1>1, TailType DEF TypeInv, QueuesOK
<1>3. PICK list \in Seq(EffectApplications) : list = on_strike_effect_applications[first.by]
  BY <1>2, ApplicationTypes
<1>4. DOMAIN list = 1 .. Len(list) /\ Len(list) \in Nat
  BY FiniteDomain
<1>5. PICK sent : sent = [i \in 1 .. Len(list) |-> [source |-> first.source, application |-> list[i]]]
  OBVIOUS
<1>6. Applications(first) = sent /\ sent \in Seq(Range(sent))
  <2>1. Applications(first) = sent
    BY <1>3, <1>4, <1>5 DEF Applications
  <2>2. sent \in [1 .. Len(list) -> Range(sent)]
    BY <1>5 DEF Range
  <2>3. sent \in Seq(Range(sent))
    BY <1>4, <2>2
  <2> QED BY <2>1, <2>3
<1>7. Range(outgoing_effects') = Range(outgoing_effects) \cup Range(sent)
  <2>1. PICK S : outgoing_effects \in Seq(S)
    BY DEF TypeInv, QueuesOK
  <2>2. outgoing_effects \in Seq(S \cup Range(sent)) /\ sent \in Seq(S \cup Range(sent))
    BY <1>6, <2>1, SeqMonotonic
  <2> QED BY <1>1, <1>2, <1>6, <2>2, RangeConcatenation
<1>8. CASE [source |-> hit.source, application |-> x] \in Range(outgoing_effects)
  BY <1>1, <1>7, <1>8 DEF OnItsWay
<1>9. ASSUME NEW h \in Range(hooks), h.source = hit.source, h.by = hit.skill
      PROVE  OnItsWay(hit, x)'
  <2>1. CASE h = first
    <3>1. x \in Range(list)
      BY <1>3, <1>9, <2>1 DEF Marks
    <3>2. [source |-> hit.source, application |-> x] \in Range(sent)
      BY <1>4, <1>5, <1>9, <2>1, <3>1 DEF Range
    <3> QED BY <1>1, <1>7, <3>2 DEF OnItsWay
  <2>2. CASE h # first
    <3>1. h \in Range(Tail(hooks))
      BY <1>1, <1>2, <1>9, <2>2, HeadOrTail DEF TypeInv, QueuesOK
    <3> QED BY <1>1, <1>9, <3>1 DEF OnItsWay
  <2> QED BY <2>1, <2>2
<1> QED BY <1>1, <1>8, <1>9 DEF OnItsWay

\* One application leaves the target with a stack of its kind, old or new.
LEMMA EffectsArrive ==
  ASSUME TypeInv, apply_effect, NEW hit \in StrikesIn, NEW x, Marks(x, hit.skill), OnItsWay(hit, x)
  PROVE  OnItsWay(hit, x)'
<1>1. PICK in \in EffectsIn : in = Head(incoming_effects) /\ in = incoming_effects[1]
  BY TailType DEF apply_effect, TypeInv, QueuesOK
<1>2. PICK new, n : /\ n = Added(in.target, in.application.kind, in.application.num_stacks)
                    /\ new = LowestOf((1 .. MaxEffects) \ DOMAIN effects, n)
                    /\ Cardinality(new) = n
                    /\ effects' = [e \in DOMAIN effects \cup new |->
                                     IF e \in new THEN [kind |-> in.application.kind,
                                                        on |-> in.target, source |-> in.source]
                                     ELSE effects[e]]
  BY <1>1 DEF apply_effect
<1>3. /\ phase = "effects" /\ phase' \in {"effects", "applied"} /\ incoming_effects # <<>>
      /\ incoming_effects' = Tail(incoming_effects)
  BY DEF apply_effect
<1>4. new \cap DOMAIN effects = {}
  BY <1>2 DEF LowestOf
<1>5. hit.target \in Actors /\ hit.skill \in Skills /\ x.kind \in Kinds /\ x.num_stacks \in Nat
      /\ x.num_stacks > 0
  <2>1. hit.skill \in Skills
    BY DEF StrikesIn
  <2> QED BY <2>1, MarksType DEF StrikesIn, Marks
<1>6. CASE Stacks(hit.target, x.kind) # {}
  <2>1. Stacks(hit.target, x.kind) \subseteq Stacks(hit.target, x.kind)'
    BY <1>2, <1>4 DEF Stacks
  <2> QED BY <1>3, <1>6, <2>1 DEF OnItsWay
<1>7. CASE Stacks(hit.target, x.kind) = {}
  <2>1. PICK i \in DOMAIN incoming_effects : incoming_effects[i] =
            [source |-> hit.source, target |-> hit.target, application |-> x]
    BY <1>3, <1>7 DEF OnItsWay, Range
  <2>2. CASE i = 1
    <3>1. in.target = hit.target /\ in.application = x
      BY <1>1, <2>1, <2>2
    <3>2. n > 0 /\ n \in Nat
      <4>1. Cardinality(Stacks(hit.target, x.kind)) = 0
        BY <1>7, FS_EmptySet
      <4>2. PICK most \in Nat : most = max_stored_stacks[x.kind] /\ most > 0
        BY <1>5, Encounter
      <4>3. PICK m \in Nat : m = x.num_stacks /\ m > 0
        BY <1>5
      <4>4. n = IF m < (IF x.kind \in extended THEN 1 ELSE most) - 0 THEN m
                ELSE (IF x.kind \in extended THEN 1 ELSE most) - 0
        BY <1>2, <3>1, <4>1, <4>2, <4>3 DEF Added
      <4> QED BY <4>2, <4>3, <4>4
    <3>3. new # {}
      <4>1. new = {} => Cardinality(new) = 0
        BY FS_EmptySet
      <4>2. Cardinality(new) = n
        BY <1>2
      <4> QED BY <3>2, <4>1, <4>2
    <3>4. new \subseteq Stacks(hit.target, x.kind)'
      BY <1>2, <3>1 DEF Stacks
    <3> QED BY <1>3, <3>3, <3>4 DEF OnItsWay
  <2>3. CASE i # 1
    <3>1. incoming_effects \in Seq(EffectsIn) /\ DOMAIN incoming_effects = 1 .. Len(incoming_effects)
          /\ Len(incoming_effects) \in Nat
      BY FiniteDomain DEF TypeInv, QueuesOK
    <3>2. Tail(incoming_effects) \in Seq(EffectsIn)
          /\ Len(Tail(incoming_effects)) = Len(incoming_effects) - 1
      BY <1>3, <3>1, HeadTailProperties
    <3>3. DOMAIN Tail(incoming_effects) = 1 .. Len(incoming_effects) - 1
      BY <3>2, LenProperties
    <3>4. i - 1 \in DOMAIN Tail(incoming_effects) /\ (i - 1) + 1 = i
      BY <2>3, <3>1, <3>3
    <3>5. Tail(incoming_effects)[i - 1] = incoming_effects[i]
      BY <1>3, <3>1, <3>4, TailType
    <3>6. incoming_effects[i] \in Range(incoming_effects')
      BY <1>3, <3>4, <3>5 DEF Range
    <3> QED BY <1>3, <2>1, <3>6 DEF OnItsWay
  <2> QED BY <2>2, <2>3
<1> QED BY <1>6, <1>7

LEMMA HitsStep == TypeInv /\ HitsInv /\ [Next]_vars => HitsInv'
<1> SUFFICES ASSUME TypeInv, HitsInv, [Next]_vars PROVE HitsInv'
  OBVIOUS
<1>1. TypeInv'
  BY TypeStep
<1>2. ASSUME incoming_strikes' = incoming_strikes, phase' \in {"casts", "hooks", "ended", "over"}
      PROVE  HitsInv'
  BY <1>1, <1>2, HitsKept DEF OnItsWay
<1>3. CASE UNCHANGED vars
  <2>1. UNCHANGED <<phase, incoming_strikes, hooks, outgoing_effects, incoming_effects, effects>>
    BY <1>3 DEF vars, queues, stacks
  <2>2. \A a, k : Stacks(a, k)' = Stacks(a, k)
    BY <2>1 DEF Stacks
  <2> QED BY <1>1, <2>1, <2>2, HitsKept DEF OnItsWay
<1>4. CASE perform
  BY <1>2, <1>4 DEF perform
<1>5. CASE run_hook
  BY <1>2, <1>5 DEF run_hook
<1>6. CASE strikes
  BY <1>1, <1>6, StrikesOnTheirWay
<1>7. CASE on_strike_hook
  <2>1. incoming_strikes' = incoming_strikes
    BY <1>7 DEF on_strike_hook
  <2> QED BY <1>1, <1>7, <2>1, HookSends, HitsKept
<1>8. CASE dispatch_effects
  <2>1. /\ phase = "strikes" /\ phase' = "effects" /\ hooks = <<>>
        /\ incoming_strikes' = incoming_strikes
    BY <1>8 DEF dispatch_effects
  <2>2. ASSUME NEW hit \in AimedStrikes, NEW x, Marks(x, hit.skill), OnItsWay(hit, x)
        PROVE  OnItsWay(hit, x)'
    <3>1. [source |-> hit.source, application |-> x] \in Range(outgoing_effects)
      BY <2>1, <2>2 DEF OnItsWay, Range
    <3>2. hit.source \in Actors /\ hit.skill \in Skills
          /\ hit.target \in Range(Aimed(hit.source, hit.skill))
      BY DEF AimedStrikes, StrikesIn
    <3>3. hit.target \in Range(Recipients(hit.source, x))
      BY <2>2, <3>2, OpponentsHit DEF TypeInv
    <3> QED BY <1>8, <2>1, <3>1, <3>2, <3>3, DispatchedEffects DEF OnItsWay
  <2> QED BY <1>1, <2>1, <2>2, HitsKept
<1>9. CASE apply_effect
  <2>1. incoming_strikes' = incoming_strikes
    BY <1>9 DEF apply_effect
  <2> QED BY <1>1, <1>9, <2>1, EffectsArrive, HitsKept DEF AimedStrikes
<1>10. CASE on_effect_application
  <2>1. /\ phase = "applied" /\ phase' = "effects"
        /\ UNCHANGED <<incoming_strikes, incoming_effects, effects>>
    BY <1>10 DEF on_effect_application
  <2>2. \A a, k : Stacks(a, k)' = Stacks(a, k)
    BY <2>1 DEF Stacks
  <2> QED BY <1>1, <2>1, <2>2, HitsKept DEF OnItsWay
<1>11. CASE update_combat_stats
  <2>1. /\ phase = "effects" /\ phase' = "stats" /\ incoming_effects = <<>>
        /\ UNCHANGED <<incoming_strikes, effects>>
    BY <1>11 DEF update_combat_stats, queues, stacks
  <2>2. \A a, k : Stacks(a, k)' = Stacks(a, k)
    BY <2>1 DEF Stacks
  <2> QED BY <1>1, <2>1, <2>2, HitsKept DEF OnItsWay, Range
<1>12. CASE end_tick
  BY <1>12 DEF end_tick, HitsInv, Range
<1>13. CASE continue_combat_loop
  BY <1>2, <1>13 DEF continue_combat_loop, queues
<1> QED BY <1>3, <1>4, <1>5, <1>6, <1>7, <1>8, <1>9, <1>10, <1>11, <1>12, <1>13 DEF Next

LEMMA HitsImply == TypeInv /\ HitsInv => HitsAreMarked
<1> QED BY DEF HitsInv, OnItsWay, Marks, HitsAreMarked, AimedStrikes, StrikesIn

\* Whoever a strike hit carries, when the damage of the tick is counted, every effect that the
\* strike applies to as many enemies as it hits and on no condition: neither the order in which
\* sources and targets are visited nor what else goes out, arrives or fires in between takes it
\* away (dispatch_effects, apply_effects, Opponents of a child actor's owner).
THEOREM StrikesMarkTheirTargets == Spec => []HitsAreMarked
<1>1. Init => HitsInv
  BY DEF Init, HitsInv, Range
<1> QED BY <1>1, TypeInvariant, HitsStep, HitsImply, PTL DEF Spec

-----------------------------------------------------------------------------
(* Every n-th hit. *)

LEMMA Quotient ==
  ASSUME NEW n \in Nat, n > 0, NEW s \in Nat, NEW h \in Nat, h - n * s \in 0 .. n - 1
  PROVE  h \div n = s
<1>1. PICK q \in Int : q = h \div n
  OBVIOUS
<1>2. PICK p \in Int, u \in Int : p = n * s /\ u = n * q
  OBVIOUS
<1>3. u <= h /\ h < u + n
  BY <1>1, <1>2
<1>4. p <= h /\ h < p + n
  BY <1>2
<1>5. n * (q + 1) = u + n /\ n * (s + 1) = p + n
  BY <1>2
<1>6. ASSUME NEW x \in Int, NEW y \in Int, x < y PROVE n * (x + 1) <= n * y
  <2>1. n * (y - (x + 1)) >= 0
    BY <1>6
  <2>2. n * (y - (x + 1)) = n * y - n * (x + 1)
    OBVIOUS
  <2> QED BY <2>1, <2>2
<1>7. ~(q < s)
  BY <1>2, <1>3, <1>4, <1>5, <1>6
<1>8. ~(s < q)
  BY <1>2, <1>3, <1>4, <1>5, <1>6
<1> QED BY <1>1, <1>7, <1>8

LEMMA HitsOfTail ==
  ASSUME NEW a, NEW S, NEW s \in Seq(S), s # <<>>
  PROVE  /\ HitsOf(a, s) \in Nat /\ HitsOf(a, Tail(s)) \in Nat
         /\ HitsOf(a, s) = HitsOf(a, Tail(s)) + (IF Head(s).source = a THEN 1 ELSE 0)
<1>1. PICK last \in Nat : last = Len(s) /\ last # 0 /\ DOMAIN s = 1 .. last
  BY LenProperties, EmptySeq
<1>2. PICK t \in Seq(S) : t = Tail(s) /\ DOMAIN t = 1 .. last - 1 /\ Head(s) = s[1]
        /\ \A i \in 1 .. last - 1 : t[i] = s[i + 1]
  <2>1. Tail(s) \in Seq(S) /\ Len(Tail(s)) = last - 1
    BY <1>1, HeadTailProperties
  <2>2. DOMAIN Tail(s) = 1 .. last - 1
    BY <2>1, LenProperties
  <2> QED BY <1>1, <2>1, <2>2, TailType
<1>3. PICK A : A = {i \in 1 .. last : s[i].source = a}
  OBVIOUS
<1>4. PICK B : B = {i \in 1 .. last - 1 : t[i].source = a}
  OBVIOUS
<1>5. PICK f : f = [i \in B |-> i + 1]
  OBVIOUS
<1>6. PICK C : C = {i \in 2 .. last : s[i].source = a}
  OBVIOUS
<1>7. IsFiniteSet(B) /\ IsFiniteSet(C) /\ Cardinality(C) = Cardinality(B) /\ Cardinality(C) \in Nat
  <2>1. IsFiniteSet(1 .. last - 1) /\ IsFiniteSet(2 .. last)
    BY FS_Interval
  <2>2. IsFiniteSet(B) /\ IsFiniteSet(C)
    BY <1>4, <1>6, <2>1, FS_Subset
  <2>3. \A i \in B : i \in Int /\ f[i] = i + 1 /\ i + 1 \in C
    BY <1>1, <1>2, <1>4, <1>5, <1>6
  <2>4. f \in Injection(B, C)
    <3>1. f \in [B -> C]
      BY <1>5, <2>3
    <3>2. \A i, j \in B : f[i] = f[j] => i = j
      BY <2>3
    <3> QED BY <3>1, <3>2 DEF Injection, IsInjective
  <2>5. f \in Surjection(B, C)
    <3>1. ASSUME NEW j \in C PROVE \E i \in B : f[i] = j
      <4>1. j \in Int /\ j - 1 \in 1 .. last - 1 /\ (j - 1) + 1 = j /\ s[j].source = a
        BY <1>6
      <4>2. j - 1 \in B
        BY <1>2, <1>4, <4>1
      <4> QED BY <2>3, <4>1, <4>2
    <3> QED BY <2>4, <3>1 DEF Surjection, Injection
  <2>6. f \in Bijection(B, C)
    BY <2>4, <2>5 DEF Bijection
  <2>7. Cardinality(C) = Cardinality(B)
    <3>1. ExistsBijection(B, C)
      BY <2>6 DEF ExistsBijection
    <3> QED BY <2>2, <3>1, FS_Bijection
  <2> QED BY <2>2, <2>7, FS_CardinalityType
<1>8. A = IF s[1].source = a THEN C \cup {1} ELSE C
  BY <1>1, <1>3, <1>6
<1>9. 1 \notin C
  BY <1>6
<1>10. Cardinality(A) = Cardinality(C) + (IF s[1].source = a THEN 1 ELSE 0)
  <2>1. Cardinality(C \cup {1}) = Cardinality(C) + 1
    BY <1>7, <1>9, FS_AddElement
  <2> QED BY <1>7, <1>8, <2>1
<1>11. HitsOf(a, s) = Cardinality(A) /\ HitsOf(a, t) = Cardinality(B)
  BY <1>1, <1>2, <1>3, <1>4 DEF HitsOf
<1> QED BY <1>2, <1>7, <1>10, <1>11

-----------------------------------------------------------------------------
(* What a hook does to a counter of hits. *)

NthHit(a, c, n, t) ==
  /\ CountsHits(a, c, n) /\ OnlyTrigger(a, t)
  /\ t.condition = OnStrike(AtLeast(c, n)) /\ t.from = {}

LEMMA PlainConditions ==
  ASSUME NEW c \in Counters, NEW n, NEW source, NEW target, NEW cs
  PROVE  /\ stage_independent_conditions_satisfied(OnStrike(Always), source, target, cs)
         /\ stage_independent_conditions_satisfied(AtLeast(c, n), source, target, cs) <=> cs[c] >= n
         /\ stage_independent_conditions_satisfied(OnStrike(AtLeast(c, n)), source, target, cs)
               <=> cs[c] >= n
<1>1. PICK threshold : threshold = [type |-> "at least", of |-> c, value |-> n]
  OBVIOUS
<1>2. Within(threshold, Subject(threshold.of, source, target, cs)) <=> cs[c] >= n
  BY <1>1, Named DEF Within, Subject
<1>3. threshold.of # "target"
  BY <1>1, Named
<1>4. PICK always : always = Always
  OBVIOUS
<1>5. PICK least : least = AtLeast(c, n)
  OBVIOUS
<1>6. PICK struck : struck = OnStrike(Always)
  OBVIOUS
<1>7. PICK both : both = OnStrike(AtLeast(c, n))
  OBVIOUS
<1>8. \A x \in {least, struck, both} :
        /\ x.on_source = {} /\ x.on_target = {} /\ x.by_source = {} /\ x.off_cooldown = {}
        /\ x.nots = {} /\ x.ors = {} /\ x.ands = {}
  <2> DEFINE Bare(x) ==
        /\ x.on_source = {} /\ x.on_target = {} /\ x.by_source = {} /\ x.off_cooldown = {}
        /\ x.nots = {} /\ x.ors = {} /\ x.ands = {}
  <2>1. Bare(least)
    BY <1>5 DEF Always, AtLeast
  <2>2. Bare(struck)
    BY <1>6 DEF Always, OnStrike
  <2>3. Bare(both)
    BY <1>7 DEF Always, AtLeast, OnStrike
  <2> QED BY <2>1, <2>2, <2>3
<1>9. struck.thresholds = {} /\ least.thresholds = {threshold} /\ both.thresholds = {threshold}
  BY <1>1, <1>5, <1>6, <1>7 DEF Always, AtLeast, OnStrike
<1>10. Plainly(struck, source, target, cs)
  BY <1>8, <1>9 DEF Plainly
<1>11. Plainly(least, source, target, cs) <=> cs[c] >= n
  BY <1>2, <1>3, <1>8, <1>9 DEF Plainly
<1>12. Plainly(both, source, target, cs) <=> cs[c] >= n
  BY <1>2, <1>3, <1>8, <1>9 DEF Plainly
<1> QED BY <1>5, <1>6, <1>7, <1>8, <1>10, <1>11, <1>12 DEF stage_independent_conditions_satisfied

LEMMA DueWhen ==
  ASSUME NEW c \in Counters, NEW n, NEW hook \in Hooks, NEW cs
  PROVE  /\ Due(Adds(c), hook, cs) <=> hook.stage = "strike"
         /\ Due(Takes(c, n), hook, cs) <=> hook.stage = "any" /\ cs[c] >= n
         /\ \A t : t.condition = OnStrike(AtLeast(c, n)) /\ t.from = {} =>
               (Due(t, hook, cs) <=> hook.stage = "strike" /\ cs[c] >= n)
<1>1. PICK stage : stage = hook.stage
  OBVIOUS
<1>2. OfStage(OnStrike(Always), hook) <=> stage = "strike"
  BY <1>1 DEF OfStage, OnStrike, Always
<1>3. OfStage(AtLeast(c, n), hook) <=> stage = "any"
  BY <1>1 DEF OfStage, AtLeast, Always
<1>4. OfStage(OnStrike(AtLeast(c, n)), hook) <=> stage = "strike"
  BY <1>1 DEF OfStage, OnStrike, AtLeast, Always
<1>5. Adds(c).condition = OnStrike(Always) /\ Adds(c).from = {}
      /\ Takes(c, n).condition = AtLeast(c, n) /\ Takes(c, n).from = {}
  BY DEF Adds, Takes
<1>6. \A x : x.from = {} => InForce(x, hook.source)
  BY DEF InForce
<1> QED BY <1>1, <1>2, <1>3, <1>4, <1>5, <1>6, PlainConditions DEF Due

LEMMA AddsAndTakes ==
  ASSUME NEW a \in Actors, NEW c \in Counters, NEW n \in Nat, CountsHits(a, c, n),
         NEW cs \in [Counters -> Int]
  PROVE  /\ apply_counter_modifications(cs, Adds(c)) = [cs EXCEPT ![c] = cs[c] + 1]
         /\ apply_counter_modifications(cs, Takes(c, n)) = [cs EXCEPT ![c] = cs[c] - n]
<1>1. Adds(c) \in Range(counter_modifiers[a]) /\ Takes(c, n) \in Range(counter_modifiers[a])
  BY DEF CountsHits, Once, Range
<1>2. Operand(1, cs) = 1 /\ Operand(n, cs) = n
  BY Named DEF Operand
<1>3. Len(<<1>>) = 1 /\ <<1>>[1] = 1 /\ Len(<<n>>) = 1 /\ <<n>>[1] = n
  OBVIOUS
<1>4. PICK m : m = Adds(c)
  OBVIOUS
<1>5. m.counter = c /\ m.operation = "ADD" /\ m.operands = <<1>>
  BY <1>4 DEF Adds
<1>6. apply_counter_modifications(cs, m) = [cs EXCEPT ![c] = cs[c] + 1]
  <2>1. PICK f \in [0 .. Len(m.operands) -> Int] :
          /\ f[0] = cs[m.counter]
          /\ \A i \in 1 .. Len(m.operands) :
                f[i] = Operate(m.operation, f[i - 1], Operand(m.operands[i], cs))
          /\ apply_counter_modifications(cs, m) = [cs EXCEPT ![m.counter] = f[Len(m.operands)]]
    <3>1. m \in Range(counter_modifiers[a]) /\ m.operation # "RESET"
      BY <1>1, <1>4, <1>5
    <3> QED BY <3>1, ModifiedSteps
  <2>2. f[1] = Operate("ADD", f[0], 1)
    <3>1. f[1] = Operate(m.operation, f[1 - 1], Operand(m.operands[1], cs)) /\ 1 - 1 = 0
      BY <1>3, <1>5, <2>1
    <3> QED BY <1>2, <1>3, <1>5, <3>1
  <2> QED BY <1>3, <1>5, <2>1, <2>2 DEF Operate
<1>7. PICK r : r = Takes(c, n)
  OBVIOUS
<1>8. r.counter = c /\ r.operation = "SUBTRACT" /\ r.operands = <<n>>
  BY <1>7 DEF Takes
<1>9. apply_counter_modifications(cs, r) = [cs EXCEPT ![c] = cs[c] - n]
  <2>1. PICK f \in [0 .. Len(r.operands) -> Int] :
          /\ f[0] = cs[r.counter]
          /\ \A i \in 1 .. Len(r.operands) :
                f[i] = Operate(r.operation, f[i - 1], Operand(r.operands[i], cs))
          /\ apply_counter_modifications(cs, r) = [cs EXCEPT ![r.counter] = f[Len(r.operands)]]
    <3>1. r \in Range(counter_modifiers[a]) /\ r.operation # "RESET"
      BY <1>1, <1>7, <1>8
    <3> QED BY <3>1, ModifiedSteps
  <2>2. f[1] = Operate("SUBTRACT", f[0], n)
    <3>1. f[1] = Operate(r.operation, f[1 - 1], Operand(r.operands[1], cs)) /\ 1 - 1 = 0
      BY <1>3, <1>8, <2>1
    <3> QED BY <1>2, <1>3, <1>8, <3>1
  <2> QED BY <1>3, <1>8, <2>1, <2>2 DEF Operate
<1> QED BY <1>4, <1>6, <1>7, <1>9

\* What a counter goes through as the modifiers of the hook's source take their turns.
Turns(w, c, ms, hook) ==
  /\ w[0] = counters[c]
  /\ \A n \in 1 .. Len(ms) : \A cs \in [Counters -> Int] :
        cs[c] = w[n - 1] => CountedOne(cs, ms[n], hook)[c] = w[n]

LEMMA CountedThrough ==
  ASSUME counters \in [Counters -> Int], NEW a \in Actors, NEW hook, hook.source = a,
         NEW ms, ms = counter_modifiers[a], NEW c \in Counters, NEW w, Turns(w, c, ms, hook)
  PROVE  Counted(hook)[c] = w[Len(ms)]
<1>1. PICK last \in Nat : last = Len(ms)
  BY SideEffects, LenProperties
<1>2. PICK f \in [0 .. Len(ms) -> [Counters -> Int]] : CountedBy(f, ms, hook)
  BY CountedSteps
<1> DEFINE G == {n \in Nat : n <= last => f[n][c] = w[n]}
<1>3. 0 \in G
  BY <1>2 DEF CountedBy, Turns
<1>4. ASSUME NEW n \in Nat, n < last, n \in G PROVE n + 1 \in G
  <2>1. n + 1 \in 1 .. Len(ms) /\ (n + 1) - 1 = n /\ n \in 0 .. Len(ms)
    BY <1>1, <1>4
  <2>2. PICK cs \in [Counters -> Int] : cs = f[n]
    BY <2>1
  <2>3. f[n + 1] = CountedOne(cs, ms[n + 1], hook)
    BY <1>2, <2>1, <2>2 DEF CountedBy
  <2>4. cs[c] = w[(n + 1) - 1]
    BY <1>4, <2>1, <2>2
  <2>5. f[n + 1][c] = w[n + 1]
    BY <2>1, <2>3, <2>4 DEF Turns
  <2> QED BY <2>5
<1>5. last \in G
  <2> HIDE DEF G
  <2>1. 0 .. last \subseteq G
    BY <1>3, <1>4, InductionUpTo
  <2> QED BY <2>1
<1> QED BY <1>1, <1>2, <1>5 DEF CountedBy

LEMMA OtherCounters ==
  ASSUME NEW m, NEW hook, NEW c \in Counters, NEW cs \in [Counters -> Int], m.counter # c
  PROVE  CountedOne(cs, m, hook)[c] = cs[c]
<1> QED BY DEF CountedOne, apply_counter_modifications

\* A strike of a adds one; the hook of the tick takes n off when they are there.
LEMMA HitsCounted ==
  ASSUME TypeInv, NEW a \in Actors, NEW c \in Counters, NEW n \in Nat, CountsHits(a, c, n),
         NEW hook \in Hooks
  PROVE  Counted(hook)[c] =
            IF hook.source = a /\ hook.stage = "strike" THEN counters[c] + 1
            ELSE IF hook.source = a /\ hook.stage = "any" /\ counters[c] >= n THEN counters[c] - n
            ELSE counters[c]
<1>1. PICK b \in Actors : b = hook.source
  BY DEF Hooks
<1>2. PICK ms : ms = counter_modifiers[b]
  OBVIOUS
<1>3. counters \in [Counters -> Int] /\ counters[c] \in Int
  BY DEF TypeInv, StatsOK
<1>4. DOMAIN ms = 1 .. Len(ms) /\ \A i \in 1 .. Len(ms) : ms[i] \in Range(counter_modifiers[b])
  BY <1>2, SideEffects, FiniteDomain
<1>5. \A i \in 1 .. Len(ms) : ms[i].counter = c => b = a /\ ms[i] \in {Adds(c), Takes(c, n)}
  BY <1>4 DEF CountsHits
<1>6. \A cs : /\ Due(Adds(c), hook, cs) <=> hook.stage = "strike"
              /\ Due(Takes(c, n), hook, cs) <=> hook.stage = "any" /\ cs[c] >= n
  BY DueWhen
<1>7. PICK last \in Nat : last = Len(ms)
  BY <1>2, SideEffects, LenProperties
<1>8. CASE b = a /\ hook.stage = "strike"
  <2>1. PICK p \in 1 .. Len(ms) : {j \in 1 .. Len(ms) : ms[j] = Adds(c)} = {p}
    BY <1>2, <1>4, <1>8 DEF CountsHits, Once
  <2>2. ASSUME NEW cs \in [Counters -> Int], NEW i \in 1 .. Len(ms), i # p
        PROVE  CountedOne(cs, ms[i], hook)[c] = cs[c]
    <3>1. ms[i] # Adds(c)
      BY <2>1, <2>2
    <3>2. CASE ms[i].counter # c
      BY <3>2, OtherCounters
    <3>3. CASE ms[i].counter = c
      <4>1. ms[i] = Takes(c, n)
        BY <1>5, <3>1, <3>3
      <4>2. ~Due(ms[i], hook, cs)
        BY <1>6, <1>8, <4>1
      <4> QED BY <4>2 DEF CountedOne
    <3> QED BY <3>2, <3>3
  <2>3. ASSUME NEW cs \in [Counters -> Int], cs[c] = counters[c]
        PROVE  CountedOne(cs, ms[p], hook)[c] = counters[c] + 1
    <3>1. ms[p] = Adds(c)
      BY <2>1
    <3>2. CountedOne(cs, ms[p], hook) = [cs EXCEPT ![c] = cs[c] + 1]
      <4>1. Due(ms[p], hook, cs)
        BY <1>6, <1>8, <3>1
      <4> QED BY <2>3, <3>1, <4>1, AddsAndTakes DEF CountedOne
    <3> QED BY <2>3, <3>2
  <2>4. PICK w : w = [i \in 0 .. last |-> IF p <= i THEN counters[c] + 1 ELSE counters[c]]
    OBVIOUS
  <2>5. ASSUME NEW i \in 1 .. last, NEW cs \in [Counters -> Int], cs[c] = w[i - 1]
        PROVE  CountedOne(cs, ms[i], hook)[c] = w[i]
    <3>1. i - 1 \in 0 .. last /\ i \in 0 .. last
      OBVIOUS
    <3>2. CASE i = p
      <4>1. w[i - 1] = counters[c] /\ w[i] = counters[c] + 1
        BY <1>7, <2>1, <2>4, <3>1, <3>2
      <4> QED BY <2>3, <2>5, <3>2, <4>1
    <3>3. CASE i # p
      <4>1. w[i - 1] = w[i]
        BY <1>7, <2>1, <2>4, <3>1, <3>3
      <4> QED BY <1>7, <2>2, <2>5, <3>3, <4>1
    <3> QED BY <3>2, <3>3
  <2>6. w[0] = counters[c] /\ w[last] = counters[c] + 1
    BY <1>7, <2>1, <2>4
  <2>7. Counted(hook)[c] = w[last]
    <3>1. Turns(w, c, ms, hook)
      BY <1>7, <2>5, <2>6 DEF Turns
    <3>2. Counted(hook)[c] = w[Len(ms)]
      BY <1>1, <1>2, <1>3, <3>1, CountedThrough
    <3> QED BY <1>7, <3>2
  <2> QED BY <1>1, <1>8, <2>6, <2>7
<1>9. CASE b = a /\ hook.stage = "any" /\ counters[c] >= n
  <2>1. PICK p \in 1 .. Len(ms) : {j \in 1 .. Len(ms) : ms[j] = Takes(c, n)} = {p}
    BY <1>2, <1>4, <1>9 DEF CountsHits, Once
  <2>2. ASSUME NEW cs \in [Counters -> Int], NEW i \in 1 .. Len(ms), i # p
        PROVE  CountedOne(cs, ms[i], hook)[c] = cs[c]
    <3>1. ms[i] # Takes(c, n)
      BY <2>1, <2>2
    <3>2. CASE ms[i].counter # c
      BY <3>2, OtherCounters
    <3>3. CASE ms[i].counter = c
      <4>1. ms[i] = Adds(c)
        BY <1>5, <3>1, <3>3
      <4>2. ~Due(ms[i], hook, cs)
        BY <1>6, <1>9, <4>1
      <4> QED BY <4>2 DEF CountedOne
    <3> QED BY <3>2, <3>3
  <2>3. ASSUME NEW cs \in [Counters -> Int], cs[c] = counters[c]
        PROVE  CountedOne(cs, ms[p], hook)[c] = counters[c] - n
    <3>1. ms[p] = Takes(c, n)
      BY <2>1
    <3>2. CountedOne(cs, ms[p], hook) = [cs EXCEPT ![c] = cs[c] - n]
      <4>1. Due(ms[p], hook, cs)
        BY <1>6, <1>9, <2>3, <3>1
      <4> QED BY <3>1, <4>1, AddsAndTakes DEF CountedOne
    <3> QED BY <2>3, <3>2
  <2>4. PICK w : w = [i \in 0 .. last |-> IF p <= i THEN counters[c] - n ELSE counters[c]]
    OBVIOUS
  <2>5. ASSUME NEW i \in 1 .. last, NEW cs \in [Counters -> Int], cs[c] = w[i - 1]
        PROVE  CountedOne(cs, ms[i], hook)[c] = w[i]
    <3>1. i - 1 \in 0 .. last /\ i \in 0 .. last
      OBVIOUS
    <3>2. CASE i = p
      <4>1. w[i - 1] = counters[c] /\ w[i] = counters[c] - n
        BY <1>7, <2>1, <2>4, <3>1, <3>2
      <4> QED BY <2>3, <2>5, <3>2, <4>1
    <3>3. CASE i # p
      <4>1. w[i - 1] = w[i]
        BY <1>7, <2>1, <2>4, <3>1, <3>3
      <4> QED BY <1>7, <2>2, <2>5, <3>3, <4>1
    <3> QED BY <3>2, <3>3
  <2>6. w[0] = counters[c] /\ w[last] = counters[c] - n
    BY <1>7, <2>1, <2>4
  <2>7. Counted(hook)[c] = w[last]
    <3>1. Turns(w, c, ms, hook)
      BY <1>7, <2>5, <2>6 DEF Turns
    <3>2. Counted(hook)[c] = w[Len(ms)]
      BY <1>1, <1>2, <1>3, <3>1, CountedThrough
    <3> QED BY <1>7, <3>2
  <2> QED BY <1>1, <1>9, <2>6, <2>7
<1>10. CASE ~(b = a /\ hook.stage = "strike") /\ ~(b = a /\ hook.stage = "any" /\ counters[c] >= n)
  <2>1. ASSUME NEW cs \in [Counters -> Int], NEW i \in 1 .. Len(ms), cs[c] = counters[c]
        PROVE  CountedOne(cs, ms[i], hook)[c] = cs[c]
    <3>1. CASE ms[i].counter # c
      BY <3>1, OtherCounters
    <3>2. CASE ms[i].counter = c
      <4>1. b = a /\ ms[i] \in {Adds(c), Takes(c, n)}
        BY <1>5, <3>2
      <4>2. ~Due(ms[i], hook, cs)
        BY <1>6, <1>10, <2>1, <4>1
      <4> QED BY <4>2 DEF CountedOne
    <3> QED BY <3>1, <3>2
  <2>2. PICK w : w = [i \in 0 .. last |-> counters[c]]
    OBVIOUS
  <2>3. ASSUME NEW i \in 1 .. last, NEW cs \in [Counters -> Int], cs[c] = w[i - 1]
        PROVE  CountedOne(cs, ms[i], hook)[c] = w[i]
    <3>1. i - 1 \in 0 .. last /\ i \in 0 .. last
      OBVIOUS
    <3> QED BY <1>7, <2>1, <2>2, <2>3, <3>1
  <2>4. w[0] = counters[c] /\ w[last] = counters[c]
    BY <1>7, <2>2
  <2>5. Counted(hook)[c] = w[last]
    <3>1. Turns(w, c, ms, hook)
      BY <1>7, <2>3, <2>4 DEF Turns
    <3>2. Counted(hook)[c] = w[Len(ms)]
      BY <1>1, <1>2, <1>3, <3>1, CountedThrough
    <3> QED BY <1>7, <3>2
  <2> QED BY <1>1, <1>10, <2>4, <2>5
<1> QED BY <1>1, <1>8, <1>9, <1>10

-----------------------------------------------------------------------------
(* Counter and procs add up to the hits. *)

Rest(a, n, t) == tally.hits[a] - n * tally.spawned[t.skill_key]
Fired(a, t) == <<a, t>> \in already_triggered

\* The hits since the last proc, fewer than n, are in the counter, to which n may have to be
\* added: those that the proc has used up stay until the hook of the next tick.
Counting(a, c, n, t) ==
  /\ Rest(a, n, t) \in 0 .. n - 1
  /\ phase \in {"casts", "ended", "over"} => counters[c] \in {Rest(a, n, t), Rest(a, n, t) + n}
  /\ phase = "hooks" =>
        /\ ~Fired(a, t)
        /\ \/ counters[c] = Rest(a, n, t)
           \/ /\ counters[c] = Rest(a, n, t) + n
              /\ \E h \in Range(hooks) : h.source = a /\ h.stage = "any"
  /\ phase \in {"strikes", "effects", "applied", "stats"} =>
        counters[c] = Rest(a, n, t) + IF Fired(a, t) THEN n ELSE 0
  /\ phase = "strikes" => counters[c] + HitsOf(a, hooks) < n + n

NthInv ==
  \A a \in Actors, c \in Counters, n \in Nat : \A t \in skill_triggers[a] :
    NthHit(a, c, n, t) /\ tally.most[a] <= n => Counting(a, c, n, t)

StagesOK ==
  /\ phase = "hooks" => \A h \in Range(hooks) : h.stage # "strike"
  /\ phase = "strikes" => \A h \in Range(hooks) : h.stage = "strike"

LEMMA NthTypes ==
  ASSUME TypeInv, NEW a \in Actors, NEW c \in Counters, NEW n \in Nat, NEW t \in skill_triggers[a]
  PROVE  /\ t.skill_key \in Skills /\ counters[c] \in Int /\ tally.most[a] \in Nat
         /\ tally.hits[a] \in Nat /\ tally.spawned[t.skill_key] \in Nat
         /\ n * tally.spawned[t.skill_key] \in Int /\ Rest(a, n, t) \in Int
<1>1. t.skill_key \in Skills
  BY SideEffects DEF Triggers
<1>2. tally.hits[a] \in Nat /\ tally.spawned[t.skill_key] \in Nat /\ tally.most[a] \in Nat
      /\ counters[c] \in Int
  BY <1>1 DEF TypeInv, Tallies, StatsOK
<1>3. PICK s \in Nat : s = tally.spawned[t.skill_key]
  BY <1>2
<1>4. n * s \in Int
  BY <1>3
<1> QED BY <1>1, <1>2, <1>3, <1>4 DEF Rest

\* What a hook does to the hits, the procs, the counter and the mark of the trigger.
LEMMA NthHook ==
  ASSUME TypeInv, NEW hook \in Hooks, apply_side_effects(hook),
         NEW a \in Actors, NEW c \in Counters, NEW n \in Nat, NEW t \in skill_triggers[a],
         NthHit(a, c, n, t)
  PROVE  \E hit \in BOOLEAN, fires \in BOOLEAN :
           /\ hit <=> hook.source = a /\ hook.stage = "strike"
           /\ fires <=> hit /\ counters[c] + 1 >= n /\ ~Fired(a, t)
           /\ counters'[c] = IF hit THEN counters[c] + 1
                             ELSE IF hook.source = a /\ hook.stage = "any" /\ counters[c] >= n
                                  THEN counters[c] - n
                             ELSE counters[c]
           /\ Fired(a, t)' <=> Fired(a, t) \/ fires
           /\ tally'.most = tally.most
           /\ Rest(a, n, t)' = Rest(a, n, t) + (IF hit THEN 1 ELSE 0) - (IF fires THEN n ELSE 0)
<1>1. PICK b \in Actors : b = hook.source
  BY DEF Hooks
<1>2. PICK cs : cs = Counted(hook)
  OBVIOUS
<1>3. PICK fired : fired = Triggered(hook, cs)
  OBVIOUS
<1>4. PICK key \in Skills : key = t.skill_key
  BY NthTypes
<1>5. /\ counters' = cs
      /\ already_triggered' = already_triggered \cup
             {<<b, u>> : u \in fired \cap skill_triggers[b]}
      /\ tally' = [tally EXCEPT !.spawned = Spawned(fired),
                                !.hits[b] = @ + IF hook.stage = "strike" THEN 1 ELSE 0]
  BY <1>1, <1>2, <1>3 DEF apply_side_effects
<1>6. PICK hit \in BOOLEAN : hit <=> b = a /\ hook.stage = "strike"
  OBVIOUS
<1>7. PICK fires \in BOOLEAN : fires <=> hit /\ counters[c] + 1 >= n /\ ~Fired(a, t)
  OBVIOUS
<1>8. CountsHits(a, c, n) /\ OnlyTrigger(a, t) /\ t.condition = OnStrike(AtLeast(c, n)) /\ t.from = {}
  BY DEF NthHit
<1>9. cs[c] = IF hit THEN counters[c] + 1
              ELSE IF b = a /\ hook.stage = "any" /\ counters[c] >= n THEN counters[c] - n
              ELSE counters[c]
  BY <1>1, <1>2, <1>6, <1>8, HitsCounted
<1>10. t \in fired <=> fires
  <2>1. Due(t, hook, cs) <=> hook.stage = "strike" /\ cs[c] >= n
    BY <1>8, DueWhen
  <2>2. t \in Triggers(b) <=> b = a
    <3>1. t \in Triggers(a)
      BY DEF Triggers
    <3>2. t \in Triggers(b) => b = a
      BY <1>8 DEF OnlyTrigger
    <3> QED BY <3>1, <3>2
  <2>3. t \in fired <=> /\ t \in Triggers(b) /\ Due(t, hook, cs)
                       /\ (t \in skill_triggers[b] => <<b, t>> \notin already_triggered)
    BY <1>1, <1>3 DEF Triggered
  <2>4. hit => cs[c] = counters[c] + 1
    BY <1>9
  <2> QED BY <1>6, <1>7, <2>1, <2>2, <2>3, <2>4 DEF Fired
<1>11. Fired(a, t)' <=> Fired(a, t) \/ fires
  <2>1. <<a, t>> \in already_triggered' <=>
          (<<a, t>> \in already_triggered \/ (a = b /\ t \in fired))
    BY <1>5
  <2> QED BY <1>6, <1>7, <1>10, <2>1 DEF Fired
<1>12. tally'.most = tally.most
       /\ tally'.hits[a] = tally.hits[a] + (IF hit THEN 1 ELSE 0)
       /\ tally'.spawned[key] = tally.spawned[key] + (IF fires THEN 1 ELSE 0)
  <2>1. tally \in Tallies
    BY DEF TypeInv
  <2>2. tally'.spawned = Spawned(fired) /\ tally'.most = tally.most
    BY <1>5, <2>1 DEF Tallies
  <2>3. tally'.hits[a] = tally.hits[a] + (IF hit THEN 1 ELSE 0)
    <3>1. tally'.hits = [tally.hits EXCEPT ![b] = @ + IF hook.stage = "strike" THEN 1 ELSE 0]
      BY <1>5, <2>1 DEF Tallies
    <3>2. tally.hits \in [Actors -> Nat]
      BY <2>1 DEF Tallies
    <3> QED BY <1>6, <3>1, <3>2
  <2>4. \A u \in fired : u.skill_key = key => u = t
    BY <1>1, <1>3, <1>4, <1>8 DEF Triggered, OnlyTrigger
  <2>5. {u \in fired : u.skill_key = key} = IF t \in fired THEN {t} ELSE {}
    BY <1>4, <2>4
  <2>6. Cardinality({u \in fired : u.skill_key = key}) = IF t \in fired THEN 1 ELSE 0
    BY <2>5, FS_EmptySet, FS_Singleton
  <2> QED BY <1>10, <2>2, <2>3, <2>6 DEF Spawned
<1>13. Rest(a, n, t)' = Rest(a, n, t) + (IF hit THEN 1 ELSE 0) - (IF fires THEN n ELSE 0)
  <2>1. PICK s \in Nat, h \in Nat : s = tally.spawned[key] /\ h = tally.hits[a]
    BY <1>4, NthTypes
  <2>2. n * (s + 1) = n * s + n /\ n * (s + 0) = n * s
    OBVIOUS
  <2>3. PICK p \in Int, q \in Int : p = n * s /\ q = n * tally'.spawned[key]
    BY <1>12, <2>1
  <2>4. q = p + (IF fires THEN n ELSE 0)
    BY <1>12, <2>1, <2>2, <2>3
  <2>5. Rest(a, n, t) = h - p /\ Rest(a, n, t)' = tally'.hits[a] - q
    BY <1>4, <2>1, <2>3 DEF Rest
  <2> QED BY <1>12, <2>1, <2>4, <2>5
<1> QED BY <1>1, <1>5, <1>6, <1>7, <1>9, <1>11, <1>12, <1>13

\* Neither the counter nor the hits nor the procs change.
LEMMA CountingKept ==
  ASSUME counters' = counters, tally'.hits = tally.hits, tally'.spawned = tally.spawned,
         NEW a, NEW n, NEW t
  PROVE  Rest(a, n, t)' = Rest(a, n, t) /\ \A c : counters'[c] = counters[c]
<1> QED BY DEF Rest

LEMMA RunHookCounts == TypeInv /\ StagesOK /\ NthInv /\ run_hook => NthInv' /\ StagesOK'
<1> SUFFICES ASSUME TypeInv, StagesOK, NthInv, run_hook PROVE NthInv' /\ StagesOK'
  OBVIOUS
<1>1. /\ phase = "hooks" /\ phase' = "hooks" /\ hooks # <<>> /\ hooks' = Tail(hooks)
      /\ hooks \in Seq(Hooks) /\ apply_side_effects(Head(hooks))
  BY DEF run_hook, TypeInv, QueuesOK
<1>2. PICK hook \in Hooks : hook = Head(hooks) /\ hook.stage # "strike"
  BY <1>1, TailType, TailWithin DEF StagesOK
<1>3. ASSUME NEW a \in Actors, NEW c \in Counters, NEW n \in Nat, NEW t \in skill_triggers[a],
             NthHit(a, c, n, t), tally'.most[a] <= n
      PROVE  Counting(a, c, n, t)'
  <2>1. PICK hit \in BOOLEAN, fires \in BOOLEAN :
           /\ hit <=> hook.source = a /\ hook.stage = "strike"
           /\ fires <=> hit /\ counters[c] + 1 >= n /\ ~Fired(a, t)
           /\ counters'[c] = IF hit THEN counters[c] + 1
                             ELSE IF hook.source = a /\ hook.stage = "any" /\ counters[c] >= n
                                  THEN counters[c] - n
                             ELSE counters[c]
           /\ Fired(a, t)' <=> Fired(a, t) \/ fires
           /\ tally'.most = tally.most
           /\ Rest(a, n, t)' = Rest(a, n, t) + (IF hit THEN 1 ELSE 0) - (IF fires THEN n ELSE 0)
    BY <1>1, <1>2, <1>3, NthHook
  <2>2. PICK r \in Int : r = Rest(a, n, t)
    BY NthTypes
  <2>3. Rest(a, n, t)' = r /\ (Fired(a, t)' <=> Fired(a, t))
    BY <1>2, <2>1, <2>2
  <2>4. Counting(a, c, n, t)
    BY <1>3, <2>1 DEF NthInv
  <2>5. r \in 0 .. n - 1 /\ ~Fired(a, t)
    BY <1>1, <2>2, <2>4 DEF Counting
  <2>6. CASE counters[c] = r
    <3>1. counters'[c] = r
      BY <1>2, <2>1, <2>5, <2>6
    <3> QED BY <1>1, <2>3, <2>5, <3>1 DEF Counting
  <2>7. CASE counters[c] = r + n /\ \E h \in Range(hooks) : h.source = a /\ h.stage = "any"
    <3>1. PICK h \in Range(hooks) : h.source = a /\ h.stage = "any"
      BY <2>7
    <3>2. CASE hook.source = a /\ hook.stage = "any"
      <4>1. counters'[c] = r
        BY <1>2, <2>1, <2>5, <2>7, <3>2
      <4> QED BY <1>1, <2>3, <2>5, <4>1 DEF Counting
    <3>3. CASE ~(hook.source = a /\ hook.stage = "any")
      <4>1. counters'[c] = r + n
        BY <1>2, <2>1, <2>7, <3>3
      <4>2. h \in Range(hooks')
        BY <1>1, <1>2, <3>1, <3>3, HeadOrTail
      <4> QED BY <1>1, <2>3, <2>5, <3>1, <4>1, <4>2 DEF Counting
    <3> QED BY <3>2, <3>3
  <2> QED BY <1>1, <2>2, <2>4, <2>6, <2>7 DEF Counting
<1>4. StagesOK'
  BY <1>1, TailWithin DEF StagesOK
<1> QED BY <1>3, <1>4 DEF NthInv

\* The counter never holds 2n: a second proc would be due, and the trigger fires once a tick.
LEMMA StrikeHookCounts == TypeInv /\ StagesOK /\ NthInv /\ on_strike_hook => NthInv' /\ StagesOK'
<1> SUFFICES ASSUME TypeInv, StagesOK, NthInv, on_strike_hook PROVE NthInv' /\ StagesOK'
  OBVIOUS
<1>1. /\ phase = "strikes" /\ phase' = "strikes" /\ hooks # <<>> /\ hooks' = Tail(hooks)
      /\ hooks \in Seq(Hooks) /\ apply_side_effects(Head(hooks))
  BY DEF on_strike_hook, TypeInv, QueuesOK
<1>2. PICK hook \in Hooks : hook = Head(hooks) /\ hook.stage = "strike"
  BY <1>1, TailType, TailWithin DEF StagesOK
<1>3. ASSUME NEW a \in Actors, NEW c \in Counters, NEW n \in Nat, NEW t \in skill_triggers[a],
             NthHit(a, c, n, t), tally'.most[a] <= n
      PROVE  Counting(a, c, n, t)'
  <2>1. PICK hit \in BOOLEAN, fires \in BOOLEAN :
           /\ hit <=> hook.source = a /\ hook.stage = "strike"
           /\ fires <=> hit /\ counters[c] + 1 >= n /\ ~Fired(a, t)
           /\ counters'[c] = IF hit THEN counters[c] + 1
                             ELSE IF hook.source = a /\ hook.stage = "any" /\ counters[c] >= n
                                  THEN counters[c] - n
                             ELSE counters[c]
           /\ Fired(a, t)' <=> Fired(a, t) \/ fires
           /\ tally'.most = tally.most
           /\ Rest(a, n, t)' = Rest(a, n, t) + (IF hit THEN 1 ELSE 0) - (IF fires THEN n ELSE 0)
    BY <1>1, <1>2, <1>3, NthHook
  <2>2. PICK r \in Int, count \in Int : r = Rest(a, n, t) /\ count = counters[c]
    BY NthTypes
  <2>3. Counting(a, c, n, t)
    BY <1>3, <2>1 DEF NthInv
  <2>4. PICK d \in Nat, e \in Nat : /\ d = HitsOf(a, hooks) /\ e = HitsOf(a, hooks')
                                   /\ d = e + (IF hit THEN 1 ELSE 0)
    BY <1>1, <1>2, <2>1, HitsOfTail
  <2>5. /\ r \in 0 .. n - 1 /\ count = r + (IF Fired(a, t) THEN n ELSE 0)
        /\ count + d < n + n
    BY <1>1, <2>2, <2>3, <2>4 DEF Counting
  <2>6. counters'[c] = count + (IF hit THEN 1 ELSE 0)
    BY <1>2, <2>1, <2>2
  <2>7. PICK u \in Int : /\ u = Rest(a, n, t)'
                        /\ u = r + (IF hit THEN 1 ELSE 0) - (IF fires THEN n ELSE 0)
    BY <2>1, <2>2
  <2>8. /\ u \in 0 .. n - 1 /\ counters'[c] = u + (IF Fired(a, t)' THEN n ELSE 0)
        /\ counters'[c] + e < n + n
    <3>1. CASE ~hit
      BY <2>1, <2>4, <2>5, <2>6, <2>7, <3>1
    <3>2. CASE hit /\ fires
      <4>1. ~Fired(a, t) /\ Fired(a, t)' /\ r + 1 >= n
        BY <2>1, <2>2, <2>5, <3>2
      <4> QED BY <2>4, <2>5, <2>6, <2>7, <3>2, <4>1
    <3>3. CASE hit /\ ~fires
      <4>1. (Fired(a, t)' <=> Fired(a, t)) /\ (~Fired(a, t) => r + 1 < n)
        BY <2>1, <2>2, <2>5, <3>3
      <4> QED BY <2>4, <2>5, <2>6, <2>7, <3>3, <4>1
    <3> QED BY <3>1, <3>2, <3>3
  <2> QED BY <1>1, <2>4, <2>7, <2>8 DEF Counting
<1>4. StagesOK'
  BY <1>1, TailWithin DEF StagesOK
<1> QED BY <1>3, <1>4 DEF NthInv

\* The hooks of a tick are those of charges gained, of casts begun and one of each actor.
LEMMA HooksOfTheTick ==
  ASSUME TypeInv, perform
  PROVE  /\ \A h \in Range(hooks') : h.stage # "strike"
         /\ \A a \in Actors : Used(a) # {} =>
               \E h \in Range(hooks') : h.source = a /\ h.stage = "any"
<1>1. \E begun \in SUBSET {e \in Entities : queue[e] # <<>>}, gained \in SUBSET Awaited :
         \E first \in SetToSeqs(gained), second \in SetToSeqs(begun) :
            hooks' = Relevant(GainedHooks(first) \o BegunHooks(second) \o TickHooks)
  <2>1. PICK begun, casts, strikes_left, pulses_left, finished, order :
          Performs(begun, casts, strikes_left, pulses_left, finished, order)
    BY PerformPerforms
  <2>2. begun \in SUBSET {e \in Entities : queue[e] # <<>>}
    BY <2>1 DEF Performs
  <2>3. \E gained \in SUBSET Awaited :
           \E first \in SetToSeqs(gained), second \in SetToSeqs(begun) :
              hooks' = Relevant(GainedHooks(first) \o BegunHooks(second) \o TickHooks)
    BY <2>1 DEF Performs
  <2> QED BY <2>2, <2>3
<1>2. PICK begun \in SUBSET {e \in Entities : queue[e] # <<>>}, gained \in SUBSET Awaited :
         \E first \in SetToSeqs(gained), second \in SetToSeqs(begun) :
            hooks' = Relevant(GainedHooks(first) \o BegunHooks(second) \o TickHooks)
  BY <1>1
<1>3. PICK first \in SetToSeqs(gained), second \in SetToSeqs(begun) :
         hooks' = Relevant(GainedHooks(first) \o BegunHooks(second) \o TickHooks)
  BY <1>2
<1>4. IsFiniteSet(begun) /\ IsFiniteSet(gained) /\ gained \subseteq Actors \X Skills
  <2>1. gained \subseteq Actors \X Skills
    BY DEF Awaited
  <2>2. IsFiniteSet(Actors \X Skills)
    BY Finite, Encounter, FS_Product
  <2>3. begun \subseteq Entities
    OBVIOUS
  <2> QED BY <2>1, <2>2, <2>3, Finite, FS_Subset
<1>5. first \in Seq(gained) /\ second \in Seq(begun)
  BY <1>4, SetToSeqsType
<1>6. GainedHooks(first) \in Seq(Hooks)
  BY <1>4, <1>5, GainedHooksType
<1>7. BegunHooks(second) \in Seq(Hooks)
  <2>1. begun \subseteq Living /\ \A e \in begun : queue[e] # <<>>
    BY DEF TypeInv, RotationsOK, Living, Entities
  <2> QED BY <1>5, <2>1, BegunHooksType DEF TypeInv
<1>8. TickHooks \in Seq(Hooks)
  BY TickHooksType
<1>9. PICK early : early = GainedHooks(first) \o BegunHooks(second)
  OBVIOUS
<1>10. PICK all : all = early \o TickHooks
  OBVIOUS
<1>11. early \in Seq(Hooks) /\ all \in Seq(Hooks) /\ hooks' = Relevant(all)
  BY <1>3, <1>6, <1>7, <1>8, <1>9, <1>10, ConcatProperties
<1>12. Range(early) = Range(GainedHooks(first)) \cup Range(BegunHooks(second))
  BY <1>6, <1>7, <1>9, RangeConcatenation
<1>13. Range(all) = Range(early) \cup Range(TickHooks)
  BY <1>8, <1>10, <1>11, RangeConcatenation
<1>14. \A h \in Range(all) : h.stage # "strike"
  <2>1. \A h \in Range(GainedHooks(first)) : h.stage = "gained"
    BY DEF GainedHooks, Range
  <2>2. \A h \in Range(BegunHooks(second)) : h.stage = "begun"
    BY DEF BegunHooks, Range
  <2>3. \A h \in Range(TickHooks) : h.stage = "any"
    BY DEF TickHooks, Range
  <2> QED BY <1>12, <1>13, <2>1, <2>2, <2>3
<1>15. \A h \in Range(hooks') : h.stage # "strike"
  BY <1>11, <1>14, AtWithin DEF Relevant
<1>16. ASSUME NEW a \in Actors, Used(a) # {}
       PROVE  \E h \in Range(hooks') : h.source = a /\ h.stage = "any"
  <2>1. PICK i \in DOMAIN view_order : view_order[i] = a
    BY DEF Actors, Range
  <2>2. i \in DOMAIN TickHooks /\ TickHooks[i].source = a /\ TickHooks[i].stage = "any"
    BY <2>1 DEF TickHooks
  <2>3. PICK h \in Range(all) : h.source = a /\ h.stage = "any"
    BY <1>13, <2>2 DEF Range
  <2>4. PICK k \in DOMAIN all : h = all[k]
    BY DEF Range
  <2>5. k \in {j \in DOMAIN all : Used(all[j].source) # {}}
    BY <1>16, <2>3, <2>4
  <2>6. h \in Range(Relevant(all))
    BY <1>11, <2>4, <2>5, AtHas DEF Relevant
  <2> QED BY <1>11, <2>3, <2>6
<1> QED BY <1>15, <1>16

LEMMA PerformCounts == TypeInv /\ NthInv /\ perform => NthInv' /\ StagesOK'
<1> SUFFICES ASSUME TypeInv, NthInv, perform PROVE NthInv' /\ StagesOK'
  OBVIOUS
<1>1. /\ phase = "casts" /\ phase' = "hooks" /\ already_triggered = {}
      /\ UNCHANGED <<counters, already_triggered>>
      /\ \E finished : tally' = [tally EXCEPT !.finished = finished]
  <2>1. \E n : tally' = [tally EXCEPT !.finished = n]
    BY PerformPerforms DEF Performs
  <2>2. /\ phase = "casts" /\ phase' = "hooks" /\ already_triggered = {}
        /\ UNCHANGED <<counters, already_triggered>>
    BY DEF perform, sides, TypeInv, StacksOK
  <2> QED BY <2>1, <2>2
<1>2. tally'.hits = tally.hits /\ tally'.spawned = tally.spawned /\ tally'.most = tally.most
  BY <1>1 DEF TypeInv, Tallies
<1>3. ASSUME NEW a \in Actors, NEW c \in Counters, NEW n \in Nat, NEW t \in skill_triggers[a],
             NthHit(a, c, n, t), tally'.most[a] <= n
      PROVE  Counting(a, c, n, t)'
  <2>1. Counting(a, c, n, t)
    BY <1>2, <1>3 DEF NthInv
  <2>2. \E h \in Range(hooks') : h.source = a /\ h.stage = "any"
    <3>1. Used(a) # {}
      BY DEF Used, Triggers
    <3> QED BY <3>1, HooksOfTheTick
  <2>3. Rest(a, n, t)' = Rest(a, n, t) /\ counters'[c] = counters[c]
    BY <1>1, <1>2, CountingKept
  <2>4. ~Fired(a, t)'
    BY <1>1 DEF Fired
  <2> QED BY <1>1, <2>1, <2>2, <2>3, <2>4 DEF Counting
<1>4. StagesOK'
  BY <1>1, HooksOfTheTick DEF StagesOK
<1> QED BY <1>3, <1>4 DEF NthInv

LEMMA StrikesCount == TypeInv /\ NthInv /\ strikes => NthInv' /\ StagesOK'
<1> SUFFICES ASSUME TypeInv, NthInv, strikes PROVE NthInv' /\ StagesOK'
  OBVIOUS
<1>1. /\ phase = "hooks" /\ phase' = "strikes" /\ hooks = <<>>
      /\ UNCHANGED <<counters, already_triggered>>
      /\ tally' = [tally EXCEPT !.most = [a \in Actors |-> Larger(@[a], HitsOf(a, hooks'))]]
  BY DEF strikes, sides
<1>2. hooks' \in Seq(StrikeHook)
  <2>1. PICK d \in Seq(StrikesIn) : d = Dispatched
    BY DispatchedType DEF TypeInv
  <2>2. PICK order \in SetToSeqs(Targets(d)) :
          \E criticals : hooks' = StrikeHooks(ByTarget(d, order), criticals)
    BY <2>1 DEF strikes
  <2>3. order \in Seq(Targets(d))
    <3>1. \A i \in DOMAIN d : d[i] \in StrikesIn
      BY FiniteDomain
    <3>2. Targets(d) \subseteq Actors
      BY <3>1 DEF Targets, StrikesIn
    <3> QED BY <3>2, Finite, FS_Subset, SetToSeqsType
  <2>4. ByTarget(d, order) \in Seq(StrikesIn)
    BY <2>3, ByTargetType
  <2> QED BY <2>2, <2>4, StrikeHooksType
<1>3. /\ tally'.hits = tally.hits /\ tally'.spawned = tally.spawned
      /\ tally'.most = [a \in Actors |-> Larger(tally.most[a], HitsOf(a, hooks'))]
  BY <1>1 DEF TypeInv, Tallies
<1>4. ASSUME NEW a \in Actors, NEW c \in Counters, NEW n \in Nat, NEW t \in skill_triggers[a],
             NthHit(a, c, n, t), tally'.most[a] <= n
      PROVE  Counting(a, c, n, t)'
  <2>1. PICK d \in Nat : d = HitsOf(a, hooks')
    <3>1. IsFiniteSet(DOMAIN hooks')
      BY <1>2, FiniteDomain
    <3> QED BY <3>1, FS_Subset, FS_CardinalityType DEF HitsOf
  <2>2. PICK m \in Nat : m = tally.most[a]
    BY NthTypes
  <2>3. m <= n /\ d <= n
    BY <1>3, <1>4, <2>1, <2>2 DEF Larger
  <2>4. Counting(a, c, n, t)
    BY <1>4, <2>2, <2>3 DEF NthInv
  <2>5. Rest(a, n, t) \in 0 .. n - 1 /\ ~Fired(a, t) /\ counters[c] = Rest(a, n, t)
    BY <1>1, <2>4 DEF Counting, Range
  <2>6. Rest(a, n, t)' = Rest(a, n, t) /\ counters'[c] = counters[c]
    BY <1>1, <1>3, CountingKept
  <2>7. ~Fired(a, t)'
    BY <1>1, <2>5 DEF Fired
  <2>8. counters'[c] + d < n + n
    BY <2>3, <2>5, <2>6
  <2> QED BY <1>1, <2>1, <2>5, <2>6, <2>7, <2>8 DEF Counting
<1>5. StagesOK'
  BY <1>1, <1>2, FiniteDomain DEF StagesOK, StrikeHook, Range
<1> QED BY <1>4, <1>5 DEF NthInv

LEMMA AppliedHookCounts == TypeInv /\ NthInv /\ on_effect_application => NthInv'
<1> SUFFICES ASSUME TypeInv, NthInv, on_effect_application PROVE NthInv'
  OBVIOUS
<1>1. /\ phase = "applied" /\ phase' = "effects" /\ Len(hooks) = 1 /\ Head(hooks).stage = "applied"
      /\ hooks \in Seq(Hooks) /\ apply_side_effects(Head(hooks))
  BY DEF on_effect_application, TypeInv, QueuesOK
<1>2. PICK hook \in Hooks : hook = Head(hooks) /\ hook.stage = "applied"
  <2>1. hooks # <<>>
    <3>1. Len(<<>>) = 0
      OBVIOUS
    <3> QED BY <1>1, <3>1
  <2> QED BY <1>1, <2>1, TailType
<1>3. ASSUME NEW a \in Actors, NEW c \in Counters, NEW n \in Nat, NEW t \in skill_triggers[a],
             NthHit(a, c, n, t), tally'.most[a] <= n
      PROVE  Counting(a, c, n, t)'
  <2>1. PICK hit \in BOOLEAN, fires \in BOOLEAN :
           /\ hit <=> hook.source = a /\ hook.stage = "strike"
           /\ fires <=> hit /\ counters[c] + 1 >= n /\ ~Fired(a, t)
           /\ counters'[c] = IF hit THEN counters[c] + 1
                             ELSE IF hook.source = a /\ hook.stage = "any" /\ counters[c] >= n
                                  THEN counters[c] - n
                             ELSE counters[c]
           /\ Fired(a, t)' <=> Fired(a, t) \/ fires
           /\ tally'.most = tally.most
           /\ Rest(a, n, t)' = Rest(a, n, t) + (IF hit THEN 1 ELSE 0) - (IF fires THEN n ELSE 0)
    BY <1>1, <1>2, <1>3, NthHook
  <2>2. Counting(a, c, n, t) /\ Rest(a, n, t) \in Int
    BY <1>3, <2>1, NthTypes DEF NthInv
  <2>3. Rest(a, n, t)' = Rest(a, n, t) /\ counters'[c] = counters[c] /\ (Fired(a, t)' <=> Fired(a, t))
    BY <1>2, <2>1, <2>2
  <2> QED BY <1>1, <2>2, <2>3 DEF Counting
<1> QED BY <1>3 DEF NthInv

\* Later in the tick nothing counts; at its end the triggers' marks go.
LEMMA NthKept ==
  ASSUME TypeInv, NthInv, UNCHANGED counters,
         tally'.hits = tally.hits, tally'.spawned = tally.spawned, tally'.most = tally.most,
         \/ /\ phase \in {"strikes", "effects", "stats"} /\ phase' \in {"effects", "applied", "stats"}
            /\ UNCHANGED already_triggered
         \/ phase = "stats" /\ phase' = "ended"
         \/ phase = "ended" /\ phase' \in {"casts", "over"}
  PROVE  NthInv' /\ StagesOK'
<1>1. ASSUME NEW a \in Actors, NEW c \in Counters, NEW n \in Nat, NEW t \in skill_triggers[a],
             NthHit(a, c, n, t), tally'.most[a] <= n
      PROVE  Counting(a, c, n, t)'
  <2>1. Counting(a, c, n, t)
    BY <1>1 DEF NthInv
  <2>2. Rest(a, n, t)' = Rest(a, n, t) /\ counters'[c] = counters[c]
    BY CountingKept
  <2>3. Rest(a, n, t) \in Int
    BY NthTypes
  <2>4. UNCHANGED already_triggered => (Fired(a, t)' <=> Fired(a, t))
    BY DEF Fired
  <2> QED BY <2>1, <2>2, <2>3, <2>4 DEF Counting
<1> QED BY <1>1 DEF NthInv, StagesOK

LEMMA NthStep == TypeInv /\ StagesOK /\ NthInv /\ [Next]_vars => NthInv' /\ StagesOK'
<1> SUFFICES ASSUME TypeInv, StagesOK, NthInv, [Next]_vars PROVE NthInv' /\ StagesOK'
  OBVIOUS
<1>1. CASE UNCHANGED vars
  <2>1. UNCHANGED <<phase, hooks, counters, already_triggered, tally>>
    BY <1>1 DEF vars, queues, sides
  <2>2. \A a, c, n, t : Counting(a, c, n, t)' <=> Counting(a, c, n, t)
    BY <2>1 DEF Counting, Rest, Fired, HitsOf
  <2> QED BY <2>1, <2>2 DEF NthInv, StagesOK
<1>2. CASE dispatch_effects
  BY <1>2, NthKept DEF dispatch_effects, sides
<1>3. CASE apply_effect
  BY <1>3, NthKept DEF apply_effect, sides
<1>4. CASE on_effect_application
  BY <1>4, AppliedHookCounts DEF on_effect_application, StagesOK
<1>5. CASE update_combat_stats
  BY <1>5, NthKept DEF update_combat_stats, sides
<1>6. CASE end_tick
  <2>1. /\ phase = "stats" /\ phase' = "ended" /\ UNCHANGED counters
        /\ \E removed : tally' = [tally EXCEPT !.removed = removed]
    BY <1>6 DEF end_tick
  <2>2. tally'.hits = tally.hits /\ tally'.spawned = tally.spawned /\ tally'.most = tally.most
    BY <2>1 DEF TypeInv, Tallies
  <2> QED BY <2>1, <2>2, NthKept
<1>7. CASE continue_combat_loop
  <2>1. /\ phase = "ended" /\ phase' \in {"casts", "over"} /\ UNCHANGED <<counters, tally>>
    BY <1>7 DEF continue_combat_loop, sides
  <2> QED BY <2>1, NthKept
<1> QED BY <1>1, <1>2, <1>3, <1>4, <1>5, <1>6, <1>7, PerformCounts, RunHookCounts, StrikesCount,
           StrikeHookCounts DEF Next

LEMMA NthInit == Init => NthInv /\ StagesOK
<1> SUFFICES ASSUME Init PROVE NthInv /\ StagesOK
  OBVIOUS
<1>1. ASSUME NEW a \in Actors, NEW c \in Counters, NEW n \in Nat, NEW t \in skill_triggers[a],
             NthHit(a, c, n, t)
      PROVE  Counting(a, c, n, t)
  <2>1. t.skill_key \in Skills
    BY SideEffects DEF Triggers
  <2>2. tally.hits[a] = 0 /\ tally.spawned[t.skill_key] = 0
    BY <2>1 DEF Init
  <2>3. Rest(a, n, t) = 0
    BY <2>2 DEF Rest
  <2>4. counters[c] = 0 /\ n > 0
    BY <1>1 DEF Init, NthHit, CountsHits
  <2> QED BY <2>3, <2>4 DEF Init, Counting
<1> QED BY <1>1 DEF Init, NthInv, StagesOK

LEMMA NthImplies == TypeInv /\ NthInv => EveryNthHit
<1> SUFFICES ASSUME TypeInv, NthInv, NEW a \in Actors, NEW c \in Counters,
                    NEW t \in UNION {skill_triggers[b] : b \in Actors}, NEW n \in Nat,
                    CountsHits(a, c, n), OnlyTrigger(a, t),
                    t.condition = OnStrike(AtLeast(c, n)), t.from = {}, tally.most[a] <= n
             PROVE  tally.spawned[t.skill_key] = tally.hits[a] \div n
  BY DEF EveryNthHit
<1>1. t \in skill_triggers[a] /\ NthHit(a, c, n, t) /\ n > 0
  BY DEF OnlyTrigger, NthHit, CountsHits
<1>2. Rest(a, n, t) \in 0 .. n - 1
  BY <1>1 DEF NthInv, Counting
<1>3. PICK s \in Nat, h \in Nat : s = tally.spawned[t.skill_key] /\ h = tally.hits[a]
  BY <1>1, NthTypes
<1>4. h - n * s \in 0 .. n - 1
  BY <1>2, <1>3 DEF Rest
<1> QED BY <1>1, <1>3, <1>4, Quotient

\* A trigger that waits for a counter of strikes to reach n fires at every n-th, whichever ticks
\* the strikes fall in: the counter keeps what a proc used up until the hook of the next tick,
\* and the trigger's mark keeps the strikes of the tick from finding it there again
\* (apply_counter_modifications, already_triggered), as long as no tick has more than n of them.
THEOREM ProcsAtEveryNthHit == Spec => []EveryNthHit
<1> QED BY TypeInvariant, NthInit, NthStep, NthImplies, PTL DEF Spec

-----------------------------------------------------------------------------
(* Sums, as the sizes of sets of numbered things.                            *)

Each(counts) == UNION {{x} \X (1 .. counts[x]) : x \in DOMAIN counts}

LEMMA EachIs ==
  ASSUME NEW S, NEW f \in [S -> Nat]
  PROVE  /\ Each(f) = {p \in S \X Nat : p[2] \in 1 .. f[p[1]]}
         /\ Total(f) = Cardinality(Each(f))
<1>1. ASSUME NEW p PROVE p \in Each(f) <=> p \in {q \in S \X Nat : q[2] \in 1 .. f[q[1]]}
  <2>1. p \in Each(f) <=> \E x \in S : p \in {x} \X (1 .. f[x])
    BY DEF Each
  <2>2. ASSUME NEW x \in S, p \in {x} \X (1 .. f[x])
        PROVE  p \in {q \in S \X Nat : q[2] \in 1 .. f[q[1]]}
    <3>1. PICK i \in 1 .. f[x] : p = <<x, i>>
      BY <2>2
    <3> QED BY <3>1
  <2>3. ASSUME p \in {q \in S \X Nat : q[2] \in 1 .. f[q[1]]}
        PROVE  \E x \in S : p \in {x} \X (1 .. f[x])
    BY <2>3
  <2> QED BY <2>1, <2>2, <2>3
<1>2. Each(f) = {p \in S \X Nat : p[2] \in 1 .. f[p[1]]}
  BY <1>1
<1> QED BY <1>2 DEF Each, Total

LEMMA EachFinite ==
  ASSUME NEW S, IsFiniteSet(S), NEW f \in [S -> Nat]
  PROVE  IsFiniteSet(Each(f)) /\ Total(f) \in Nat
<1> DEFINE part == [x \in S |-> {x} \X (1 .. f[x])]
           parts == {part[x] : x \in S}
<1>1. part \in Surjection(S, parts)
  BY DEF Surjection
<1>2. IsFiniteSet(parts)
  <2> HIDE DEF parts, part
  <2> QED BY <1>1, FS_Surjection
<1>3. \A T \in parts : IsFiniteSet(T)
  <2> SUFFICES ASSUME NEW x \in S PROVE IsFiniteSet({x} \X (1 .. f[x]))
    OBVIOUS
  <2>1. 1 \in Int /\ f[x] \in Int
    OBVIOUS
  <2>2. IsFiniteSet({x}) /\ IsFiniteSet(1 .. f[x])
    BY <2>1, FS_Singleton, FS_Interval
  <2> QED BY <2>2, FS_Product
<1>4. IsFiniteSet(UNION parts)
  <2> HIDE DEF parts
  <2> QED BY <1>2, <1>3, FS_UNION
<1>5. Each(f) = UNION parts
  BY DEF Each
<1> QED BY <1>4, <1>5, EachIs, FS_CardinalityType

LEMMA TotalOfNone ==
  ASSUME NEW S, NEW f \in [S -> Nat], \A x \in S : f[x] = 0
  PROVE  Total(f) = 0
<1>1. Each(f) = {}
  BY EachIs
<1> QED BY <1>1, EachIs, FS_EmptySet

\* One more of each in U.
LEMMA TotalWithMore ==
  ASSUME NEW S, IsFiniteSet(S), NEW f \in [S -> Nat], NEW g \in [S -> Nat],
         NEW U, U \subseteq S, \A x \in S : g[x] = f[x] + IF x \in U THEN 1 ELSE 0
  PROVE  Total(g) = Total(f) + Cardinality(U)
<1> DEFINE mark == [x \in U |-> <<x, f[x] + 1>>]
           more == {mark[x] : x \in U}
<1>2. IsFiniteSet(U)
  BY FS_Subset
<1>3. mark \in Bijection(U, more)
  <2>1. mark \in [U -> more]
    OBVIOUS
  <2>2. \A x, y \in U : mark[x] = mark[y] => x = y
    OBVIOUS
  <2>3. \A m \in more : \E x \in U : mark[x] = m
    OBVIOUS
  <2> HIDE DEF mark, more
  <2> QED BY <2>1, <2>2, <2>3 DEF Bijection, Injection, Surjection, IsInjective
<1>4. IsFiniteSet(more) /\ Cardinality(more) = Cardinality(U)
  <2> HIDE DEF mark, more
  <2>1. ExistsBijection(U, more)
    BY <1>3 DEF ExistsBijection
  <2> QED BY <1>2, <2>1, FS_Bijection
<1>5. Each(g) = Each(f) \cup more
  <2>1. Each(f) = {p \in S \X Nat : p[2] \in 1 .. f[p[1]]} /\ Each(g) = {p \in S \X Nat : p[2] \in 1 .. g[p[1]]}
    BY EachIs
  <2>2. ASSUME NEW x \in S, NEW i \in Nat
        PROVE  i \in 1 .. g[x] <=> i \in 1 .. f[x] \/ (x \in U /\ i = f[x] + 1)
    <3>1. g[x] = f[x] + IF x \in U THEN 1 ELSE 0
      OBVIOUS
    <3>2. f[x] \in Nat
      OBVIOUS
    <3> QED BY <3>1, <3>2
  <2>3. ASSUME NEW x \in S, NEW i \in Nat
        PROVE  <<x, i>> \in Each(g) <=> <<x, i>> \in Each(f) \/ <<x, i>> \in more
    <3>1. <<x, i>> \in more <=> x \in U /\ i = f[x] + 1
      OBVIOUS
    <3> QED BY <2>1, <2>2, <3>1
  <2>4. more \subseteq S \X Nat
    OBVIOUS
  <2> HIDE DEF more
  <2> QED BY <2>1, <2>3, <2>4
<1>6. Each(f) \cap more = {}
  <2>1. Each(f) = {p \in S \X Nat : p[2] \in 1 .. f[p[1]]}
    BY EachIs
  <2>2. \A x \in U : <<x, f[x] + 1>> \notin Each(f)
    BY <2>1
  <2> QED BY <2>2
<1> HIDE DEF more
<1>7. IsFiniteSet(Each(f)) /\ Cardinality(Each(f)) \in Nat /\ Cardinality(U) \in Nat
  BY <1>2, EachFinite, FS_CardinalityType
<1>8. Cardinality(Each(g)) = Cardinality(Each(f)) + Cardinality(more)
  <2>1. Cardinality(Each(f) \cup more)
          = Cardinality(Each(f)) + Cardinality(more) - Cardinality(Each(f) \cap more)
    BY <1>4, <1>7, FS_Union
  <2>2. Cardinality(Each(f) \cap more) = 0
    BY <1>6, FS_EmptySet
  <2> QED BY <1>4, <1>5, <1>7, <2>1, <2>2
<1> QED BY <1>4, <1>7, <1>8, EachIs

\* As many more of each x as there are in T that belong to it.
LEMMA TotalWithThose ==
  ASSUME NEW S, IsFiniteSet(S), NEW f \in [S -> Nat], NEW T, IsFiniteSet(T), NEW key \in [T -> S],
         NEW g \in [S -> Nat],
         \A x \in S : g[x] = f[x] + Cardinality({t \in T : key[t] = x})
  PROVE  Total(g) = Total(f) + Cardinality(T)
<1> DEFINE of(R, x) == {t \in R : key[t] = x}
<1>1. \A R \in SUBSET T : IsFiniteSet(R) /\ Cardinality(R) \in Nat
  BY FS_Subset, FS_CardinalityType
<1>2. \A R \in SUBSET T : \A x \in S : IsFiniteSet(of(R, x)) /\ Cardinality(of(R, x)) \in Nat
  BY <1>1
<1>3. PICK many \in [SUBSET T -> [S -> Nat]] :
              \A R \in SUBSET T : \A x \in S : many[R][x] = Cardinality(of(R, x))
  <2> HIDE DEF of
  <2> DEFINE m == [R \in SUBSET T |-> [x \in S |-> Cardinality(of(R, x))]]
  <2>1. m \in [SUBSET T -> [S -> Nat]]
    BY <1>2
  <2>2. \A R \in SUBSET T : \A x \in S : m[R][x] = Cardinality(of(R, x))
    OBVIOUS
  <2> HIDE DEF m
  <2> QED BY <2>1, <2>2
<1> DEFINE with(R) == [x \in S |-> f[x] + many[R][x]]
           G == {n \in Nat : \A R \in SUBSET T : Cardinality(R) = n => Total(with(R)) = Total(f) + n}
<1>4. Total(f) \in Nat
  BY EachFinite
<1>5. 0 \in G
  <2> SUFFICES ASSUME NEW R \in SUBSET T, Cardinality(R) = 0 PROVE Total(with(R)) = Total(f) + 0
    OBVIOUS
  <2>1. R = {}
    BY <1>1, FS_EmptySet
  <2>2. \A x \in S : of(R, x) = {}
    BY <2>1
  <2>3. \A x \in S : many[R][x] = 0
    <3> HIDE DEF of
    <3> QED BY <1>3, <2>2, FS_EmptySet
  <2>4. with(R) = f
    BY <2>3
  <2> HIDE DEF with
  <2> QED BY <1>4, <2>4
<1>6. ASSUME NEW n \in Nat, n < Cardinality(T), n \in G PROVE n + 1 \in G
  <2> SUFFICES ASSUME NEW R \in SUBSET T, Cardinality(R) = n + 1
               PROVE  Total(with(R)) = Total(f) + (n + 1)
    OBVIOUS
  <2>1. R # {}
    <3>1. Cardinality(R) # 0
      OBVIOUS
    <3> QED BY <3>1, FS_EmptySet
  <2>2. PICK t \in R : TRUE
    BY <2>1
  <2>3. R \ {t} \in SUBSET T /\ Cardinality(R \ {t}) = n
    <3>1. IsFiniteSet(R) /\ Cardinality(R \ {t}) = Cardinality(R) - 1
      BY <1>1, <2>2, FS_RemoveElement
    <3> QED BY <3>1
  <2>4. Total(with(R \ {t})) = Total(f) + n
    BY <1>6, <2>3
  <2>5. {key[t]} \subseteq S /\ Cardinality({key[t]}) = 1
    <3>1. t \in T /\ key[t] \in S
      BY <2>2
    <3> QED BY <3>1, FS_Singleton
  <2>6. ASSUME NEW x \in S
        PROVE  many[R][x] = many[R \ {t}][x] + IF x \in {key[t]} THEN 1 ELSE 0
    <3>1. IsFiniteSet(of(R \ {t}, x)) /\ Cardinality(of(R \ {t}, x)) \in Nat
      BY <1>2, <2>3
    <3>2. CASE x = key[t]
      <4>1. of(R, x) = of(R \ {t}, x) \cup {t} /\ t \notin of(R \ {t}, x)
        BY <2>2, <3>2
      <4> HIDE DEF of
      <4>2. Cardinality(of(R, x)) = Cardinality(of(R \ {t}, x)) + 1
        BY <3>1, <4>1, FS_AddElement
      <4> QED BY <1>3, <2>3, <3>2, <4>2
    <3>3. CASE x # key[t]
      <4>1. of(R, x) = of(R \ {t}, x)
        BY <3>3
      <4> HIDE DEF of
      <4>2. x \notin {key[t]}
        BY <3>3
      <4> QED BY <1>3, <2>3, <3>1, <4>1, <4>2
    <3> QED BY <3>2, <3>3
  <2>7. with(R \ {t}) \in [S -> Nat]
    BY <1>3, <2>3
  <2>8. with(R) \in [S -> Nat]
    BY <1>3
  <2>9. ASSUME NEW x \in S
        PROVE  with(R)[x] = with(R \ {t})[x] + IF x \in {key[t]} THEN 1 ELSE 0
    <3>1. PICK b \in {0, 1} : b = IF x \in {key[t]} THEN 1 ELSE 0
      OBVIOUS
    <3>2. many[R][x] = many[R \ {t}][x] + b /\ many[R \ {t}][x] \in Nat /\ f[x] \in Nat
      BY <1>3, <2>3, <2>6, <3>1
    <3>3. with(R \ {t})[x] = f[x] + many[R \ {t}][x] /\ with(R)[x] = f[x] + many[R][x]
      OBVIOUS
    <3> HIDE DEF with
    <3> QED BY <3>1, <3>2, <3>3
  <2> HIDE DEF with
  <2>10. Total(with(R)) = Total(with(R \ {t})) + Cardinality({key[t]})
    <3>1. PICK g0 \in [S -> Nat], g1 \in [S -> Nat] : g0 = with(R \ {t}) /\ g1 = with(R)
      BY <2>7, <2>8
    <3>2. \A x \in S : g1[x] = g0[x] + IF x \in {key[t]} THEN 1 ELSE 0
      BY <2>9, <3>1
    <3>3. Total(g1) = Total(g0) + Cardinality({key[t]})
      BY <2>5, <3>2, TotalWithMore
    <3> QED BY <3>1, <3>3
  <2> QED BY <1>4, <2>4, <2>5, <2>10
<1>7. Cardinality(T) \in G
  <2>1. Cardinality(T) \in Nat
    BY <1>1
  <2> HIDE DEF G
  <2>2. \A n \in Nat : n < Cardinality(T) /\ n \in G => n + 1 \in G
    BY <1>6
  <2>3. 0 .. Cardinality(T) \subseteq G
    BY <1>5, <2>1, <2>2, InductionUpTo
  <2> QED BY <2>1, <2>3
<1>8. g = with(T)
  BY <1>3
<1> HIDE DEF with
<1> QED BY <1>1, <1>7, <1>8

-----------------------------------------------------------------------------
(* The casts that have been carried out, those that run and those that wait  *)
(* are those of the rotations and those spawned.  Where there is no rotation *)
(* left none waits, and an actor without a rotation has never any.  What     *)
(* still waits will be named after a smaller number than what runs.          *)

Waiting == [e \in Entities |-> Len(queue[e])]
UnderWay == Cardinality(DOMAIN casting)
Planned == [a \in Actors |-> Len(rotation[a])]

Balance == tally.finished + Total(Waiting) + UnderWay = Total(Planned) + Total(tally.spawned)
RunDry ==
  /\ \A e \in no_more_rotation : queue[e] = <<>>
  /\ \A a \in Actors : rotation[a] = <<>> =>
        queue[a] = <<>> /\ \A c \in DOMAIN casting : c[1] # a
Fresh == \A c \in DOMAIN casting : c[2] > Len(queue[c[1]])
CastsInv == Balance /\ RunDry /\ Fresh

LEMMA CastTypes ==
  ASSUME RotationsOK, tally \in Tallies
  PROVE  /\ Waiting \in [Entities -> Nat] /\ UnderWay \in Nat
         /\ Planned \in [Actors -> Nat] /\ tally.spawned \in [Skills -> Nat]
         /\ tally.finished \in Nat /\ Total(Waiting) \in Nat
         /\ Total(Planned) \in Nat /\ Total(tally.spawned) \in Nat
<1>1. Waiting \in [Entities -> Nat]
  BY LenProperties DEF Waiting, RotationsOK
<1>2. UnderWay \in Nat
  BY FS_CardinalityType DEF UnderWay, RotationsOK
<1>3. Planned \in [Actors -> Nat]
  BY LenProperties, Encounter DEF Planned
<1>4. tally.spawned \in [Skills -> Nat] /\ tally.finished \in Nat
  BY DEF Tallies
<1> QED BY <1>1, <1>2, <1>3, <1>4, EachFinite, Finite, Encounter

LEMMA CastsInit == Init => CastsInv
<1> SUFFICES ASSUME Init PROVE CastsInv
  OBVIOUS
<1>1. TypeInv
  BY InitType
<1>2. /\ Waiting \in [Entities -> Nat]
      /\ Planned \in [Actors -> Nat] /\ tally.spawned \in [Skills -> Nat]
      /\ Total(Planned) \in Nat
  BY <1>1, CastTypes DEF TypeInv
<1>3. tally.finished = 0 /\ \A s \in Skills : tally.spawned[s] = 0
  BY DEF Init
<1>4. Total(tally.spawned) = 0
  BY <1>2, <1>3, TotalOfNone
<1>5. DOMAIN casting = {}
  BY DEF Init
<1>6. UnderWay = 0
  BY <1>5, FS_EmptySet DEF UnderWay
<1>7. Total(Waiting) = Total(Planned)
  <2>1. \A e \in Entities : Waiting[e] = IF e \in Actors THEN Planned[e] ELSE 0
    BY DEF Init, Waiting, Planned
  <2>2. ASSUME NEW p PROVE p \in Each(Waiting) <=> p \in Each(Planned)
    <3>1. p \in Each(Waiting) <=> p \in Entities \X Nat /\ p[2] \in 1 .. Waiting[p[1]]
      BY <1>2, EachIs
    <3>2. p \in Each(Planned) <=> p \in Actors \X Nat /\ p[2] \in 1 .. Planned[p[1]]
      BY <1>2, EachIs
    <3>3. Actors \subseteq Entities
      BY DEF Entities
    <3> QED BY <2>1, <3>1, <3>2, <3>3
  <2>3. Each(Waiting) = Each(Planned)
    BY <2>2
  <2> QED BY <1>2, <2>3, EachIs
<1>8. RunDry
  <2>1. no_more_rotation = {} /\ \A a \in Actors : queue[a] = rotation[a]
    BY DEF Init, Entities
  <2> QED BY <1>5, <2>1 DEF RunDry
<1>9. Fresh
  BY <1>5 DEF Fresh
<1> QED BY <1>2, <1>3, <1>4, <1>6, <1>7, <1>8, <1>9 DEF CastsInv, Balance

LEMMA TailShorter ==
  ASSUME NEW S, NEW s \in Seq(S), s # <<>>
  PROVE  Len(s) = Len(Tail(s)) + 1 /\ Len(Tail(s)) \in Nat
<1>1. Len(s) \in Nat /\ Len(s) # 0
  BY EmptySeq, LenProperties
<1>2. Len(Tail(s)) = Len(s) - 1
  BY <1>1, HeadTailProperties
<1> QED BY <1>1, <1>2

\* Casts that begin are new, and older than those that begin after them.
LEMMA CastsBegin ==
  ASSUME TypeInv, Fresh, NEW begun, begun \subseteq {e \in Entities : queue[e] # <<>>},
         queue' = [e \in Entities |-> IF e \in begun THEN Tail(queue[e]) ELSE queue[e]]
  PROVE  /\ DOMAIN casting \cap New(begun) = {}
         /\ \A c \in DOMAIN casting \cup New(begun) : c[2] > Len(queue'[c[1]])
<1>1. queue \in [Entities -> Seq(Skills)] /\ DOMAIN casting \subseteq Living \X Nat
  BY DEF TypeInv, RotationsOK
<1>2. Living \subseteq Entities
  BY DEF TypeInv, RotationsOK, Living, Entities
<1>3. DOMAIN casting \cap New(begun) = {}
  <2> SUFFICES ASSUME NEW e \in begun, <<e, Len(queue[e])>> \in DOMAIN casting PROVE FALSE
    BY DEF New
  <2>1. Len(queue[e]) > Len(queue[e])
    BY DEF Fresh
  <2>2. Len(queue[e]) \in Nat
    BY <1>1, LenProperties
  <2> QED BY <2>1, <2>2
<1>4. ASSUME NEW e \in Entities PROVE Len(queue'[e]) \in Nat /\ Len(queue'[e]) <= Len(queue[e])
  <2>1. queue[e] \in Seq(Skills) /\ Len(queue[e]) \in Nat
    BY <1>1, LenProperties
  <2>2. CASE e \in begun
    <3>1. queue'[e] = Tail(queue[e]) /\ queue[e] # <<>>
      BY <2>2
    <3>2. Len(queue[e]) = Len(Tail(queue[e])) + 1 /\ Len(Tail(queue[e])) \in Nat
      BY <2>1, <3>1, TailShorter
    <3> QED BY <3>1, <3>2
  <2>3. CASE e \notin begun
    BY <2>1, <2>3
  <2> QED BY <2>2, <2>3
<1>5. ASSUME NEW c \in DOMAIN casting PROVE c[2] > Len(queue'[c[1]])
  <2>1. c[1] \in Entities /\ c[2] \in Nat
    BY <1>1, <1>2
  <2>2. Len(queue[c[1]]) \in Nat /\ c[2] > Len(queue[c[1]])
    BY <1>1, <2>1, LenProperties DEF Fresh
  <2> QED BY <1>4, <2>1, <2>2
<1>6. ASSUME NEW c \in New(begun) PROVE c[2] > Len(queue'[c[1]])
  <2>1. PICK e \in begun : c = <<e, Len(queue[e])>>
    BY DEF New
  <2>2. queue[e] \in Seq(Skills) /\ queue[e] # <<>> /\ queue'[e] = Tail(queue[e])
    BY <1>1
  <2>3. Len(queue[e]) = Len(Tail(queue[e])) + 1 /\ Len(Tail(queue[e])) \in Nat
    BY <2>2, TailShorter
  <2> QED BY <2>1, <2>2, <2>3
<1> QED BY <1>3, <1>5, <1>6

LEMMA PerformCasts == TypeInv /\ CastsInv /\ perform => CastsInv'
<1> SUFFICES ASSUME TypeInv, CastsInv, perform PROVE CastsInv'
  OBVIOUS
<1>1. PICK begun, casts, strikes_left, pulses_left, finished, order :
        Performs(begun, casts, strikes_left, pulses_left, finished, order)
  BY PerformPerforms
<1>2. /\ begun \subseteq {e \in Entities : queue[e] # <<>>} /\ casts = Running(begun)
      /\ queue' = [e \in Entities |-> IF e \in begun THEN Tail(queue[e]) ELSE queue[e]]
      /\ finished \subseteq DOMAIN casts /\ DOMAIN casting' = DOMAIN casts \ finished
      /\ tally' = [tally EXCEPT !.finished = @ + Cardinality(finished)]
  BY <1>1 DEF Performs, After
<1>3. RotationsOK /\ tally \in Tallies /\ queue \in [Entities -> Seq(Skills)] /\ Fresh
  BY DEF TypeInv, RotationsOK, CastsInv
<1>4. TypeInv'
  BY PerformType
<1>5. PICK old, new : old = DOMAIN casting /\ new = New(begun)
  OBVIOUS
<1>6. /\ DOMAIN casts = old \cup new /\ old \cap new = {}
      /\ \A c \in old \cup new : c[2] > Len(queue'[c[1]])
  BY <1>2, <1>3, <1>5, RunningType, CastsBegin
<1>7. /\ begun \subseteq Entities /\ IsFiniteSet(begun) /\ IsFiniteSet(new)
      /\ Cardinality(new) = Cardinality(begun) /\ IsFiniteSet(old) /\ IsFiniteSet(Entities)
  BY <1>2, <1>3, <1>5, NewCasts, Finite DEF RotationsOK
<1>8. IsFiniteSet(old \cup new) /\ Cardinality(old \cup new) = UnderWay + Cardinality(begun)
  <2>1. Cardinality(old \cap new) = 0
    BY <1>6, FS_EmptySet
  <2>2. /\ IsFiniteSet(old \cup new)
        /\ Cardinality(old \cup new) = Cardinality(old) + Cardinality(new) - Cardinality(old \cap new)
    BY <1>7, FS_Union
  <2>3. UnderWay = Cardinality(old) /\ Cardinality(old) \in Nat /\ Cardinality(begun) \in Nat
    BY <1>5, <1>7, FS_CardinalityType DEF UnderWay
  <2> QED BY <1>7, <2>1, <2>2, <2>3
<1>9. UnderWay' + Cardinality(finished) = UnderWay + Cardinality(begun)
  <2>1. finished \subseteq old \cup new /\ DOMAIN casting' = (old \cup new) \ finished
    BY <1>2, <1>6
  <2>2. PICK all : all = old \cup new
    OBVIOUS
  <2>3. IsFiniteSet(finished) /\ all \cap finished = finished
    BY <1>8, <2>1, <2>2, FS_Subset
  <2>4. Cardinality(all \ finished) = Cardinality(all) - Cardinality(all \cap finished)
    BY <1>8, <2>2, FS_Difference
  <2>5. Cardinality(all) \in Nat /\ Cardinality(finished) \in Nat
    BY <1>8, <2>2, <2>3, FS_CardinalityType
  <2>6. UnderWay' = Cardinality(all \ finished)
    BY <2>1, <2>2 DEF UnderWay
  <2>7. Cardinality(all) = UnderWay + Cardinality(begun)
    BY <1>8, <2>2
  <2>8. Cardinality(all \cap finished) = Cardinality(finished)
    BY <2>3
  <2>9. UnderWay' = Cardinality(all) - Cardinality(finished)
    BY <2>4, <2>6, <2>8
  <2> QED BY <2>5, <2>7, <2>9
<1>10. /\ Waiting \in [Entities -> Nat] /\ UnderWay \in Nat
       /\ tally.finished \in Nat /\ Total(Waiting) \in Nat
       /\ Total(Planned) \in Nat /\ Total(tally.spawned) \in Nat
  BY <1>3, CastTypes
<1>11. Waiting' \in [Entities -> Nat] /\ Total(Waiting') \in Nat /\ UnderWay' \in Nat
  <2>1. /\ queue' \in [Entities -> Seq(Skills)] /\ IsFiniteSet(DOMAIN casting')
    BY <1>4 DEF TypeInv, RotationsOK
  <2>2. Waiting' \in [Entities -> Nat]
    BY <2>1, LenProperties DEF Waiting
  <2>3. UnderWay' \in Nat
    BY <2>1, FS_CardinalityType DEF UnderWay
  <2> QED BY <2>2, <2>3, EachFinite, Finite
<1>12. Total(Waiting) = Total(Waiting') + Cardinality(begun)
  <2>1. ASSUME NEW e \in Entities
        PROVE  Waiting[e] = Waiting'[e] + IF e \in begun THEN 1 ELSE 0
    <3>1. Waiting[e] = Len(queue[e]) /\ Waiting'[e] = Len(queue'[e]) /\ Waiting[e] \in Nat
      BY <1>10 DEF Waiting
    <3>2. CASE e \in begun
      <4>1. queue[e] # <<>> /\ queue'[e] = Tail(queue[e]) /\ queue[e] \in Seq(Skills)
        BY <1>2, <1>3, <3>2
      <4> QED BY <3>1, <3>2, <4>1, TailShorter
    <3>3. CASE e \notin begun
      BY <1>2, <3>1, <3>3
    <3> QED BY <3>2, <3>3
  <2>2. PICK v \in [Entities -> Nat], w \in [Entities -> Nat] : v = Waiting /\ w = Waiting'
    BY <1>10, <1>11
  <2>3. \A e \in Entities : v[e] = w[e] + IF e \in begun THEN 1 ELSE 0
    BY <2>1, <2>2
  <2>4. Total(v) = Total(w) + Cardinality(begun)
    BY <1>7, <2>3, TotalWithMore
  <2> QED BY <2>2, <2>4
<1>13. Cardinality(begun) \in Nat /\ Cardinality(finished) \in Nat
  BY <1>2, <1>6, <1>7, <1>8, FS_Subset, FS_CardinalityType
<1>14. /\ tally'.finished = tally.finished + Cardinality(finished)
       /\ tally'.spawned = tally.spawned
  BY <1>2, <1>3 DEF Tallies
<1>15. Balance'
  <2>1. Planned' = Planned
    BY DEF Planned
  <2>2. tally.finished + Total(Waiting) + UnderWay = Total(Planned) + Total(tally.spawned)
    BY DEF CastsInv, Balance
  <2>3. tally'.finished + Total(Waiting') + UnderWay' = Total(Planned) + Total(tally.spawned)
    <3>1. PICK ws \in Nat, ws1 \in Nat, us \in Nat, us1 \in Nat :
             /\ ws = Total(Waiting) /\ ws1 = Total(Waiting')
             /\ us = UnderWay /\ us1 = UnderWay'
      BY <1>10, <1>11
    <3>2. PICK b \in Nat, k \in Nat, z \in Nat :
             b = Cardinality(begun) /\ k = Cardinality(finished) /\ z = tally.finished
      BY <1>10, <1>13
    <3>3. ws = ws1 + b /\ us1 + k = us + b /\ tally'.finished = z + k
      BY <1>9, <1>12, <1>14, <3>1, <3>2
    <3>4. (z + k) + ws1 + us1 = z + ws + us
      <4>1. us1 + k = us + b /\ ws = ws1 + b
        BY <3>3
      <4>2. us1 = (us + b) - k
        BY <4>1
      <4> QED BY <4>1, <4>2
    <3> QED BY <2>2, <3>1, <3>2, <3>3, <3>4
  <2>4. Total(Waiting)' = Total(Waiting')
        /\ Total(Planned)' = Total(Planned) /\ Total(tally.spawned)' = Total(tally.spawned)
    BY <1>14, <2>1 DEF Total
  <2> QED BY <1>14, <2>3, <2>4 DEF Balance
<1>16. RunDry'
  <2>1. no_more_rotation' = no_more_rotation \cup
            {e \in Alive \cup {a \in Actors : rotation[a] # <<>>} : queue[e] = <<>>}
    BY DEF perform
  <2>2. \A e \in Entities : queue[e] = <<>> => queue'[e] = <<>>
    BY <1>2
  <2>3. no_more_rotation' \subseteq Entities
    BY <1>4 DEF TypeInv, RotationsOK, Living, Entities
  <2>4. ASSUME NEW a \in Actors, rotation[a] = <<>>
        PROVE  queue'[a] = <<>> /\ \A c \in DOMAIN casting' : c[1] # a
    <3>1. a \in Entities /\ queue[a] = <<>> /\ \A c \in old : c[1] # a
      BY <1>5, <2>4 DEF CastsInv, RunDry, Entities
    <3>2. \A c \in new : c[1] # a
      BY <1>2, <1>5, <3>1 DEF New
    <3> QED BY <1>2, <1>6, <2>2, <3>1, <3>2
  <2> QED BY <2>1, <2>2, <2>3, <2>4 DEF CastsInv, RunDry
<1>17. Fresh'
  BY <1>2, <1>6 DEF Fresh
<1> QED BY <1>15, <1>16, <1>17 DEF CastsInv

LEMMA HookCasts ==
  ASSUME TypeInv, CastsInv, NEW hook \in Hooks, apply_side_effects(hook), UNCHANGED effects
  PROVE  CastsInv'
<1>1. PICK a \in Actors : a = hook.source
  BY DEF Hooks
<1>2. PICK fired : fired = Triggered(hook, Counted(hook))
  OBVIOUS
<1>3. fired \subseteq Triggers(a) /\ IsFiniteSet(fired)
  BY <1>1, <1>2, TriggersType DEF Triggered
<1>4. /\ Spawn(a, fired) /\ UNCHANGED <<no_more_rotation, casting>>
      /\ \E hits : tally' = [tally EXCEPT !.spawned = Spawned(fired), !.hits[a] = hits]
  BY <1>1, <1>2 DEF apply_side_effects
<1>5. PICK ids : ids = LowestOf(Children \ Alive, Cardinality(fired))
  OBVIOUS
<1> DEFINE f == CHOOSE g \in [ids -> fired] : \A t \in fired : \E i \in ids : g[i] = t
<1>6. /\ Cardinality(ids) = Cardinality(fired)
      /\ queue' = [e \in Entities |-> IF e \in ids THEN <<f[e].skill_key>> ELSE queue[e]]
  BY <1>4, <1>5 DEF Spawn
<1> HIDE DEF f
<1>7. ids \subseteq Children \ Alive /\ ids \subseteq Entities /\ IsFiniteSet(Entities)
  BY <1>5, Finite DEF LowestOf, Entities
<1>8. RotationsOK /\ tally \in Tallies /\ RotationsOK' /\ tally' \in Tallies
  BY SideEffectsType DEF TypeInv
<1>9. /\ Waiting \in [Entities -> Nat] /\ tally.finished \in Nat /\ Total(Waiting) \in Nat
      /\ UnderWay \in Nat /\ Total(Planned) \in Nat /\ Total(tally.spawned) \in Nat
      /\ tally.spawned \in [Skills -> Nat]
  BY <1>8, CastTypes
<1>10. Waiting' \in [Entities -> Nat]
  <2>1. \A e \in Entities : Len(queue'[e]) \in Nat
    BY <1>8, LenProperties DEF RotationsOK
  <2> QED BY <2>1 DEF Waiting
<1>11. Total(Waiting') = Total(Waiting) + Cardinality(fired)
  <2>1. ASSUME NEW e \in Entities
        PROVE  Waiting'[e] = Waiting[e] + IF e \in ids THEN 1 ELSE 0
    <3>1. Waiting[e] = Len(queue[e]) /\ Waiting'[e] = Len(queue'[e]) /\ Waiting[e] \in Nat
      BY <1>9 DEF Waiting
    <3>2. CASE e \in ids
      <4>1. queue[e] = <<>> /\ queue'[e] = <<f[e].skill_key>>
        BY <1>6, <1>7, <1>8, <3>2 DEF RotationsOK
      <4>2. Len(queue[e]) = 0 /\ Len(queue'[e]) = 1
        BY <4>1
      <4> QED BY <3>1, <3>2, <4>2
    <3>3. CASE e \notin ids
      BY <1>6, <3>1, <3>3
    <3> QED BY <3>2, <3>3
  <2>2. PICK v \in [Entities -> Nat], w \in [Entities -> Nat] : v = Waiting /\ w = Waiting'
    BY <1>9, <1>10
  <2>3. \A e \in Entities : w[e] = v[e] + IF e \in ids THEN 1 ELSE 0
    BY <2>1, <2>2
  <2>4. Total(w) = Total(v) + Cardinality(ids)
    BY <1>7, <2>3, TotalWithMore
  <2> QED BY <1>6, <2>2, <2>4
<1>12. tally'.finished = tally.finished /\ tally'.spawned = Spawned(fired)
  BY <1>4, <1>8 DEF Tallies
<1>13. Total(tally'.spawned) = Total(tally.spawned) + Cardinality(fired)
  <2>1. PICK key : key = [t \in fired |-> t.skill_key]
    OBVIOUS
  <2>2. key \in [fired -> Skills]
    BY <1>3, <2>1, TriggersType
  <2>3. PICK v \in [Skills -> Nat], w \in [Skills -> Nat] : v = tally.spawned /\ w = tally'.spawned
    BY <1>8 DEF Tallies
  <2>4. ASSUME NEW s \in Skills PROVE w[s] = v[s] + Cardinality({t \in fired : key[t] = s})
    <3>1. {t \in fired : key[t] = s} = {t \in fired : t.skill_key = s}
      BY <2>1
    <3>2. w[s] = tally.spawned[s] + Cardinality({t \in fired : t.skill_key = s})
      BY <1>12, <2>3 DEF Spawned
    <3> QED BY <2>3, <3>1, <3>2
  <2>5. IsFiniteSet(Skills)
    BY Encounter
  <2>6. Total(w) = Total(v) + Cardinality(fired)
    BY <1>3, <2>2, <2>4, <2>5, TotalWithThose
  <2> QED BY <2>3, <2>6
<1>14. Balance'
  <2>1. Planned' = Planned /\ UnderWay' = UnderWay
    BY <1>4 DEF Planned, UnderWay
  <2>2. tally.finished + Total(Waiting) + UnderWay = Total(Planned) + Total(tally.spawned)
    BY DEF CastsInv, Balance
  <2>3. PICK n \in Nat : n = Cardinality(fired)
    BY <1>3, FS_CardinalityType
  <2>4. tally'.finished + Total(Waiting') + UnderWay = Total(Planned) + Total(tally'.spawned)
    <3>1. PICK z \in Nat, ws \in Nat, us \in Nat, ps \in Nat, ss \in Nat :
             /\ z = tally.finished /\ ws = Total(Waiting) /\ us = UnderWay
             /\ ps = Total(Planned) /\ ss = Total(tally.spawned)
      BY <1>9
    <3>2. z + (ws + n) + us = ps + (ss + n)
      BY <2>2, <3>1
    <3> QED BY <1>11, <1>12, <1>13, <2>3, <3>1, <3>2
  <2>5. /\ Total(Waiting)' = Total(Waiting')
        /\ Total(Planned)' = Total(Planned) /\ Total(tally.spawned)' = Total(tally'.spawned)
    BY <2>1 DEF Total
  <2> QED BY <2>1, <2>4, <2>5 DEF Balance
<1>15. RunDry' /\ Fresh'
  <2>1. \A e \in Actors \cup Alive : e \notin ids /\ e \in Entities
    <3>1. Actors \cap Children = {} /\ Alive \subseteq Children
      BY <1>8, Encounter DEF RotationsOK
    <3> QED BY <1>7, <3>1 DEF Entities
  <2>2. \A e \in Actors \cup Alive : queue'[e] = queue[e]
    BY <1>6, <2>1
  <2>3. no_more_rotation \subseteq Actors \cup Alive
        /\ \A c \in DOMAIN casting : c[1] \in Actors \cup Alive
    BY <1>8 DEF RotationsOK, Living
  <2> QED BY <1>4, <2>2, <2>3 DEF CastsInv, RunDry, Fresh
<1> QED BY <1>14, <1>15 DEF CastsInv

LEMMA CastsKept ==
  ASSUME CastsInv, UNCHANGED <<queue, casting>>, no_more_rotation' \subseteq no_more_rotation,
         tally'.finished = tally.finished, tally'.spawned = tally.spawned
  PROVE  CastsInv'
<1>1. Waiting' = Waiting /\ UnderWay' = UnderWay /\ Planned' = Planned
  BY DEF Waiting, UnderWay, Planned
<1>2. /\ Total(Waiting)' = Total(Waiting)
      /\ Total(Planned)' = Total(Planned) /\ Total(tally.spawned)' = Total(tally.spawned)
  BY <1>1 DEF Total
<1> QED BY <1>1, <1>2 DEF CastsInv, Balance, RunDry, Fresh

LEMMA EndTickCasts == TypeInv /\ CastsInv /\ end_tick => CastsInv'
<1> SUFFICES ASSUME TypeInv, CastsInv, end_tick PROVE CastsInv'
  OBVIOUS
<1>1. PICK destroyed : destroyed = {e \in Alive \cap no_more_rotation : NoActiveSkills(e)}
  OBVIOUS
<1>2. /\ no_more_rotation' = no_more_rotation \ destroyed
      /\ queue' = [e \in Entities |-> IF e \in destroyed THEN <<>> ELSE queue[e]]
      /\ casting' = casting
      /\ \E removed : tally' = [tally EXCEPT !.removed = removed]
  BY <1>1 DEF end_tick
<1>3. \A e \in destroyed : queue[e] = <<>>
  BY <1>1 DEF CastsInv, RunDry
<1>4. queue \in [Entities -> Seq(Skills)]
  BY DEF TypeInv, RotationsOK
<1>5. queue' = queue /\ casting' = casting
  BY <1>2, <1>3, <1>4
<1>6. tally'.finished = tally.finished /\ tally'.spawned = tally.spawned
  BY <1>2 DEF TypeInv, Tallies
<1> QED BY <1>2, <1>5, <1>6, CastsKept

LEMMA CastsStep == TypeInv /\ CastsInv /\ [Next]_vars => CastsInv'
<1> SUFFICES ASSUME TypeInv, CastsInv, [Next]_vars PROVE CastsInv'
  OBVIOUS
<1>1. CASE UNCHANGED vars
  BY <1>1, CastsKept DEF vars, rotations
<1>2. ASSUME hooks # <<>>, apply_side_effects(Head(hooks)), UNCHANGED effects
      PROVE  CastsInv'
  <2>1. Head(hooks) \in Hooks
    BY <1>2, TailType DEF TypeInv, QueuesOK
  <2> QED BY <1>2, <2>1, HookCasts
<1>3. CASE run_hook
  BY <1>2, <1>3 DEF run_hook
<1>4. CASE strikes
  <2>1. /\ UNCHANGED rotations
        /\ \E most : tally' = [tally EXCEPT !.most = most]
    BY <1>4 DEF strikes
  <2>2. tally'.finished = tally.finished /\ tally'.spawned = tally.spawned
    BY <2>1 DEF TypeInv, Tallies
  <2> QED BY <2>1, <2>2, CastsKept DEF rotations
<1>5. CASE on_strike_hook
  BY <1>2, <1>5 DEF on_strike_hook
<1>6. CASE dispatch_effects
  BY <1>6, CastsKept DEF dispatch_effects, rotations
<1>7. CASE apply_effect
  BY <1>7, CastsKept DEF apply_effect, rotations
<1>8. CASE on_effect_application
  <2>1. phase = "applied" /\ Len(hooks) = 1
    BY <1>8 DEF on_effect_application, TypeInv, QueuesOK
  <2>2. hooks # <<>>
    BY <2>1
  <2> QED BY <1>2, <1>8, <2>2 DEF on_effect_application
<1>9. CASE update_combat_stats
  BY <1>9, CastsKept DEF update_combat_stats, rotations
<1>10. CASE continue_combat_loop
  BY <1>10, CastsKept DEF continue_combat_loop, rotations
<1> QED BY <1>1, <1>3, <1>4, <1>5, <1>6, <1>7, <1>8, <1>9, <1>10, PerformCasts, EndTickCasts
        DEF Next

LEMMA CastsImply == TypeInv /\ CastsInv => CastsAreCarriedOut
<1> SUFFICES ASSUME TypeInv, CastsInv, NEW c \in termination,
                    c.type = "ACTIVE_SKILLS", c.actor = Nobody, Met(c)
             PROVE  tally.finished = Total(Planned) + Total(tally.spawned)
  BY DEF CastsAreCarriedOut, Planned
<1>1. Meant(c) = Alive \cup {a \in Actors : rotation[a] # <<>>}
  BY DEF Meant
<1>2. \A e \in Meant(c) : e \in no_more_rotation /\ NoActiveSkills(e)
  BY DEF Met
<1>3. \A e \in Entities : queue[e] = <<>>
  <2> TAKE e \in Entities
  <2>1. CASE e \in Meant(c)
    BY <1>2, <2>1 DEF CastsInv, RunDry
  <2>2. CASE e \notin Meant(c) /\ e \in Actors
    BY <1>1, <2>2 DEF CastsInv, RunDry
  <2>3. CASE e \notin Meant(c) /\ e \notin Actors
    BY <1>1, <2>3 DEF TypeInv, RotationsOK, Entities
  <2> QED BY <2>1, <2>2, <2>3
<1>4. DOMAIN casting = {}
  <2> SUFFICES ASSUME NEW k \in DOMAIN casting PROVE FALSE
    OBVIOUS
  <2>1. k[1] \in Actors \cup Alive
    BY DEF TypeInv, RotationsOK, Living
  <2>2. CASE k[1] \in Meant(c)
    BY <1>2, <2>2 DEF NoActiveSkills
  <2>3. CASE k[1] \notin Meant(c)
    BY <1>1, <2>1, <2>3 DEF CastsInv, RunDry
  <2> QED BY <2>2, <2>3
<1>5. /\ Waiting \in [Entities -> Nat]
      /\ tally.finished \in Nat /\ Total(Planned) \in Nat /\ Total(tally.spawned) \in Nat
  BY CastTypes DEF TypeInv
<1>6. \A e \in Entities : Waiting[e] = 0
  BY <1>3 DEF Waiting
<1>7. Total(Waiting) = 0 /\ UnderWay = 0
  BY <1>4, <1>5, <1>6, TotalOfNone, FS_EmptySet DEF UnderWay
<1> QED BY <1>5, <1>7 DEF CastsInv, Balance

\* Whatever skills, triggers and child actors there are: when a run ends because no skill is
\* active, as many casts have been carried out, with all their strikes and pulses, as the
\* rotations have and side effects have spawned, since a child actor is destroyed only without a
\* cast that waits or runs, and whoever has one keeps the run going
\* (destroy_actors_with_no_rotation, continue_combat_loop).
THEOREM EveryCastIsCarriedOut == Spec => []CastsAreCarriedOut
<1> QED BY TypeInvariant, CastsInit, CastsStep, CastsImply, PTL DEF Spec
=============================================================================
