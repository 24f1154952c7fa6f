--------------------------- MODULE RotationProofs ---------------------------
(***************************************************************************)
(* The inner loop of a tick leaves nothing undone, the audit tells the     *)
(* bundle in hand, and orderly rotations never throw and pay for the swaps *)
(* that change the weapon set, for any skills, triggers, groups, rotations *)
(* and number of child actors.                                             *)
(***************************************************************************)
EXTENDS Rotation, SequenceTheorems, FiniteSetTheorems, WellFoundedInduction, TLAPS

Living == alive \cup {Actor}

-----------------------------------------------------------------------------
(* The inductive invariant of the types. *)

TurnOK ==
  /\ rotation \in Rotations /\ queued_rotation \in [Entities -> Seq(Skills)]
  /\ current_idx \in 0 .. Len(rotation) /\ elapsed \in 0 .. MaxCastTime

LoopOK ==
  /\ phase \in Phases /\ progressed \in BOOLEAN /\ failed \in BOOLEAN
  /\ todo \subseteq Living /\ no_more_rotation \subseteq Living
  /\ already_performed_rotation \cup already_performed_animation \subseteq Entities
  /\ phase = "animations" => \A e \in todo : animation[e] # Nobody

CastOK ==
  /\ animation \in [Entities -> CastOf \cup {Nobody}] /\ animation_expired \subseteq Entities
  /\ finished_casting_skills \in [Entities -> Seq(Skills)]
  /\ already_finished_casting_skill \subseteq Entities \X Skills
  /\ casting \in [Entities -> Seq(CastOf)]
  /\ on_cooldown \in [Skills -> Nat] /\ \A s \in Skills : on_cooldown[s] <= cooldown[s]

ChildrenOK ==
  /\ alive \subseteq Children /\ skills_of \in [Children -> SUBSET Skills]
  /\ already_triggered \subseteq skill_triggers \X Entities

Held == [Entities -> Bundles \cup {Nothing}]
BundleOK ==
  /\ bundle \in Held /\ equipped_bundle \in Held /\ dropped_bundle \in Held
  /\ audited_bundle \in Held /\ current_weapon_set \in {1, 2}

\* Of a child actor that is not in the registry nothing is left.
GoneOK ==
  \A e \in Children \ alive :
    /\ queued_rotation[e] = <<>> /\ animation[e] = Nobody
    /\ casting[e] = <<>> /\ finished_casting_skills[e] = <<>>
    /\ bundle[e] = Nothing /\ equipped_bundle[e] = Nothing
    /\ dropped_bundle[e] = Nothing /\ audited_bundle[e] = Nothing

TypeInv == TurnOK /\ LoopOK /\ CastOK /\ ChildrenOK /\ BundleOK /\ GoneOK

-----------------------------------------------------------------------------
(* What is done in each phase of a round.  A round that did nothing has      *)
(* looked at every rotation in the state it still is in.                     *)

Could(e) == HasQueued(e) /\ CanStart(e) /\ e \notin no_more_rotation

Waiting == \A e \in Living \ (IF phase = "rotations" THEN todo ELSE {}) : ~Could(e)
Advanced == \A e \in Living : animation[e] # Nobody => e \in already_performed_animation
Hooked == \A e \in Living : Unhooked(e) = {}

Round ==
  failed \/ CASE phase = "rotations"  -> ~progressed => Waiting
              [] phase = "animations" ->
                   /\ ~progressed => Waiting
                   /\ \A e \in Living : animation[e] # Nobody =>
                        e \in already_performed_animation \cup todo
              [] phase = "finished" ->
                   /\ ~progressed => Waiting
                   /\ Advanced /\ \A e \in Living \ todo : Unhooked(e) = {}
              [] phase = "ticks" -> Waiting /\ Advanced /\ Hooked
              [] OTHER -> TRUE

Inv == TypeInv /\ Round
-----------------------------------------------------------------------------
(* Sets of numbers, sequences made of sets, and sequences made by a filter. *)

LEMMA InductionUpTo ==
  ASSUME NEW last \in Nat, NEW G, 0 \in G,
         \A n \in Nat : n < last /\ n \in G => n + 1 \in G
  PROVE  0 .. last \subseteq G
<1> SUFFICES ASSUME NEW n \in 0 .. last, n \notin G PROVE FALSE
  OBVIOUS
<1> DEFINE bad == {m \in Nat : m <= last /\ m \notin G}
<1>1. n \in bad /\ bad \subseteq Nat
  OBVIOUS
<1>2. PICK m \in bad : \A k \in bad : ~(<<k, m>> \in OpToRel(<, Nat))
  BY <1>1, NatLessThanWellFounded, WFMin, Zenon
<1>3. m \in Nat /\ m <= last /\ m \notin G /\ m # 0
  BY <1>2
<1>4. m - 1 \in Nat /\ m - 1 < last
  BY <1>3
<1>5. m - 1 \notin G
  BY <1>3, <1>4
<1>6. m - 1 \in bad /\ <<m - 1, m>> \in OpToRel(<, Nat)
  BY <1>3, <1>4, <1>5 DEF OpToRel
<1> QED BY <1>2, <1>6

LEMMA LeastOf ==
  ASSUME NEW T, T \subseteq Nat, T # {}
  PROVE  /\ Min(T) \in T
         /\ \A x \in T : Min(T) <= x
<1>1. PICK m \in T : \A k \in T : ~(<<k, m>> \in OpToRel(<, Nat))
  BY NatLessThanWellFounded, WFMin, Zenon
<1>2. ASSUME NEW k \in T PROVE m <= k
  <2>1. k \in Nat /\ m \in Nat
    OBVIOUS
  <2>2. k < m => <<k, m>> \in OpToRel(<, Nat)
    BY <2>1 DEF OpToRel
  <2>3. ~(<<k, m>> \in OpToRel(<, Nat))
    BY <1>1
  <2>4. ~(k < m)
    BY <2>2, <2>3, Zenon
  <2> QED BY <2>1, <2>4
<1> QED BY <1>2 DEF Min

LEMMA MaxCastTimeType == rotation \in Rotations => MaxCastTime \in Nat /\ Len(rotation) \in Nat
<1> SUFFICES ASSUME rotation \in Rotations PROVE MaxCastTime \in Nat /\ Len(rotation) \in Nat
  OBVIOUS
<1>1. PICK r \in Seq([skill : Skills \cup Groups, cast_time_ms : Nat]) : r = rotation
  BY Configuration
<1>2. Len(r) \in Nat /\ DOMAIN r = 1 .. Len(r)
  BY LenProperties
<1>3. \A i \in 1 .. Len(r) : r[i].cast_time_ms \in Nat
  <2> TAKE i \in 1 .. Len(r)
  <2>1. r[i] \in [skill : Skills \cup Groups, cast_time_ms : Nat]
    BY ElementOfSeq
  <2> QED BY <2>1
<1> DEFINE Times(n) == {0} \cup {r[i].cast_time_ms : i \in 1 .. n}
           G == {n \in Nat : n <= Len(r) =>
                   \E m \in Times(n) : m \in Nat /\ \A x \in Times(n) : m >= x}
<1>4. 0 \in G
  <2>1. Times(0) = {0}
    OBVIOUS
  <2> QED BY <2>1
<1>5. ASSUME NEW n \in Nat, n < Len(r), n \in G PROVE n + 1 \in G
  <2>1. PICK m \in Times(n) : m \in Nat /\ \A x \in Times(n) : m >= x
    BY <1>2, <1>5
  <2>2. n + 1 \in 1 .. Len(r)
    BY <1>2, <1>5
  <2>3. PICK time \in Nat : time = r[n + 1].cast_time_ms
    BY <1>3, <2>2
  <2>4. 1 .. n + 1 = (1 .. n) \cup {n + 1}
    OBVIOUS
  <2>5. Times(n + 1) = Times(n) \cup {time}
    BY <2>3, <2>4
  <2> HIDE DEF Times
  <2>6. CASE m >= time
    BY <2>1, <2>5, <2>6
  <2>7. CASE ~(m >= time)
    <3>1. time \in Times(n + 1) /\ time > m
      BY <2>1, <2>5, <2>7
    <3>2. \A x \in Times(n) : x \in Nat
      BY <1>2, <1>3, <1>5 DEF Times
    <3>3. \A x \in Times(n + 1) : time >= x
      BY <2>1, <2>5, <3>1, <3>2
    <3> QED BY <3>1, <3>3
  <2> QED BY <2>6, <2>7
<1>6. Len(r) \in G
  <2> HIDE DEF G
  <2>1. 0 .. Len(r) \subseteq G
    BY <1>2, <1>4, <1>5, InductionUpTo
  <2> QED BY <1>2, <2>1
<1>7. PICK m \in Times(Len(r)) : m \in Nat /\ \A x \in Times(Len(r)) : m >= x
  BY <1>2, <1>6
<1>8. MaxCastTime = Max(Times(Len(r)))
  BY <1>1, <1>2 DEF MaxCastTime
<1>9. \A x \in Times(Len(r)) : x \in Nat
  BY <1>3
<1> HIDE DEF Times
<1>10. Max(Times(Len(r))) \in Times(Len(r))
  BY <1>7 DEF Max
<1> QED BY <1>1, <1>2, <1>8, <1>9, <1>10

LEMMA SetToSeqIs ==
  ASSUME NEW T, IsFiniteSet(T)
  PROVE  Cardinality(T) \in Nat /\ SetToSeq(T) \in [1 .. Cardinality(T) -> T]
<1>1. Cardinality(T) \in Nat /\ ExistsBijection(1 .. Cardinality(T), T)
  BY FS_CardinalityType
<1>2. PICK f \in Bijection(1 .. Cardinality(T), T) : TRUE
  BY <1>1 DEF ExistsBijection
<1>3. f \in [1 .. Cardinality(T) -> T] /\ IsInjective(f)
  BY <1>2 DEF Bijection, Injection, IsInjective
<1> QED BY <1>1, <1>3 DEF SetToSeq

\* The casts among the first i of s that have ticks left, from those among the first i - 1.
KeptOne(f, s, i) ==
  IF i = 0 THEN <<>> ELSE IF s[i].left > 0 THEN Append(f[i - 1], s[i]) ELSE f[i - 1]
Keeps(f, s, n) == f = [i \in 0 .. n |-> KeptOne(f, s, i)]

LEMMA KeptCasts ==
  ASSUME NEW s \in Seq(CastOf)
  PROVE  \E f : Keeps(f, s, Len(s))
<1> DEFINE G == {n \in Nat : \E f : Keeps(f, s, n)}
<1>1. Len(s) \in Nat
  BY LenProperties
<1>2. 0 \in G
  <2>1. PICK f : f = [i \in 0 .. 0 |-> <<>>]
    OBVIOUS
  <2>2. \A i \in 0 .. 0 : KeptOne(f, s, i) = <<>>
    BY DEF KeptOne
  <2>3. Keeps(f, s, 0)
    BY <2>1, <2>2 DEF Keeps
  <2> QED BY <2>3
<1>3. ASSUME NEW n \in Nat, n < Len(s), n \in G PROVE n + 1 \in G
  <2>1. PICK f : Keeps(f, s, n)
    BY <1>3
  <2>2. PICK g : g = [i \in 0 .. n + 1 |-> IF i <= n THEN f[i] ELSE KeptOne(f, s, n + 1)]
    OBVIOUS
  <2>3. PICK h : h = [i \in 0 .. n + 1 |-> KeptOne(g, s, i)]
    OBVIOUS
  <2>4. \A i \in 0 .. n : f[i] = KeptOne(f, s, i)
    BY <2>1, Zenon DEF Keeps
  <2>5. ASSUME NEW i \in 0 .. n + 1 PROVE g[i] = h[i]
    <3>1. h[i] = KeptOne(g, s, i)
      BY <2>3
    <3>2. CASE i <= n
      <4>1. i \in 0 .. n /\ g[i] = f[i] /\ f[i] = KeptOne(f, s, i)
        BY <2>2, <2>4, <3>2
      <4>2. i # 0 => i - 1 \in 0 .. n + 1 /\ i - 1 <= n
        BY <3>2
      <4>3. i # 0 => g[i - 1] = f[i - 1]
        BY <2>2, <4>2
      <4> QED BY <3>1, <4>1, <4>3 DEF KeptOne
    <3>3. CASE ~(i <= n)
      <4>1. i = n + 1 /\ i # 0 /\ i - 1 = n
        BY <3>3
      <4>2. g[n] = f[n] /\ g[i] = KeptOne(f, s, i)
        BY <2>2, <3>3, <4>1
      <4> QED BY <3>1, <4>1, <4>2 DEF KeptOne
    <3> QED BY <3>2, <3>3
  <2>6. g = h
    BY <2>2, <2>3, <2>5
  <2>7. Keeps(g, s, n + 1)
    BY <2>3, <2>6 DEF Keeps
  <2> QED BY <2>7
<1>4. Len(s) \in G
  <2> HIDE DEF G
  <2>1. 0 .. Len(s) \subseteq G
    BY <1>1, <1>2, <1>3, InductionUpTo
  <2> QED BY <1>1, <2>1
<1> QED BY <1>1, <1>4

LEMMA KeptType ==
  ASSUME NEW s \in Seq(CastOf), NEW f, Keeps(f, s, Len(s))
  PROVE  f[Len(s)] \in Seq(CastOf) /\ (s = <<>> => f[Len(s)] = <<>>)
<1>1. Len(s) \in Nat /\ \A i \in 1 .. Len(s) : s[i] \in CastOf
  BY LenProperties, ElementOfSeq
<1>2. \A i \in 0 .. Len(s) : f[i] = KeptOne(f, s, i)
  BY Zenon DEF Keeps
<1> DEFINE E == {i \in Nat : i <= Len(s) => f[i] \in Seq(CastOf)}
<1>3. 0 \in E
  <2>1. f[0] = <<>>
    BY <1>1, <1>2 DEF KeptOne
  <2> QED BY <2>1, EmptySeq
<1>4. ASSUME NEW i \in Nat, i < Len(s), i \in E PROVE i + 1 \in E
  <2>1. i + 1 \in 0 .. Len(s) /\ i + 1 \in 1 .. Len(s) /\ i + 1 # 0 /\ (i + 1) - 1 = i
    BY <1>1, <1>4
  <2>2. PICK kept \in Seq(CastOf) : kept = f[i]
    BY <1>4
  <2>3. PICK c \in CastOf : c = s[i + 1]
    BY <1>1, <2>1
  <2>4. Append(kept, c) \in Seq(CastOf)
    BY AppendProperties
  <2>5. f[i + 1] = IF c.left > 0 THEN Append(kept, c) ELSE kept
    BY <1>2, <2>1, <2>2, <2>3 DEF KeptOne
  <2>6. f[i + 1] \in Seq(CastOf)
    BY <2>4, <2>5
  <2> QED BY <2>6
<1>5. 0 .. Len(s) \subseteq E
  <2> HIDE DEF E
  <2> QED BY <1>1, <1>3, <1>4, InductionUpTo
<1>6. s = <<>> => f[Len(s)] = <<>>
  BY <1>1, <1>2, EmptySeq DEF KeptOne
<1> QED BY <1>1, <1>5, <1>6

LEMMA StillActiveType ==
  ASSUME NEW e, casting[e] \in Seq(CastOf)
  PROVE  /\ StillActive(e) \in Seq(CastOf)
         /\ casting[e] = <<>> => StillActive(e) = <<>>
<1>1. PICK s \in Seq(CastOf) : s = casting[e]
  OBVIOUS
<1>2. PICK f : Keeps(f, s, Len(s))
  BY KeptCasts
<1>3. PICK kept : kept = CHOOSE g : Keeps(g, s, Len(s))
  OBVIOUS
<1>4. Keeps(kept, s, Len(s))
  BY <1>2, <1>3, Zenon
<1>5. StillActive(e) = kept[Len(s)]
  BY <1>1, <1>3 DEF StillActive, Keeps, KeptOne
<1> QED BY <1>1, <1>4, <1>5, KeptType

-----------------------------------------------------------------------------
(* The child actors that Spawn creates and the skills they get. *)

\* While there is room there is a next number, the one with i - 1 smaller ones.
LEMMA FreeIs ==
  ASSUME NEW i \in Nat \ {0}, i <= Cardinality(Children \ alive)
  PROVE  Free(i) \in Children \ alive
<1>1. PICK T : T = Children \ alive
  OBVIOUS
<1>2. PICK N \in Nat : T \subseteq 1 .. N
  BY <1>1, Configuration DEF Children
<1>3. PICK k \in Nat : k = i - 1
  OBVIOUS
<1> DEFINE Below(n) == {d \in T : d < n}
           Above == {n \in Nat \ {0} : Cardinality(Below(n)) > k}
<1>4. IsFiniteSet(T) /\ \A n \in Nat : IsFiniteSet(Below(n)) /\ Cardinality(Below(n)) \in Nat
  <2>1. IsFiniteSet(1 .. N)
    BY FS_Interval
  <2>2. IsFiniteSet(T)
    BY <1>2, <2>1, FS_Subset
  <2>3. \A n \in Nat : Below(n) \subseteq T
    OBVIOUS
  <2> QED BY <2>2, <2>3, FS_Subset, FS_CardinalityType
<1>5. Below(N + 1) = T /\ Below(1) = {}
  <2>1. \A d \in T : d < N + 1 /\ ~(d < 1)
    BY <1>2
  <2> QED BY <2>1
<1>6. N + 1 \in Above /\ Cardinality(Below(1)) = 0
  <2>1. Cardinality(T) > k
    BY <1>4, <1>5, <1>1, <1>3
  <2> QED BY <1>5, <2>1, FS_EmptySet
<1>7. PICK n \in Above : \A x \in Above : n <= x
  <2>1. Above \subseteq Nat /\ Above # {}
    BY <1>6
  <2> QED BY <2>1, LeastOf
<1>8. n \in Nat /\ n # 0 /\ n # 1 /\ Cardinality(Below(n)) > k
  BY <1>6, <1>7
<1>9. PICK c \in Nat : c = n - 1
  BY <1>8
<1>10. c # 0 /\ c + 1 = n /\ ~(Cardinality(Below(c)) > k)
  <2>1. c # 0 /\ c + 1 = n /\ ~(n <= c)
    BY <1>8, <1>9
  <2>2. c \notin Above
    BY <1>7, <2>1
  <2> QED BY <2>1, <2>2
<1>11. c \in T
  <2> SUFFICES ASSUME c \notin T PROVE FALSE
    OBVIOUS
  <2>1. \A d \in T : d < n <=> d < c
    <3> TAKE d \in T
    <3>1. d \in Nat /\ d # c
      BY <1>2
    <3> QED BY <1>8, <1>9, <3>1
  <2>2. Below(n) = Below(c)
    BY <2>1
  <2> QED BY <1>8, <1>10, <2>2
<1>12. Cardinality(Below(n)) = Cardinality(Below(c)) + 1
  <2>1. \A d \in T : (d < n <=> d < c \/ d = c) /\ ~(c < c)
    <3> TAKE d \in T
    <3>1. d \in Nat
      BY <1>2
    <3> QED BY <1>8, <1>9, <3>1
  <2>2. Below(n) = Below(c) \cup {c} /\ c \notin Below(c)
    BY <1>11, <2>1
  <2> HIDE DEF Below
  <2> QED BY <1>4, <2>2, FS_AddElement
<1>13. Cardinality(Below(c)) = k
  <2>1. Cardinality(Below(c)) \in Nat
    BY <1>4
  <2> QED BY <1>8, <1>10, <1>12, <2>1
<1>14. \E x \in Children \ alive : Cardinality({d \in Children \ alive : d < x}) = i - 1
  BY <1>11, <1>13, <1>1, <1>3
<1> QED BY <1>14 DEF Free

\* What SkillsWith adds with one step more.
MoreSkills(f, i) ==
  IF i = 0 THEN [s \in Skills |-> {s}]
  ELSE LET fewer == f[i - 1]
       IN [s \in Skills |-> fewer[s] \cup UNION {Range(child_skill_keys[t]) : t \in fewer[s]}]
Adds(f, n) == f = [i \in 0 .. n |-> MoreSkills(f, i)]

LEMMA AddedSkills == ASSUME NEW n \in Nat PROVE \E f : Adds(f, n)
<1> DEFINE G == {m \in Nat : \E f : Adds(f, m)}
<1>1. 0 \in G
  <2>1. PICK f : f = [i \in 0 .. 0 |-> [s \in Skills |-> {s}]]
    OBVIOUS
  <2>2. \A i \in 0 .. 0 : MoreSkills(f, i) = [s \in Skills |-> {s}]
    BY DEF MoreSkills
  <2>3. Adds(f, 0)
    BY <2>1, <2>2 DEF Adds
  <2> QED BY <2>3
<1>2. ASSUME NEW m \in Nat, m < n, m \in G PROVE m + 1 \in G
  <2>1. PICK f : Adds(f, m)
    BY <1>2
  <2>2. PICK g : g = [i \in 0 .. m + 1 |-> IF i <= m THEN f[i] ELSE MoreSkills(f, m + 1)]
    OBVIOUS
  <2>3. PICK h : h = [i \in 0 .. m + 1 |-> MoreSkills(g, i)]
    OBVIOUS
  <2>4. \A i \in 0 .. m : f[i] = MoreSkills(f, i)
    BY <2>1, Zenon DEF Adds
  <2>5. ASSUME NEW i \in 0 .. m + 1 PROVE g[i] = h[i]
    <3>1. h[i] = MoreSkills(g, i)
      BY <2>3
    <3>2. CASE i <= m
      <4>1. i \in 0 .. m /\ g[i] = f[i] /\ f[i] = MoreSkills(f, i)
        BY <2>2, <2>4, <3>2
      <4>2. i # 0 => i - 1 \in 0 .. m + 1 /\ i - 1 <= m
        BY <3>2
      <4>3. i # 0 => g[i - 1] = f[i - 1]
        BY <2>2, <4>2
      <4>4. MoreSkills(g, i) = MoreSkills(f, i)
        BY <4>3, Zenon DEF MoreSkills
      <4> QED BY <3>1, <4>1, <4>4
    <3>3. CASE ~(i <= m)
      <4>1. i = m + 1 /\ i # 0 /\ i - 1 = m
        BY <3>3
      <4>2. g[m] = f[m] /\ g[i] = MoreSkills(f, i)
        BY <2>2, <3>3, <4>1
      <4>3. g[i - 1] = f[i - 1]
        BY <4>1, <4>2
      <4>4. MoreSkills(g, i) = MoreSkills(f, i)
        BY <4>3, Zenon DEF MoreSkills
      <4> QED BY <3>1, <4>2, <4>4
    <3> QED BY <3>2, <3>3
  <2>6. g = h
    BY <2>2, <2>3, <2>5
  <2>7. Adds(g, m + 1)
    BY <2>3, <2>6 DEF Adds
  <2> QED BY <2>7
<1>3. 0 .. n \subseteq G
  <2> HIDE DEF G
  <2> QED BY <1>1, <1>2, InductionUpTo
<1> QED BY <1>3

LEMMA AddedSkillsType ==
  ASSUME NEW n \in Nat, NEW f, Adds(f, n)
  PROVE  f[n] \in [Skills -> SUBSET Skills]
<1>1. \A i \in 0 .. n : f[i] = MoreSkills(f, i)
  BY Zenon DEF Adds
<1> DEFINE E == {i \in Nat : i <= n => f[i] \in [Skills -> SUBSET Skills]}
<1>2. 0 \in E
  <2>1. f[0] = MoreSkills(f, 0)
    BY <1>1
  <2>2. f[0] = [s \in Skills |-> {s}]
    BY <2>1, Zenon DEF MoreSkills
  <2> QED BY <2>2
<1>3. ASSUME NEW i \in Nat, i < n, i \in E PROVE i + 1 \in E
  <2>1. i + 1 \in 0 .. n /\ i + 1 # 0 /\ (i + 1) - 1 = i
    BY <1>3
  <2>2. PICK fewer \in [Skills -> SUBSET Skills] : fewer = f[i]
    BY <1>3
  <2>3. \A s \in Skills : Range(child_skill_keys[s]) \subseteq Skills
    <3> TAKE s \in Skills
    <3>1. PICK keys \in Seq(Skills) : keys = child_skill_keys[s]
      BY Configuration
    <3>2. \A k \in DOMAIN keys : keys[k] \in Skills
      BY ElementOfSeq, LenProperties
    <3> QED BY <3>1, <3>2 DEF Range
  <2>4. f[i + 1] = [s \in Skills |->
              fewer[s] \cup UNION {Range(child_skill_keys[t]) : t \in fewer[s]}]
    BY <1>1, <2>1, <2>2 DEF MoreSkills
  <2>5. f[i + 1] \in [Skills -> SUBSET Skills]
    BY <2>3, <2>4
  <2> QED BY <2>5
<1>4. 0 .. n \subseteq E
  <2> HIDE DEF E
  <2> QED BY <1>2, <1>3, InductionUpTo
<1> QED BY <1>4

LEMMA SkillsWithType == SkillsWith \in [Skills -> SUBSET Skills]
<1>1. PICK n \in Nat : n = Cardinality(Skills)
  BY Configuration, FS_CardinalityType
<1>2. PICK more : more = CHOOSE f : Adds(f, n)
  OBVIOUS
<1>3. Adds(more, n)
  BY <1>2, AddedSkills, Zenon
<1>4. SkillsWith = more[n]
  BY <1>1, <1>2 DEF SkillsWith, Adds, MoreSkills
<1> QED BY <1>3, <1>4, AddedSkillsType

LEMMA QueuedType ==
  ASSUME NEW copies \in SUBSET (Triggers \X Entities)
  PROVE  Queued(copies) \in Seq(Skills) /\ Queues(copies) \in Seq(Seq(Skills))
<1>1. IsFiniteSet(copies)
  <2>1. IsFiniteSet(Entities)
    <3>1. IsFiniteSet(Children)
      BY Configuration, FS_Interval DEF Children
    <3> QED BY <3>1, FS_AddElement DEF Entities
  <2>2. IsFiniteSet(Triggers \X Entities)
    BY <2>1, Configuration, FS_Product
  <2> QED BY <2>2, FS_Subset
<1>2. PICK n \in Nat : SetToSeq(copies) \in [1 .. n -> copies]
  BY <1>1, SetToSeqIs
<1>3. PICK order \in [1 .. n -> copies] : order = SetToSeq(copies)
  BY <1>2
<1>4. \A i \in 1 .. n : order[i][1].skill_key \in Skills
  <2> TAKE i \in 1 .. n
  <2>1. order[i][1] \in Triggers
    OBVIOUS
  <2>2. PICK trigger \in Triggers : trigger = order[i][1]
    BY <2>1
  <2>3. trigger.skill_key \in Skills
    BY Configuration
  <2> QED BY <2>2, <2>3
<1>5. PICK keys : keys = Queued(copies)
  OBVIOUS
<1>6. keys = [i \in 1 .. n |-> order[i][1].skill_key]
  BY <1>3, <1>5 DEF Queued
<1>7. keys \in [1 .. n -> Skills]
  BY <1>4, <1>6
<1>8. keys \in Seq(Skills)
  BY <1>7
<1>9. Queues(copies) = [i \in 1 .. n |-> <<keys[i]>>]
  BY <1>5, <1>7 DEF Queues
<1>10. \A i \in 1 .. n : <<keys[i]>> \in Seq(Skills)
  BY <1>7
<1>11. Queues(copies) \in Seq(Seq(Skills))
  BY <1>9, <1>10
<1> QED BY <1>5, <1>8, <1>11

LEMMA SpawnType ==
  ASSUME TypeInv, NEW batch \in Seq(Seq(Skills)), NEW to_actor \in Seq(Skills),
         Spawn(batch, to_actor)
  PROVE  /\ alive \subseteq alive' /\ alive' \subseteq Children
         /\ queued_rotation' \in [Entities -> Seq(Skills)]
         /\ \A e \in Children \ alive' : queued_rotation'[e] = queued_rotation[e]
         /\ skills_of' \in [Children -> SUBSET Skills]
<1>1. PICK born : born = {Free(i) : i \in 1 .. Len(batch)}
  OBVIOUS
<1>2. Len(batch) \in Nat /\ DOMAIN batch = 1 .. Len(batch)
  BY LenProperties
<1>3. Cardinality(Children \ alive) \in Nat
  <2>1. IsFiniteSet(Children)
    BY Configuration, FS_Interval DEF Children
  <2> QED BY <2>1, FS_Subset, FS_CardinalityType
<1>4. \A i \in 1 .. Len(batch) : Free(i) \in Children \ alive
  <2> TAKE i \in 1 .. Len(batch)
  <2>1. i \in Nat \ {0} /\ i <= Cardinality(Children \ alive)
    BY <1>2, <1>3 DEF Spawn
  <2> QED BY <2>1, FreeIs
<1>5. born \subseteq Children \ alive
  BY <1>1, <1>4
<1>6. alive' = alive \cup born
  BY <1>1 DEF Spawn
<1>7. queued_rotation' = [e \in Entities |->
            IF e \in born THEN batch[CHOOSE i \in 1 .. Len(batch) : Free(i) = e]
            ELSE IF e = Actor THEN queued_rotation[e] \o to_actor ELSE queued_rotation[e]]
  BY <1>1 DEF Spawn
<1>8. ASSUME NEW e \in Entities PROVE queued_rotation'[e] \in Seq(Skills)
  <2>1. PICK queue \in Seq(Skills) : queue = queued_rotation[e]
    BY DEF TypeInv, TurnOK
  <2>2. queue \o to_actor \in Seq(Skills)
    BY ConcatProperties
  <2>3. CASE e \in born
    <3>1. PICK i \in 1 .. Len(batch) : i = CHOOSE j \in 1 .. Len(batch) : Free(j) = e
      BY <1>1, <2>3
    <3>2. batch[i] \in Seq(Skills)
      BY <1>2, ElementOfSeq
    <3> QED BY <1>7, <2>3, <3>1, <3>2
  <2>4. CASE e \notin born
    BY <1>7, <2>1, <2>2, <2>4
  <2> QED BY <2>3, <2>4
<1>9. queued_rotation' \in [Entities -> Seq(Skills)]
  BY <1>7, <1>8
<1>10. ASSUME NEW e \in Children \ alive' PROVE queued_rotation'[e] = queued_rotation[e]
  <2>1. e \in Entities /\ e \notin born /\ e # Actor
    BY <1>6, Configuration DEF Entities, Children, Actor
  <2> QED BY <1>7, <2>1
<1>11. skills_of' = [c \in Children |->
            IF c \in born THEN UNION {SkillsWith[s] : s \in Range(queued_rotation'[c])}
            ELSE skills_of[c]]
  BY <1>1 DEF Spawn
<1>12. ASSUME NEW c \in Children PROVE skills_of'[c] \subseteq Skills
  <2>1. PICK queue \in Seq(Skills) : queue = queued_rotation'[c]
    BY <1>9 DEF Entities
  <2>2. \A k \in DOMAIN queue : queue[k] \in Skills
    BY LenProperties, ElementOfSeq
  <2>3. Range(queue) \subseteq Skills
    BY <2>2 DEF Range
  <2>4. UNION {SkillsWith[s] : s \in Range(queue)} \subseteq Skills
    BY <2>3, SkillsWithType
  <2>5. skills_of[c] \subseteq Skills
    BY DEF TypeInv, ChildrenOK
  <2> QED BY <1>11, <2>1, <2>4, <2>5
<1>13. skills_of' \in [Children -> SUBSET Skills]
  BY <1>11, <1>12
<1> QED BY <1>5, <1>6, <1>9, <1>10, <1>13 DEF TypeInv, ChildrenOK

LEMMA FireType ==
  ASSUME TypeInv, NEW on, NEW by, NEW more \in Seq(Seq(Skills)), NEW set, NEW held,
         Fire(on, by, more, set, held)
  PROVE  /\ alive \subseteq alive' /\ alive' \subseteq Children
         /\ queued_rotation' \in [Entities -> Seq(Skills)]
         /\ \A e \in Children \ alive' : queued_rotation'[e] = queued_rotation[e]
         /\ skills_of' \in [Children -> SUBSET Skills]
         /\ already_triggered' \subseteq skill_triggers \X Entities
<1>1. PICK due : due = {copy \in Copies(Triggers) : Satisfied(copy[1], on, by, set, held)}
  OBVIOUS
<1>2. due \subseteq Triggers \X Entities
  BY <1>1 DEF Copies, TypeInv, ChildrenOK, Entities
<1>3. PICK luck \in SUBSET {copy \in due : copy[1].random} :
        LET fires(triggers) == {copy \in due : /\ copy[1] \in triggers
                                               /\ copy[1].random => copy \in luck}
            chained == fires(skill_triggers) \ already_triggered
        IN  /\ Spawn(Queues(chained) \o Queues(fires(unchained_skill_triggers)) \o more,
                     Queued(fires(source_actor_skill_triggers)))
            /\ already_triggered' = already_triggered \cup {c \in chained : c[1] \in skill_triggers}
  BY <1>1 DEF Fire, FireMarking
<1> DEFINE Fires(triggers) == {copy \in due : /\ copy[1] \in triggers
                                              /\ copy[1].random => copy \in luck}
<1>4. PICK chained : chained = Fires(skill_triggers) \ already_triggered
  OBVIOUS
<1>5. PICK unchained : unchained = Fires(unchained_skill_triggers)
  OBVIOUS
<1>6. PICK source : source = Fires(source_actor_skill_triggers)
  OBVIOUS
<1>7. /\ Spawn(Queues(chained) \o Queues(unchained) \o more, Queued(source))
      /\ already_triggered' = already_triggered \cup {c \in chained : c[1] \in skill_triggers}
  BY <1>3, <1>4, <1>5, <1>6
<1>8. {chained, unchained, source} \subseteq SUBSET (Triggers \X Entities)
  BY <1>2, <1>4, <1>5, <1>6
<1> HIDE DEF Fires
<1>9. PICK batch \in Seq(Seq(Skills)) : batch = Queues(chained) \o Queues(unchained) \o more
  <2>1. PICK a \in Seq(Seq(Skills)) : a = Queues(chained)
    BY <1>8, QueuedType
  <2>2. PICK b \in Seq(Seq(Skills)) : b = Queues(unchained)
    BY <1>8, QueuedType
  <2>3. a \o b \in Seq(Seq(Skills))
    BY ConcatProperties
  <2>4. (a \o b) \o more \in Seq(Seq(Skills))
    BY <2>3, ConcatProperties
  <2> QED BY <2>1, <2>2, <2>4
<1>10. PICK to_actor \in Seq(Skills) : to_actor = Queued(source)
  BY <1>8, QueuedType
<1>11. Spawn(batch, to_actor)
  BY <1>7, <1>9, <1>10
<1>12. already_triggered' \subseteq skill_triggers \X Entities
  <2>1. already_triggered \subseteq skill_triggers \X Entities
    BY DEF TypeInv, ChildrenOK
  <2>2. \A c \in chained : c \in Triggers \X Entities
    BY <1>8
  <2> QED BY <1>7, <2>1, <2>2
<1> QED BY <1>11, <1>12, SpawnType

-----------------------------------------------------------------------------
(* The skill an entity casts next, and what finishing it changes. *)

LEMMA NextSkillType ==
  ASSUME TypeInv, NEW e \in Entities, OutOfCasts(e) => Restarts(e), Offered(e) # {}
  PROVE  /\ NextSkill(e) \in Skills
         /\ ~HasQueued(e) => NextIdx(e) + 1 \in 1 .. Len(rotation)
<1> DEFINE Option == [skill_key : Skills, weapon_set : 0 .. 2, bundle : Bundles \cup {Nothing}]
           Cast == [skill : Skills \cup Groups, cast_time_ms : Nat]
<1>1. PICK r \in Seq(Cast) : r = rotation
  BY Configuration DEF TypeInv, TurnOK
<1>2. Len(r) \in Nat /\ current_idx \in 0 .. Len(r)
  BY <1>1, LenProperties DEF TypeInv, TurnOK
<1>3. ~HasQueued(e) => NextIdx(e) + 1 \in 1 .. Len(r)
  <2> SUFFICES ASSUME ~HasQueued(e) PROVE NextIdx(e) + 1 \in 1 .. Len(r)
    OBVIOUS
  <2>1. CASE OutOfCasts(e)
    <3>1. Restarts(e)
      BY <2>1
    <3>2. r # <<>>
      BY <1>1, <3>1, Configuration DEF Restarts, TypeInv, TurnOK
    <3>3. Len(r) # 0
      BY <3>2, EmptySeq
    <3> QED BY <1>2, <3>1, <3>3 DEF NextIdx
  <2>2. CASE ~OutOfCasts(e)
    BY <1>1, <1>2, <2>2 DEF OutOfCasts, Restarts, NextIdx
  <2> QED BY <2>1, <2>2
<1>4. NextCast(e).skill \in Skills \cup Groups
  <2>1. CASE HasQueued(e)
    <3>1. PICK queue \in Seq(Skills) : queue = queued_rotation[e]
      BY DEF TypeInv, TurnOK
    <3>2. queue # <<>>
      BY <2>1, <3>1 DEF HasQueued
    <3>3. Head(queue) \in Skills
      BY <3>2, HeadTailProperties
    <3> QED BY <2>1, <3>1, <3>3 DEF NextCast
  <2>2. CASE ~HasQueued(e)
    <3>1. PICK i \in 1 .. Len(r) : i = NextIdx(e) + 1
      BY <1>3, <2>2
    <3>2. r[i] \in Cast
      BY ElementOfSeq
    <3>3. r[i].skill \in Skills \cup Groups
      BY <3>2
    <3> QED BY <1>1, <2>2, <3>1, <3>3 DEF NextCast
  <2> QED BY <2>1, <2>2
<1>5. PICK options \in Seq(Option) : options = Options(e)
  <2>1. PICK key \in Skills \cup Groups : key = NextCast(e).skill
    BY <1>4
  <2>2. CASE key \in Skills
    <3>1. [skill_key |-> key, weapon_set |-> 0, bundle |-> Nothing] \in Option
      BY <2>2
    <3> HIDE DEF Option
    <3>2. <<[skill_key |-> key, weapon_set |-> 0, bundle |-> Nothing]>> \in Seq(Option)
      BY <3>1
    <3> QED BY <2>1, <2>2, <3>2 DEF Options
  <2>3. CASE key \notin Skills
    BY <2>1, <2>3, Configuration DEF Options
  <2> QED BY <2>2, <2>3
<1>6. DOMAIN options = 1 .. Len(options) /\ Len(options) \in Nat
  BY LenProperties
<1>7. PICK i \in 1 .. Len(options) : i = Min(Offered(e))
  <2>1. Offered(e) \subseteq 1 .. Len(options)
    BY <1>5, <1>6 DEF Offered
  <2>2. Offered(e) \subseteq Nat
    BY <1>6, <2>1
  <2>3. Min(Offered(e)) \in Offered(e)
    BY <2>2, LeastOf
  <2> QED BY <2>1, <2>3
<1>8. options[i] \in Option
  BY ElementOfSeq
<1>9. options[i].skill_key \in Skills
  BY <1>8
<1> QED BY <1>1, <1>3, <1>5, <1>7, <1>9 DEF NextSkill

LEMMA FinishCastingType ==
  ASSUME TypeInv, NEW e \in Entities, NEW s \in Skills, FinishCasting(e, s)
  PROVE  /\ finished_casting_skills' \in [Entities -> Seq(Skills)]
         /\ \A x \in Entities :
               finished_casting_skills'[x] = IF x = e THEN Append(finished_casting_skills[e], s)
                                             ELSE finished_casting_skills[x]
         /\ failed' \in BOOLEAN
         /\ on_cooldown' \in [Skills -> Nat]
         /\ \A p \in Skills : on_cooldown'[p] <= cooldown[p]
<1>1. PICK ended \in Seq(Skills) : ended = finished_casting_skills[e]
  BY DEF TypeInv, CastOK
<1>2. Append(ended, s) \in Seq(Skills)
  BY AppendProperties
<1>3. finished_casting_skills' = [finished_casting_skills EXCEPT ![e] = Append(ended, s)]
  BY <1>1 DEF FinishCasting
<1>4. finished_casting_skills \in [Entities -> Seq(Skills)]
  BY DEF TypeInv, CastOK
<1>5. finished_casting_skills' \in [Entities -> Seq(Skills)]
  BY <1>2, <1>3, <1>4
<1>6. \A x \in Entities :
         finished_casting_skills'[x] = IF x = e THEN Append(ended, s)
                                       ELSE finished_casting_skills[x]
  BY <1>3, <1>4
<1>7. PICK paying : /\ failed' = (\E p \in paying : on_cooldown[p] > 0)
                    /\ on_cooldown' = [p \in Skills |->
                          IF p \in paying /\ on_cooldown[p] = 0 THEN cooldown[p]
                          ELSE on_cooldown[p]]
  BY DEF FinishCasting
<1>8. \A p \in Skills :
         cooldown[p] \in Nat /\ on_cooldown[p] \in Nat /\ on_cooldown[p] <= cooldown[p]
  BY Configuration DEF TypeInv, CastOK
<1>9. failed' \in BOOLEAN
  BY <1>7
<1>10. on_cooldown' \in [Skills -> Nat] /\ \A p \in Skills : on_cooldown'[p] <= cooldown[p]
  <2>1. \A p \in Skills : on_cooldown'[p] \in {cooldown[p], on_cooldown[p]}
    BY <1>7
  <2>2. \A p \in Skills : on_cooldown'[p] \in Nat /\ on_cooldown'[p] <= cooldown[p]
    BY <1>8, <2>1
  <2> QED BY <1>7, <2>2
<1> QED BY <1>1, <1>5, <1>6, <1>9, <1>10

LEMMA NextUnhookedIs ==
  ASSUME TypeInv, NEW e \in Entities, Unhooked(e) # {}
  PROVE  /\ NextUnhooked(e) \in Skills
         /\ \E i \in DOMAIN finished_casting_skills[e] :
               /\ finished_casting_skills[e][i] = NextUnhooked(e)
               /\ <<e, finished_casting_skills[e][i]>> \notin already_finished_casting_skill
<1>1. PICK ended \in Seq(Skills) : ended = finished_casting_skills[e]
  BY DEF TypeInv, CastOK
<1>2. Len(ended) \in Nat /\ DOMAIN ended = 1 .. Len(ended)
  BY LenProperties
<1>3. Unhooked(e) \subseteq Nat
  BY <1>1, <1>2 DEF Unhooked
<1>4. PICK i : i = Min(Unhooked(e))
  OBVIOUS
<1>5. i \in Unhooked(e)
  BY <1>3, <1>4, LeastOf
<1>6. /\ i \in 1 .. Len(ended) /\ <<e, ended[i]>> \notin already_finished_casting_skill
      /\ NextUnhooked(e) = ended[i]
  BY <1>1, <1>2, <1>4, <1>5 DEF Unhooked, NextUnhooked
<1>7. ended[i] \in Skills
  BY <1>6, ElementOfSeq
<1> QED BY <1>1, <1>2, <1>6, <1>7

-----------------------------------------------------------------------------
(* The types, action by action. *)

LEMMA InitType == Init => TypeInv
<1> SUFFICES ASSUME Init PROVE TypeInv
  OBVIOUS
<1>1. <<>> \in Seq(Skills) /\ <<>> \in Seq(CastOf)
  BY EmptySeq
<1>2. MaxCastTime \in Nat /\ Len(rotation) \in Nat
  BY MaxCastTimeType DEF Init
<1>3. TurnOK
  BY <1>1, <1>2 DEF Init, TurnOK
<1>4. LoopOK
  BY DEF Init, LoopOK, Living, Phases, Actor
<1>5. CastOK
  BY <1>1, Configuration DEF Init, CastOK
<1>6. ChildrenOK
  BY DEF Init, ChildrenOK
<1>7. BundleOK
  BY DEF Init, BundleOK, Held
<1>8. GoneOK
  BY DEF Init, GoneOK, Entities
<1> QED BY <1>3, <1>4, <1>5, <1>6, <1>7, <1>8 DEF TypeInv

LEMMA SkipRotationType ==
  ASSUME TypeInv, NEW e \in Entities, SkipRotation(e) \/ LeaveFinishedCasts(e)
  PROVE  TypeInv'
<1> USE DEF SkipRotation, LeaveFinishedCasts, Visit, In, children, rotations, turn, animations,
            finished, hooks, equipment
<1>1. TurnOK'
  BY DEF TypeInv, TurnOK, MaxCastTime
<1>2. LoopOK'
  BY DEF TypeInv, LoopOK, Living
<1>3. CastOK' /\ ChildrenOK' /\ BundleOK' /\ GoneOK'
  BY DEF TypeInv, CastOK, ChildrenOK, BundleOK, GoneOK
<1> QED BY <1>1, <1>2, <1>3 DEF TypeInv

LEMMA EndRotationType ==
  ASSUME TypeInv, NEW e \in Entities, EndRotation(e) \/ RotationThrows(e)
  PROVE  TypeInv'
<1> USE DEF EndRotation, RotationThrows, Perform, Visit, In, children, turn, hooks, equipment
<1>1. TurnOK'
  BY DEF TypeInv, TurnOK, MaxCastTime
<1>2. LoopOK'
  BY DEF TypeInv, LoopOK, Living
<1>3. CastOK' /\ ChildrenOK' /\ BundleOK' /\ GoneOK'
  BY DEF TypeInv, CastOK, ChildrenOK, BundleOK, GoneOK
<1> QED BY <1>1, <1>2, <1>3 DEF TypeInv

LEMMA WaitRotationType ==
  ASSUME TypeInv, NEW e \in Entities, WaitRotation(e)
  PROVE  TypeInv'
<1> USE DEF WaitRotation, Perform, Visit, In, children, hooks, equipment
<1>1. TurnOK'
  <2>1. 0 \in 0 .. Len(rotation) /\ 0 \in 0 .. MaxCastTime
    BY MaxCastTimeType DEF TypeInv, TurnOK
  <2>2. NextIdx(e) \in {0, current_idx} /\ NextElapsed(e) \in {0, elapsed}
    BY DEF NextIdx, NextElapsed
  <2> QED BY <2>1, <2>2 DEF TypeInv, TurnOK, MaxCastTime
<1>2. LoopOK'
  BY DEF TypeInv, LoopOK, Living
<1>3. CastOK' /\ ChildrenOK' /\ BundleOK' /\ GoneOK'
  BY DEF TypeInv, CastOK, ChildrenOK, BundleOK, GoneOK
<1> QED BY <1>1, <1>2, <1>3 DEF TypeInv

LEMMA StartCastType ==
  ASSUME TypeInv, NEW e \in Entities, StartCast(e)
  PROVE  TypeInv'
<1> USE DEF StartCast, Perform, Visit, In, children, hooks, equipment
<1>1. PICK s \in Skills : s = NextSkill(e)
  BY NextSkillType DEF CanStart
<1>2. ~HasQueued(e) => NextIdx(e) + 1 \in 1 .. Len(rotation)
  BY NextSkillType DEF CanStart
<1>3. e \in Living
  BY DEF TypeInv, LoopOK
<1>4. TurnOK'
  <2>1. queued_rotation' \in [Entities -> Seq(Skills)]
    <3>1. PICK queue \in Seq(Skills) : queue = queued_rotation[e]
      BY DEF TypeInv, TurnOK
    <3>2. Popped(queue) \in Seq(Skills)
      BY HeadTailProperties DEF Popped
    <3>3. queued_rotation' = [queued_rotation EXCEPT ![e] = Popped(queue)]
      BY <3>1
    <3> QED BY <3>2, <3>3 DEF TypeInv, TurnOK
  <2>2. current_idx' \in 0 .. Len(rotation)
    BY <1>2, MaxCastTimeType DEF TypeInv, TurnOK
  <2>3. elapsed' \in 0 .. MaxCastTime
    BY MaxCastTimeType DEF NextElapsed, TypeInv, TurnOK
  <2> QED BY <2>1, <2>2, <2>3 DEF TypeInv, TurnOK, MaxCastTime
<1>5. /\ animation' \in [Entities -> CastOf \cup {Nobody}]
      /\ \A x \in Entities \ {e} : animation'[x] = animation[x]
  <2>1. [skill |-> s, left |-> cast_duration[s]] \in CastOf
    BY Configuration DEF CastOf
  <2> HIDE DEF CastOf
  <2>2. CASE cast_duration[s] = 0
    BY <1>1, <2>2 DEF TypeInv, CastOK
  <2>3. CASE cast_duration[s] # 0
    <3>1. animation' = [animation EXCEPT ![e] = [skill |-> s, left |-> cast_duration[s]]]
      BY <1>1, <2>3
    <3> QED BY <2>1, <3>1 DEF TypeInv, CastOK
  <2> QED BY <2>2, <2>3
<1>6. /\ casting' \in [Entities -> Seq(CastOf)]
      /\ \A x \in Entities \ {e} : casting'[x] = casting[x]
  <2>1. PICK casts \in Seq(CastOf) : casts = casting[e]
    BY DEF TypeInv, CastOK
  <2>2. [skill |-> s, left |-> active_ticks[s]] \in CastOf
    BY Configuration DEF CastOf
  <2> HIDE DEF CastOf
  <2>3. Append(casts, [skill |-> s, left |-> active_ticks[s]]) \in Seq(CastOf)
    BY <2>2, AppendProperties
  <2>4. casting' = [casting EXCEPT ![e] = Append(casts, [skill |-> s, left |-> active_ticks[s]])]
    BY <1>1, <2>1
  <2> QED BY <2>3, <2>4 DEF TypeInv, CastOK
<1>7. /\ finished_casting_skills' \in [Entities -> Seq(Skills)]
      /\ \A x \in Entities \ {e} : finished_casting_skills'[x] = finished_casting_skills[x]
      /\ failed' \in BOOLEAN /\ on_cooldown' \in [Skills -> Nat]
      /\ \A p \in Skills : on_cooldown'[p] <= cooldown[p]
  <2>1. CASE cast_duration[s] = 0
    <3>1. FinishCasting(e, s)
      BY <1>1, <2>1
    <3> QED BY <3>1, FinishCastingType
  <2>2. CASE cast_duration[s] # 0
    BY <1>1, <2>2 DEF TypeInv, CastOK, LoopOK
  <2> QED BY <2>1, <2>2
<1>8. LoopOK'
  BY <1>7 DEF TypeInv, LoopOK, Living
<1>9. CastOK'
  BY <1>5, <1>6, <1>7 DEF TypeInv, CastOK
<1>10. ChildrenOK' /\ BundleOK'
  BY DEF TypeInv, ChildrenOK, BundleOK
<1>11. GoneOK'
  <2> SUFFICES ASSUME NEW x \in Children \ alive PROVE
        /\ queued_rotation'[x] = <<>> /\ animation'[x] = Nobody
        /\ casting'[x] = <<>> /\ finished_casting_skills'[x] = <<>>
        /\ bundle'[x] = Nothing /\ equipped_bundle'[x] = Nothing
        /\ dropped_bundle'[x] = Nothing /\ audited_bundle'[x] = Nothing
    BY DEF GoneOK
  <2>1. x \in Entities \ {e}
    BY <1>3, Configuration DEF Living, Entities, Children, Actor
  <2>2. queued_rotation'[x] = queued_rotation[x]
    BY <2>1 DEF TypeInv, TurnOK
  <2> QED BY <1>5, <1>6, <1>7, <2>1, <2>2 DEF TypeInv, GoneOK
<1> QED BY <1>4, <1>8, <1>9, <1>10, <1>11 DEF TypeInv

LEMMA ProgressAnimationType ==
  ASSUME TypeInv, NEW e \in Entities, ProgressAnimation(e)
  PROVE  TypeInv'
<1> USE DEF ProgressAnimation, Visit, In, children, rotations, turn, hooks, equipment
<1>1. PICK cast \in CastOf : cast = animation[e]
  BY DEF TypeInv, LoopOK, CastOK
<1>2. e \in Living
  BY DEF TypeInv, LoopOK
<1>3. /\ animation' \in [Entities -> CastOf \cup {Nobody}]
      /\ \A x \in Entities \ {e} : animation'[x] = animation[x]
  <2>1. [cast EXCEPT !.left = cast.left - 1] \in CastOf
    BY DEF CastOf
  <2>2. animation' = [animation EXCEPT ![e] = [cast EXCEPT !.left = cast.left - 1]]
    BY <1>1
  <2> HIDE DEF CastOf
  <2> QED BY <2>1, <2>2 DEF TypeInv, CastOK
<1>4. /\ finished_casting_skills' \in [Entities -> Seq(Skills)]
      /\ \A x \in Entities \ {e} : finished_casting_skills'[x] = finished_casting_skills[x]
      /\ failed' \in BOOLEAN /\ on_cooldown' \in [Skills -> Nat]
      /\ \A p \in Skills : on_cooldown'[p] <= cooldown[p]
      /\ animation_expired' \subseteq Entities
  <2>1. CASE animation[e].left = 1
    <3>1. PICK s \in Skills : s = animation[e].skill
      BY <1>1 DEF CastOf
    <3>2. FinishCasting(e, s)
      BY <2>1, <3>1
    <3>3. animation_expired' \subseteq Entities
      BY <2>1 DEF TypeInv, CastOK
    <3> QED BY <3>2, <3>3, FinishCastingType
  <2>2. CASE animation[e].left # 1
    BY <2>2 DEF TypeInv, CastOK, LoopOK
  <2> QED BY <2>1, <2>2
<1>5. TurnOK'
  BY DEF TypeInv, TurnOK, MaxCastTime
<1>6. LoopOK'
  <2>1. \A x \in todo' : animation'[x] # Nobody
    BY <1>3 DEF TypeInv, LoopOK, Living, Entities
  <2> QED BY <1>4, <2>1 DEF TypeInv, LoopOK, Living
<1>7. CastOK'
  BY <1>3, <1>4 DEF TypeInv, CastOK
<1>8. ChildrenOK' /\ BundleOK'
  BY DEF TypeInv, ChildrenOK, BundleOK
<1>9. GoneOK'
  <2> SUFFICES ASSUME NEW x \in Children \ alive PROVE
        /\ queued_rotation'[x] = <<>> /\ animation'[x] = Nobody
        /\ casting'[x] = <<>> /\ finished_casting_skills'[x] = <<>>
        /\ bundle'[x] = Nothing /\ equipped_bundle'[x] = Nothing
        /\ dropped_bundle'[x] = Nothing /\ audited_bundle'[x] = Nothing
    BY DEF GoneOK
  <2>1. x \in Entities \ {e}
    BY <1>2, Configuration DEF Living, Entities, Children, Actor
  <2> QED BY <1>3, <1>4, <2>1 DEF TypeInv, GoneOK
<1> QED BY <1>5, <1>6, <1>7, <1>8, <1>9 DEF TypeInv

LEMMA PassType ==
  ASSUME TypeInv, EndRotationPass \/ EndAnimationPass \/ EndRound
  PROVE  TypeInv'
<1> USE DEF EndRotationPass, EndAnimationPass, EndRound, In, children, rotations, turn,
            animations, finished, hooks, equipment
<1>1. TurnOK'
  BY DEF TypeInv, TurnOK, MaxCastTime
<1>2. \A e \in Entities :
        animation[e] # Nobody \/ finished_casting_skills[e] # <<>> => e \in Living
  BY DEF TypeInv, GoneOK, Living, Entities
<1>3. LoopOK'
  BY <1>2 DEF TypeInv, LoopOK, Living, Phases
<1>4. CastOK' /\ ChildrenOK' /\ BundleOK' /\ GoneOK'
  BY DEF TypeInv, CastOK, ChildrenOK, BundleOK, GoneOK
<1> QED BY <1>1, <1>3, <1>4 DEF TypeInv

LEMMA HookThrowsType ==
  ASSUME TypeInv, NEW e \in Entities, HookThrows(e)
  PROVE  TypeInv'
<1> USE DEF HookThrows, In, loop, children, rotations, turn, animations, finished, hooks, equipment
<1>1. TurnOK'
  BY DEF TypeInv, TurnOK, MaxCastTime
<1>2. LoopOK'
  BY DEF TypeInv, LoopOK, Living
<1>3. CastOK' /\ ChildrenOK' /\ BundleOK' /\ GoneOK'
  BY DEF TypeInv, CastOK, ChildrenOK, BundleOK, GoneOK
<1> QED BY <1>1, <1>2, <1>3 DEF TypeInv

LEMMA EquipType ==
  ASSUME TypeInv, NEW e \in Entities, NEW s \in Skills, Equip(e, s), ~CannotEquip(e, s)
  PROVE  /\ bundle' \in Held /\ equipped_bundle' \in Held /\ dropped_bundle' \in Held
         /\ audited_bundle' = audited_bundle /\ current_weapon_set' \in {1, 2}
         /\ \A x \in Entities \ {e} : /\ bundle'[x] = bundle[x]
                                      /\ equipped_bundle'[x] = equipped_bundle[x]
                                      /\ dropped_bundle'[x] = dropped_bundle[x]
<1>1. BundleAfter(e, s) \in Bundles \cup {Nothing} /\ equip_bundle[s] \in Bundles \cup {Nothing}
  BY Configuration DEF BundleAfter, TypeInv, BundleOK, Held
<1>2. bundle \in Held /\ equipped_bundle \in Held /\ dropped_bundle \in Held
  BY DEF TypeInv, BundleOK
<1>3. /\ bundle' \in Held
      /\ \A x \in Entities \ {e} : bundle'[x] = bundle[x]
  BY <1>1, <1>2 DEF Equip, Held
<1>4. /\ equipped_bundle' \in Held
      /\ \A x \in Entities \ {e} : equipped_bundle'[x] = equipped_bundle[x]
  BY <1>1, <1>2 DEF Equip, Held
<1>5. /\ dropped_bundle' \in Held
      /\ \A x \in Entities \ {e} : dropped_bundle'[x] = dropped_bundle[x]
  BY <1>1, <1>2 DEF Equip, Held
<1>6. audited_bundle' = audited_bundle /\ current_weapon_set' \in {1, 2}
  BY DEF Equip, SetAfter, TypeInv, BundleOK
<1> QED BY <1>3, <1>4, <1>5, <1>6

LEMMA HookFinishedCastType ==
  ASSUME TypeInv, NEW e \in Entities, HookFinishedCast(e)
  PROVE  TypeInv'
<1> USE DEF HookFinishedCast, In, animations
<1>1. PICK s \in Skills : s = NextUnhooked(e)
  BY NextUnhookedIs
<1>2. e \in Living
  BY DEF TypeInv, LoopOK
<1>3. PICK more \in Seq(Seq(Skills)) :
        more = IF child_skill_keys[s] = <<>> THEN <<>> ELSE <<child_skill_keys[s]>>
  <2>1. PICK keys \in Seq(Skills) : keys = child_skill_keys[s]
    BY Configuration
  <2>2. <<>> \in Seq(Seq(Skills)) /\ <<keys>> \in Seq(Seq(Skills))
    BY <2>1
  <2> QED BY <2>1, <2>2
<1>4. PICK set, held : Fire("finished", s, more, set, held)
  BY <1>1, <1>3
<1>5. /\ alive \subseteq alive' /\ alive' \subseteq Children
      /\ queued_rotation' \in [Entities -> Seq(Skills)]
      /\ \A x \in Children \ alive' : queued_rotation'[x] = queued_rotation[x]
      /\ skills_of' \in [Children -> SUBSET Skills]
      /\ already_triggered' \subseteq skill_triggers \X Entities
  BY <1>4, FireType
<1>6. /\ bundle' \in Held /\ equipped_bundle' \in Held /\ dropped_bundle' \in Held
      /\ audited_bundle' = audited_bundle /\ current_weapon_set' \in {1, 2}
      /\ \A x \in Entities \ {e} : /\ bundle'[x] = bundle[x]
                                   /\ equipped_bundle'[x] = equipped_bundle[x]
                                   /\ dropped_bundle'[x] = dropped_bundle[x]
  BY <1>1, EquipType
<1>7. TurnOK'
  BY <1>5 DEF TypeInv, TurnOK, MaxCastTime
<1>8. LoopOK'
  BY <1>5 DEF TypeInv, LoopOK, Living
<1>9. CastOK'
  BY <1>1 DEF TypeInv, CastOK
<1>10. ChildrenOK' /\ BundleOK'
  BY <1>5, <1>6 DEF TypeInv, ChildrenOK, BundleOK
<1>11. GoneOK'
  <2> SUFFICES ASSUME NEW x \in Children \ alive' PROVE
        /\ queued_rotation'[x] = <<>> /\ animation'[x] = Nobody
        /\ casting'[x] = <<>> /\ finished_casting_skills'[x] = <<>>
        /\ bundle'[x] = Nothing /\ equipped_bundle'[x] = Nothing
        /\ dropped_bundle'[x] = Nothing /\ audited_bundle'[x] = Nothing
    BY DEF GoneOK
  <2>1. x \in Children \ alive /\ x \in Entities \ {e}
    BY <1>2, <1>5, Configuration DEF Living, Entities, Children, Actor
  <2> QED BY <1>5, <1>6, <2>1 DEF TypeInv, GoneOK
<1> QED BY <1>7, <1>8, <1>9, <1>10, <1>11 DEF TypeInv

LEMMA HookStrikeType ==
  ASSUME TypeInv, NEW strike, HookStrike(strike)
  PROVE  TypeInv'
<1> USE DEF HookStrike, In, loop, animations, finished, equipment
<1>1. <<>> \in Seq(Seq(Skills))
  OBVIOUS
<1>2. PICK by, set, held : Fire("strike", by, <<>>, set, held)
  OBVIOUS
<1>3. /\ alive \subseteq alive' /\ alive' \subseteq Children
      /\ queued_rotation' \in [Entities -> Seq(Skills)]
      /\ \A x \in Children \ alive' : queued_rotation'[x] = queued_rotation[x]
      /\ skills_of' \in [Children -> SUBSET Skills]
      /\ already_triggered' \subseteq skill_triggers \X Entities
  BY <1>1, <1>2, FireType
<1>4. TurnOK'
  BY <1>3 DEF TypeInv, TurnOK, MaxCastTime
<1>5. LoopOK'
  BY <1>3 DEF TypeInv, LoopOK, Living
<1>6. CastOK' /\ ChildrenOK' /\ BundleOK'
  BY <1>3 DEF TypeInv, CastOK, ChildrenOK, BundleOK
<1>7. GoneOK'
  BY <1>3 DEF TypeInv, GoneOK
<1> QED BY <1>4, <1>5, <1>6, <1>7 DEF TypeInv

LEMMA PerformSkillsType ==
  ASSUME TypeInv, PerformSkills
  PROVE  TypeInv'
<1> USE DEF PerformSkills, In, children, rotations, turn, animations, finished, equipment
<1>1. TurnOK'
  BY DEF TypeInv, TurnOK, MaxCastTime
<1>2. LoopOK'
  BY DEF TypeInv, LoopOK, Living, Phases
<1>3. ASSUME NEW e \in Entities
      PROVE  casting'[e] \in Seq(CastOf) /\ (casting[e] = <<>> => casting'[e] = <<>>)
  <2>1. PICK casts \in Seq(CastOf) : casts = casting[e]
    BY DEF TypeInv, CastOK
  <2>2. PICK n \in Nat : n = Len(casts) /\ DOMAIN casts = 1 .. n
    BY LenProperties
  <2>3. casting'[e] = [i \in 1 .. n |-> [casts[i] EXCEPT !.left = casts[i].left - 1]]
    BY <2>1, <2>2
  <2>4. \A i \in 1 .. n : [casts[i] EXCEPT !.left = casts[i].left - 1] \in CastOf
    <3> TAKE i \in 1 .. n
    <3>1. PICK cast \in CastOf : cast = casts[i]
      BY <2>2, ElementOfSeq
    <3>2. [cast EXCEPT !.left = cast.left - 1] \in CastOf
      BY DEF CastOf
    <3> QED BY <3>1, <3>2
  <2>5. casting'[e] \in Seq(CastOf)
    <3> HIDE DEF CastOf
    <3>1. PICK f \in [1 .. n -> CastOf] : f = casting'[e]
      BY <2>3, <2>4
    <3>2. f \in Seq(CastOf)
      OBVIOUS
    <3> QED BY <3>1, <3>2
  <2>6. casting[e] = <<>> => casting'[e] = <<>>
    <3> SUFFICES ASSUME casting[e] = <<>> PROVE casting'[e] = <<>>
      OBVIOUS
    <3>1. n = 0
      BY <2>1, <2>2, EmptySeq
    <3>2. casting'[e] \in Seq(CastOf) /\ Len(casting'[e]) = 0
      BY <2>3, <2>5, <3>1
    <3> QED BY <3>2, EmptySeq
  <2> QED BY <2>5, <2>6
<1>4. casting' \in [Entities -> Seq(CastOf)]
  BY <1>3
<1>5. CastOK' /\ ChildrenOK' /\ BundleOK'
  BY <1>4 DEF TypeInv, CastOK, ChildrenOK, BundleOK
<1>6. GoneOK'
  BY <1>3 DEF TypeInv, GoneOK, Entities
<1> QED BY <1>1, <1>2, <1>5, <1>6 DEF TypeInv

LEMMA EndTickType ==
  ASSUME TypeInv, EndTick
  PROVE  TypeInv'
<1> USE DEF EndTick, In
<1>1. PICK gone : gone = OutOfRotation
  OBVIOUS
<1>2. gone \subseteq alive /\ alive' = alive \ gone
  BY <1>1 DEF OutOfRotation
<1>3. TurnOK'
  <2>1. queued_rotation' = [e \in Entities |-> IF e \in gone THEN <<>> ELSE queued_rotation[e]]
    BY <1>1
  <2>2. queued_rotation' \in [Entities -> Seq(Skills)]
    BY <2>1 DEF TypeInv, TurnOK
  <2>3. elapsed' \in 0 .. MaxCastTime
    <3>1. elapsed \in Nat /\ elapsed <= MaxCastTime /\ MaxCastTime \in Nat
      BY MaxCastTimeType DEF TypeInv, TurnOK
    <3>2. {elapsed + 1, MaxCastTime} \subseteq Nat
      BY <3>1
    <3>3. PICK m : m = Min({elapsed + 1, MaxCastTime})
      OBVIOUS
    <3>4. m \in {elapsed + 1, MaxCastTime} /\ m <= MaxCastTime
      BY <3>2, <3>3, LeastOf
    <3> QED BY <3>1, <3>3, <3>4
  <2> QED BY <2>2, <2>3 DEF TypeInv, TurnOK, MaxCastTime
<1>4. LoopOK'
  BY <1>1, <1>2 DEF TypeInv, LoopOK, Living, Phases
<1>5. /\ casting' \in [Entities -> Seq(CastOf)]
      /\ \A e \in Entities : casting[e] = <<>> => casting'[e] = <<>>
  <2>1. \A e \in Entities : casting[e] \in Seq(CastOf)
    BY DEF TypeInv, CastOK
  <2>2. \A e \in Entities :
          StillActive(e) \in Seq(CastOf) /\ (casting[e] = <<>> => StillActive(e) = <<>>)
    BY <2>1, StillActiveType
  <2>3. casting' = [e \in Entities |-> StillActive(e)]
    OBVIOUS
  <2> QED BY <2>2, <2>3
<1>6. CastOK'
  <2>1. animation' \in [Entities -> CastOf \cup {Nobody}]
    BY <1>1 DEF TypeInv, CastOK
  <2>2. finished_casting_skills' \in [Entities -> Seq(Skills)]
    OBVIOUS
  <2>3. /\ on_cooldown' \in [Skills -> Nat]
        /\ \A s \in Skills : on_cooldown'[s] <= cooldown[s]
    <3>1. \A s \in Skills : /\ on_cooldown[s] \in Nat /\ on_cooldown[s] <= cooldown[s]
                            /\ cooldown[s] \in Nat
      BY Configuration DEF TypeInv, CastOK
    <3>2. on_cooldown' = [s \in Skills |-> IF on_cooldown[s] = 0 THEN 0 ELSE on_cooldown[s] - 1]
      OBVIOUS
    <3>3. \A s \in Skills : on_cooldown'[s] \in Nat /\ on_cooldown'[s] <= cooldown[s]
      BY <3>1, <3>2
    <3> QED BY <3>2, <3>3
  <2> QED BY <1>5, <2>1, <2>2, <2>3 DEF TypeInv, CastOK
<1>7. ChildrenOK'
  <2>1. skills_of' \in [Children -> SUBSET Skills]
    BY DEF TypeInv, ChildrenOK
  <2> QED BY <1>2, <2>1 DEF TypeInv, ChildrenOK
<1>8. \A e \in Entities : Replayed(e) \in Bundles \cup {Nothing}
  BY DEF Replayed, TypeInv, BundleOK, Held
<1>9. BundleOK'
  <2>1. audited_bundle' \in Held
    BY <1>8 DEF Held
  <2>2. bundle' \in Held /\ equipped_bundle' \in Held /\ dropped_bundle' \in Held
    BY DEF TypeInv, BundleOK, Held
  <2> QED BY <2>1, <2>2 DEF TypeInv, BundleOK
<1>10. GoneOK'
  <2> SUFFICES ASSUME NEW x \in Children \ alive' PROVE
        /\ queued_rotation'[x] = <<>> /\ animation'[x] = Nobody
        /\ casting'[x] = <<>> /\ finished_casting_skills'[x] = <<>>
        /\ bundle'[x] = Nothing /\ equipped_bundle'[x] = Nothing
        /\ dropped_bundle'[x] = Nothing /\ audited_bundle'[x] = Nothing
    BY DEF GoneOK
  <2>1. x \in Entities /\ (x \in gone \/ x \in Children \ alive)
    BY <1>2 DEF Entities
  <2>2. finished_casting_skills'[x] = <<>> /\ equipped_bundle'[x] = Nothing
        /\ dropped_bundle'[x] = Nothing
    BY <2>1
  <2>3. queued_rotation'[x] = <<>> /\ animation'[x] = Nobody /\ bundle'[x] = Nothing
    BY <1>1, <2>1 DEF TypeInv, GoneOK
  <2>4. casting'[x] = <<>>
    BY <1>1, <1>5, <2>1 DEF OutOfRotation, TypeInv, GoneOK
  <2>5. audited_bundle'[x] = Nothing
    <3>1. x \notin gone => Replayed(x) = Nothing
      BY <2>1 DEF Replayed, TypeInv, GoneOK
    <3> QED BY <1>1, <2>1, <3>1
  <2> QED BY <2>2, <2>3, <2>4, <2>5
<1> QED BY <1>3, <1>4, <1>6, <1>7, <1>9, <1>10 DEF TypeInv

LEMMA TypeStep == TypeInv /\ [Next]_vars => TypeInv'
<1> SUFFICES ASSUME TypeInv, [Next]_vars PROVE TypeInv'
  OBVIOUS
<1>1. ASSUME NEW e \in Entities, SkipRotation(e) PROVE TypeInv'
  BY <1>1, SkipRotationType
<1>2. ASSUME NEW e \in Entities, EndRotation(e) PROVE TypeInv'
  BY <1>2, EndRotationType
<1>3. ASSUME NEW e \in Entities, WaitRotation(e) PROVE TypeInv'
  BY <1>3, WaitRotationType
<1>4. ASSUME NEW e \in Entities, StartCast(e) PROVE TypeInv'
  BY <1>4, StartCastType
<1>5. ASSUME NEW e \in Entities, RotationThrows(e) PROVE TypeInv'
  BY <1>5, EndRotationType
<1>6. ASSUME NEW e \in Entities, ProgressAnimation(e) PROVE TypeInv'
  BY <1>6, ProgressAnimationType
<1>7. ASSUME NEW e \in Entities, HookThrows(e) PROVE TypeInv'
  BY <1>7, HookThrowsType
<1>8. ASSUME NEW e \in Entities, HookFinishedCast(e) PROVE TypeInv'
  BY <1>8, HookFinishedCastType
<1>9. ASSUME NEW e \in Entities, LeaveFinishedCasts(e) PROVE TypeInv'
  BY <1>9, SkipRotationType
<1>10. ASSUME EndRotationPass \/ EndAnimationPass \/ EndRound PROVE TypeInv'
  BY <1>10, PassType
<1>11. ASSUME PerformSkills PROVE TypeInv'
  BY <1>11, PerformSkillsType
<1>12. ASSUME NEW strike, HookStrike(strike) PROVE TypeInv'
  BY <1>12, HookStrikeType
<1>13. ASSUME EndTick PROVE TypeInv'
  BY <1>13, EndTickType
<1>14. ASSUME UNCHANGED vars PROVE TypeInv'
  <2> USE <1>14 DEF vars, loop, children, rotations, turn, animations, finished, hooks, equipment
  <2>1. TurnOK'
    BY DEF TypeInv, TurnOK, MaxCastTime
  <2>2. LoopOK'
    BY DEF TypeInv, LoopOK, Living
  <2>3. CastOK' /\ ChildrenOK' /\ BundleOK' /\ GoneOK'
    BY DEF TypeInv, CastOK, ChildrenOK, BundleOK, GoneOK
  <2> QED BY <2>1, <2>2, <2>3 DEF TypeInv
<1> QED BY <1>1, <1>2, <1>3, <1>4, <1>5, <1>6, <1>7, <1>8, <1>9, <1>10, <1>11, <1>12, <1>13,
           <1>14 DEF Next

LEMMA TypeInvImplies == TypeInv => TypeOK
<1> SUFFICES ASSUME TypeInv PROVE TypeOK
  OBVIOUS
<1>1. phase \in Phases /\ progressed \in BOOLEAN /\ failed \in BOOLEAN /\ alive \subseteq Children
  BY DEF TypeInv, LoopOK, ChildrenOK
<1>2. \A e \in Children \ alive :
         /\ queued_rotation[e] = <<>> /\ animation[e] = Nobody /\ casting[e] = <<>>
         /\ e \notin todo \cup no_more_rotation
  BY Configuration DEF TypeInv, GoneOK, LoopOK, Living, Children, Actor
<1>3. \A e \in Entities :
         /\ queued_rotation[e] \in Seq(Skills) /\ finished_casting_skills[e] \in Seq(Skills)
         /\ animation[e] = Nobody \/ animation[e] \in CastOf
         /\ casting[e] \in Seq(CastOf)
  BY DEF TypeInv, TurnOK, CastOK
<1>4. todo \cup already_performed_rotation \cup already_performed_animation
        \cup animation_expired \cup no_more_rotation \subseteq Entities
  BY <1>1 DEF TypeInv, LoopOK, CastOK, Living, Entities
<1>5. \A s \in Skills : on_cooldown[s] \in 0 .. cooldown[s]
  <2> TAKE s \in Skills
  <2>1. cooldown[s] \in Nat /\ on_cooldown[s] \in Nat /\ on_cooldown[s] <= cooldown[s]
    BY Configuration DEF TypeInv, CastOK
  <2> QED BY <2>1
<1> QED BY <1>1, <1>2, <1>3, <1>4, <1>5
        DEF TypeOK, TypeInv, TurnOK, CastOK, ChildrenOK, BundleOK, Held

LEMMA TypeInvariant == Spec => []TypeInv
<1> QED BY InitType, TypeStep, PTL DEF Spec

\* Whatever triggers and finished casts spawn, in whichever order views visit the actors: what
\* is left of a child actor that was destroyed is gone from the queues, animations and views,
\* and no cooldown is longer than that of its skill (tick, combat_loop.cpp).
THEOREM TypeCorrect == Spec => []TypeOK
<1> QED BY TypeInvariant, TypeInvImplies, PTL

-----------------------------------------------------------------------------
(* Nothing is left undone.  Whether a queued cast can start does not depend  *)
(* on where the rotation is: a queued skill is of no group and needs not     *)
(* wait for its time.                                                        *)

HeadStarts(e) ==
  LET s == Head(queued_rotation[e]) IN
  /\ HasQueued(e) /\ e \notin no_more_rotation
  /\ cast_duration[s] = 0 \/ animation[e] = Nobody
  /\ e = Actor => HasCharge(e, s)

LEMMA CouldIs == TypeInv => \A e \in Living : Could(e) <=> HeadStarts(e)
<1> SUFFICES ASSUME TypeInv, NEW e \in Living, HasQueued(e)
             PROVE  Could(e) <=> HeadStarts(e)
  BY DEF Could, HeadStarts
<1>1. e \in Entities
  BY DEF TypeInv, ChildrenOK, Living, Entities
<1>2. PICK queue \in Seq(Skills) : queue = queued_rotation[e] /\ queue # <<>>
  BY <1>1 DEF TypeInv, TurnOK, HasQueued
<1>3. PICK s \in Skills : s = Head(queue)
  BY <1>2, HeadTailProperties
<1>4. NextCast(e) = [skill |-> s, cast_time_ms |-> 0]
  BY <1>2, <1>3 DEF NextCast
<1>5. Options(e) = <<[skill_key |-> s, weapon_set |-> 0, bundle |-> Nothing]>>
  BY <1>4 DEF Options
<1>6. Offered(e) = {1}
  BY <1>5 DEF Offered, Holds
<1>7. Min(Offered(e)) = 1
  <2>1. {1} \subseteq Nat /\ {1} # {}
    OBVIOUS
  <2>2. Min({1}) \in {1}
    BY <2>1, LeastOf
  <2> QED BY <1>6, <2>2
<1>8. NextSkill(e) = s
  BY <1>5, <1>7 DEF NextSkill
<1>9. Due(e)
  <2>1. NextElapsed(e) \in Nat
    BY MaxCastTimeType DEF NextElapsed, TypeInv, TurnOK
  <2> QED BY <1>4, <2>1 DEF Due
<1> QED BY <1>2, <1>3, <1>6, <1>8, <1>9 DEF Could, HeadStarts, CanStart

LEMMA CouldIsNext == TypeInv' => (\A e \in Living : Could(e) <=> HeadStarts(e))'
<1> QED BY CouldIs, PTL

\* A pass over the rotations.
LEMMA RotationPassKeepsRound ==
  ASSUME TypeInv, TypeInv', Round, NEW e \in Entities,
         SkipRotation(e) \/ EndRotation(e) \/ WaitRotation(e)
  PROVE  Round'
<1> USE DEF SkipRotation, EndRotation, WaitRotation, Perform, Visit, In, children, rotations,
            turn, animations, finished, hooks, equipment
<1>1. /\ phase = "rotations" /\ phase' = "rotations" /\ ~failed
      /\ progressed' = progressed /\ todo' = todo \ {e} /\ Living' = Living
  BY DEF Living
<1> SUFFICES ASSUME ~progressed, NEW x \in Living \ todo' PROVE ~Could(x)'
  BY <1>1, Zenon DEF Round, Waiting
<1>2. \A y \in Living : HeadStarts(y)' => HeadStarts(y)
  BY DEF HeadStarts, HasQueued, HasCharge, DropsBundle
<1>3. ~HeadStarts(x)
  <2>1. CASE x \in todo
    <3>1. x = e
      BY <1>1, <2>1
    <3>2. ~Could(e)
      BY DEF Could, Active, OutOfCasts, CanStart
    <3> QED BY <3>1, <3>2, CouldIs
  <2>2. CASE x \notin todo
    BY <1>1, <2>2, CouldIs DEF Round, Waiting
  <2> QED BY <2>1, <2>2
<1> QED BY <1>1, <1>2, <1>3, CouldIsNext

LEMMA EndRotationPassKeepsRound ==
  ASSUME TypeInv, TypeInv', Round, EndRotationPass
  PROVE  Round'
<1> USE DEF EndRotationPass, In, children, rotations, turn, animations, finished, hooks, equipment
<1>1. /\ phase = "rotations" /\ phase' = "animations" /\ ~failed /\ ~failed'
      /\ progressed' = progressed /\ todo = {} /\ Living' = Living
  BY DEF Living
<1>2. ~progressed => \A x \in Living : ~Could(x)'
  <2>1. \A x \in Living : HeadStarts(x)' => HeadStarts(x)
    BY DEF HeadStarts, HasQueued, HasCharge, DropsBundle
  <2>2. ~progressed => \A x \in Living : ~HeadStarts(x)
    BY <1>1, CouldIs DEF Round, Waiting
  <2> QED BY <1>1, <2>1, <2>2, CouldIsNext
<1>3. \A x \in Living : animation'[x] # Nobody => x \in already_performed_animation' \cup todo'
  BY DEF TypeInv, ChildrenOK, Living, Entities
<1> QED BY <1>1, <1>2, <1>3 DEF Round, Waiting

LEMMA ProgressAnimationKeepsRound ==
  ASSUME TypeInv, Round, NEW e \in Entities, ProgressAnimation(e)
  PROVE  Round'
<1> USE DEF ProgressAnimation, Visit, In, children
<1>1. /\ phase = "animations" /\ phase' = "animations" /\ ~failed
      /\ progressed' = TRUE /\ Living' = Living
  BY DEF Living
<1>2. \A x \in Living : animation'[x] # Nobody => x \in already_performed_animation' \cup todo'
  BY <1>1 DEF Round, TypeInv, CastOK, ChildrenOK, Living, Entities
<1> QED BY <1>1, <1>2 DEF Round

LEMMA EndAnimationPassKeepsRound ==
  ASSUME TypeInv, TypeInv', Round, EndAnimationPass
  PROVE  Round'
<1> USE DEF EndAnimationPass, In, children, rotations, turn, animations, finished, hooks, equipment
<1>1. /\ phase = "animations" /\ phase' = "finished" /\ ~failed /\ ~failed'
      /\ progressed' = progressed /\ todo = {} /\ Living' = Living
  BY DEF Living
<1>2. ~progressed => \A x \in Living : ~Could(x)'
  <2>1. \A x \in Living : HeadStarts(x)' => HeadStarts(x)
    BY DEF HeadStarts, HasQueued, HasCharge, DropsBundle
  <2>2. ~progressed => \A x \in Living : ~HeadStarts(x)
    BY <1>1, CouldIs DEF Round, Waiting
  <2> QED BY <1>1, <2>1, <2>2, CouldIsNext
<1>3. Advanced'
  BY <1>1 DEF Round, Advanced
<1>4. \A x \in Living \ todo' : Unhooked(x)' = {}
  <2> TAKE x \in Living \ todo'
  <2>1. x \in Entities /\ finished_casting_skills[x] = <<>>
    BY DEF TypeInv, ChildrenOK, Living, Entities
  <2>2. DOMAIN finished_casting_skills[x] = {}
    BY <2>1
  <2> QED BY <2>2 DEF Unhooked
<1> QED BY <1>1, <1>2, <1>3, <1>4 DEF Round, Waiting

LEMMA LeaveFinishedCastsKeepsRound ==
  ASSUME TypeInv, TypeInv', Round, NEW e \in Entities, LeaveFinishedCasts(e)
  PROVE  Round'
<1> USE DEF LeaveFinishedCasts, Visit, In, children, rotations, turn, animations, finished, hooks,
            equipment
<1>1. /\ phase = "finished" /\ phase' = "finished" /\ ~failed /\ ~failed'
      /\ progressed' = progressed /\ todo' = todo \ {e} /\ Living' = Living
  BY DEF Living
<1>2. ~progressed => \A x \in Living : ~Could(x)'
  <2>1. \A x \in Living : HeadStarts(x)' => HeadStarts(x)
    BY DEF HeadStarts, HasQueued, HasCharge, DropsBundle
  <2>2. ~progressed => \A x \in Living : ~HeadStarts(x)
    BY <1>1, CouldIs DEF Round, Waiting
  <2> QED BY <1>1, <2>1, <2>2, CouldIsNext
<1>3. Advanced'
  BY <1>1 DEF Round, Advanced
<1>4. \A x \in Living \ todo' : Unhooked(x)' = {}
  <2>1. \A x \in Living : Unhooked(x)' = Unhooked(x)
    BY DEF Unhooked
  <2>2. Unhooked(e) = {} /\ \A x \in Living \ todo : Unhooked(x) = {}
    BY <1>1 DEF Round
  <2> QED BY <1>1, <2>1, <2>2
<1> QED BY <1>1, <1>2, <1>3, <1>4 DEF Round, Waiting

\* The child actors a finished cast spawns have no animation and no finished cast.
LEMMA HookFinishedCastKeepsRound ==
  ASSUME TypeInv, TypeInv', Round, NEW e \in Entities, HookFinishedCast(e)
  PROVE  Round'
<1> USE DEF HookFinishedCast, In, animations
<1>1. /\ phase = "finished" /\ phase' = "finished" /\ ~failed /\ ~failed'
      /\ progressed' = TRUE /\ todo' = todo /\ e \in todo
  OBVIOUS
<1>2. /\ animation' = animation /\ already_performed_animation' = already_performed_animation
      /\ finished_casting_skills' = finished_casting_skills
      /\ already_finished_casting_skill \subseteq already_finished_casting_skill'
  BY Zenon
<1>3. \A x \in Living' \ Living : animation[x] = Nobody /\ finished_casting_skills[x] = <<>>
  BY DEF TypeInv, GoneOK, ChildrenOK, Living
<1>4. Advanced'
  BY <1>1, <1>2, <1>3 DEF Round, Advanced
<1>5. \A x \in Living' \ todo' : Unhooked(x)' = {}
  <2> TAKE x \in Living' \ todo'
  <2>1. Unhooked(x)' \subseteq Unhooked(x)
    BY <1>2 DEF Unhooked
  <2>2. CASE x \in Living
    BY <1>1, <2>1, <2>2 DEF Round
  <2>3. CASE x \notin Living
    <3>1. DOMAIN finished_casting_skills[x] = {}
      BY <1>3, <2>3
    <3>2. Unhooked(x) = {}
      BY <3>1 DEF Unhooked
    <3> QED BY <2>1, <3>2
  <2> QED BY <2>2, <2>3
<1> QED BY <1>1, <1>4, <1>5 DEF Round

LEMMA EndRoundKeepsRound ==
  ASSUME TypeInv, TypeInv', Round, EndRound
  PROVE  Round'
<1> USE DEF EndRound, In, children, rotations, turn, animations, finished, hooks, equipment
<1>1. phase = "finished" /\ ~failed /\ ~failed' /\ todo = {} /\ Living' = Living
  BY DEF Living
<1>2. \A x \in Living : HeadStarts(x)' => HeadStarts(x)
  BY DEF HeadStarts, HasQueued, HasCharge, DropsBundle
<1>3. CASE progressed
  <2>1. phase' = "rotations" /\ todo' = Living \ no_more_rotation
    BY <1>3 DEF Living
  <2>2. \A x \in Living \ todo' : ~HeadStarts(x)'
    BY <2>1 DEF HeadStarts
  <2>3. Waiting'
    BY <1>1, <2>1, <2>2, CouldIsNext DEF Waiting
  <2> QED BY <2>1, <2>3 DEF Round
<1>4. CASE ~progressed
  <2>1. phase' = "ticks"
    BY <1>4
  <2>2. \A x \in Living : ~HeadStarts(x)
    BY <1>1, <1>4, CouldIs DEF Round, Waiting
  <2>3. Waiting'
    BY <1>1, <1>2, <2>2, CouldIsNext DEF Waiting
  <2>4. Advanced'
    BY <1>1 DEF Round, Advanced
  <2>5. \A x \in Living : Unhooked(x)' = {}
    BY <1>1 DEF Round, Unhooked
  <2>6. Hooked'
    BY <1>1, <2>5 DEF Hooked
  <2> QED BY <2>1, <2>3, <2>4, <2>6 DEF Round
<1> QED BY <1>3, <1>4

LEMMA EndTickKeepsRound ==
  ASSUME TypeInv, TypeInv', EndTick
  PROVE  Round'
<1>1. phase' = "rotations" /\ todo' = Living' \ no_more_rotation'
  BY DEF EndTick, Living
<1>2. \A x \in Living' \ todo' : ~HeadStarts(x)'
  BY <1>1 DEF HeadStarts
<1>3. Waiting'
  BY <1>1, <1>2, CouldIsNext DEF Waiting
<1> QED BY <1>1, <1>3 DEF Round

LEMMA RoundStep == TypeInv /\ TypeInv' /\ Round /\ [Next]_vars => Round'
<1> SUFFICES ASSUME TypeInv, TypeInv', Round, [Next]_vars PROVE Round'
  OBVIOUS
<1>1. ASSUME NEW e \in Entities, SkipRotation(e) \/ EndRotation(e) \/ WaitRotation(e)
      PROVE  Round'
  BY <1>1, RotationPassKeepsRound
<1>2. ASSUME NEW e \in Entities, StartCast(e) PROVE Round'
  <2>1. phase' = "rotations" /\ progressed' = TRUE
    BY <1>2 DEF StartCast, Perform, In
  <2> QED BY <2>1 DEF Round
<1>3. ASSUME NEW e \in Entities, RotationThrows(e) \/ HookThrows(e) PROVE Round'
  BY <1>3 DEF RotationThrows, HookThrows, Round
<1>4. ASSUME NEW e \in Entities, ProgressAnimation(e) PROVE Round'
  BY <1>4, ProgressAnimationKeepsRound
<1>5. ASSUME NEW e \in Entities, HookFinishedCast(e) PROVE Round'
  BY <1>5, HookFinishedCastKeepsRound
<1>6. ASSUME NEW e \in Entities, LeaveFinishedCasts(e) PROVE Round'
  BY <1>6, LeaveFinishedCastsKeepsRound
<1>7. ASSUME EndRotationPass PROVE Round'
  BY <1>7, EndRotationPassKeepsRound
<1>8. ASSUME EndAnimationPass PROVE Round'
  BY <1>8, EndAnimationPassKeepsRound
<1>9. ASSUME EndRound PROVE Round'
  BY <1>9, EndRoundKeepsRound
<1>10. ASSUME PerformSkills PROVE Round'
  BY <1>10 DEF PerformSkills, Round
<1>11. ASSUME NEW strike, HookStrike(strike) PROVE Round'
  BY <1>11 DEF HookStrike, In, loop, Round
<1>12. ASSUME EndTick PROVE Round'
  BY <1>12, EndTickKeepsRound
<1>13. ASSUME UNCHANGED vars PROVE Round'
  <2> USE <1>13 DEF vars, loop, children, rotations, turn, animations, finished, equipment
  <2>1. Living' = Living /\ \A x \in Living : HeadStarts(x)' => HeadStarts(x)
    BY DEF Living, HeadStarts, HasQueued, HasCharge, DropsBundle
  <2>2. \A x \in Living : Could(x)' => Could(x)
    BY <2>1, CouldIs, CouldIsNext
  <2>3. Waiting => Waiting'
    BY <2>1, <2>2 DEF Waiting
  <2>4. Advanced => Advanced'
    BY <2>1 DEF Advanced
  <2>5. \A x : Unhooked(x)' = Unhooked(x)
    BY DEF Unhooked
  <2>6. Hooked => Hooked'
    BY <2>1, <2>5 DEF Hooked
  <2> QED BY <2>1, <2>3, <2>4, <2>5, <2>6 DEF Round
<1> QED BY <1>1, <1>2, <1>3, <1>4, <1>5, <1>6, <1>7, <1>8, <1>9, <1>10, <1>11, <1>12, <1>13
        DEF Next

LEMMA RoundInit == Init => Round
<1> QED BY DEF Init, Round, Waiting, Living, Could, HasQueued, Actor, Entities

LEMMA RoundImplies == TypeInv /\ Round => NothingLeftUndone
<1> QED BY DEF Round, Waiting, Advanced, Hooked, Could, NothingLeftUndone, Living

\* The inner loop of tick stops when a round did nothing, and then there is nothing left that it
\* does: no actor that is still in the registry has a finished cast whose hooks have not run, an
\* animation that has not advanced, or a queued cast it could begin (combat_loop.cpp, tick).
THEOREM LoopLeavesNothing == Spec => []NothingLeftUndone
<1>1. Init => TypeInv /\ Round
  BY InitType, RoundInit
<1>2. (TypeInv /\ Round) /\ [Next]_vars => (TypeInv /\ Round)'
  BY TypeStep, RoundStep
<1> QED BY <1>1, <1>2, RoundImplies, PTL DEF Spec

-----------------------------------------------------------------------------
(* The audit lists what was equipped in a tick before what was dropped.  It  *)
(* is right about the bundle in hand as long as no bundle comes back in the  *)
(* tick in which it was dropped.                                             *)

Told == \A e \in Entities : Replayed(e) = bundle[e]

\* No actor equips a bundle in the tick in which it dropped it.
Retakes(e) == bundle[e] = Nothing /\ bundle'[e] # Nothing /\ bundle'[e] = dropped_bundle[e]
NeverRetaken == \A e \in Entities : ~Retakes(e)

LEMMA ToldInit == Init => Told
<1> QED BY DEF Init, Told, Replayed

\* A hook that changes the bundle adds an event to the audit that says so.
LEMMA HookTells ==
  ASSUME TypeInv, Told, NEW e \in Entities, HookFinishedCast(e), ~Retakes(e)
  PROVE  Told'
<1> USE DEF HookFinishedCast
<1>1. PICK s \in Skills : s = NextUnhooked(e)
  BY NextUnhookedIs
<1>2. ~CannotEquip(e, s) /\ Equip(e, s)
  BY <1>1
<1>3. bundle \in Held /\ equipped_bundle \in Held /\ dropped_bundle \in Held
  BY DEF TypeInv, BundleOK
<1>4. /\ audited_bundle' = audited_bundle
      /\ \A x \in Entities \ {e} : /\ bundle'[x] = bundle[x]
                                   /\ equipped_bundle'[x] = equipped_bundle[x]
                                   /\ dropped_bundle'[x] = dropped_bundle[x]
  BY <1>1, <1>2, EquipType
<1>5. \A x \in Entities \ {e} : Replayed(x)' = bundle'[x]
  BY <1>4 DEF Told, Replayed
<1>6. Replayed(e)' = bundle'[e]
  <2>1. /\ bundle'[e] = BundleAfter(e, s)
        /\ equipped_bundle'[e] = IF equip_bundle[s] # Nothing THEN equip_bundle[s]
                                 ELSE equipped_bundle[e]
        /\ dropped_bundle'[e] = IF bundle[e] # Nothing /\ BundleAfter(e, s) = Nothing
                                THEN bundle[e] ELSE dropped_bundle[e]
    BY <1>2, <1>3 DEF Equip, Held
  <2>2. Replayed(e) = bundle[e]
    BY DEF Told
  <2>3. CASE equip_bundle[s] # Nothing
    <3>1. bundle[e] = Nothing
      BY <1>2, <2>3 DEF CannotEquip
    <3>2. /\ bundle'[e] = equip_bundle[s] /\ equipped_bundle'[e] = equip_bundle[s]
          /\ dropped_bundle'[e] = dropped_bundle[e]
      BY <2>1, <2>3, <3>1 DEF BundleAfter
    <3>3. dropped_bundle[e] # equip_bundle[s]
      BY <2>3, <3>1, <3>2 DEF Retakes
    <3> QED BY <2>3, <3>2, <3>3 DEF Replayed
  <2>4. CASE equip_bundle[s] = Nothing /\ bundle[e] # Nothing /\ BundleAfter(e, s) = Nothing
    <3>1. /\ bundle'[e] = Nothing /\ equipped_bundle'[e] = equipped_bundle[e]
          /\ dropped_bundle'[e] = bundle[e]
      BY <2>1, <2>4
    <3> QED BY <1>4, <2>2, <2>4, <3>1 DEF Replayed
  <2>5. CASE equip_bundle[s] = Nothing /\ ~(bundle[e] # Nothing /\ BundleAfter(e, s) = Nothing)
    <3>1. BundleAfter(e, s) = bundle[e]
      BY <2>5 DEF BundleAfter
    <3> QED BY <1>4, <2>1, <2>2, <2>5, <3>1 DEF Replayed
  <2> QED BY <2>3, <2>4, <2>5
<1> QED BY <1>5, <1>6 DEF Told

LEMMA EndTickTells ==
  ASSUME TypeInv, Told, EndTick
  PROVE  Told'
<1> SUFFICES ASSUME NEW e \in Entities PROVE Replayed(e)' = bundle'[e]
  BY DEF Told
<1>1. /\ equipped_bundle'[e] = Nothing /\ dropped_bundle'[e] = Nothing
      /\ audited_bundle'[e] = IF e \in OutOfRotation THEN Nothing ELSE Replayed(e)
      /\ bundle'[e] = IF e \in OutOfRotation THEN Nothing ELSE bundle[e]
  BY DEF EndTick
<1>2. Replayed(e) = bundle[e]
  BY DEF Told
<1> QED BY <1>1, <1>2 DEF Replayed

LEMMA OthersTell ==
  ASSUME Told, UNCHANGED equipment
  PROVE  Told'
<1> QED BY DEF Told, Replayed, equipment

\* Only two actions change what the actors hold.
LEMMA ChangesBundles ==
  ASSUME [Next]_vars
  PROVE  \/ UNCHANGED equipment
         \/ \E e \in Entities : HookFinishedCast(e)
         \/ EndTick
<1>1. \A e \in Entities :
        SkipRotation(e) \/ EndRotation(e) \/ WaitRotation(e) \/ StartCast(e) \/ RotationThrows(e)
          => UNCHANGED equipment
  BY DEF SkipRotation, EndRotation, WaitRotation, StartCast, RotationThrows, Perform
<1>2. \A e \in Entities :
        ProgressAnimation(e) \/ HookThrows(e) \/ LeaveFinishedCasts(e) => UNCHANGED equipment
  BY DEF ProgressAnimation, HookThrows, LeaveFinishedCasts
<1>3. EndRotationPass \/ EndAnimationPass \/ EndRound \/ PerformSkills => UNCHANGED equipment
  BY DEF EndRotationPass, EndAnimationPass, EndRound, PerformSkills
<1>4. \A strike : HookStrike(strike) => UNCHANGED equipment
  BY DEF HookStrike
<1>5. UNCHANGED vars => UNCHANGED equipment
  BY DEF vars
<1> QED BY <1>1, <1>2, <1>3, <1>4, <1>5 DEF Next

LEMMA ToldStep == TypeInv /\ Told /\ [Next]_vars /\ [NeverRetaken]_vars => Told'
<1> SUFFICES ASSUME TypeInv, Told, [Next]_vars, [NeverRetaken]_vars PROVE Told'
  OBVIOUS
<1>1. ASSUME NEW e \in Entities, HookFinishedCast(e) PROVE Told'
  <2>1. CASE NeverRetaken
    BY <1>1, <2>1, HookTells DEF NeverRetaken
  <2>2. CASE UNCHANGED vars
    BY <2>2, OthersTell DEF vars
  <2> QED BY <2>1, <2>2
<1> QED BY <1>1, ChangesBundles, OthersTell, EndTickTells

LEMMA ToldImplies == TypeInv /\ Told => AuditTellsTheBundle
<1> QED BY DEF Told, AuditTellsTheBundle, TypeInv, ChildrenOK, Entities

\* Replaying the bundles equipped and then the bundles dropped of every tick gives the bundle in
\* every actor's hand, whichever casts, drops and Weapon Swaps there were, in every run in which
\* no actor takes a bundle again in the tick in which it dropped it (audit_bundles).
THEOREM AuditTellsUnlessRetaken == Spec /\ [][NeverRetaken]_vars => []AuditTellsTheBundle
<1> QED BY TypeInvariant, ToldInit, ToldStep, ToldImplies, PTL DEF Spec

-----------------------------------------------------------------------------
(* At most one animation of an actor ends in a tick.  Where the skills that  *)
(* change a bundle are animated, the cast that dropped it was the only one.  *)

Ended(e) ==
  {i \in DOMAIN finished_casting_skills[e] : cast_duration[finished_casting_skills[e][i]] > 0}

OneEnds ==
  /\ phase = "animations" => todo \cap already_performed_animation = {}
  /\ \A e \in Entities : \A i, j \in Ended(e) : i = j
  /\ \A e \in Entities : Ended(e) # {} => e \in already_performed_animation

Droppers ==
  \A e \in Entities : dropped_bundle[e] # Nothing =>
    \E i \in Ended(e) : <<e, finished_casting_skills[e][i]>> \in already_finished_casting_skill

LEMMA EndedInit == Init => OneEnds /\ Droppers
<1> QED BY DEF Init, OneEnds, Droppers, Ended

\* What casts that finish add to those that did.
Finishes(e, s) ==
  \A x \in Entities :
    finished_casting_skills'[x] = IF x = e THEN Append(finished_casting_skills[e], s)
                                  ELSE finished_casting_skills[x]

LEMMA EndedGrows ==
  ASSUME TypeInv, NEW e \in Entities, NEW s \in Skills, Finishes(e, s)
  PROVE  /\ \A x \in Entities \ {e} : Ended(x)' = Ended(x)
         /\ \A x \in Entities : \A i \in Ended(x) :
               i \in Ended(x)' /\ finished_casting_skills'[x][i] = finished_casting_skills[x][i]
         /\ \A i \in Ended(e)' : i \in Ended(e) \/ i = Len(finished_casting_skills[e]) + 1
         /\ cast_duration[s] = 0 => Ended(e)' = Ended(e)
<1>1. PICK ended \in Seq(Skills) : ended = finished_casting_skills[e]
  BY DEF TypeInv, CastOK
<1>2. PICK more \in Seq(Skills) : more = Append(ended, s)
  BY AppendProperties
<1>3. PICK n \in Nat : n = Len(ended) /\ DOMAIN ended = 1 .. n
  BY LenProperties
<1>4. /\ DOMAIN more = 1 .. n + 1 /\ more[n + 1] = s
      /\ \A i \in 1 .. n : more[i] = ended[i]
  BY <1>2, <1>3, AppendProperties
<1>5. finished_casting_skills'[e] = more
  BY <1>1, <1>2 DEF Finishes
<1>6. /\ Ended(e) = {i \in 1 .. n : cast_duration[ended[i]] > 0}
      /\ Ended(e)' = {i \in 1 .. n + 1 : cast_duration[more[i]] > 0}
  BY <1>1, <1>3, <1>4, <1>5 DEF Ended
<1>7. \A x \in Entities \ {e} :
         Ended(x)' = Ended(x) /\ finished_casting_skills'[x] = finished_casting_skills[x]
  BY DEF Ended, Finishes
<1>8. \A i \in Ended(e) : i \in Ended(e)' /\ more[i] = ended[i]
  <2>1. \A i \in 1 .. n : i \in 1 .. n + 1
    OBVIOUS
  <2> QED BY <1>4, <1>6, <2>1
<1>9. \A i \in Ended(e)' : i \in Ended(e) \/ i = n + 1
  <2>1. \A i \in 1 .. n + 1 : i \in 1 .. n \/ i = n + 1
    OBVIOUS
  <2> QED BY <1>4, <1>6, <2>1
<1>10. cast_duration[s] = 0 => Ended(e)' = Ended(e)
  <2> SUFFICES ASSUME cast_duration[s] = 0 PROVE Ended(e)' = Ended(e)
    OBVIOUS
  <2>1. n + 1 \notin Ended(e)'
    BY <1>4, <1>6
  <2> QED BY <1>8, <1>9, <2>1
<1> QED BY <1>1, <1>3, <1>5, <1>7, <1>8, <1>9, <1>10

LEMMA FinishingIs ==
  ASSUME TypeInv, NEW e \in Entities, NEW s \in Skills, FinishCasting(e, s)
  PROVE  Finishes(e, s)
<1> QED BY FinishCastingType DEF Finishes

\* Actions in which no cast finishes and no hook runs.
Quiet ==
  /\ finished_casting_skills' = finished_casting_skills
  /\ already_performed_animation' = already_performed_animation
  /\ already_finished_casting_skill' = already_finished_casting_skill
  /\ dropped_bundle' = dropped_bundle
  /\ phase' = "animations" => todo' \cap already_performed_animation = {}

LEMMA QuietKeepsEnded == OneEnds /\ Droppers /\ Quiet => OneEnds' /\ Droppers'
<1> SUFFICES ASSUME OneEnds, Droppers, Quiet PROVE OneEnds' /\ Droppers'
  OBVIOUS
<1>1. \A e \in Entities : Ended(e)' = Ended(e)
  BY DEF Quiet, Ended
<1>2. OneEnds'
  BY <1>1 DEF OneEnds, Quiet
<1>3. Droppers'
  BY <1>1 DEF Droppers, Quiet
<1> QED BY <1>2, <1>3

LEMMA StartCastKeepsEnded ==
  ASSUME TypeInv, OneEnds, Droppers, NEW e \in Entities, StartCast(e)
  PROVE  OneEnds' /\ Droppers'
<1> USE DEF StartCast, Perform, In, equipment
<1>1. PICK s \in Skills : s = NextSkill(e)
  BY NextSkillType DEF CanStart
<1>2. CASE cast_duration[s] = 0
  <2>1. Finishes(e, s)
    BY <1>1, <1>2, FinishingIs
  <2>2. \A x \in Entities : Ended(x)' = Ended(x)
    BY <1>2, <2>1, EndedGrows
  <2>3. \A x \in Entities : \A i \in Ended(x) :
           finished_casting_skills'[x][i] = finished_casting_skills[x][i]
    BY <2>1, EndedGrows
  <2>4. OneEnds'
    BY <2>2 DEF OneEnds
  <2>5. Droppers'
    BY <2>2, <2>3 DEF Droppers
  <2> QED BY <2>4, <2>5
<1>3. CASE cast_duration[s] # 0
  <2>1. Quiet
    BY <1>1, <1>3 DEF Quiet
  <2> QED BY <2>1, QuietKeepsEnded
<1> QED BY <1>2, <1>3

LEMMA ProgressAnimationKeepsEnded ==
  ASSUME TypeInv, OneEnds, Droppers, NEW e \in Entities, ProgressAnimation(e)
  PROVE  OneEnds' /\ Droppers'
<1> USE DEF ProgressAnimation, Visit, In, equipment
<1>1. /\ e \in todo /\ e \notin already_performed_animation
      /\ already_performed_animation' = already_performed_animation \cup {e}
      /\ todo' \cap already_performed_animation' = {}
  BY DEF OneEnds
<1>2. Ended(e) = {}
  BY <1>1 DEF OneEnds
<1>3. CASE animation[e].left = 1
  <2>1. PICK s \in Skills : s = animation[e].skill
    BY DEF TypeInv, LoopOK, CastOK, CastOf
  <2>2. Finishes(e, s)
    BY <1>3, <2>1, FinishingIs
  <2>3. /\ \A x \in Entities \ {e} : Ended(x)' = Ended(x)
        /\ \A x \in Entities : \A i \in Ended(x) :
              i \in Ended(x)' /\ finished_casting_skills'[x][i] = finished_casting_skills[x][i]
        /\ \A i \in Ended(e)' : i = Len(finished_casting_skills[e]) + 1
    BY <1>2, <2>2, EndedGrows
  <2>4. OneEnds'
    BY <1>1, <2>3 DEF OneEnds
  <2>5. Droppers'
    BY <2>3 DEF Droppers
  <2> QED BY <2>4, <2>5
<1>4. CASE animation[e].left # 1
  <2>1. \A x \in Entities : Ended(x)' = Ended(x)
    BY <1>4 DEF Ended
  <2>2. OneEnds'
    BY <1>1, <2>1 DEF OneEnds
  <2>3. Droppers'
    BY <1>4, <2>1 DEF Droppers
  <2> QED BY <2>2, <2>3
<1> QED BY <1>3, <1>4

\* The cast whose hooks run next, and that it is animated when it changes the bundle.
LEMMA ChangingCasts ==
  ASSUME TypeInv, \A s \in Skills : Changes(s) => cast_duration[s] > 0,
         NEW e \in Entities, HookFinishedCast(e), bundle'[e] # bundle[e]
  PROVE  \E i \in Ended(e) :
            /\ <<e, finished_casting_skills[e][i]>> \notin already_finished_casting_skill
            /\ <<e, finished_casting_skills[e][i]>> \in already_finished_casting_skill'
<1> USE DEF HookFinishedCast
<1>1. PICK s \in Skills : s = NextUnhooked(e)
  BY NextUnhookedIs
<1>2. bundle'[e] = BundleAfter(e, s)
  BY <1>1 DEF Equip, TypeInv, BundleOK, Held
<1>3. Changes(s)
  BY <1>2 DEF BundleAfter, DropsBundle, Changes
<1>4. cast_duration[s] > 0
  BY <1>3
<1>5. PICK i \in DOMAIN finished_casting_skills[e] :
         /\ finished_casting_skills[e][i] = s
         /\ <<e, finished_casting_skills[e][i]>> \notin already_finished_casting_skill
  BY <1>1, NextUnhookedIs
<1>6. i \in Ended(e) /\ <<e, s>> \in already_finished_casting_skill'
  BY <1>1, <1>4, <1>5 DEF Ended
<1> QED BY <1>5, <1>6

LEMMA HookKeepsEnded ==
  ASSUME TypeInv, OneEnds, Droppers, \A s \in Skills : Changes(s) => cast_duration[s] > 0,
         NEW e \in Entities, HookFinishedCast(e)
  PROVE  OneEnds' /\ Droppers'
<1> USE DEF HookFinishedCast, In, animations
<1>1. PICK s \in Skills : s = NextUnhooked(e)
  BY NextUnhookedIs
<1>2. \A x \in Entities : Ended(x)' = Ended(x)
  BY DEF Ended
<1>3. /\ finished_casting_skills' = finished_casting_skills
      /\ already_finished_casting_skill \subseteq already_finished_casting_skill'
  BY Zenon
<1>4. OneEnds'
  BY <1>2 DEF OneEnds
<1>5. Droppers'
  <2> SUFFICES ASSUME NEW x \in Entities, dropped_bundle'[x] # Nothing
               PROVE  \E i \in Ended(x) :
                  <<x, finished_casting_skills[x][i]>> \in already_finished_casting_skill'
    BY <1>2, <1>3 DEF Droppers
  <2>1. CASE dropped_bundle'[x] = dropped_bundle[x]
    BY <1>3, <2>1 DEF Droppers
  <2>2. CASE dropped_bundle'[x] # dropped_bundle[x]
    <3>1. x = e
      BY <1>1, <2>2, EquipType
    <3>2. bundle[e] # Nothing /\ bundle'[e] = Nothing
      BY <1>1, <2>2, <3>1 DEF Equip, TypeInv, BundleOK, Held
    <3> QED BY <3>1, <3>2, ChangingCasts
  <2> QED BY <2>1, <2>2
<1> QED BY <1>4, <1>5

LEMMA EndedStep ==
  ASSUME \A s \in Skills : Changes(s) => cast_duration[s] > 0
  PROVE  TypeInv /\ OneEnds /\ Droppers /\ [Next]_vars => OneEnds' /\ Droppers'
<1> SUFFICES ASSUME TypeInv, OneEnds, Droppers, [Next]_vars PROVE OneEnds' /\ Droppers'
  OBVIOUS
<1> USE DEF In, rotations, animations, finished, equipment, loop
<1>1. ASSUME NEW e \in Entities, SkipRotation(e) \/ EndRotation(e) \/ WaitRotation(e)
                                  \/ RotationThrows(e)
      PROVE  Quiet
  BY <1>1 DEF SkipRotation, EndRotation, WaitRotation, RotationThrows, Perform, Quiet
<1>2. ASSUME NEW e \in Entities, HookThrows(e) \/ LeaveFinishedCasts(e) PROVE Quiet
  BY <1>2 DEF HookThrows, LeaveFinishedCasts, Quiet
<1>3. ASSUME EndRotationPass \/ EndAnimationPass \/ EndRound \/ PerformSkills PROVE Quiet
  BY <1>3 DEF EndRotationPass, EndAnimationPass, EndRound, PerformSkills, Quiet
<1>4. ASSUME NEW strike, HookStrike(strike) PROVE Quiet
  BY <1>4 DEF HookStrike, Quiet
<1>5. ASSUME UNCHANGED vars PROVE Quiet
  BY <1>5 DEF vars, Quiet, OneEnds
<1>6. ASSUME EndTick PROVE OneEnds' /\ Droppers'
  <2>1. \A e \in Entities : DOMAIN finished_casting_skills'[e] = {} /\ dropped_bundle'[e] = Nothing
    BY <1>6 DEF EndTick
  <2>2. \A e \in Entities : Ended(e)' = {}
    BY <2>1 DEF Ended
  <2>3. phase' = "rotations"
    BY <1>6 DEF EndTick
  <2> QED BY <2>1, <2>2, <2>3 DEF OneEnds, Droppers
<1> QED BY <1>1, <1>2, <1>3, <1>4, <1>5, <1>6, QuietKeepsEnded, StartCastKeepsEnded,
           ProgressAnimationKeepsEnded, HookKeepsEnded DEF Next

LEMMA NeverRetakes ==
  ASSUME \A s \in Skills : Changes(s) => cast_duration[s] > 0
  PROVE  TypeInv /\ OneEnds /\ Droppers /\ [Next]_vars => NeverRetaken
<1> SUFFICES ASSUME TypeInv, OneEnds, Droppers, [Next]_vars, NEW e \in Entities, Retakes(e)
             PROVE  FALSE
  BY DEF NeverRetaken
<1>1. bundle'[e] # bundle[e] /\ bundle'[e] # Nothing /\ dropped_bundle[e] # Nothing
  BY DEF Retakes
<1>2. ~UNCHANGED equipment /\ ~EndTick
  BY <1>1 DEF equipment, EndTick
<1>3. PICK x \in Entities : HookFinishedCast(x)
  BY <1>2, ChangesBundles
<1>4. x = e
  <2>1. PICK s \in Skills : s = NextUnhooked(x)
    BY <1>3, NextUnhookedIs DEF HookFinishedCast
  <2>2. Equip(x, s) /\ ~CannotEquip(x, s)
    BY <1>3, <2>1 DEF HookFinishedCast
  <2> QED BY <1>1, <2>2, EquipType
<1>5. PICK i \in Ended(e) :
         <<e, finished_casting_skills[e][i]>> \notin already_finished_casting_skill
  BY <1>1, <1>3, <1>4, ChangingCasts
<1>6. PICK j \in Ended(e) :
         <<e, finished_casting_skills[e][j]>> \in already_finished_casting_skill
  BY <1>1 DEF Droppers
<1>7. i = j
  BY DEF OneEnds
<1> QED BY <1>5, <1>6, <1>7

\* When every skill that equips or drops a bundle and the Weapon Swap are animated, no actor
\* takes a bundle again in the tick in which it dropped it, since at most one of its animations
\* ends in a tick (progress_animations); so the audit always tells the bundle.
THEOREM AuditTellsOfAnimatedBundles ==
  ASSUME \A s \in Skills : Changes(s) => cast_duration[s] > 0
  PROVE  Spec => []AuditTellsTheBundle
<1>1. Init => TypeInv /\ OneEnds /\ Droppers /\ Told
  BY InitType, EndedInit, ToldInit
<1>2. (TypeInv /\ OneEnds /\ Droppers /\ Told) /\ [Next]_vars
        => (TypeInv /\ OneEnds /\ Droppers /\ Told)'
  BY TypeStep, EndedStep, NeverRetakes, ToldStep
<1> QED BY <1>1, <1>2, ToldImplies, PTL DEF Spec

-----------------------------------------------------------------------------
(* Orderly rotations.  The cast under way, which will change weapon set or   *)
(* bundle when its hooks run, counts as if it had: so the actor is always at *)
(* a place in the reading of its rotation.  No second cast changes them in   *)
(* the meantime, and what is not the actor's own cast takes no charge from   *)
(* one that is under way or queued.                                          *)

Current == animation[Actor]

\* The cast under way will change weapon set or bundle when its hooks run, and these have not.
Applied == Actor \in animation_expired /\ <<Actor, Current.skill>> \in already_finished_casting_skill
Changing == Current # Nobody /\ Changes(Current.skill) /\ ~Applied

\* Where in the reading of the rotation the actor is, once the cast under way has ended.
Here ==
  [idx |-> current_idx,
   set |-> IF Changing THEN SetAfter(Actor, Current.skill) ELSE current_weapon_set,
   bundle |-> IF Changing THEN BundleAfter(Actor, Current.skill) ELSE bundle[Actor]]
InOrder == Here \in Reading(rotation) /\ (Changing => ~CannotEquip(Actor, Current.skill))

\* Only the cast whose animation ended in this tick changes them.
OneChanger ==
  /\ \A s \in Skills :
        /\ Changes(s)
        /\ \/ s \in Range(finished_casting_skills[Actor])
           \/ <<Actor, s>> \in already_finished_casting_skill
        => Current # Nobody /\ Current.skill = s /\ Actor \in animation_expired
  /\ Actor \in animation_expired =>
        Current # Nobody /\ Current.skill \in Range(finished_casting_skills[Actor])
  /\ phase \in {"ticks", "strikes"} /\ Actor \in animation_expired => Applied
  /\ phase = "animations" => todo \cap already_performed_animation = {}
  /\ animation_expired \subseteq already_performed_animation

Origins ==
  /\ Range(queued_rotation[Actor]) \subseteq Prompted
  /\ Current # Nobody =>
        Current.skill \in Planned(rotation) \cup Prompted /\ cast_duration[Current.skill] > 0
  /\ \A c \in Children :
        /\ Range(queued_rotation[c]) \cup Range(finished_casting_skills[c]) \subseteq Spawned
        /\ animation[c] # Nobody =>
              animation[c].skill \in Spawned /\ cast_duration[animation[c].skill] > 0

Even == \A s \in Skills : \A p \in Paying(s) : on_cooldown[p] = on_cooldown[s]

Charged ==
  Current # Nobody /\ Actor \notin animation_expired /\ ~DropsBundle(Actor, Current.skill)
    => on_cooldown[Current.skill] = 0

\* A guarded proc that waits to be cast is the only one, and its trigger cannot fire again.
Marked(s) == \E t \in Triggers : Guards(t, s) /\ <<t, Actor>> \in already_triggered
ProcsWait ==
  \A c \in Children : \A s \in Range(queued_rotation[c]) : cooldown[s] > 0 =>
    /\ on_cooldown[s] = 0 /\ Len(queued_rotation[c]) = 1
    /\ c \in alive /\ c \notin no_more_rotation
    /\ \A d \in Children \ {c} : Range(queued_rotation[d]) \cap Paying(s) = {}
    /\ \/ phase = "rotations" /\ c \in todo
       \/ phase = "finished" /\ progressed /\ Marked(s)
       \/ phase = "strikes" /\ Marked(s)

SwapsPay ==
  /\ on_cooldown[WeaponSwap] = cooldown[WeaponSwap] =>
        Current # Nobody /\ Current.skill = WeaponSwap /\ Actor \in animation_expired
  /\ \A i \in Unhooked(Actor) :
        finished_casting_skills[Actor][i] = WeaponSwap
          => (bundle[Actor] = Nothing <=> on_cooldown[WeaponSwap] = cooldown[WeaponSwap])

Good ==
  /\ InOrder /\ OneChanger /\ Origins /\ Even /\ Charged /\ ProcsWait /\ SwapsPay
  /\ ~failed

LEMMA MembersAre == ASSUME NEW g \in Groups PROVE Members(g) \subseteq Skills
<1> DEFINE Option == [skill_key : Skills, weapon_set : 0 .. 2, bundle : Bundles \cup {Nothing}]
<1>1. PICK options \in Seq(Option) : options = conditional_skill_keys[g]
  BY Configuration
<1>2. ASSUME NEW i \in DOMAIN options PROVE options[i].skill_key \in Skills
  <2>1. options[i] \in Option
    BY LenProperties, ElementOfSeq
  <2> QED BY <2>1
<1> QED BY <1>1, <1>2 DEF Members

LEMMA PayingIs == ASSUME NEW s \in Skills PROVE Paying(s) \subseteq Skills /\ s \in Paying(s)
<1> QED BY MembersAre DEF Paying

LEMMA PayTogether ==
  ASSUME Tame, NEW s \in Skills, NEW p \in Paying(s)
  PROVE  Paying(p) = Paying(s) /\ cooldown[p] = cooldown[s]
         /\ (cast_duration[p] = 0 <=> cast_duration[s] = 0)
<1> QED BY Zenon DEF Tame

\* What a cast that can pay for itself changes: all that pay with it go on cooldown.
LEMMA PaysIs ==
  ASSUME Tame, TypeInv, Even, NEW e \in Entities, NEW s \in Skills, FinishCasting(e, s),
         DropsBundle(e, s) \/ on_cooldown[s] = 0
  PROVE  /\ ~failed' /\ Even'
         /\ \A p \in Skills : on_cooldown'[p] =
               IF p \in Paying(s) /\ ~DropsBundle(e, s) THEN cooldown[p] ELSE on_cooldown[p]
<1>1. PICK paying : paying = IF DropsBundle(e, s) THEN {} ELSE Paying(s)
  OBVIOUS
<1>2. /\ failed' = (\E p \in paying : on_cooldown[p] > 0)
      /\ on_cooldown' = [p \in Skills |-> IF p \in paying /\ on_cooldown[p] = 0 THEN cooldown[p]
                                          ELSE on_cooldown[p]]
  BY <1>1 DEF FinishCasting
<1>3. \A p \in paying : p \in Skills /\ on_cooldown[p] = 0
  BY <1>1, PayingIs DEF Even
<1>4. ~failed'
  BY <1>2, <1>3
<1>5. \A p \in Skills : on_cooldown'[p] = IF p \in paying THEN cooldown[p] ELSE on_cooldown[p]
  BY <1>2, <1>3
<1>6. ASSUME NEW q \in Skills, NEW p \in Paying(q) PROVE on_cooldown'[p] = on_cooldown'[q]
  <2>1. p \in Skills /\ Paying(p) = Paying(q) /\ cooldown[p] = cooldown[q]
    BY PayTogether, PayingIs
  <2>2. on_cooldown[p] = on_cooldown[q]
    BY DEF Even
  <2>3. p \in Paying(s) <=> q \in Paying(s)
    BY <2>1, PayTogether, PayingIs
  <2> QED BY <1>1, <1>5, <2>1, <2>2, <2>3
<1>7. Even'
  BY <1>6 DEF Even
<1> QED BY <1>1, <1>4, <1>5, <1>7

-----------------------------------------------------------------------------
(* The actor follows the reading of its rotation. *)

There == [idx |-> NextIdx(Actor), set |-> Here.set, bundle |-> Here.bundle]

LEMMA NextInReading ==
  ASSUME TypeInv, Orderly(rotation), InOrder, OutOfCasts(Actor) => Restarts(Actor)
  PROVE  There \in Reading(rotation)
<1>1. Here \in Reading(rotation)
  BY DEF InOrder
<1>2. CASE Restarts(Actor)
  <2>1. current_idx = Len(rotation) /\ repeat
    BY <1>2, MaxCastTimeType DEF Restarts, OutOfCasts, TypeInv, TurnOK
  <2>2. After(rotation, Here) = [Here EXCEPT !.idx = 0]
    BY <2>1 DEF After, Here
  <2>3. After(rotation, Here) = There
    BY <1>2, <2>2 DEF There, Here, NextIdx
  <2>4. After(rotation, Here) \in Reading(rotation)
    BY <1>1 DEF Orderly
  <2> QED BY <2>3, <2>4
<1>3. CASE ~Restarts(Actor)
  <2>1. There = Here
    BY <1>3 DEF There, Here, NextIdx
  <2> QED BY <1>1, <2>1
<1> QED BY <1>2, <1>3

LEMMA RotationType ==
  ASSUME TypeInv, NEW i \in 1 .. Len(rotation)
  PROVE  rotation[i].skill \in Skills \cup Groups /\ rotation[i] \in Range(rotation)
<1> DEFINE Cast == [skill : Skills \cup Groups, cast_time_ms : Nat]
<1>1. PICK r \in Seq(Cast) : r = rotation
  BY Configuration DEF TypeInv, TurnOK
<1>2. r[i] \in Cast /\ DOMAIN r = 1 .. Len(r)
  BY <1>1, LenProperties, ElementOfSeq
<1>3. r[i].skill \in Skills \cup Groups
  BY <1>2
<1> QED BY <1>1, <1>2, <1>3 DEF Range

\* What the actor casts of its rotation when it looks at it now.
LEMMA NextSkillIs ==
  ASSUME TypeInv, ~HasQueued(Actor), OutOfCasts(Actor) => Restarts(Actor),
         \A cast \in Range(rotation) : cast.skill \in Groups => Suits(cast.skill)
  PROVE  LET key == rotation[NextIdx(Actor) + 1].skill
             now == [idx |-> NextIdx(Actor), set |-> current_weapon_set, bundle |-> bundle[Actor]]
         IN  /\ NextIdx(Actor) + 1 \in 1 .. Len(rotation)
             /\ Offered(Actor) # {}
             /\ NextSkill(Actor) = SkillAt(rotation, now)
             /\ NextSkill(Actor) \in Planned(rotation)
             /\ key \in Skills => NextSkill(Actor) = key
             /\ key \notin Skills => cast_duration[NextSkill(Actor)] > 0
<1>1. Len(rotation) \in Nat /\ current_idx \in 0 .. Len(rotation)
  BY MaxCastTimeType DEF TypeInv, TurnOK
<1>2. NextIdx(Actor) + 1 \in 1 .. Len(rotation)
  <2>1. CASE OutOfCasts(Actor)
    <3>1. Restarts(Actor)
      BY <2>1
    <3>2. rotation \in Seq([skill : Skills \cup Groups, cast_time_ms : Nat]) /\ rotation # <<>>
      BY <3>1, Configuration DEF Restarts, TypeInv, TurnOK
    <3>3. Len(rotation) # 0
      BY <3>2, EmptySeq
    <3> QED BY <1>1, <3>1, <3>3 DEF NextIdx
  <2>2. CASE ~OutOfCasts(Actor)
    BY <1>1, <2>2 DEF OutOfCasts, Restarts, NextIdx
  <2> QED BY <2>1, <2>2
<1>3. PICK i \in 1 .. Len(rotation) : i = NextIdx(Actor) + 1
  BY <1>2
<1>4. PICK key \in Skills \cup Groups : key = rotation[i].skill
  BY RotationType
<1>5. NextCast(Actor).skill = key
  BY <1>3, <1>4 DEF NextCast
<1>6. /\ key \in Groups => Suits(key)
      /\ (IF key \in Skills THEN {key} ELSE Members(key)) \subseteq Planned(rotation)
  BY <1>4, RotationType DEF Planned
<1>7. CASE key \in Skills
  <2>1. Options(Actor) = <<[skill_key |-> key, weapon_set |-> 0, bundle |-> Nothing]>>
    BY <1>5, <1>7 DEF Options
  <2>2. Offered(Actor) = {1}
    BY <2>1 DEF Offered, Holds
  <2>3. Min(Offered(Actor)) = 1
    <3>1. {1} \subseteq Nat /\ {1} # {}
      OBVIOUS
    <3>2. Min({1}) \in {1}
      BY <3>1, LeastOf
    <3> QED BY <2>2, <3>2
  <2>4. NextSkill(Actor) = key
    BY <2>1, <2>3 DEF NextSkill
  <2> QED BY <1>2, <1>3, <1>4, <1>6, <1>7, <2>2, <2>4 DEF SkillAt
<1>8. CASE key \notin Skills
  <2>1. key \in Groups /\ Options(Actor) = conditional_skill_keys[key]
    BY <1>5, <1>8 DEF Options
  <2>2. current_weapon_set \in {1, 2} /\ bundle[Actor] \in Bundles \cup {Nothing}
    BY DEF TypeInv, BundleOK, Held, Entities
  <2>3. Offered(Actor) # {}
    BY <1>6, <2>1, <2>2 DEF Suits, Offered
  <2>4. PICK m : m = Min(Offered(Actor))
    OBVIOUS
  <2>5. m \in DOMAIN conditional_skill_keys[key]
    <3>1. conditional_skill_keys[key] \in
            Seq([skill_key : Skills, weapon_set : 0 .. 2, bundle : Bundles \cup {Nothing}])
      BY <2>1, Configuration
    <3>2. DOMAIN conditional_skill_keys[key] \subseteq Nat
      BY <3>1, LenProperties
    <3>3. Offered(Actor) \subseteq DOMAIN conditional_skill_keys[key]
      BY <2>1 DEF Offered
    <3> QED BY <2>3, <2>4, <3>2, <3>3, LeastOf
  <2>6. NextSkill(Actor) = conditional_skill_keys[key][m].skill_key
    BY <2>1, <2>4 DEF NextSkill
  <2>7. NextSkill(Actor) \in Members(key)
    BY <2>5, <2>6 DEF Members
  <2>8. NextSkill(Actor) = SkillAt(rotation, [idx |-> NextIdx(Actor), set |-> current_weapon_set,
                                             bundle |-> bundle[Actor]])
    BY <1>3, <1>4, <1>8, <2>1 DEF SkillAt, NextSkill, Offered
  <2>9. cast_duration[NextSkill(Actor)] > 0 /\ NextSkill(Actor) \in Planned(rotation)
    BY <1>6, <1>8, <2>1, <2>7 DEF Suits
  <2> QED BY <1>2, <1>3, <1>4, <1>8, <2>3, <2>8, <2>9
<1> QED BY <1>7, <1>8

\* The cast the actor begins finds what it needs, and what it will change is what the reading
\* has.  While another one has yet to change it, only casts begin that do not depend on it.
LEMMA RotationCastFits ==
  ASSUME TypeInv, Orderly(rotation), InOrder, ~HasQueued(Actor),
         OutOfCasts(Actor) => Restarts(Actor), CanStart(Actor),
         NEW s \in Skills, s = NextSkill(Actor)
  PROVE  /\ can_cast_skill(Actor, s)
         /\ Changes(s) =>
              /\ cast_duration[s] > 0 /\ ~CannotEquip(Actor, s)
              /\ [idx |-> NextIdx(Actor) + 1, set |-> SetAfter(Actor, s),
                  bundle |-> BundleAfter(Actor, s)] \in Reading(rotation)
         /\ ~Changes(s) =>
              [idx |-> NextIdx(Actor) + 1, set |-> Here.set, bundle |-> Here.bundle]
                \in Reading(rotation)
<1>1. There \in Reading(rotation)
  BY NextInReading
<1>2. \A cast \in Range(rotation) : cast.skill \in Groups => Suits(cast.skill)
  BY DEF Orderly
<1>3. PICK idx \in Nat : idx = NextIdx(Actor) /\ idx < Len(rotation) /\ idx + 1 \in 1 .. Len(rotation)
  <2>1. NextIdx(Actor) + 1 \in 1 .. Len(rotation)
    BY <1>2, NextSkillIs
  <2>2. NextIdx(Actor) \in Nat /\ Len(rotation) \in Nat
    BY MaxCastTimeType DEF NextIdx, TypeInv, TurnOK
  <2> QED BY <2>1, <2>2
<1>4. PICK now : now = [idx |-> idx, set |-> current_weapon_set, bundle |-> bundle[Actor]]
  OBVIOUS
<1>5. /\ s = SkillAt(rotation, now)
      /\ rotation[idx + 1].skill \in Skills => s = rotation[idx + 1].skill
      /\ rotation[idx + 1].skill \notin Skills => cast_duration[s] > 0
  BY <1>2, <1>3, <1>4, NextSkillIs
<1>6. There.idx = idx /\ There.set = Here.set /\ There.bundle = Here.bundle
  BY <1>3 DEF There
<1>7. After(rotation, There) \in Reading(rotation) /\ Fits(SkillAt(rotation, There), There)
  BY <1>1, <1>3, <1>6 DEF Orderly
<1>8. ASSUME SkillAt(rotation, There) = s
      PROVE  After(rotation, There) =
               [idx |-> idx + 1,
                set |-> IF s = WeaponSwap /\ Here.bundle = Nothing THEN 3 - Here.set ELSE Here.set,
                bundle |-> IF equip_bundle[s] # Nothing THEN equip_bundle[s]
                           ELSE IF Changes(s) THEN Nothing ELSE Here.bundle]
  BY <1>3, <1>6, <1>8 DEF After
<1>9. CASE Changing
  <2>1. cast_duration[s] = 0
    BY <1>9 DEF CanStart, Changing, Current
  <2>2. rotation[idx + 1].skill = s
    BY <1>5, <2>1
  <2>3. SkillAt(rotation, There) = s
    BY <1>6, <2>2 DEF SkillAt
  <2>4. Fits(s, There) /\ ~Changes(s) /\ ~Uses(s)
    BY <1>7, <2>1, <2>3 DEF Fits
  <2>5. can_cast_skill(Actor, s)
    BY <2>4 DEF can_cast_skill, Uses, TypeInv, BundleOK
  <2>6. s # WeaponSwap /\ equip_bundle[s] = Nothing
    BY <2>4 DEF Changes
  <2>7. [idx |-> NextIdx(Actor) + 1, set |-> Here.set, bundle |-> Here.bundle]
          \in Reading(rotation)
    BY <1>3, <1>7, <1>8, <2>3, <2>4, <2>6
  <2> QED BY <2>4, <2>5, <2>7
<1>10. CASE ~Changing
  <2>1. Here.set = current_weapon_set /\ Here.bundle = bundle[Actor]
    BY <1>10 DEF Here
  <2>2. There = now
    BY <1>3, <1>4, <2>1 DEF There
  <2>3. Fits(s, now) /\ now.set = current_weapon_set /\ now.bundle = bundle[Actor]
    BY <1>4, <1>5, <1>7, <2>2
  <2>4. can_cast_skill(Actor, s)
    BY <2>3 DEF can_cast_skill, Fits
  <2>5. Changes(s) => cast_duration[s] > 0 /\ ~CannotEquip(Actor, s)
    BY <2>3 DEF Fits, Changes, CannotEquip, Swapped
  <2>6. /\ SetAfter(Actor, s) = IF s = WeaponSwap /\ Here.bundle = Nothing THEN 3 - Here.set
                                ELSE Here.set
        /\ Changes(s) => BundleAfter(Actor, s) = IF equip_bundle[s] # Nothing THEN equip_bundle[s]
                                                 ELSE Nothing
    BY <2>1 DEF SetAfter, Swapped, BundleAfter, DropsBundle, Changes
  <2>7. s = SkillAt(rotation, There)
    BY <1>5, <2>2
  <2>8. Changes(s) => After(rotation, There) =
          [idx |-> idx + 1, set |-> SetAfter(Actor, s), bundle |-> BundleAfter(Actor, s)]
    BY <1>8, <2>6, <2>7
  <2>9. ~Changes(s) => s # WeaponSwap /\ equip_bundle[s] = Nothing
    BY DEF Changes
  <2>10. ~Changes(s) => After(rotation, There) =
          [idx |-> idx + 1, set |-> Here.set, bundle |-> Here.bundle]
    BY <1>8, <2>7, <2>9
  <2> QED BY <1>3, <1>7, <2>4, <2>5, <2>8, <2>10
<1> QED BY <1>9, <1>10

-----------------------------------------------------------------------------
(* What triggers and finished casts spawn. *)

LEMMA SetToSeqOnce ==
  ASSUME NEW T, IsFiniteSet(T)
  PROVE  \A i, j \in DOMAIN SetToSeq(T) : SetToSeq(T)[i] = SetToSeq(T)[j] => i = j
<1>1. Cardinality(T) \in Nat /\ ExistsBijection(1 .. Cardinality(T), T)
  BY FS_CardinalityType
<1>2. PICK f \in Bijection(1 .. Cardinality(T), T) : TRUE
  BY <1>1 DEF ExistsBijection
<1>3. f \in [1 .. Cardinality(T) -> T] /\ IsInjective(f)
  BY <1>2 DEF Bijection, Injection, IsInjective
<1>4. SetToSeq(T) \in [1 .. Cardinality(T) -> T] /\ IsInjective(SetToSeq(T))
  BY <1>3 DEF SetToSeq
<1>5. PICK g : g = SetToSeq(T)
  OBVIOUS
<1>6. IsInjective(g)
  BY <1>4, <1>5
<1>7. \A i, j \in DOMAIN g : g[i] = g[j] => i = j
  BY <1>6 DEF IsInjective
<1> QED BY <1>5, <1>7

\* The queues for a set of copies: one for each, with the skill of its trigger.
LEMMA QueuedAre ==
  ASSUME NEW copies \in SUBSET (Triggers \X Entities)
  PROVE  \E order :
           /\ DOMAIN Queues(copies) = DOMAIN order /\ DOMAIN Queued(copies) = DOMAIN order
           /\ \A i \in DOMAIN order :
                 /\ order[i] \in copies /\ Queued(copies)[i] = order[i][1].skill_key
                 /\ Queues(copies)[i] = <<order[i][1].skill_key>>
           /\ \A i, j \in DOMAIN order : order[i] = order[j] => i = j
<1>1. IsFiniteSet(copies)
  <2>1. IsFiniteSet(Entities)
    <3>1. IsFiniteSet(Children)
      BY Configuration, FS_Interval DEF Children
    <3> QED BY <3>1, FS_AddElement DEF Entities
  <2>2. IsFiniteSet(Triggers \X Entities)
    BY <2>1, Configuration, FS_Product
  <2> QED BY <2>2, FS_Subset
<1>2. PICK n \in Nat : SetToSeq(copies) \in [1 .. n -> copies]
  BY <1>1, SetToSeqIs
<1>3. PICK order \in [1 .. n -> copies] : order = SetToSeq(copies)
  BY <1>2
<1>4. \A i, j \in DOMAIN order : order[i] = order[j] => i = j
  BY <1>1, <1>3, SetToSeqOnce
<1>5. Queued(copies) = [i \in 1 .. n |-> order[i][1].skill_key]
  BY <1>3 DEF Queued
<1>6. Queues(copies) = [i \in 1 .. n |-> <<order[i][1].skill_key>>]
  <2>1. PICK keys : keys = Queued(copies)
    OBVIOUS
  <2>2. DOMAIN keys = 1 .. n /\ \A i \in 1 .. n : keys[i] = order[i][1].skill_key
    BY <1>5, <2>1
  <2>3. Queues(copies) = [i \in DOMAIN keys |-> <<keys[i]>>]
    BY <2>1 DEF Queues
  <2> QED BY <2>2, <2>3
<1> QED BY <1>3, <1>4, <1>5, <1>6

\* The actor queues what it is to cast, and each child actor of the batch one of its queues.
LEMMA SpawnIs ==
  ASSUME TypeInv, NEW batch \in Seq(Seq(Skills)), NEW to_actor \in Seq(Skills),
         Spawn(batch, to_actor)
  PROVE  /\ queued_rotation'[Actor] = queued_rotation[Actor] \o to_actor
         /\ \E index \in [alive' \ alive -> 1 .. Len(batch)] :
              /\ \A c \in alive' \ alive : queued_rotation'[c] = batch[index[c]]
              /\ \A c, d \in alive' \ alive : index[c] = index[d] => c = d
         /\ \A c \in Children : c \notin alive' \ alive => queued_rotation'[c] = queued_rotation[c]
<1>1. PICK born : born = {Free(i) : i \in 1 .. Len(batch)}
  OBVIOUS
<1>2. Len(batch) \in Nat /\ DOMAIN batch = 1 .. Len(batch)
  BY LenProperties
<1>3. Cardinality(Children \ alive) \in Nat
  <2>1. IsFiniteSet(Children)
    BY Configuration, FS_Interval DEF Children
  <2> QED BY <2>1, FS_Subset, FS_CardinalityType
<1>4. \A i \in 1 .. Len(batch) : Free(i) \in Children \ alive
  <2> TAKE i \in 1 .. Len(batch)
  <2>1. i \in Nat \ {0} /\ i <= Cardinality(Children \ alive)
    BY <1>2, <1>3 DEF Spawn
  <2> QED BY <2>1, FreeIs
<1>5. alive' = alive \cup born /\ born = alive' \ alive /\ born \subseteq Children
  BY <1>1, <1>4 DEF Spawn
<1>6. queued_rotation' = [e \in Entities |->
            IF e \in born THEN batch[CHOOSE i \in 1 .. Len(batch) : Free(i) = e]
            ELSE IF e = Actor THEN queued_rotation[e] \o to_actor ELSE queued_rotation[e]]
  BY <1>1 DEF Spawn
<1>7. PICK index : index = [c \in born |-> CHOOSE i \in 1 .. Len(batch) : Free(i) = c]
  OBVIOUS
<1>8. \A c \in born : index[c] \in 1 .. Len(batch) /\ Free(index[c]) = c
  BY <1>1, <1>7
<1>9. index \in [born -> 1 .. Len(batch)]
  BY <1>7, <1>8
<1>10. \A c \in born : queued_rotation'[c] = batch[index[c]]
  BY <1>5, <1>6, <1>7 DEF Entities
<1>11. Actor \notin born /\ Actor \in Entities
  BY <1>5, Configuration DEF Entities, Children, Actor
<1>12. \A c \in Children : c # Actor
  BY Configuration DEF Children, Actor
<1>13. queued_rotation'[Actor] = queued_rotation[Actor] \o to_actor
  BY <1>6, <1>11
<1>14. \A c \in Children : c \notin alive' \ alive => queued_rotation'[c] = queued_rotation[c]
  BY <1>5, <1>6, <1>12 DEF Entities
<1>15. \A c, d \in born : index[c] = index[d] => c = d
  BY <1>8
<1>16. /\ index \in [alive' \ alive -> 1 .. Len(batch)]
       /\ \A c \in alive' \ alive : queued_rotation'[c] = batch[index[c]]
       /\ \A c, d \in alive' \ alive : index[c] = index[d] => c = d
  BY <1>5, <1>9, <1>10, <1>15, Zenon
<1> HIDE DEF Actor
<1> QED BY <1>13, <1>14, <1>16, Zenon

\* What comes of one event: the actor casts what its triggers have for it, the child actors are
\* for triggers that fire or for child skills, and a guarded proc is one that was off cooldown
\* and whose trigger has fired now for the first time in the tick.
LEMMA FireIs ==
  ASSUME TypeInv, NEW on, NEW by, NEW more \in Seq(Seq(Skills)), NEW set, NEW held,
         \A queue \in Range(more) : \E o \in Skills : queue = child_skill_keys[o],
         Fire(on, by, more, set, held)
  PROVE  /\ Range(queued_rotation'[Actor]) \subseteq Range(queued_rotation[Actor]) \cup Prompted
         /\ \A c \in Children : c \notin alive' \ alive => queued_rotation'[c] = queued_rotation[c]
         /\ \A c \in alive' \ alive : Range(queued_rotation'[c]) \subseteq Spawned
         /\ already_triggered \subseteq already_triggered'
         /\ \A s \in Skills, t \in Triggers : Guards(t, s) =>
              /\ \A c \in alive' \ alive : Range(queued_rotation'[c]) \cap Paying(s) # {} =>
                    /\ Len(queued_rotation'[c]) = 1 /\ on_cooldown[s] = 0
                    /\ <<t, Actor>> \in already_triggered' \ already_triggered
              /\ \A c, d \in alive' \ alive :
                    /\ Range(queued_rotation'[c]) \cap Paying(s) # {}
                    /\ Range(queued_rotation'[d]) \cap Paying(s) # {}
                    => c = d
<1>1. PICK due : due = {copy \in Copies(Triggers) : Satisfied(copy[1], on, by, set, held)}
  OBVIOUS
<1>2. due \subseteq Triggers \X Entities
  BY <1>1 DEF Copies, TypeInv, ChildrenOK, Entities
<1>3. PICK luck \in SUBSET {copy \in due : copy[1].random} :
        LET fires(triggers) == {copy \in due : /\ copy[1] \in triggers
                                               /\ copy[1].random => copy \in luck}
            chained == fires(skill_triggers) \ already_triggered
        IN  /\ Spawn(Queues(chained) \o Queues(fires(unchained_skill_triggers)) \o more,
                     Queued(fires(source_actor_skill_triggers)))
            /\ already_triggered' = already_triggered \cup {c \in chained : c[1] \in skill_triggers}
  BY <1>1 DEF Fire, FireMarking
<1> DEFINE Fires(triggers) == {copy \in due : /\ copy[1] \in triggers
                                              /\ copy[1].random => copy \in luck}
<1>4. PICK chained : chained = Fires(skill_triggers) \ already_triggered
  OBVIOUS
<1>5. PICK unchained : unchained = Fires(unchained_skill_triggers)
  OBVIOUS
<1>6. PICK source : source = Fires(source_actor_skill_triggers)
  OBVIOUS
<1>7. /\ Spawn(Queues(chained) \o Queues(unchained) \o more, Queued(source))
      /\ already_triggered' = already_triggered \cup {c \in chained : c[1] \in skill_triggers}
  BY <1>3, <1>4, <1>5, <1>6
<1>8. {chained, unchained, source} \subseteq SUBSET (Triggers \X Entities)
  BY <1>2, <1>4, <1>5, <1>6
<1>9. /\ \A copy \in chained : copy[1] \in skill_triggers /\ copy \in due
                               /\ copy \notin already_triggered
      /\ \A copy \in unchained : copy[1] \in unchained_skill_triggers
      /\ \A copy \in source : copy[1] \in source_actor_skill_triggers
  BY <1>4, <1>5, <1>6
<1> HIDE DEF Fires
<1>10. PICK a \in Seq(Seq(Skills)) : a = Queues(chained)
  BY <1>8, QueuedType
<1>11. PICK b \in Seq(Seq(Skills)) : b = Queues(unchained)
  BY <1>8, QueuedType
<1>12. PICK to_actor \in Seq(Skills) : to_actor = Queued(source)
  BY <1>8, QueuedType
<1>13. PICK batch \in Seq(Seq(Skills)) : batch = (a \o b) \o more
  <2>1. a \o b \in Seq(Seq(Skills))
    BY ConcatProperties
  <2>2. (a \o b) \o more \in Seq(Seq(Skills))
    BY <2>1, ConcatProperties
  <2> QED BY <2>2
<1>14. Spawn(batch, to_actor)
  BY <1>7, <1>10, <1>11, <1>12, <1>13
\* Where in the batch a queue is from.
<1>15. \A i \in 1 .. Len(batch) :
          \/ i \in DOMAIN a /\ batch[i] = a[i]
          \/ \E j \in DOMAIN b : batch[i] = b[j]
          \/ \E j \in DOMAIN more : batch[i] = more[j]
  <2>1. /\ Len(a) \in Nat /\ DOMAIN a = 1 .. Len(a) /\ Len(b) \in Nat /\ DOMAIN b = 1 .. Len(b)
        /\ Len(more) \in Nat /\ DOMAIN more = 1 .. Len(more)
    BY LenProperties
  <2>2. PICK ab \in Seq(Seq(Skills)) : ab = a \o b
    BY ConcatProperties
  <2>3. /\ Len(ab) = Len(a) + Len(b)
        /\ \A i \in 1 .. Len(ab) : ab[i] = IF i <= Len(a) THEN a[i] ELSE b[i - Len(a)]
    BY <2>2, ConcatProperties
  <2>4. /\ Len(batch) = Len(ab) + Len(more)
        /\ \A i \in 1 .. Len(batch) :
              batch[i] = IF i <= Len(ab) THEN ab[i] ELSE more[i - Len(ab)]
    BY <1>13, <2>2, ConcatProperties
  <2> TAKE i \in 1 .. Len(batch)
  <2>5. CASE i <= Len(a)
    BY <2>1, <2>3, <2>4, <2>5
  <2>6. CASE ~(i <= Len(a)) /\ i <= Len(ab)
    <3>1. i - Len(a) \in DOMAIN b /\ batch[i] = b[i - Len(a)]
      BY <2>1, <2>3, <2>4, <2>6
    <3> QED BY <3>1
  <2>7. CASE ~(i <= Len(ab))
    <3>1. i - Len(ab) \in DOMAIN more /\ batch[i] = more[i - Len(ab)]
      BY <2>1, <2>3, <2>4, <2>7
    <3> QED BY <3>1
  <2> QED BY <2>1, <2>3, <2>5, <2>6, <2>7
<1>16. PICK order :
         /\ DOMAIN a = DOMAIN order
         /\ \A i \in DOMAIN order : order[i] \in chained /\ a[i] = <<order[i][1].skill_key>>
         /\ \A i, j \in DOMAIN order : order[i] = order[j] => i = j
  <2>1. chained \in SUBSET (Triggers \X Entities)
    BY <1>8
  <2>2. PICK g :
           /\ DOMAIN Queues(chained) = DOMAIN g /\ DOMAIN Queued(chained) = DOMAIN g
           /\ \A i \in DOMAIN g :
                 /\ g[i] \in chained /\ Queued(chained)[i] = g[i][1].skill_key
                 /\ Queues(chained)[i] = <<g[i][1].skill_key>>
           /\ \A i, j \in DOMAIN g : g[i] = g[j] => i = j
    BY <2>1, QueuedAre
  <2> QED BY <1>10, <2>2
<1>17. \A j \in DOMAIN b : \E t \in unchained_skill_triggers : b[j] = <<t.skill_key>>
  <2>1. PICK others :
         /\ DOMAIN b = DOMAIN others
         /\ \A i \in DOMAIN others : others[i] \in unchained /\ b[i] = <<others[i][1].skill_key>>
    <3>1. unchained \in SUBSET (Triggers \X Entities)
      BY <1>8
    <3>2. PICK g :
           /\ DOMAIN Queues(unchained) = DOMAIN g /\ DOMAIN Queued(unchained) = DOMAIN g
           /\ \A i \in DOMAIN g :
                 /\ g[i] \in unchained /\ Queued(unchained)[i] = g[i][1].skill_key
                 /\ Queues(unchained)[i] = <<g[i][1].skill_key>>
           /\ \A i, j \in DOMAIN g : g[i] = g[j] => i = j
      BY <3>1, QueuedAre
    <3> QED BY <1>11, <3>2
  <2> QED BY <1>9, <2>1
<1>18. \A j \in DOMAIN more : \E o \in Skills : more[j] = child_skill_keys[o]
  BY DEF Range
<1>19. \A s : Range(<<s>>) = {s} /\ Len(<<s>>) = 1
  BY DEF Range
<1>20. \A i \in 1 .. Len(batch) : Range(batch[i]) \subseteq Spawned
  <2> TAKE i \in 1 .. Len(batch)
  <2>1. CASE i \in DOMAIN a /\ batch[i] = a[i]
    <3>1. PICK t \in skill_triggers : batch[i] = <<t.skill_key>>
      BY <1>9, <1>16, <2>1
    <3> QED BY <1>19, <3>1 DEF Spawned
  <2>2. CASE \E j \in DOMAIN b : batch[i] = b[j]
    <3>1. PICK t \in unchained_skill_triggers : batch[i] = <<t.skill_key>>
      BY <1>17, <2>2
    <3> QED BY <1>19, <3>1 DEF Spawned
  <2>3. CASE \E j \in DOMAIN more : batch[i] = more[j]
    <3>1. PICK o \in Skills : batch[i] = child_skill_keys[o]
      BY <1>18, <2>3
    <3> QED BY <3>1 DEF Spawned
  <2> QED BY <1>15, <2>1, <2>2, <2>3
<1>21. PICK index \in [alive' \ alive -> 1 .. Len(batch)] :
          /\ \A c \in alive' \ alive : queued_rotation'[c] = batch[index[c]]
          /\ \A c, d \in alive' \ alive : index[c] = index[d] => c = d
  BY <1>14, SpawnIs
\* A queue with a skill that pays with a guarded one.
<1>22. ASSUME NEW s \in Skills, NEW t \in Triggers, Guards(t, s),
              NEW i \in 1 .. Len(batch), Range(batch[i]) \cap Paying(s) # {}
       PROVE  /\ i \in DOMAIN order /\ order[i] = <<t, Actor>>
              /\ Len(batch[i]) = 1 /\ on_cooldown[s] = 0
              /\ <<t, Actor>> \in already_triggered' \ already_triggered
  <2>1. CASE i \in DOMAIN a /\ batch[i] = a[i]
    <3>1. i \in DOMAIN order /\ order[i] \in chained /\ batch[i] = <<order[i][1].skill_key>>
      BY <1>16, <2>1
    <3>2. PICK u \in Triggers, e \in Entities : order[i] = <<u, e>>
      BY <1>8, <3>1
    <3>3. u.skill_key \in Paying(s) /\ Len(batch[i]) = 1
      BY <1>19, <1>22, <3>1, <3>2
    <3>4. u = t
      BY <1>22, <3>3 DEF Guards
    <3>5. <<t, e>> \in Copies(Triggers) /\ Satisfied(t, on, by, set, held)
      BY <1>1, <1>9, <3>1, <3>2, <3>4
    <3>6. e = Actor
      <4>1. e \in Children => skills_of[e] \subseteq Skills
        BY DEF TypeInv, ChildrenOK
      <4>2. e = Actor \/ (e \in Children /\ \E o \in skills_of[e] : t \in carried[o])
        BY <3>5 DEF Copies, Entities
      <4> QED BY <1>22, <4>1, <4>2 DEF Guards
    <3>7. on_cooldown[s] = 0
      BY <1>22, <3>5 DEF Guards, Satisfied
    <3>8. <<t, Actor>> \in already_triggered' \ already_triggered
      BY <1>7, <1>9, <3>1, <3>2, <3>4, <3>6
    <3> QED BY <3>1, <3>2, <3>3, <3>4, <3>6, <3>7, <3>8
  <2>2. CASE \E j \in DOMAIN b : batch[i] = b[j]
    <3>1. PICK u \in unchained_skill_triggers : batch[i] = <<u.skill_key>>
      BY <1>17, <2>2
    <3>2. u.skill_key \in Paying(s) /\ u \in Triggers
      BY <1>19, <1>22, <3>1 DEF Triggers
    <3> QED BY <1>22, <3>1, <3>2 DEF Guards
  <2>3. CASE \E j \in DOMAIN more : batch[i] = more[j]
    <3>1. PICK o \in Skills : batch[i] = child_skill_keys[o]
      BY <1>18, <2>3
    <3> QED BY <1>22, <3>1 DEF Guards
  <2> QED BY <1>15, <2>1, <2>2, <2>3
<1>23. Range(queued_rotation'[Actor]) \subseteq Range(queued_rotation[Actor]) \cup Prompted
  <2>1. PICK queue \in Seq(Skills) : queue = queued_rotation[Actor]
    BY DEF TypeInv, TurnOK, Entities
  <2>2. queued_rotation'[Actor] = queue \o to_actor
    BY <1>14, <2>1, SpawnIs
  <2>3. PICK others :
         /\ DOMAIN to_actor = DOMAIN others
         /\ \A i \in DOMAIN others : others[i] \in source /\ to_actor[i] = others[i][1].skill_key
    <3>1. source \in SUBSET (Triggers \X Entities)
      BY <1>8
    <3>2. PICK g :
           /\ DOMAIN Queues(source) = DOMAIN g /\ DOMAIN Queued(source) = DOMAIN g
           /\ \A i \in DOMAIN g :
                 /\ g[i] \in source /\ Queued(source)[i] = g[i][1].skill_key
                 /\ Queues(source)[i] = <<g[i][1].skill_key>>
           /\ \A i, j \in DOMAIN g : g[i] = g[j] => i = j
      BY <3>1, QueuedAre
    <3> QED BY <1>12, <3>2
  <2>4. Range(to_actor) \subseteq Prompted
    BY <1>9, <2>3 DEF Prompted, Range
  <2>5. Range(queue \o to_actor) = Range(queue) \cup Range(to_actor)
    BY RangeConcatenation
  <2> QED BY <2>1, <2>2, <2>4, <2>5
<1>24. \A c \in alive' \ alive : Range(queued_rotation'[c]) \subseteq Spawned
  BY <1>20, <1>21
<1>25. ASSUME NEW s \in Skills, NEW t \in Triggers, Guards(t, s)
       PROVE  /\ \A c \in alive' \ alive : Range(queued_rotation'[c]) \cap Paying(s) # {} =>
                    /\ Len(queued_rotation'[c]) = 1 /\ on_cooldown[s] = 0
                    /\ <<t, Actor>> \in already_triggered' \ already_triggered
              /\ \A c, d \in alive' \ alive :
                    /\ Range(queued_rotation'[c]) \cap Paying(s) # {}
                    /\ Range(queued_rotation'[d]) \cap Paying(s) # {}
                    => c = d
  <2>1. \A c \in alive' \ alive : Range(queued_rotation'[c]) \cap Paying(s) # {} =>
          /\ index[c] \in DOMAIN order /\ order[index[c]] = <<t, Actor>>
          /\ Len(queued_rotation'[c]) = 1 /\ on_cooldown[s] = 0
          /\ <<t, Actor>> \in already_triggered' \ already_triggered
    <3> TAKE c \in alive' \ alive
    <3>1. PICK i \in 1 .. Len(batch) : i = index[c] /\ queued_rotation'[c] = batch[i]
      BY <1>21
    <3> QED BY <1>22, <1>25, <3>1
  <2>2. \A c, d \in alive' \ alive :
          /\ Range(queued_rotation'[c]) \cap Paying(s) # {}
          /\ Range(queued_rotation'[d]) \cap Paying(s) # {}
          => index[c] = index[d]
    <3> SUFFICES ASSUME NEW c \in alive' \ alive, NEW d \in alive' \ alive,
                        Range(queued_rotation'[c]) \cap Paying(s) # {},
                        Range(queued_rotation'[d]) \cap Paying(s) # {}
                 PROVE  index[c] = index[d]
      OBVIOUS
    <3>1. PICK i, j : i = index[c] /\ j = index[d]
      OBVIOUS
    <3>2. /\ i \in DOMAIN order /\ order[i] = <<t, Actor>>
          /\ j \in DOMAIN order /\ order[j] = <<t, Actor>>
      BY <2>1, <3>1
    <3> QED BY <1>16, <3>1, <3>2
  <2> QED BY <1>21, <2>1, <2>2, Zenon
<1> QED BY <1>7, <1>14, <1>23, <1>24, <1>25, SpawnIs

-----------------------------------------------------------------------------
(* The invariant, action by action. *)

LEMMA GoodInit == Tame /\ Orderly(rotation) /\ Init => Good
<1> SUFFICES ASSUME Tame, Orderly(rotation), Init PROVE Good
  OBVIOUS
<1>1. /\ animation[Actor] = Nobody /\ animation_expired = {} /\ bundle[Actor] = Nothing
      /\ \A e \in Entities : /\ queued_rotation[e] = <<>> /\ finished_casting_skills[e] = <<>>
                             /\ animation[e] = Nobody
      /\ Actor \in Entities /\ \A c \in Children : c \in Entities
  BY DEF Init, Entities
<1>2. Range(<<>>) = {} /\ DOMAIN <<>> = {}
  BY DEF Range
<1>3. Here = Start
  BY <1>1 DEF Init, Here, Changing, Current, Start
<1>4. InOrder
  BY <1>1, <1>3 DEF InOrder, Orderly, Changing, Current
<1>5. OneChanger
  BY <1>1, <1>2 DEF OneChanger, Init
<1>6. Origins
  BY <1>1, <1>2 DEF Origins, Current
<1>7. Even
  BY PayingIs DEF Even, Init
<1>8. Charged
  BY <1>1 DEF Charged, Current
<1>9. ProcsWait
  BY <1>1, <1>2 DEF ProcsWait
<1>10. SwapsPay
  <2>1. on_cooldown[WeaponSwap] = 0 /\ cooldown[WeaponSwap] > 0
    BY Configuration DEF Init, Tame
  <2>2. Unhooked(Actor) = {}
    BY <1>1, <1>2 DEF Unhooked
  <2> QED BY <2>1, <2>2 DEF SwapsPay
<1> QED BY <1>4, <1>5, <1>6, <1>7, <1>8, <1>9, <1>10 DEF Good, Init

\* Actions in which no cast begins or ends and no hook runs.
Still ==
  /\ rotation' = rotation /\ failed' = failed
  /\ current_weapon_set' = current_weapon_set /\ bundle' = bundle
  /\ animation' = animation /\ animation_expired' = animation_expired
  /\ already_performed_animation' = already_performed_animation
  /\ already_finished_casting_skill' = already_finished_casting_skill
  /\ finished_casting_skills' = finished_casting_skills
  /\ queued_rotation' = queued_rotation /\ on_cooldown' = on_cooldown

LEMMA StillKeeps ==
  ASSUME Good, Still,
         phase' \in {"ticks", "strikes"} /\ Actor \in animation_expired => Applied,
         phase' = "animations" => todo' \cap already_performed_animation = {}
  PROVE  /\ current_idx' = current_idx => InOrder'
         /\ [idx |-> current_idx', set |-> Here.set, bundle |-> Here.bundle] \in Reading(rotation)
              => InOrder'
         /\ OneChanger' /\ Origins' /\ Even' /\ Charged' /\ SwapsPay' /\ ~failed'
<1> USE DEF Still, Good
<1>1. Current' = Current /\ (Applied' <=> Applied) /\ (Changing' <=> Changing)
  BY DEF Current, Applied, Changing
<1>2. SetAfter(Actor, Current.skill)' = SetAfter(Actor, Current.skill)
      /\ BundleAfter(Actor, Current.skill)' = BundleAfter(Actor, Current.skill)
      /\ (CannotEquip(Actor, Current.skill)' <=> CannotEquip(Actor, Current.skill))
  BY <1>1 DEF SetAfter, BundleAfter, CannotEquip, Swapped, DropsBundle
<1>3. Here' = [idx |-> current_idx', set |-> Here.set, bundle |-> Here.bundle]
  BY <1>1, <1>2 DEF Here
<1>4. /\ current_idx' = current_idx => Here' = Here
      /\ Here' \in Reading(rotation) => InOrder'
  <2>1. current_idx' = current_idx => Here' = Here
    BY <1>1, <1>2 DEF Here
  <2> QED BY <1>1, <1>2, <2>1 DEF InOrder
<1>5. OneChanger'
  BY <1>1 DEF OneChanger
<1>6. Origins'
  BY <1>1 DEF Origins
<1>7. Even'
  BY DEF Even
<1>8. Charged'
  BY <1>1 DEF Charged, DropsBundle
<1>9. SwapsPay'
  BY <1>1 DEF SwapsPay, Unhooked
<1> QED BY <1>3, <1>4, <1>5, <1>6, <1>7, <1>8, <1>9 DEF InOrder

\* The passes over views, and the phases of a tick, leave a guarded proc where it can be cast.
LEMMA WaitStays ==
  ASSUME ProcsWait, Still, alive' = alive, already_triggered' = already_triggered,
         \A c \in Children : c \in no_more_rotation' /\ queued_rotation[c] # <<>>
                               => c \in no_more_rotation,
         \A c \in Children : queued_rotation[c] # <<>> /\ c \in alive /\ c \notin no_more_rotation =>
           /\ phase = "rotations" /\ c \in todo => phase' = "rotations" /\ c \in todo'
           /\ phase = "finished" /\ progressed =>
                \/ phase' = "finished" /\ progressed'
                \/ phase' = "rotations" /\ c \in todo'
           /\ phase = "strikes" => phase' = "strikes"
  PROVE  ProcsWait'
<1> SUFFICES ASSUME NEW c \in Children, NEW s \in Range(queued_rotation[c]), cooldown[s] > 0
             PROVE  /\ on_cooldown'[s] = 0 /\ Len(queued_rotation'[c]) = 1
                    /\ c \in alive' /\ c \notin no_more_rotation'
                    /\ \A d \in Children \ {c} : Range(queued_rotation'[d]) \cap Paying(s) = {}
                    /\ \/ phase' = "rotations" /\ c \in todo'
                       \/ phase' = "finished" /\ progressed' /\ Marked(s)'
                       \/ phase' = "strikes" /\ Marked(s)'
  BY DEF ProcsWait, Still
<1>1. /\ on_cooldown[s] = 0 /\ Len(queued_rotation[c]) = 1
      /\ c \in alive /\ c \notin no_more_rotation
      /\ \A d \in Children \ {c} : Range(queued_rotation[d]) \cap Paying(s) = {}
      /\ \/ phase = "rotations" /\ c \in todo
         \/ phase = "finished" /\ progressed /\ Marked(s)
         \/ phase = "strikes" /\ Marked(s)
  BY DEF ProcsWait
<1>2. Marked(s)' <=> Marked(s)
  BY DEF Marked
<1>3. queued_rotation[c] # <<>>
  BY DEF Range
<1> QED BY <1>1, <1>2, <1>3 DEF Still

LEMMA PassKeepsGood ==
  ASSUME Good, NEW e \in Entities, SkipRotation(e) \/ EndRotation(e) \/ LeaveFinishedCasts(e)
  PROVE  Good'
<1> USE DEF SkipRotation, EndRotation, LeaveFinishedCasts, Perform, Visit, In, children, rotations,
            turn, animations, finished, hooks, equipment
<1>1. /\ Still /\ current_idx' = current_idx
      /\ alive' = alive /\ already_triggered' = already_triggered
  BY DEF Still
<1>2. phase' = phase /\ progressed' = progressed /\ todo' = todo \ {e} /\ phase # "animations"
      /\ phase \notin {"ticks", "strikes"}
  OBVIOUS
<1>3. /\ phase = "rotations" => queued_rotation[e] = <<>>
      /\ no_more_rotation' # no_more_rotation =>
           queued_rotation[e] = <<>> /\ no_more_rotation' = no_more_rotation \cup {e}
  BY DEF Active, OutOfCasts, HasQueued
<1>4. ProcsWait'
  <2>1. \A c \in Children : c \in no_more_rotation' /\ queued_rotation[c] # <<>>
                              => c \in no_more_rotation
    BY <1>3
  <2>2. \A c \in Children : phase = "rotations" /\ queued_rotation[c] # <<>> /\ c \in todo
                              => c \in todo'
    BY <1>2, <1>3
  <2> HIDE DEF SkipRotation, EndRotation, LeaveFinishedCasts
  <2> QED BY <1>1, <1>2, <2>1, <2>2, WaitStays DEF Good
<1> HIDE DEF SkipRotation, EndRotation, LeaveFinishedCasts
<1> QED BY <1>1, <1>2, <1>4, StillKeeps DEF Good

LEMMA PhaseKeepsGood ==
  ASSUME TypeInv, Round, Good, EndRotationPass \/ EndAnimationPass \/ EndRound \/ PerformSkills
  PROVE  Good'
<1> USE DEF EndRotationPass, EndAnimationPass, EndRound, PerformSkills, In, children, rotations,
            turn, animations, finished, hooks, equipment
<1>1. /\ Still /\ current_idx' = current_idx /\ alive' = alive /\ already_triggered' = already_triggered
      /\ no_more_rotation' = no_more_rotation
  BY DEF Still
<1>2. phase' = "animations" => todo' \cap already_performed_animation = {}
  OBVIOUS
<1>3. phase' \in {"ticks", "strikes"} /\ Actor \in animation_expired => Applied
  <2>1. CASE phase = "ticks"
    BY <2>1 DEF Good, OneChanger
  <2>2. CASE EndRound
    <3> SUFFICES ASSUME Actor \in animation_expired PROVE Applied
      OBVIOUS
    <3>1. Unhooked(Actor) = {}
      BY <2>2 DEF Round, Living
    <3>2. Current.skill \in Range(finished_casting_skills[Actor])
      BY DEF Good, OneChanger
    <3>3. PICK i \in DOMAIN finished_casting_skills[Actor] :
             finished_casting_skills[Actor][i] = Current.skill
      BY <3>2 DEF Range
    <3>4. <<Actor, Current.skill>> \in already_finished_casting_skill
      BY <3>1, <3>3 DEF Unhooked
    <3> QED BY <3>4 DEF Applied
  <2> QED BY <2>1, <2>2
<1>4. ProcsWait'
  <2>1. /\ phase = "rotations" => todo = {}
        /\ phase \in {"rotations", "animations", "finished", "ticks"}
    OBVIOUS
  <2>2. phase = "finished" /\ progressed =>
          phase' = "rotations" /\ todo' = (alive \cup {Actor}) \ no_more_rotation
    OBVIOUS
  <2> HIDE DEF EndRotationPass, EndAnimationPass, EndRound, PerformSkills
  <2> QED BY <1>1, <2>1, <2>2, WaitStays DEF Good
<1> HIDE DEF EndRotationPass, EndAnimationPass, EndRound, PerformSkills
<1> QED BY <1>1, <1>2, <1>3, <1>4, StillKeeps DEF Good

LEMMA QueuedCastIs ==
  ASSUME TypeInv, NEW e \in Entities, HasQueued(e)
  PROVE  /\ Offered(e) # {} /\ Due(e) /\ NextIdx(e) = current_idx
         /\ NextSkill(e) = Head(queued_rotation[e])
         /\ NextSkill(e) \in Range(queued_rotation[e]) /\ NextSkill(e) \in Skills
<1>1. PICK queue \in Seq(Skills) : queue = queued_rotation[e] /\ queue # <<>>
  BY DEF TypeInv, TurnOK, HasQueued
<1>2. PICK s \in Skills : s = Head(queue)
  BY <1>1, HeadTailProperties
<1>3. NextCast(e) = [skill |-> s, cast_time_ms |-> 0]
  BY <1>1, <1>2 DEF NextCast
<1>4. Options(e) = <<[skill_key |-> s, weapon_set |-> 0, bundle |-> Nothing]>>
  BY <1>3 DEF Options
<1>5. Offered(e) = {1}
  BY <1>4 DEF Offered, Holds
<1>6. Min(Offered(e)) = 1
  <2>1. {1} \subseteq Nat /\ {1} # {}
    OBVIOUS
  <2>2. Min({1}) \in {1}
    BY <2>1, LeastOf
  <2> QED BY <1>5, <2>2
<1>7. NextSkill(e) = s
  BY <1>4, <1>6 DEF NextSkill
<1>8. Due(e)
  <2>1. NextElapsed(e) \in Nat
    BY MaxCastTimeType DEF NextElapsed, TypeInv, TurnOK
  <2> QED BY <1>3, <2>1 DEF Due
<1>9. s \in Range(queue)
  <2>1. 1 \in DOMAIN queue /\ queue[1] = s
    BY <1>1, <1>2, LenProperties, EmptySeq
  <2> QED BY <2>1 DEF Range
<1>10. NextIdx(e) = current_idx
  BY DEF NextIdx, Restarts, OutOfCasts
<1> QED BY <1>1, <1>2, <1>5, <1>7, <1>8, <1>9, <1>10

\* The next of a queue with a guarded proc is that proc.
LEMMA GuardedIsNext ==
  ASSUME TypeInv, ProcsWait, NEW c \in Children, NEW s \in Range(queued_rotation[c]), cooldown[s] > 0
  PROVE  /\ HasQueued(c) /\ NextSkill(c) = s
         /\ Range(Popped(queued_rotation[c])) = {}
<1>1. PICK queue \in Seq(Skills) : queue = queued_rotation[c]
  BY DEF TypeInv, TurnOK, Entities
<1>2. Len(queue) = 1
  BY <1>1 DEF ProcsWait
<1>3. DOMAIN queue = {1} /\ queue # <<>>
  <2>1. DOMAIN queue = 1 .. 1
    BY <1>2, LenProperties
  <2>2. queue # <<>>
    <3> SUFFICES ASSUME queue = <<>> PROVE FALSE
      OBVIOUS
    <3>1. Len(queue) = 0
      BY EmptySeq
    <3> QED BY <1>2, <3>1
  <2> QED BY <2>1, <2>2
<1>4. s = queue[1] /\ Head(queue) = queue[1]
  BY <1>1, <1>3 DEF Range
<1>5. Tail(queue) \in Seq(Skills) /\ Len(Tail(queue)) = 0
  BY <1>2, <1>3, HeadTailProperties
<1>6. Popped(queue) = <<>>
  BY <1>3, <1>5, EmptySeq DEF Popped
<1>7. HasQueued(c) /\ c \in Entities
  BY <1>1, <1>3 DEF HasQueued, Entities
<1> QED BY <1>1, <1>4, <1>6, <1>7, QueuedCastIs DEF Range

LEMMA WaitKeepsGood ==
  ASSUME Tame, TypeInv, Orderly(rotation), Good, NEW e \in Entities, WaitRotation(e)
  PROVE  Good'
<1> USE DEF WaitRotation, Perform, Visit, In, children, animations, hooks, equipment
<1>1. /\ Still /\ alive' = alive /\ already_triggered' = already_triggered
      /\ no_more_rotation' = no_more_rotation /\ phase' = phase /\ phase = "rotations"
      /\ todo' = todo \ {e} /\ current_idx' = NextIdx(e) /\ ~CanStart(e)
      /\ OutOfCasts(e) => Restarts(e)
  BY DEF Still
<1> HIDE DEF WaitRotation
<1>2. InOrder'
  <2>1. CASE Restarts(e)
    <3>1. e = Actor
      BY <2>1 DEF Restarts
    <3>2. There \in Reading(rotation)
      BY <1>1, <3>1, NextInReading DEF Good
    <3> QED BY <1>1, <3>1, <3>2, StillKeeps DEF There
  <2>2. CASE ~Restarts(e)
    BY <1>1, <2>2, StillKeeps DEF NextIdx
  <2> QED BY <2>1, <2>2
<1>3. ProcsWait'
  <2> SUFFICES ASSUME NEW c \in Children, NEW s \in Range(queued_rotation[c]), cooldown[s] > 0
               PROVE  /\ on_cooldown'[s] = 0 /\ Len(queued_rotation'[c]) = 1
                      /\ c \in alive' /\ c \notin no_more_rotation'
                      /\ \A d \in Children \ {c} : Range(queued_rotation'[d]) \cap Paying(s) = {}
                      /\ phase' = "rotations" /\ c \in todo'
    BY <1>1 DEF ProcsWait, Still
  <2>1. /\ on_cooldown[s] = 0 /\ Len(queued_rotation[c]) = 1
        /\ c \in alive /\ c \notin no_more_rotation /\ c \in todo
        /\ \A d \in Children \ {c} : Range(queued_rotation[d]) \cap Paying(s) = {}
    BY <1>1 DEF Good, ProcsWait
  <2>2. c # Actor /\ c \in Entities
    BY Configuration DEF Children, Actor, Entities
  <2>3. c # e
    <3> SUFFICES ASSUME c = e PROVE FALSE
      OBVIOUS
    <3>1. HasQueued(c) /\ NextSkill(c) = s
      BY GuardedIsNext DEF Good
    <3>2. cast_duration[s] = 0
      BY DEF Good, Origins, Tame
    <3>3. Offered(c) # {} /\ Due(c)
      BY <2>2, <3>1, QueuedCastIs
    <3>4. CanStart(c)
      BY <2>2, <3>1, <3>2, <3>3 DEF CanStart
    <3> QED BY <1>1, <3>4
  <2> QED BY <1>1, <2>1, <2>3 DEF Still
<1> QED BY <1>1, <1>2, <1>3, StillKeeps DEF Good

\* What an entity casts next, from its queue or, if it is the actor, its rotation.
LEMMA NextCastIs ==
  ASSUME Tame, TypeInv, Orderly(rotation), Good, NEW e \in Entities,
         OutOfCasts(e) => Restarts(e)
  PROVE  /\ Offered(e) # {}
         /\ NextSkill(e) \in Skills
         /\ CanStart(e) => can_cast_skill(e, NextSkill(e))
         /\ HasQueued(e) => NextSkill(e) \in Range(queued_rotation[e])
         /\ ~HasQueued(e) => e = Actor /\ NextSkill(e) \in Planned(rotation)
<1>1. CASE HasQueued(e)
  <2>1. /\ Offered(e) # {} /\ NextSkill(e) \in Skills
        /\ NextSkill(e) \in Range(queued_rotation[e])
    BY <1>1, QueuedCastIs
  <2>2. e = Actor => NextSkill(e) \in Prompted
    BY <2>1 DEF Good, Origins
  <2>3. e = Actor => ~Uses(NextSkill(e))
    BY <2>2 DEF Tame
  <2>4. can_cast_skill(e, NextSkill(e))
    BY <2>3 DEF can_cast_skill, Uses, TypeInv, BundleOK
  <2> QED BY <1>1, <2>1, <2>4
<1>2. CASE ~HasQueued(e)
  <2>1. e = Actor
    BY <1>2 DEF OutOfCasts, Restarts
  <2>2. Offered(e) # {} /\ NextSkill(e) \in Planned(rotation)
    BY <1>2, <2>1, NextSkillIs DEF Orderly
  <2>3. NextSkill(e) \in Skills
    BY <2>2, NextSkillType
  <2>4. CanStart(e) => can_cast_skill(e, NextSkill(e))
    BY <1>2, <2>1, <2>3, RotationCastFits DEF Good
  <2> QED BY <1>2, <2>1, <2>2, <2>3, <2>4
<1> QED BY <1>1, <1>2

LEMMA NothingThrows ==
  ASSUME Tame, TypeInv, Orderly(rotation), Good, NEW e \in Entities
  PROVE  ~RotationThrows(e)
<1> SUFFICES ASSUME RotationThrows(e) PROVE FALSE
  OBVIOUS
<1>1. OutOfCasts(e) => Restarts(e)
  BY DEF RotationThrows
<1>2. Offered(e) = {} \/ (CanStart(e) /\ ~can_cast_skill(e, NextSkill(e)))
  BY DEF RotationThrows
<1> QED BY <1>1, <1>2, NextCastIs

LEMMA SpawnedAre == Spawned \cup Prompted \subseteq Skills
<1>1. \A t \in Triggers : t.skill_key \in Skills
  BY Configuration
<1>2. \A s \in Skills : Range(child_skill_keys[s]) \subseteq Skills
  <2> TAKE s \in Skills
  <2>1. PICK keys \in Seq(Skills) : keys = child_skill_keys[s]
    BY Configuration
  <2> QED BY <2>1, RangeOfSeq
<1> QED BY <1>1, <1>2 DEF Spawned, Prompted, Triggers

\* A cast that nobody else pays for, of a skill that changes neither weapons nor bundles.
Apart(s) ==
  /\ ~Changes(s)
  /\ Current # Nobody => Current.skill \notin Paying(s)
  /\ \A c \in Children : \A g \in Range(queued_rotation'[c]) : cooldown[g] > 0 => g \notin Paying(s)

LEMMA PayApart ==
  ASSUME Tame, TypeInv, Good, NEW e \in Entities, NEW s \in Skills, FinishCasting(e, s), Apart(s),
         on_cooldown[s] = 0, Origins'
  PROVE  /\ ~failed' /\ Even'
         /\ Current # Nobody => on_cooldown'[Current.skill] = on_cooldown[Current.skill]
         /\ on_cooldown'[WeaponSwap] = on_cooldown[WeaponSwap]
         /\ \A c \in Children : \A g \in Range(queued_rotation'[c]) :
               cooldown[g] > 0 => on_cooldown'[g] = on_cooldown[g]
<1>1. ~failed' /\ Even'
  BY PaysIs DEF Good
<1>2. \A p \in Skills : p \notin Paying(s) => on_cooldown'[p] = on_cooldown[p]
  BY PaysIs DEF Good
<1>3. WeaponSwap \in Skills /\ WeaponSwap \notin Paying(s)
  <2>1. WeaponSwap \in Skills
    BY Configuration
  <2>2. WeaponSwap \in Paying(s) => Paying(WeaponSwap) = Paying(s)
    BY PayTogether
  <2>3. s \in Paying(s)
    BY PayingIs
  <2>4. s # WeaponSwap
    BY DEF Apart, Changes
  <2> QED BY <2>1, <2>2, <2>3, <2>4 DEF Tame
<1>4. Current # Nobody => Current.skill \in Skills
  BY DEF TypeInv, CastOK, CastOf, Current, Entities
<1>5. \A c \in Children : \A g \in Range(queued_rotation'[c]) : g \in Skills
  BY SpawnedAre DEF Origins
<1> QED BY <1>1, <1>2, <1>3, <1>4, <1>5 DEF Apart

LEMMA PoppedShrinks ==
  ASSUME NEW queue \in Seq(Skills)
  PROVE  Range(Popped(queue)) \subseteq Range(queue)
<1>1. CASE queue = <<>>
  BY <1>1 DEF Popped
<1>2. CASE queue # <<>>
  <2>1. /\ Tail(queue) \in Seq(Skills) /\ Len(Tail(queue)) = Len(queue) - 1
        /\ \A i \in 1 .. Len(Tail(queue)) : Tail(queue)[i] = queue[i + 1]
    BY <1>2, HeadTailProperties
  <2>2. Len(queue) \in Nat /\ DOMAIN queue = 1 .. Len(queue)
        /\ DOMAIN Tail(queue) = 1 .. Len(Tail(queue))
    BY <2>1, LenProperties
  <2>3. \A i \in DOMAIN Tail(queue) : i + 1 \in DOMAIN queue /\ Tail(queue)[i] = queue[i + 1]
    BY <2>1, <2>2
  <2>4. Popped(queue) = Tail(queue)
    BY <1>2 DEF Popped
  <2> QED BY <2>3, <2>4 DEF Range
<1> QED BY <1>1, <1>2

\* A cast is ready when it can start, and does not take the charge of a guarded proc.
LEMMA StartCastIs ==
  ASSUME Tame, TypeInv, Orderly(rotation), Good, NEW e \in Entities, StartCast(e),
         NEW s \in Skills, s = NextSkill(e)
  PROVE  /\ \A x \in Entities : Range(queued_rotation'[x]) \subseteq Range(queued_rotation[x])
         /\ \A c \in Children : \A g \in Range(queued_rotation'[c]) :
               cooldown[g] > 0 => /\ c # e /\ g \in Range(queued_rotation[c])
                                  /\ queued_rotation'[c] = queued_rotation[c] /\ g \notin Paying(s)
         /\ e = Actor => s \in Planned(rotation) \cup Prompted
         /\ e # Actor => s \in Spawned
         /\ Changes(s) => e = Actor /\ cast_duration[s] > 0 /\ ~CannotEquip(Actor, s)
         /\ Changes(s) => [idx |-> current_idx', set |-> SetAfter(Actor, s),
                           bundle |-> BundleAfter(Actor, s)] \in Reading(rotation)
         /\ ~Changes(s) => [idx |-> current_idx', set |-> Here.set, bundle |-> Here.bundle]
                             \in Reading(rotation)
         /\ on_cooldown[s] = 0 \/ (e = Actor /\ DropsBundle(e, s))
<1> USE DEF StartCast, Perform, In, Visit
<1>1. /\ CanStart(e) /\ (OutOfCasts(e) => Restarts(e))
      /\ queued_rotation' = [queued_rotation EXCEPT ![e] = Popped(@)]
      /\ current_idx' = IF HasQueued(e) THEN current_idx ELSE NextIdx(e) + 1
      /\ phase = "rotations"
  OBVIOUS
<1> HIDE DEF StartCast
<1>2. /\ queued_rotation \in [Entities -> Seq(Skills)] /\ \A c \in Children : c \in Entities
      /\ queued_rotation'[e] = Popped(queued_rotation[e])
      /\ \A x \in Entities \ {e} : queued_rotation'[x] = queued_rotation[x]
  BY <1>1 DEF TypeInv, TurnOK, Entities
<1>3. \A x \in Entities : Range(queued_rotation'[x]) \subseteq Range(queued_rotation[x])
  BY <1>2, PoppedShrinks
<1>4. /\ HasQueued(e) => s \in Range(queued_rotation[e])
      /\ ~HasQueued(e) => e = Actor /\ s \in Planned(rotation)
  BY <1>1, NextCastIs
<1>5. /\ HasQueued(e) /\ e = Actor => s \in Prompted
      /\ HasQueued(e) /\ e # Actor => s \in Spawned
  BY <1>4 DEF Good, Origins, Entities
<1>6. HasQueued(e) => ~Changes(s)
  BY <1>5 DEF Tame
<1>7. ASSUME NEW c \in Children, NEW g \in Range(queued_rotation'[c]), cooldown[g] > 0
      PROVE  /\ c # e /\ g \in Range(queued_rotation[c])
             /\ queued_rotation'[c] = queued_rotation[c] /\ g \notin Paying(s)
  <2>1. g \in Range(queued_rotation[c])
    BY <1>2, <1>3
  <2>2. c # e
    BY <1>2, <1>7, <2>1, GuardedIsNext DEF Good
  <2>3. g \in Spawned /\ g \in Skills
    BY <2>1, SpawnedAre DEF Good, Origins
  <2>4. g \in Paying(s) => s \in Paying(g)
    BY <2>3, PayTogether, PayingIs
  <2>5. s \notin Paying(g)
    <3>1. CASE s \in Planned(rotation)
      BY <1>7, <2>3, <3>1 DEF Orderly
    <3>2. CASE e # Actor
      <4>1. e \in Children \ {c} /\ s \in Range(queued_rotation[e])
        BY <1>4, <2>2, <3>2 DEF Entities
      <4> QED BY <1>7, <2>1, <4>1 DEF Good, ProcsWait
    <3>3. CASE s \in Prompted
      <4>1. PICK t \in Triggers : Guards(t, g)
        BY <1>7, <2>3 DEF Tame
      <4>2. PICK u \in source_actor_skill_triggers : u.skill_key = s
        BY <3>3 DEF Prompted
      <4> QED BY <4>1, <4>2 DEF Guards, Triggers
    <3> QED BY <1>4, <1>5, <3>1, <3>2, <3>3
  <2> QED BY <1>2, <2>1, <2>2, <2>4, <2>5
<1>8. Here = [idx |-> current_idx, set |-> Here.set, bundle |-> Here.bundle]
  BY DEF Here
<1>9. /\ Changes(s) => cast_duration[s] > 0 /\ ~CannotEquip(Actor, s)
      /\ Changes(s) => [idx |-> current_idx', set |-> SetAfter(Actor, s),
                        bundle |-> BundleAfter(Actor, s)] \in Reading(rotation)
      /\ ~Changes(s) => [idx |-> current_idx', set |-> Here.set, bundle |-> Here.bundle]
                          \in Reading(rotation)
  <2>1. CASE HasQueued(e)
    BY <1>1, <1>6, <1>8, <2>1 DEF Good, InOrder
  <2>2. CASE ~HasQueued(e)
    <3>1. e = Actor /\ InOrder
      BY <1>4, <2>2 DEF Good
    <3>2. current_idx' = NextIdx(Actor) + 1 /\ ~HasQueued(Actor) /\ s = NextSkill(Actor)
          /\ CanStart(Actor) /\ (OutOfCasts(Actor) => Restarts(Actor))
      BY <1>1, <2>2, <3>1
    <3> HIDE DEF Actor
    <3> QED BY <3>1, <3>2, RotationCastFits
  <2> QED BY <2>1, <2>2
<1>10. on_cooldown[s] = 0 \/ (e = Actor /\ DropsBundle(e, s))
  <2>1. CASE e = Actor
    BY <1>1, <2>1 DEF CanStart, HasCharge
  <2>2. CASE e # Actor
    <3>1. e \in Children /\ s \in Range(queued_rotation[e])
      BY <1>4, <2>2 DEF Entities
    <3>2. cooldown[s] > 0 => on_cooldown[s] = 0
      BY <3>1 DEF Good, ProcsWait
    <3>3. on_cooldown[s] \in Nat /\ cooldown[s] \in Nat /\ on_cooldown[s] <= cooldown[s]
      BY Configuration DEF TypeInv, CastOK
    <3> QED BY <3>2, <3>3
  <2> QED BY <2>1, <2>2
<1> QED BY <1>3, <1>4, <1>5, <1>6, <1>7, <1>9, <1>10

LEMMA FinishedGrows ==
  ASSUME TypeInv, NEW e \in Entities, NEW s \in Skills, FinishCasting(e, s)
  PROVE  /\ \A x \in Entities \ {e} : finished_casting_skills'[x] = finished_casting_skills[x]
         /\ Range(finished_casting_skills'[e]) = Range(finished_casting_skills[e]) \cup {s}
         /\ \A i \in DOMAIN finished_casting_skills'[e] :
               \/ /\ i \in DOMAIN finished_casting_skills[e]
                  /\ finished_casting_skills'[e][i] = finished_casting_skills[e][i]
               \/ finished_casting_skills'[e][i] = s
<1>1. PICK ended \in Seq(Skills) : ended = finished_casting_skills[e]
  BY DEF TypeInv, CastOK
<1>2. PICK more \in Seq(Skills) : more = Append(ended, s)
  BY AppendProperties
<1>3. PICK n \in Nat : n = Len(ended) /\ DOMAIN ended = 1 .. n
  BY LenProperties
<1>4. /\ DOMAIN more = 1 .. n + 1 /\ more[n + 1] = s
      /\ \A i \in 1 .. n : more[i] = ended[i]
  BY <1>2, <1>3, AppendProperties
<1>5. finished_casting_skills'[e] = more
  BY <1>1, <1>2, FinishCastingType
<1>6. \A x \in Entities \ {e} : finished_casting_skills'[x] = finished_casting_skills[x]
  BY FinishCastingType
<1>7. \A i \in 1 .. n + 1 : i \in 1 .. n \/ i = n + 1
  OBVIOUS
<1>8. \A i \in 1 .. n : i \in 1 .. n + 1
  OBVIOUS
<1>9. n + 1 \in 1 .. n + 1
  OBVIOUS
<1>10. Range(more) = Range(ended) \cup {s}
  BY <1>3, <1>4, <1>7, <1>8, <1>9 DEF Range
<1> QED BY <1>1, <1>3, <1>4, <1>5, <1>6, <1>7, <1>10

LEMMA StartCastKeepsGood ==
  ASSUME Tame, TypeInv, Orderly(rotation), Good, NEW e \in Entities, StartCast(e)
  PROVE  Good'
<1> USE DEF StartCast, Perform, In, Visit, children, hooks, equipment
<1>1. PICK s \in Skills : s = NextSkill(e)
  BY NextSkillType DEF CanStart
<1>2. /\ phase = "rotations" /\ phase' = "rotations" /\ todo' = todo \ {e} /\ rotation' = rotation
      /\ animation_expired' = animation_expired /\ alive' = alive
      /\ already_performed_animation' = already_performed_animation
      /\ already_finished_casting_skill' = already_finished_casting_skill
      /\ current_weapon_set' = current_weapon_set /\ bundle' = bundle
      /\ no_more_rotation' = no_more_rotation /\ ~failed /\ CanStart(e)
  BY DEF Good
<1>3. /\ cast_duration[s] = 0 => FinishCasting(e, s) /\ animation' = animation
      /\ cast_duration[s] # 0 =>
           /\ animation' = [animation EXCEPT ![e] = [skill |-> s, left |-> cast_duration[s]]]
           /\ finished_casting_skills' = finished_casting_skills /\ on_cooldown' = on_cooldown
           /\ failed' = failed /\ animation[e] = Nobody
  BY <1>1, <1>2 DEF CanStart
<1>4. /\ \A x \in Entities : Range(queued_rotation'[x]) \subseteq Range(queued_rotation[x])
      /\ \A c \in Children : \A g \in Range(queued_rotation'[c]) :
            cooldown[g] > 0 => /\ c # e /\ g \in Range(queued_rotation[c])
                               /\ queued_rotation'[c] = queued_rotation[c] /\ g \notin Paying(s)
      /\ e = Actor => s \in Planned(rotation) \cup Prompted
      /\ e # Actor => s \in Spawned
      /\ Changes(s) => e = Actor /\ cast_duration[s] > 0 /\ ~CannotEquip(Actor, s)
      /\ Changes(s) => [idx |-> current_idx', set |-> SetAfter(Actor, s),
                        bundle |-> BundleAfter(Actor, s)] \in Reading(rotation)
      /\ ~Changes(s) => [idx |-> current_idx', set |-> Here.set, bundle |-> Here.bundle]
                          \in Reading(rotation)
      /\ on_cooldown[s] = 0 \/ (e = Actor /\ DropsBundle(e, s))
  <2> HIDE DEF StartCast
  <2> QED BY <1>1, StartCastIs
<1> HIDE DEF StartCast
<1>5. /\ \A c \in Children : c \in Entities /\ c # Actor
      /\ Actor \in Entities /\ cast_duration[s] \in Nat
  BY Configuration DEF Entities, Children, Actor
<1>6. ASSUME \A c \in Children : \A g \in Range(queued_rotation'[c]) :
                cooldown[g] > 0 => on_cooldown'[g] = on_cooldown[g]
      PROVE  ProcsWait'
  <2> SUFFICES ASSUME NEW c \in Children, NEW g \in Range(queued_rotation'[c]), cooldown[g] > 0
               PROVE  /\ on_cooldown'[g] = 0 /\ Len(queued_rotation'[c]) = 1
                      /\ c \in alive' /\ c \notin no_more_rotation'
                      /\ \A d \in Children \ {c} : Range(queued_rotation'[d]) \cap Paying(g) = {}
                      /\ phase' = "rotations" /\ c \in todo'
    BY DEF ProcsWait
  <2>1. c # e /\ g \in Range(queued_rotation[c]) /\ queued_rotation'[c] = queued_rotation[c]
    BY <1>4
  <2>2. /\ on_cooldown[g] = 0 /\ Len(queued_rotation[c]) = 1
        /\ c \in alive /\ c \notin no_more_rotation
        /\ \A d \in Children \ {c} : Range(queued_rotation[d]) \cap Paying(g) = {}
        /\ c \in todo
    BY <1>2, <2>1 DEF Good, ProcsWait
  <2>3. \A d \in Children \ {c} : Range(queued_rotation'[d]) \cap Paying(g) = {}
    BY <1>4, <1>5, <2>2
  <2> QED BY <1>2, <1>6, <2>1, <2>2, <2>3
<1>7. CASE cast_duration[s] = 0
  <2>1. /\ FinishCasting(e, s) /\ animation' = animation /\ ~Changes(s) /\ s # WeaponSwap
    BY <1>3, <1>4, <1>7 DEF Changes
  <2>2. /\ \A x \in Entities \ {e} : finished_casting_skills'[x] = finished_casting_skills[x]
        /\ Range(finished_casting_skills'[e]) = Range(finished_casting_skills[e]) \cup {s}
        /\ \A i \in DOMAIN finished_casting_skills'[e] :
               \/ /\ i \in DOMAIN finished_casting_skills[e]
                  /\ finished_casting_skills'[e][i] = finished_casting_skills[e][i]
               \/ finished_casting_skills'[e][i] = s
    BY <2>1, FinishedGrows
  <2>3. Current' = Current /\ (Applied' <=> Applied) /\ (Changing' <=> Changing)
    BY <1>2, <2>1 DEF Current, Applied, Changing
  <2>4. SetAfter(Actor, Current.skill)' = SetAfter(Actor, Current.skill)
        /\ BundleAfter(Actor, Current.skill)' = BundleAfter(Actor, Current.skill)
        /\ (CannotEquip(Actor, Current.skill)' <=> CannotEquip(Actor, Current.skill))
    BY <1>2, <2>3 DEF SetAfter, BundleAfter, CannotEquip, Swapped, DropsBundle
  <2>5. Here' = [idx |-> current_idx', set |-> Here.set, bundle |-> Here.bundle]
    BY <1>2, <2>3, <2>4 DEF Here
  <2>6. InOrder'
    BY <1>2, <1>4, <2>1, <2>3, <2>4, <2>5 DEF InOrder, Good
  <2>7. OneChanger'
    BY <1>2, <1>5, <2>1, <2>2, <2>3 DEF Good, OneChanger
  <2>8. Origins'
    BY <1>2, <1>4, <1>5, <2>1, <2>2, <2>3 DEF Good, Origins
  <2>9. Apart(s) /\ on_cooldown[s] = 0
    <3>1. Current # Nobody => Current.skill \notin Paying(s)
      BY <1>7, PayTogether DEF Good, Origins
    <3>2. on_cooldown[s] = 0
      BY <1>4, <2>1 DEF DropsBundle
    <3> QED BY <1>4, <2>1, <3>1, <3>2 DEF Apart
  <2>10. /\ ~failed' /\ Even'
         /\ Current # Nobody => on_cooldown'[Current.skill] = on_cooldown[Current.skill]
         /\ on_cooldown'[WeaponSwap] = on_cooldown[WeaponSwap]
         /\ \A c \in Children : \A g \in Range(queued_rotation'[c]) :
               cooldown[g] > 0 => on_cooldown'[g] = on_cooldown[g]
    BY <2>1, <2>8, <2>9, PayApart
  <2>11. Charged'
    BY <1>2, <2>3, <2>10 DEF Good, Charged, DropsBundle
  <2>12. SwapsPay'
    <3>1. \A i \in Unhooked(Actor)' : finished_casting_skills'[Actor][i] = WeaponSwap =>
            i \in Unhooked(Actor) /\ finished_casting_skills[Actor][i] = WeaponSwap
      BY <1>2, <1>5, <2>1, <2>2 DEF Unhooked
    <3> QED BY <1>2, <2>3, <2>10, <3>1 DEF Good, SwapsPay
  <2> QED BY <1>6, <2>6, <2>7, <2>8, <2>10, <2>11, <2>12 DEF Good
<1>8. CASE cast_duration[s] # 0
  <2>1. /\ finished_casting_skills' = finished_casting_skills /\ on_cooldown' = on_cooldown
        /\ ~failed' /\ animation[e] = Nobody
        /\ \A x \in Entities : animation'[x] = IF x = e THEN [skill |-> s, left |-> cast_duration[s]]
                                               ELSE animation[x]
    BY <1>2, <1>3, <1>8 DEF TypeInv, CastOK
  <2>2. /\ Even' /\ ProcsWait'
    BY <1>6, <2>1 DEF Good, Even
  <2>3. CASE e # Actor
    <3>1. Current' = Current /\ (Applied' <=> Applied) /\ (Changing' <=> Changing)
      BY <1>2, <1>5, <2>1, <2>3 DEF Current, Applied, Changing
    <3>2. SetAfter(Actor, Current.skill)' = SetAfter(Actor, Current.skill)
          /\ BundleAfter(Actor, Current.skill)' = BundleAfter(Actor, Current.skill)
          /\ (CannotEquip(Actor, Current.skill)' <=> CannotEquip(Actor, Current.skill))
      BY <1>2, <3>1 DEF SetAfter, BundleAfter, CannotEquip, Swapped, DropsBundle
    <3>3. Here' = [idx |-> current_idx', set |-> Here.set, bundle |-> Here.bundle]
      BY <1>2, <3>1, <3>2 DEF Here
    <3>4. InOrder'
      BY <1>2, <1>4, <2>3, <3>1, <3>2, <3>3 DEF InOrder, Good
    <3>5. OneChanger'
      BY <1>2, <2>1, <3>1 DEF Good, OneChanger
    <3>6. Origins'
      BY <1>2, <1>4, <1>5, <1>8, <2>1, <2>3, <3>1 DEF Good, Origins
    <3>7. Charged' /\ SwapsPay'
      BY <1>2, <2>1, <3>1 DEF Good, Charged, SwapsPay, Unhooked, DropsBundle
    <3> QED BY <2>1, <2>2, <3>4, <3>5, <3>6, <3>7 DEF Good
  <2>4. CASE e = Actor
    <3>1. Current' = [skill |-> s, left |-> cast_duration[s]] /\ Current = Nobody
      BY <2>1, <2>4 DEF Current
    <3>2. Current' \in CastOf /\ Current' # Nobody /\ Current'.skill = s
      BY <1>5, <3>1, Configuration DEF CastOf
    <3>3. /\ Actor \notin animation_expired /\ ~Applied' /\ ~Changing
          /\ (Changing' <=> Changes(s))
      BY <1>2, <3>1, <3>2 DEF Good, OneChanger, Applied, Changing
    <3>4. SetAfter(Actor, s)' = SetAfter(Actor, s) /\ BundleAfter(Actor, s)' = BundleAfter(Actor, s)
          /\ (CannotEquip(Actor, s)' <=> CannotEquip(Actor, s))
      BY <1>2 DEF SetAfter, BundleAfter, CannotEquip, Swapped, DropsBundle
    <3>5. InOrder'
      <4>1. CASE Changes(s)
        <5>1. Here' = [idx |-> current_idx', set |-> SetAfter(Actor, s),
                       bundle |-> BundleAfter(Actor, s)]
          BY <3>2, <3>3, <3>4, <4>1 DEF Here
        <5> QED BY <1>2, <1>4, <3>2, <3>4, <4>1, <5>1 DEF InOrder
      <4>2. CASE ~Changes(s)
        <5>1. Here' = [idx |-> current_idx', set |-> Here.set, bundle |-> Here.bundle]
          BY <1>2, <3>3, <4>2 DEF Here
        <5> QED BY <1>2, <1>4, <3>3, <4>2, <5>1 DEF InOrder
      <4> QED BY <4>1, <4>2
    <3>6. OneChanger'
      BY <1>2, <2>1, <3>1, <3>3 DEF Good, OneChanger
    <3>7. Origins'
      BY <1>2, <1>4, <1>5, <1>8, <2>1, <2>4, <3>2 DEF Good, Origins
    <3>8. Charged'
      BY <1>2, <1>4, <2>1, <2>4, <3>2 DEF Charged, DropsBundle
    <3>9. SwapsPay'
      <4>1. on_cooldown[WeaponSwap] # cooldown[WeaponSwap] /\ Unhooked(Actor)' = Unhooked(Actor)
        BY <1>2, <2>1, <3>1 DEF Good, SwapsPay, Unhooked
      <4> QED BY <1>2, <2>1, <4>1 DEF Good, SwapsPay
    <3> QED BY <2>1, <2>2, <3>5, <3>6, <3>7, <3>8, <3>9 DEF Good
  <2> QED BY <2>3, <2>4
<1> QED BY <1>7, <1>8

\* What an animation that advances leaves of the cast under way.
LEMMA AdvancedCastIs ==
  ASSUME TypeInv, Good, NEW e \in Entities, ProgressAnimation(e)
  PROVE  /\ e \notin animation_expired /\ e \notin already_performed_animation
         /\ animation[e] \in CastOf /\ animation[e] # Nobody
         /\ animation'[e] \in CastOf /\ animation'[e] # Nobody
         /\ animation'[e].skill = animation[e].skill
         /\ \A x \in Entities \ {e} : animation'[x] = animation[x]
<1> USE DEF ProgressAnimation, Visit, In
<1>1. e \in todo /\ phase = "animations"
  OBVIOUS
<1>2. e \notin already_performed_animation /\ e \notin animation_expired
  BY <1>1 DEF Good, OneChanger
<1>3. PICK cast \in CastOf : cast = animation[e]
  BY <1>1 DEF TypeInv, LoopOK, CastOK
<1>4. \A c \in CastOf : c # Nobody
  BY Configuration DEF CastOf
<1>5. [cast EXCEPT !.left = cast.left - 1] \in CastOf
      /\ [cast EXCEPT !.left = cast.left - 1].skill = cast.skill
  BY DEF CastOf
<1>6. animation' = [animation EXCEPT ![e] = [cast EXCEPT !.left = cast.left - 1]]
  BY <1>3
<1>7. /\ animation'[e] = [cast EXCEPT !.left = cast.left - 1]
      /\ \A x \in Entities \ {e} : animation'[x] = animation[x]
  BY <1>6 DEF TypeInv, CastOK
<1> HIDE DEF ProgressAnimation
<1> QED BY <1>2, <1>3, <1>4, <1>5, <1>7

\* The end of a Weapon Swap's animation pays for it just if no bundle is held.
LEMMA EndedSwapPays ==
  ASSUME Tame, TypeInv, Good, NEW s \in Skills, FinishCasting(Actor, s),
         Actor \notin animation_expired,
         \A p \in Skills : on_cooldown'[p] =
               IF p \in Paying(s) /\ ~DropsBundle(Actor, s) THEN cooldown[p] ELSE on_cooldown[p]
  PROVE  /\ on_cooldown'[WeaponSwap] = cooldown[WeaponSwap] => s = WeaponSwap
         /\ \A i \in DOMAIN finished_casting_skills'[Actor] :
              finished_casting_skills'[Actor][i] = WeaponSwap
                => (bundle[Actor] = Nothing <=> on_cooldown'[WeaponSwap] = cooldown[WeaponSwap])
<1>1. WeaponSwap \in Skills /\ Paying(WeaponSwap) = {WeaponSwap} /\ Actor \in Entities
  BY Configuration DEF Tame, Entities
<1>2. on_cooldown[WeaponSwap] # cooldown[WeaponSwap]
  BY DEF Good, SwapsPay
<1>3. CASE s = WeaponSwap
  <2>1. on_cooldown'[WeaponSwap] = IF DropsBundle(Actor, s) THEN on_cooldown[WeaponSwap]
                                   ELSE cooldown[WeaponSwap]
    BY <1>1, <1>3
  <2>2. bundle[Actor] = Nothing <=> on_cooldown'[WeaponSwap] = cooldown[WeaponSwap]
    BY <1>2, <1>3, <2>1 DEF DropsBundle
  <2> QED BY <1>3, <2>2
<1>4. CASE s # WeaponSwap
  <2>1. WeaponSwap \notin Paying(s)
    <3>1. WeaponSwap \in Paying(s) => Paying(WeaponSwap) = Paying(s)
      BY PayTogether
    <3> QED BY <1>1, <1>4, <3>1, PayingIs
  <2>2. on_cooldown'[WeaponSwap] = on_cooldown[WeaponSwap]
    BY <1>1, <2>1
  <2>3. \A i \in DOMAIN finished_casting_skills'[Actor] :
           finished_casting_skills'[Actor][i] # WeaponSwap
    <3> SUFFICES ASSUME NEW i \in DOMAIN finished_casting_skills'[Actor],
                        finished_casting_skills'[Actor][i] = WeaponSwap
                 PROVE  FALSE
      OBVIOUS
    <3>1. i \in DOMAIN finished_casting_skills[Actor]
          /\ finished_casting_skills[Actor][i] = WeaponSwap
      BY <1>1, <1>4, FinishedGrows
    <3>2. WeaponSwap \in Range(finished_casting_skills[Actor]) /\ Changes(WeaponSwap)
      BY <3>1 DEF Range, Changes
    <3> QED BY <1>1, <3>2 DEF Good, OneChanger
  <2> QED BY <1>2, <2>2, <2>3
<1> QED BY <1>3, <1>4

LEMMA AnimationKeepsGood ==
  ASSUME Tame, TypeInv, Good, NEW e \in Entities, ProgressAnimation(e)
  PROVE  Good'
<1>1. PICK s \in Skills : s = animation[e].skill
  BY AdvancedCastIs DEF CastOf
<1>2. /\ e \notin animation_expired /\ e \notin already_performed_animation
      /\ animation[e] # Nobody /\ animation'[e] # Nobody /\ animation'[e].skill = s
      /\ \A x \in Entities \ {e} : animation'[x] = animation[x]
  BY <1>1, AdvancedCastIs
<1>3. /\ phase = "animations" /\ phase' = "animations" /\ todo' = todo \ {e}
      /\ already_performed_animation' = already_performed_animation \cup {e}
      /\ rotation' = rotation /\ current_idx' = current_idx /\ ~failed
      /\ queued_rotation' = queued_rotation
      /\ already_finished_casting_skill' = already_finished_casting_skill
      /\ current_weapon_set' = current_weapon_set /\ bundle' = bundle
  BY DEF ProgressAnimation, Visit, In, rotations, turn, equipment
<1>4. \/ /\ animation_expired' = animation_expired \cup {e} /\ FinishCasting(e, s)
      \/ /\ animation_expired' = animation_expired /\ on_cooldown' = on_cooldown
         /\ finished_casting_skills' = finished_casting_skills /\ failed' = failed
  BY <1>1 DEF ProgressAnimation
<1>5. Actor \in Entities /\ \A c \in Children : c \in Entities /\ c # Actor
  BY Configuration DEF Entities, Children, Actor
<1> HIDE DEF Actor
<1>6. /\ Current' # Nobody <=> Current # Nobody
      /\ Current # Nobody => Current'.skill = Current.skill
      /\ e = Actor => Current # Nobody /\ Current.skill = s
  BY <1>1, <1>2, <1>5 DEF Current
<1>7. Changing' <=> Changing
  <2>1. CASE Actor \in animation_expired' <=> Actor \in animation_expired
    BY <1>3, <1>6, <2>1 DEF Changing, Applied
  <2>2. CASE ~(Actor \in animation_expired' <=> Actor \in animation_expired)
    <3>1. e = Actor /\ Current # Nobody /\ Current.skill = s
      BY <1>4, <1>6, <2>2
    <3>2. Changes(s) => <<Actor, s>> \notin already_finished_casting_skill
      BY <1>2, <3>1 DEF Good, OneChanger
    <3> QED BY <1>2, <1>3, <1>6, <3>1, <3>2 DEF Changing, Applied
  <2> QED BY <2>1, <2>2
<1>8. InOrder'
  <2>1. Current # Nobody =>
          /\ SetAfter(Actor, Current.skill)' = SetAfter(Actor, Current.skill)
          /\ BundleAfter(Actor, Current.skill)' = BundleAfter(Actor, Current.skill)
          /\ (CannotEquip(Actor, Current.skill)' <=> CannotEquip(Actor, Current.skill))
    BY <1>3, <1>6 DEF SetAfter, BundleAfter, CannotEquip, Swapped, DropsBundle
  <2>2. Changing => Current # Nobody
    BY DEF Changing
  <2>3. Here' = Here
    BY <1>3, <1>7, <2>1, <2>2 DEF Here
  <2> QED BY <1>3, <1>7, <2>1, <2>2, <2>3 DEF Good, InOrder
<1>9. ProcsWait'
  BY <1>3 DEF Good, ProcsWait
<1>10. /\ e = Actor => DropsBundle(e, s) \/ on_cooldown[s] = 0
       /\ e # Actor => s \in Spawned /\ cooldown[s] = 0 /\ on_cooldown[s] = 0
  <2>1. CASE e = Actor
    BY <1>2, <1>6, <2>1 DEF Good, Charged
  <2>2. CASE e # Actor
    <3>1. e \in Children
      BY <2>2 DEF Entities
    <3>2. s \in Spawned /\ cast_duration[s] > 0
      BY <1>1, <1>2, <3>1 DEF Good, Origins
    <3>3. cooldown[s] \in Nat /\ on_cooldown[s] \in Nat /\ on_cooldown[s] <= cooldown[s]
      BY Configuration DEF TypeInv, CastOK
    <3> QED BY <2>2, <3>2, <3>3 DEF Tame
  <2> QED BY <2>1, <2>2
<1>11. CASE animation_expired' = animation_expired \cup {e} /\ FinishCasting(e, s)
  <2>1. /\ ~failed' /\ Even'
        /\ \A p \in Skills : on_cooldown'[p] =
              IF p \in Paying(s) /\ ~DropsBundle(e, s) THEN cooldown[p] ELSE on_cooldown[p]
    BY <1>10, <1>11, PaysIs DEF Good
  <2>2. e # Actor => \A p \in Skills : on_cooldown'[p] = on_cooldown[p]
    <3> SUFFICES ASSUME e # Actor, NEW p \in Skills, p \in Paying(s) PROVE cooldown[p] = on_cooldown[p]
      BY <2>1
    <3>1. cooldown[p] = cooldown[s]
      BY PayTogether
    <3>2. on_cooldown[p] = on_cooldown[s]
      BY DEF Good, Even
    <3> QED BY <1>10, <3>1, <3>2
  <2>3. /\ \A x \in Entities \ {e} : finished_casting_skills'[x] = finished_casting_skills[x]
        /\ Range(finished_casting_skills'[e]) = Range(finished_casting_skills[e]) \cup {s}
    BY <1>11, FinishedGrows
  <2>4. OneChanger'
    <3>1. Range(finished_casting_skills[Actor]) \subseteq Range(finished_casting_skills'[Actor])
          /\ (e # Actor => finished_casting_skills'[Actor] = finished_casting_skills[Actor])
          /\ (e = Actor => Range(finished_casting_skills'[Actor]) =
                             Range(finished_casting_skills[Actor]) \cup {s})
      BY <1>5, <2>3
    <3> QED BY <1>3, <1>6, <1>11, <3>1 DEF Good, OneChanger
  <2>5. Origins'
    <3>1. Range(queued_rotation'[Actor]) \subseteq Prompted
      BY <1>3 DEF Good, Origins
    <3>2. Current' # Nobody =>
            /\ Current'.skill \in Planned(rotation) \cup Prompted
            /\ cast_duration[Current'.skill] > 0
      BY <1>6 DEF Good, Origins
    <3>3. ASSUME NEW c \in Children
          PROVE  /\ Range(queued_rotation'[c]) \cup Range(finished_casting_skills'[c]) \subseteq Spawned
                 /\ animation'[c] # Nobody =>
                      animation'[c].skill \in Spawned /\ cast_duration[animation'[c].skill] > 0
      <4>1. CASE c = e
        BY <1>1, <1>2, <1>3, <1>5, <1>10, <2>3, <4>1 DEF Good, Origins
      <4>2. CASE c # e
        BY <1>2, <1>3, <1>5, <2>3, <4>2 DEF Good, Origins
      <4> QED BY <4>1, <4>2
    <3> QED BY <1>3, <3>1, <3>2, <3>3 DEF Origins
  <2>6. Charged'
    <3>1. CASE e = Actor
      BY <1>11, <3>1 DEF Charged
    <3>2. CASE e # Actor
      <4>1. Current # Nobody => Current.skill \in Skills
        BY <1>5 DEF TypeInv, CastOK, CastOf, Current
      <4>2. Current # Nobody => on_cooldown'[Current.skill] = on_cooldown[Current.skill]
        BY <2>2, <3>2, <4>1
      <4>3. Actor \notin animation_expired' => Actor \notin animation_expired
        BY <1>11
      <4> QED BY <1>3, <1>6, <4>2, <4>3 DEF Good, Charged, DropsBundle
    <3> QED BY <3>1, <3>2
  <2>7. SwapsPay'
    <3>1. CASE e = Actor
      <4>1. /\ on_cooldown'[WeaponSwap] = cooldown[WeaponSwap] => s = WeaponSwap
            /\ \A i \in DOMAIN finished_casting_skills'[Actor] :
                 finished_casting_skills'[Actor][i] = WeaponSwap
                   => (bundle[Actor] = Nothing <=> on_cooldown'[WeaponSwap] = cooldown[WeaponSwap])
        BY <1>2, <1>11, <2>1, <3>1, EndedSwapPays
      <4>2. Unhooked(Actor)' \subseteq DOMAIN finished_casting_skills'[Actor]
        BY DEF Unhooked
      <4> QED BY <1>3, <1>6, <1>11, <3>1, <4>1, <4>2 DEF SwapsPay
    <3>2. CASE e # Actor
      <4>1. Unhooked(Actor)' = Unhooked(Actor)
            /\ finished_casting_skills'[Actor] = finished_casting_skills[Actor]
        BY <1>3, <1>5, <2>3, <3>2 DEF Unhooked
      <4>2. on_cooldown'[WeaponSwap] = on_cooldown[WeaponSwap]
        BY <2>2, <3>2, Configuration
      <4> QED BY <1>3, <1>6, <1>11, <4>1, <4>2 DEF Good, SwapsPay
    <3> QED BY <3>1, <3>2
  <2> QED BY <1>8, <1>9, <2>1, <2>4, <2>5, <2>6, <2>7 DEF Good
<1>12. CASE /\ animation_expired' = animation_expired /\ on_cooldown' = on_cooldown
            /\ finished_casting_skills' = finished_casting_skills /\ failed' = failed
  <2>1. OneChanger'
    BY <1>3, <1>6, <1>12 DEF Good, OneChanger
  <2>2. Origins'
    <3>1. Range(queued_rotation'[Actor]) \subseteq Prompted
      BY <1>3 DEF Good, Origins
    <3>2. Current' # Nobody =>
            /\ Current'.skill \in Planned(rotation) \cup Prompted
            /\ cast_duration[Current'.skill] > 0
      BY <1>6 DEF Good, Origins
    <3>3. ASSUME NEW c \in Children
          PROVE  /\ Range(queued_rotation'[c]) \cup Range(finished_casting_skills'[c]) \subseteq Spawned
                 /\ animation'[c] # Nobody =>
                      animation'[c].skill \in Spawned /\ cast_duration[animation'[c].skill] > 0
      <4>1. animation[c] # Nobody <=> animation'[c] # Nobody
        BY <1>2, <1>5
      <4>2. animation[c] # Nobody => animation'[c].skill = animation[c].skill
        BY <1>1, <1>2, <1>5
      <4> QED BY <1>3, <1>12, <4>1, <4>2 DEF Good, Origins
    <3> QED BY <1>3, <3>1, <3>2, <3>3 DEF Origins
  <2>3. Charged'
    BY <1>3, <1>6, <1>12 DEF Good, Charged, DropsBundle
  <2>4. SwapsPay' /\ Even'
    BY <1>3, <1>6, <1>12 DEF Good, SwapsPay, Unhooked, Even
  <2> QED BY <1>3, <1>8, <1>9, <1>12, <2>1, <2>2, <2>3, <2>4 DEF Good
<1> QED BY <1>4, <1>11, <1>12

\* Whatever is spawned, a guarded proc waits alone: its trigger fires for it but once a tick.
LEMMA FireKeepsProcs ==
  ASSUME Tame, TypeInv, Good, NEW on, NEW by, NEW more \in Seq(Seq(Skills)), NEW set, NEW held,
         \A queue \in Range(more) : \E o \in Skills : queue = child_skill_keys[o],
         Fire(on, by, more, set, held),
         on_cooldown' = on_cooldown, no_more_rotation' = no_more_rotation, phase' = phase,
         phase \in {"finished", "strikes"}, phase = "finished" => progressed'
  PROVE  /\ ProcsWait'
         /\ Range(queued_rotation'[Actor]) \subseteq Prompted
         /\ \A c \in Children : Range(queued_rotation'[c]) \subseteq Spawned
<1>1. /\ Range(queued_rotation'[Actor]) \subseteq Range(queued_rotation[Actor]) \cup Prompted
      /\ \A c \in Children : c \notin alive' \ alive => queued_rotation'[c] = queued_rotation[c]
      /\ \A c \in alive' \ alive : Range(queued_rotation'[c]) \subseteq Spawned
      /\ already_triggered \subseteq already_triggered'
      /\ \A s \in Skills, t \in Triggers : Guards(t, s) =>
           /\ \A c \in alive' \ alive : Range(queued_rotation'[c]) \cap Paying(s) # {} =>
                 /\ Len(queued_rotation'[c]) = 1 /\ on_cooldown[s] = 0
                 /\ <<t, Actor>> \in already_triggered' \ already_triggered
           /\ \A c, d \in alive' \ alive :
                 /\ Range(queued_rotation'[c]) \cap Paying(s) # {}
                 /\ Range(queued_rotation'[d]) \cap Paying(s) # {}
                 => c = d
  BY FireIs
<1>2. alive \subseteq alive' /\ alive' \subseteq Children
  BY FireType
<1>3. /\ Range(queued_rotation'[Actor]) \subseteq Prompted
      /\ \A c \in Children : Range(queued_rotation'[c]) \subseteq Spawned
  BY <1>1 DEF Good, Origins
<1>4. \A c \in alive' \ alive : c \notin no_more_rotation
  BY <1>2, Configuration DEF TypeInv, LoopOK, Living, Children, Actor
<1> SUFFICES ASSUME NEW c \in Children, NEW s \in Range(queued_rotation'[c]), cooldown[s] > 0
             PROVE  /\ on_cooldown[s] = 0 /\ Len(queued_rotation'[c]) = 1
                    /\ c \in alive' /\ c \notin no_more_rotation
                    /\ \A d \in Children \ {c} : Range(queued_rotation'[d]) \cap Paying(s) = {}
                    /\ Marked(s)'
  BY <1>3 DEF ProcsWait
<1>5. s \in Skills /\ s \in Spawned /\ s \in Paying(s)
  BY <1>3, SpawnedAre, PayingIs
<1>6. CASE c \notin alive' \ alive
  <2>1. /\ on_cooldown[s] = 0 /\ Len(queued_rotation[c]) = 1
        /\ c \in alive /\ c \notin no_more_rotation /\ queued_rotation'[c] = queued_rotation[c]
        /\ \A d \in Children \ {c} : Range(queued_rotation[d]) \cap Paying(s) = {}
        /\ Marked(s)
    BY <1>1, <1>6 DEF Good, ProcsWait
  <2>2. PICK t \in Triggers : Guards(t, s) /\ <<t, Actor>> \in already_triggered
    BY <2>1 DEF Marked
  <2>3. Marked(s)'
    BY <1>1, <2>2 DEF Marked, Guards
  <2>4. ASSUME NEW d \in Children \ {c} PROVE Range(queued_rotation'[d]) \cap Paying(s) = {}
    <3>1. CASE d \notin alive' \ alive
      BY <1>1, <2>1, <3>1
    <3>2. CASE d \in alive' \ alive
      BY <1>1, <1>5, <2>2, <3>2
    <3> QED BY <3>1, <3>2
  <2> QED BY <1>2, <2>1, <2>3, <2>4
<1>7. CASE c \in alive' \ alive
  <2>1. PICK t \in Triggers : Guards(t, s)
    BY <1>5 DEF Tame
  <2>2. Range(queued_rotation'[c]) \cap Paying(s) # {}
    BY <1>5
  <2>3. /\ Len(queued_rotation'[c]) = 1 /\ on_cooldown[s] = 0
        /\ <<t, Actor>> \in already_triggered' \ already_triggered
    BY <1>1, <1>5, <1>7, <2>1, <2>2
  <2>4. Marked(s)'
    BY <2>1, <2>3 DEF Marked, Guards
  <2>5. ASSUME NEW d \in Children \ {c}, Range(queued_rotation'[d]) \cap Paying(s) # {} PROVE FALSE
    <3>1. CASE d \in alive' \ alive
      BY <1>1, <1>5, <1>7, <2>1, <2>2, <2>5, <3>1
    <3>2. CASE d \notin alive' \ alive
      <4>1. queued_rotation'[d] = queued_rotation[d]
        BY <1>1, <3>2
      <4>2. PICK g \in Range(queued_rotation[d]) : g \in Paying(s)
        BY <2>5, <4>1
      <4>3. cooldown[g] > 0
        BY <1>5, <4>2, PayTogether
      <4>4. Marked(g)
        BY <4>2, <4>3 DEF Good, ProcsWait
      <4>5. PICK u \in Triggers : Guards(u, g) /\ <<u, Actor>> \in already_triggered
        BY <4>4 DEF Marked
      <4>6. u = t
        BY <2>1, <4>2, <4>5 DEF Guards
      <4> QED BY <2>3, <4>5, <4>6
    <3> QED BY <3>1, <3>2
  <2> QED BY <1>4, <1>7, <2>3, <2>4, <2>5
<1> QED BY <1>6, <1>7

\* What the hooks of a finished cast equip.
LEMMA HooksEquip ==
  ASSUME Tame, TypeInv, Good, NEW e \in Entities, Unhooked(e) # {},
         NEW s \in Skills, s = NextUnhooked(e)
  PROVE  /\ ~CannotEquip(e, s)
         /\ s \in Range(finished_casting_skills[e])
         /\ Changes(s) => e = Actor /\ Changing /\ Current.skill = s /\ Actor \in animation_expired
         /\ ~Changes(s) => SetAfter(e, s) = current_weapon_set /\ BundleAfter(e, s) = bundle[e]
<1>1. s \in Range(finished_casting_skills[e]) /\ <<e, s>> \notin already_finished_casting_skill
  BY NextUnhookedIs DEF Range
<1>2. e # Actor => ~Changes(s)
  <2> SUFFICES ASSUME e # Actor PROVE ~Changes(s)
    OBVIOUS
  <2>1. e \in Children
    BY DEF Entities
  <2> QED BY <1>1, <2>1 DEF Good, Origins, Tame
<1>3. Changes(s) => e = Actor /\ Changing /\ Current.skill = s /\ Actor \in animation_expired
  BY <1>1, <1>2 DEF Good, OneChanger, Changing, Applied
<1>4. Changes(s) => ~CannotEquip(e, s)
  BY <1>3 DEF Good, InOrder
<1>5. ~Changes(s) => /\ ~CannotEquip(e, s)
                     /\ SetAfter(e, s) = current_weapon_set /\ BundleAfter(e, s) = bundle[e]
  BY DEF Changes, CannotEquip, SetAfter, BundleAfter, Swapped, DropsBundle
<1> QED BY <1>1, <1>3, <1>4, <1>5

LEMMA NoHookThrows ==
  ASSUME Tame, TypeInv, Good, NEW e \in Entities
  PROVE  ~HookThrows(e)
<1> SUFFICES ASSUME HookThrows(e) PROVE FALSE
  OBVIOUS
<1>1. Unhooked(e) # {} /\ CannotEquip(e, NextUnhooked(e))
  BY DEF HookThrows
<1>2. PICK s \in Skills : s = NextUnhooked(e)
  BY <1>1, NextUnhookedIs
<1> QED BY <1>1, <1>2, HooksEquip

LEMMA HookKeepsGood ==
  ASSUME Tame, TypeInv, Good, NEW e \in Entities, HookFinishedCast(e)
  PROVE  Good'
<1>1. PICK s \in Skills : s = NextUnhooked(e)
  BY NextUnhookedIs DEF HookFinishedCast
<1>2. /\ phase = "finished" /\ phase' = "finished" /\ todo' = todo /\ rotation' = rotation
      /\ current_idx' = current_idx /\ no_more_rotation' = no_more_rotation
      /\ animation' = animation /\ animation_expired' = animation_expired
      /\ already_performed_animation' = already_performed_animation
      /\ finished_casting_skills' = finished_casting_skills
      /\ on_cooldown' = on_cooldown /\ ~failed /\ failed' = failed /\ progressed'
      /\ already_finished_casting_skill' = already_finished_casting_skill \cup {<<e, s>>}
      /\ Unhooked(e) # {}
  BY <1>1 DEF HookFinishedCast, In, animations
<1>3. /\ ~CannotEquip(e, s) /\ s \in Range(finished_casting_skills[e])
      /\ Changes(s) => e = Actor /\ Changing /\ Current.skill = s /\ Actor \in animation_expired
      /\ ~Changes(s) => SetAfter(e, s) = current_weapon_set /\ BundleAfter(e, s) = bundle[e]
  BY <1>1, <1>2, HooksEquip
<1>4. /\ current_weapon_set' = SetAfter(e, s)
      /\ \A x \in Entities : bundle'[x] = IF x = e THEN BundleAfter(e, s) ELSE bundle[x]
  <2>1. Equip(e, s)
    BY <1>1 DEF HookFinishedCast
  <2> QED BY <2>1 DEF Equip, TypeInv, BundleOK, Held
<1>5. Actor \in Entities /\ \A c \in Children : c \in Entities
  BY DEF Entities
<1>6. /\ ProcsWait'
      /\ Range(queued_rotation'[Actor]) \subseteq Prompted
      /\ \A c \in Children : Range(queued_rotation'[c]) \subseteq Spawned
  <2>1. PICK more \in Seq(Seq(Skills)) :
          more = IF child_skill_keys[s] = <<>> THEN <<>> ELSE <<child_skill_keys[s]>>
    <3>1. PICK keys \in Seq(Skills) : keys = child_skill_keys[s]
      BY Configuration
    <3>2. <<>> \in Seq(Seq(Skills)) /\ <<keys>> \in Seq(Seq(Skills))
      BY <3>1
    <3> QED BY <3>1, <3>2
  <2>2. \A queue \in Range(more) : \E o \in Skills : queue = child_skill_keys[o]
    <3>1. Range(<<>>) = {} /\ \A q : Range(<<q>>) = {q}
      BY DEF Range
    <3> QED BY <2>1, <3>1
  <2>3. PICK set, held : Fire("finished", s, more, set, held)
    BY <1>1, <2>1 DEF HookFinishedCast
  <2> QED BY <1>2, <2>2, <2>3, FireKeepsProcs
<1> HIDE DEF Actor
<1>7. Current' = Current
  BY <1>2 DEF Current
<1>8. ~Changes(s) => current_weapon_set' = current_weapon_set /\ bundle'[Actor] = bundle[Actor]
  BY <1>3, <1>4, <1>5
<1>9. InOrder'
  <2>1. CASE Changes(s)
    <3>1. e = Actor /\ Changing /\ Current.skill = s /\ Actor \in animation_expired
      BY <1>3, <2>1
    <3>2. ~Changing'
      BY <1>2, <1>7, <3>1 DEF Changing, Applied
    <3>3. Here' = Here
      BY <1>2, <1>4, <1>5, <3>1, <3>2 DEF Here
    <3> QED BY <1>2, <3>2, <3>3 DEF Good, InOrder
  <2>2. CASE ~Changes(s)
    <3>1. Changing' <=> Changing
      BY <1>2, <1>7, <2>2 DEF Changing, Applied
    <3>2. SetAfter(Actor, Current.skill)' = SetAfter(Actor, Current.skill)
          /\ BundleAfter(Actor, Current.skill)' = BundleAfter(Actor, Current.skill)
          /\ (CannotEquip(Actor, Current.skill)' <=> CannotEquip(Actor, Current.skill))
      BY <1>7, <1>8, <2>2 DEF SetAfter, BundleAfter, CannotEquip, Swapped, DropsBundle
    <3>3. Here' = Here
      BY <1>2, <1>7, <1>8, <2>2, <3>1, <3>2 DEF Here
    <3> QED BY <1>2, <1>7, <3>1, <3>2, <3>3 DEF Good, InOrder
  <2> QED BY <2>1, <2>2
<1>10. OneChanger'
  BY <1>2, <1>3, <1>7 DEF Good, OneChanger
<1>11. Origins'
  BY <1>2, <1>6, <1>7 DEF Good, Origins
<1>12. Even'
  BY <1>2 DEF Good, Even
<1>13. Charged'
  <2> SUFFICES ASSUME Actor \notin animation_expired PROVE Charged'
    BY <1>2 DEF Charged
  <2>1. bundle'[Actor] = bundle[Actor]
    BY <1>3, <1>8
  <2> QED BY <1>2, <1>7, <2>1 DEF Good, Charged, DropsBundle
<1>14. SwapsPay'
  <2>1. Unhooked(Actor)' \subseteq Unhooked(Actor)
    BY <1>2 DEF Unhooked
  <2>2. CASE ~Changes(s)
    BY <1>2, <1>7, <1>8, <2>1, <2>2 DEF Good, SwapsPay
  <2>3. CASE Changes(s)
    <3>1. \A i \in Unhooked(Actor)' : finished_casting_skills[Actor][i] # WeaponSwap
      <4> SUFFICES ASSUME NEW i \in Unhooked(Actor)',
                          finished_casting_skills[Actor][i] = WeaponSwap
                   PROVE  FALSE
        OBVIOUS
      <4>1. WeaponSwap \in Range(finished_casting_skills[Actor]) /\ Changes(WeaponSwap)
            /\ WeaponSwap \in Skills
        BY <1>2, Configuration DEF Unhooked, Range, Changes
      <4>2. Current.skill = WeaponSwap
        BY <4>1 DEF Good, OneChanger
      <4>3. s = WeaponSwap /\ e = Actor
        BY <1>3, <2>3, <4>2
      <4> QED BY <1>2, <4>3 DEF Unhooked
    <3> QED BY <1>2, <1>7, <3>1 DEF Good, SwapsPay
  <2> QED BY <2>2, <2>3
<1> QED BY <1>2, <1>6, <1>9, <1>10, <1>11, <1>12, <1>13, <1>14 DEF Good

LEMMA StrikeKeepsGood ==
  ASSUME Tame, TypeInv, Good, NEW strike, HookStrike(strike)
  PROVE  Good'
<1>1. /\ phase = "strikes" /\ phase' = "strikes" /\ rotation' = rotation
      /\ current_idx' = current_idx /\ no_more_rotation' = no_more_rotation
      /\ animation' = animation /\ animation_expired' = animation_expired
      /\ already_performed_animation' = already_performed_animation
      /\ finished_casting_skills' = finished_casting_skills
      /\ already_finished_casting_skill' = already_finished_casting_skill
      /\ on_cooldown' = on_cooldown /\ ~failed /\ failed' = failed
      /\ current_weapon_set' = current_weapon_set /\ bundle' = bundle
  BY DEF HookStrike, In, loop, animations, finished, equipment
<1>2. /\ ProcsWait'
      /\ Range(queued_rotation'[Actor]) \subseteq Prompted
      /\ \A c \in Children : Range(queued_rotation'[c]) \subseteq Spawned
  <2>1. PICK more \in Seq(Seq(Skills)) : more = <<>>
    <3>1. <<>> \in Seq(Seq(Skills))
      OBVIOUS
    <3> QED BY <3>1
  <2>2. \A queue \in Range(more) : \E o \in Skills : queue = child_skill_keys[o]
    BY <2>1 DEF Range
  <2>3. PICK by, set, held : Fire("strike", by, more, set, held)
    BY <2>1 DEF HookStrike
  <2> QED BY <1>1, <2>2, <2>3, FireKeepsProcs
<1>3. Current' = Current /\ (Applied' <=> Applied) /\ (Changing' <=> Changing)
  BY <1>1 DEF Current, Applied, Changing
<1>4. InOrder'
  BY <1>1, <1>3 DEF Good, InOrder, Here, SetAfter, BundleAfter, CannotEquip, Swapped, DropsBundle
<1>5. OneChanger'
  BY <1>1, <1>3 DEF Good, OneChanger
<1>6. Origins'
  BY <1>1, <1>2, <1>3 DEF Good, Origins
<1>7. Even' /\ Charged' /\ SwapsPay'
  BY <1>1, <1>3 DEF Good, Even, Charged, SwapsPay, Unhooked, DropsBundle
<1> QED BY <1>1, <1>2, <1>4, <1>5, <1>6, <1>7 DEF Good

\* A tick ends with the cast that changed weapon set or bundle gone.
LEMMA EndTickKeepsGood ==
  ASSUME Tame, TypeInv, Good, EndTick
  PROVE  Good'
<1>1. PICK gone : gone = OutOfRotation
  OBVIOUS
<1>2. /\ gone \subseteq alive /\ gone \subseteq no_more_rotation /\ alive \subseteq Children
      /\ alive' = alive \ gone /\ no_more_rotation' = no_more_rotation \ gone
  BY <1>1 DEF EndTick, OutOfRotation, TypeInv, ChildrenOK
<1>3. /\ Actor \in Entities /\ Actor \notin gone /\ \A c \in Children : c \in Entities
  BY <1>2, Configuration DEF Entities, Children, Actor
<1>4. /\ phase = "strikes" /\ phase' = "rotations" /\ rotation' = rotation
      /\ todo' = (alive' \cup {Actor}) \ no_more_rotation'
      /\ current_idx' = current_idx /\ current_weapon_set' = current_weapon_set
      /\ animation_expired' = {} /\ already_performed_animation' = {}
      /\ already_finished_casting_skill' = {} /\ ~failed /\ failed' = failed
  BY <1>1, <1>2 DEF EndTick, In
<1>5. \A e \in Entities :
         /\ animation'[e] = IF e \in animation_expired \cup gone THEN Nobody ELSE animation[e]
         /\ queued_rotation'[e] = IF e \in gone THEN <<>> ELSE queued_rotation[e]
         /\ finished_casting_skills'[e] = <<>>
         /\ bundle'[e] = IF e \in gone THEN Nothing ELSE bundle[e]
  BY <1>1 DEF EndTick
<1>6. \A s \in Skills :
         /\ on_cooldown'[s] = IF on_cooldown[s] = 0 THEN 0 ELSE on_cooldown[s] - 1
         /\ on_cooldown[s] \in Nat /\ cooldown[s] \in Nat /\ on_cooldown[s] <= cooldown[s]
  BY Configuration DEF EndTick, TypeInv, CastOK
<1>7. Range(<<>>) = {} /\ DOMAIN <<>> = {}
  BY DEF Range
<1> HIDE DEF Actor
<1>8. bundle'[Actor] = bundle[Actor]
  BY <1>3, <1>5
<1>9. /\ Actor \in animation_expired => Current' = Nobody /\ ~Changing
      /\ Actor \notin animation_expired => Current' = Current /\ (Changing' <=> Changing)
  <2>1. Actor \in animation_expired => Applied
    BY <1>4 DEF Good, OneChanger
  <2>2. Actor \in animation_expired => Current' = Nobody
    BY <1>3, <1>5 DEF Current
  <2>3. Actor \notin animation_expired => Current' = Current
    BY <1>3, <1>5 DEF Current
  <2>4. ~Applied'
    BY <1>4 DEF Applied
  <2>5. Actor \notin animation_expired => ~Applied
    BY DEF Applied
  <2> QED BY <2>1, <2>2, <2>3, <2>4, <2>5 DEF Changing
<1>10. InOrder'
  <2>1. CASE Actor \in animation_expired
    <3>1. ~Changing /\ ~Changing'
      BY <1>9, <2>1 DEF Changing
    <3>2. Here' = Here
      BY <1>4, <1>8, <3>1 DEF Here
    <3> QED BY <1>4, <3>1, <3>2 DEF Good, InOrder
  <2>2. CASE Actor \notin animation_expired
    <3>1. Current' = Current /\ (Changing' <=> Changing)
      BY <1>9, <2>2
    <3>2. SetAfter(Actor, Current.skill)' = SetAfter(Actor, Current.skill)
          /\ BundleAfter(Actor, Current.skill)' = BundleAfter(Actor, Current.skill)
          /\ (CannotEquip(Actor, Current.skill)' <=> CannotEquip(Actor, Current.skill))
      BY <1>4, <1>8, <3>1 DEF SetAfter, BundleAfter, CannotEquip, Swapped, DropsBundle
    <3>3. Here' = Here
      BY <1>4, <1>8, <3>1, <3>2 DEF Here
    <3> QED BY <1>4, <3>1, <3>2, <3>3 DEF Good, InOrder
  <2> QED BY <2>1, <2>2
<1>11. OneChanger'
  BY <1>3, <1>4, <1>5, <1>7 DEF OneChanger
<1>12. Origins'
  <2>1. Range(queued_rotation'[Actor]) \subseteq Prompted
    BY <1>3, <1>5 DEF Good, Origins
  <2>2. Current' # Nobody =>
          /\ Current'.skill \in Planned(rotation) \cup Prompted
          /\ cast_duration[Current'.skill] > 0
    BY <1>9 DEF Good, Origins
  <2>3. ASSUME NEW c \in Children
        PROVE  /\ Range(queued_rotation'[c]) \cup Range(finished_casting_skills'[c]) \subseteq Spawned
               /\ animation'[c] # Nobody =>
                    animation'[c].skill \in Spawned /\ cast_duration[animation'[c].skill] > 0
    <3>1. Range(queued_rotation'[c]) \cup Range(finished_casting_skills'[c]) \subseteq Spawned
      BY <1>3, <1>5, <1>7 DEF Good, Origins
    <3>2. animation'[c] # Nobody => animation'[c] = animation[c]
      BY <1>3, <1>5
    <3> QED BY <3>1, <3>2 DEF Good, Origins
  <2> QED BY <1>4, <2>1, <2>2, <2>3 DEF Origins
<1>13. Even'
  <2> SUFFICES ASSUME NEW s \in Skills, NEW p \in Paying(s) PROVE on_cooldown'[p] = on_cooldown'[s]
    BY DEF Even
  <2>1. p \in Skills /\ on_cooldown[p] = on_cooldown[s]
    BY PayingIs DEF Good, Even
  <2> QED BY <1>6, <2>1
<1>14. Charged'
  <2> SUFFICES ASSUME Current' # Nobody, ~DropsBundle(Actor, Current.skill)'
               PROVE  on_cooldown'[Current'.skill] = 0
    BY DEF Charged
  <2>1. Actor \notin animation_expired /\ Current' = Current
    BY <1>9
  <2>2. ~DropsBundle(Actor, Current.skill)
    BY <1>8, <2>1 DEF DropsBundle
  <2>3. on_cooldown[Current.skill] = 0
    BY <2>1, <2>2 DEF Good, Charged
  <2>4. Current.skill \in Skills
    BY <1>3, <2>1 DEF TypeInv, CastOK, CastOf, Current
  <2> QED BY <1>6, <2>1, <2>3, <2>4
<1>15. ProcsWait'
  <2> SUFFICES ASSUME NEW c \in Children, NEW s \in Range(queued_rotation'[c]), cooldown[s] > 0
               PROVE  /\ on_cooldown'[s] = 0 /\ Len(queued_rotation'[c]) = 1
                      /\ c \in alive' /\ c \notin no_more_rotation'
                      /\ \A d \in Children \ {c} : Range(queued_rotation'[d]) \cap Paying(s) = {}
                      /\ phase' = "rotations" /\ c \in todo'
    BY DEF ProcsWait
  <2>1. queued_rotation'[c] = queued_rotation[c] /\ s \in Range(queued_rotation[c])
    BY <1>3, <1>5, <1>7
  <2>2. /\ on_cooldown[s] = 0 /\ Len(queued_rotation[c]) = 1
        /\ c \in alive /\ c \notin no_more_rotation
        /\ \A d \in Children \ {c} : Range(queued_rotation[d]) \cap Paying(s) = {}
    BY <2>1 DEF Good, ProcsWait
  <2>3. s \in Skills
    BY <2>1, SpawnedAre DEF Good, Origins
  <2>4. c \notin gone /\ c \in alive' /\ c \notin no_more_rotation' /\ c \in todo'
    BY <1>2, <1>4, <2>2
  <2>5. \A d \in Children \ {c} : Range(queued_rotation'[d]) \cap Paying(s) = {}
    BY <1>3, <1>5, <1>7, <2>2
  <2> QED BY <1>4, <1>6, <2>1, <2>2, <2>3, <2>4, <2>5
<1>16. SwapsPay'
  <2>1. WeaponSwap \in Skills /\ cooldown[WeaponSwap] > 0
    BY Configuration DEF Tame
  <2>2. on_cooldown'[WeaponSwap] # cooldown[WeaponSwap]
    BY <1>6, <2>1
  <2>3. Unhooked(Actor)' = {}
    BY <1>3, <1>5, <1>7 DEF Unhooked
  <2> QED BY <2>2, <2>3 DEF SwapsPay
<1> QED BY <1>4, <1>10, <1>11, <1>12, <1>13, <1>14, <1>15, <1>16 DEF Good

LEMMA IdleKeepsGood == Good /\ UNCHANGED vars => Good'
<1> SUFFICES ASSUME Good, UNCHANGED vars PROVE Good'
  OBVIOUS
<1> USE DEF vars, loop, children, rotations, turn, animations, finished, hooks, equipment
<1>1. /\ Still /\ current_idx' = current_idx /\ alive' = alive /\ phase' = phase /\ todo' = todo
      /\ already_triggered' = already_triggered /\ progressed' = progressed
      /\ no_more_rotation' = no_more_rotation
  BY DEF Still
<1> HIDE DEF vars
<1>2. ProcsWait'
  BY <1>1, WaitStays DEF Good
<1>3. /\ phase' \in {"ticks", "strikes"} /\ Actor \in animation_expired => Applied
      /\ phase' = "animations" => todo' \cap already_performed_animation = {}
  BY <1>1 DEF Good, OneChanger
<1> QED BY <1>1, <1>2, <1>3, StillKeeps DEF Good

LEMMA RotationStays == [Next]_vars => rotation' = rotation
<1> SUFFICES ASSUME [Next]_vars PROVE rotation' = rotation
  OBVIOUS
<1> USE DEF turn, rotations, vars
<1>1. ASSUME NEW e \in Entities,
             SkipRotation(e) \/ EndRotation(e) \/ WaitRotation(e) \/ StartCast(e) \/ RotationThrows(e)
      PROVE  rotation' = rotation
  BY <1>1 DEF SkipRotation, EndRotation, WaitRotation, StartCast, RotationThrows
<1>2. ASSUME NEW e \in Entities,
             ProgressAnimation(e) \/ HookThrows(e) \/ HookFinishedCast(e) \/ LeaveFinishedCasts(e)
      PROVE  rotation' = rotation
  BY <1>2 DEF ProgressAnimation, HookThrows, HookFinishedCast, LeaveFinishedCasts
<1>3. ASSUME EndRotationPass \/ EndAnimationPass \/ EndRound \/ PerformSkills \/ EndTick
      PROVE  rotation' = rotation
  BY <1>3 DEF EndRotationPass, EndAnimationPass, EndRound, PerformSkills, EndTick
<1>4. ASSUME NEW strike, HookStrike(strike) PROVE rotation' = rotation
  BY <1>4 DEF HookStrike
<1> QED BY <1>1, <1>2, <1>3, <1>4 DEF Next

LEMMA GoodStep ==
  ASSUME Tame, Orderly(rotation)
  PROVE  TypeInv /\ Round /\ Good /\ [Next]_vars => Good'
<1> SUFFICES ASSUME TypeInv, Round, Good, [Next]_vars PROVE Good'
  OBVIOUS
<1>1. ASSUME NEW e \in Entities, SkipRotation(e) \/ EndRotation(e) \/ LeaveFinishedCasts(e)
      PROVE  Good'
  BY <1>1, PassKeepsGood
<1>2. ASSUME NEW e \in Entities, WaitRotation(e) PROVE Good'
  BY <1>2, WaitKeepsGood
<1>3. ASSUME NEW e \in Entities, StartCast(e) PROVE Good'
  BY <1>3, StartCastKeepsGood
<1>4. ASSUME NEW e \in Entities, RotationThrows(e) \/ HookThrows(e) PROVE FALSE
  BY <1>4, NothingThrows, NoHookThrows
<1>5. ASSUME NEW e \in Entities, ProgressAnimation(e) PROVE Good'
  BY <1>5, AnimationKeepsGood
<1>6. ASSUME NEW e \in Entities, HookFinishedCast(e) PROVE Good'
  BY <1>6, HookKeepsGood
<1>7. ASSUME EndRotationPass \/ EndAnimationPass \/ EndRound \/ PerformSkills PROVE Good'
  BY <1>7, PhaseKeepsGood
<1>8. ASSUME NEW strike, HookStrike(strike) PROVE Good'
  BY <1>8, StrikeKeepsGood
<1>9. ASSUME EndTick PROVE Good'
  BY <1>9, EndTickKeepsGood
<1>10. ASSUME UNCHANGED vars PROVE Good'
  BY <1>10, IdleKeepsGood
<1> QED BY <1>1, <1>2, <1>3, <1>4, <1>5, <1>6, <1>7, <1>8, <1>9, <1>10 DEF Next

Ordered == Tame /\ rotation \in OrderlyRotations => Good

LEMMA OrderedInit == Init => Ordered
<1> QED BY GoodInit DEF Ordered, OrderlyRotations

LEMMA OrderedStep == TypeInv /\ Round /\ Ordered /\ [Next]_vars => Ordered'
<1> SUFFICES ASSUME TypeInv, Round, Ordered, [Next]_vars, Tame, rotation' \in OrderlyRotations
             PROVE  Good'
  BY DEF Ordered
<1>1. rotation' = rotation
  BY RotationStays
<1>2. rotation \in OrderlyRotations /\ Orderly(rotation)
  BY <1>1 DEF OrderlyRotations
<1>3. Good
  BY <1>2 DEF Ordered
<1> QED BY <1>2, <1>3, GoodStep

LEMMA OrderedInvariant == Spec => []Ordered
<1>1. Init => TypeInv /\ Round /\ Ordered
  BY InitType, RoundInit, OrderedInit
<1>2. (TypeInv /\ Round /\ Ordered) /\ [Next]_vars => (TypeInv /\ Round /\ Ordered)'
  BY TypeStep, RoundStep, OrderedStep
<1> QED BY <1>1, <1>2, PTL DEF Spec

\* A rotation whose casts, read one after the other, each find their weapon set, bundle and
\* group never throws, in whatever order the views visit the actors and however casts still
\* animate, or procs fire, when the next one is looked at (perform_rotations,
\* finish_casting_skill, put_skill_on_cooldown_for_actor).
THEOREM OrderlyRotationsNeverThrow == Spec => []CastsFindWhatTheyNeed
<1>1. Ordered => CastsFindWhatTheyNeed
  BY DEF Ordered, Good, CastsFindWhatTheyNeed
<1> QED BY <1>1, OrderedInvariant, PTL

\* In such a rotation a Weapon Swap whose animation has ended is on a full cooldown just if its
\* hooks, later in the tick, will change the set rather than drop a bundle
\* (finish_casting_skill, utils/actor_utils.cpp; progress_animations, system/temporal.cpp).
THEOREM SwapsPayForTheSet == Spec => []SwapsArePaidFor
<1>1. Ordered => SwapsArePaidFor
  BY DEF Ordered, Good, SwapsPay, SwapsArePaidFor
<1> QED BY <1>1, OrderedInvariant, PTL
=============================================================================
