------------------------ MODULE SkillExecutionProofs ------------------------
(***************************************************************************)
(* The safety properties of SkillExecution for any skills, lists, cast     *)
(* durations and number of casts.                                          *)
(***************************************************************************)
EXTENDS SkillExecution, FiniteSetTheorems, SequenceTheorems, WellFoundedInduction, TLAPS

Action == [skill : Skills, action_progress : [Index -> Nat], next : [Kinds -> Nat]]
Tracker == [skill : Skills, progress : Nat, next : Nat]

\* TypeOK, with the fields of the casts.
Types ==
    /\ phase \in Phases /\ has_owner \in BOOLEAN /\ has_quickness \in BOOLEAN
    /\ animation \in Skills \cup {NoCast} /\ animation_expired \in BOOLEAN
    /\ animation_progress \in [Index -> Nat]
    /\ actions \in Seq(Action) /\ tracked \in Seq(Tracker)
    /\ Len(actions) <= MaxCasts /\ Len(tracked) <= MaxCasts
    /\ \A i \in DOMAIN actions, k \in Kinds :
          actions[i].next[k] <= Len(on_tick_list[k][actions[i].skill][0])
    /\ \A i \in DOMAIN tracked : tracked[i].next <= Len(skill_ticks[tracked[i].skill])

\* The casts that are listed are listed from the step that ends them to the cleanup.
Lists ==
    /\ finished_actions = Listed(actions, ended_actions)
    /\ finished_ticks = Listed(tracked, ended_ticks)
    /\ ended_actions \subseteq DOMAIN actions /\ ended_ticks \subseteq DOMAIN tracked
    /\ phase # "cleanup" => ended_actions = {}
    /\ phase \notin {"actions", "cleanup"} => ended_ticks = {}

\* Of two casts of a skill the older has progressed as far in both.
OlderFirst ==
    /\ \A i, j \in DOMAIN actions :
          i < j /\ actions[i].skill = actions[j].skill =>
              \A q \in Index : actions[j].action_progress[q] <= actions[i].action_progress[q]
    /\ \A i, j \in DOMAIN tracked :
          i < j /\ tracked[i].skill = tracked[j].skill => tracked[j].progress <= tracked[i].progress

\* So the casts of a skill that end are its first ones.
FirstEnd(seq, ended) ==
    \A i, j \in DOMAIN seq : i < j /\ seq[i].skill = seq[j].skill /\ j \in ended => i \in ended

FirstOnesEnd == FirstEnd(actions, ended_actions) /\ FirstEnd(tracked, ended_ticks)

\* What a cast has walked past is due.
Walked ==
    \A i \in DOMAIN tracked : \A m \in 1..tracked[i].next :
        skill_ticks[tracked[i].skill][m] <= tracked[i].progress

\* While it counts the same quickness, the animation is never ahead of a cast of its skill; it
\* advances first in a tick.
AnimationBehind ==
    animation # NoCast =>
        /\ ~Instant(animation)
        /\ SameQuickness =>
              \A i \in DOMAIN actions : actions[i].skill = animation =>
                  \A q \in Index :
                      animation_progress[q] <=
                          IF phase = "progress"
                          THEN Advanced(actions[i].action_progress, OwnQuickness)[q]
                          ELSE actions[i].action_progress[q]

Expiry ==
    animation_expired =>
        /\ animation # NoCast /\ phase # "rotations"
        /\ AnimationPercent(animation, animation_progress) >= 100

Inv ==
    /\ Types /\ Lists /\ OlderFirst /\ FirstOnesEnd /\ Walked /\ AnimationBehind /\ Expiry
    /\ EveryHitDealt /\ HitsLandWithinTheCast

-----------------------------------------------------------------------------
(* What erasing does to a list of casts *)

\* The elements of a finite set of numbers have ranks from 0, one each.
LEMMA Ranks ==
    ASSUME NEW kept, kept \subseteq Nat, IsFiniteSet(kept), NEW r \in 0..(Cardinality(kept) - 1)
    PROVE  \E i \in kept : Cardinality({j \in kept : j < i}) = r
<1> DEFINE below(i) == {j \in kept : j < i}
           ranks == 0..(Cardinality(kept) - 1)
           rank == [i \in kept |-> Cardinality(below(i))]
<1>1. Cardinality(kept) \in Nat
    BY FS_CardinalityType
<1>2. \A i \in kept : IsFiniteSet(below(i)) /\ Cardinality(below(i)) \in Nat
    <2> TAKE i \in kept
    <2>1. below(i) \in SUBSET kept
        OBVIOUS
    <2> HIDE DEF below
    <2> QED
        BY <2>1, FS_Subset, FS_CardinalityType
<1>3. ASSUME NEW i \in kept PROVE Cardinality(below(i)) \in ranks
    <2>1. below(i) \in SUBSET kept /\ below(i) # kept
        BY <1>3
    <2> HIDE DEF below
    <2>2. Cardinality(below(i)) <= Cardinality(kept) /\ Cardinality(below(i)) # Cardinality(kept)
        BY <2>1, FS_Subset
    <2> QED
        BY <1>1, <1>2, <2>2
<1>4. ASSUME NEW i \in kept, NEW j \in kept, i < j
      PROVE  Cardinality(below(i)) < Cardinality(below(j))
    <2>1. below(i) \cup {i} \in SUBSET below(j) /\ i \notin below(i)
        <3>1. \A x \in kept : x < i => x < j
            BY <1>4
        <3>2. ~(i < i)
            BY <1>4
        <3>3. below(i) \subseteq below(j) /\ i \in below(j)
            BY <1>4, <3>1
        <3> QED
            BY <3>2, <3>3
    <2> HIDE DEF below
    <2>2. Cardinality(below(i) \cup {i}) = Cardinality(below(i)) + 1
        BY <1>2, <2>1, FS_AddElement
    <2>3. Cardinality(below(i) \cup {i}) <= Cardinality(below(j))
        BY <1>2, <2>1, FS_Subset
    <2> QED
        BY <1>2, <2>2, <2>3
<1> HIDE DEF below
<1>5. rank \in [kept -> ranks]
    BY <1>3
<1>6. \A i, j \in kept : rank[i] = rank[j] => i = j
    <2> SUFFICES ASSUME NEW i \in kept, NEW j \in kept, i # j PROVE rank[i] # rank[j]
        OBVIOUS
    <2>1. i < j \/ j < i
        OBVIOUS
    <2> QED
        BY <1>2, <1>4, <2>1
<1>7. rank \in Injection(kept, ranks)
    <2> HIDE DEF rank
    <2> QED
        BY <1>5, <1>6 DEF Injection, IsInjective
<1>8. IsFiniteSet(ranks) /\ Cardinality(ranks) = Cardinality(kept)
    <2>1. PICK n \in Nat : n = Cardinality(kept)
        BY <1>1
    <2>2. IsFiniteSet(0..n - 1) /\ Cardinality(0..n - 1) = IF 0 > n - 1 THEN 0 ELSE n - 1 - 0 + 1
        BY FS_Interval
    <2> QED
        BY <2>1, <2>2
<1>9. rank \in Surjection(kept, ranks)
    <2> HIDE DEF rank, ranks
    <2> QED
        BY <1>7, <1>8, FS_Injection
<1>10. \E i \in kept : rank[i] = r
    <2> HIDE DEF rank
    <2> QED
        BY <1>9 DEF Surjection
<1> QED
    BY <1>10 DEF below

\* sub has the elements of seq at the positions pos, in their order.
PickedFrom(seq, sub, pos) ==
    /\ \A m \in DOMAIN sub : pos[m] \in DOMAIN seq /\ sub[m] = seq[pos[m]]
    /\ \A m, n \in DOMAIN sub : m < n => pos[m] < pos[n]

LEMMA Subsequence ==
    ASSUME NEW S, NEW seq, NEW kept, seq \in Seq(S), kept \subseteq DOMAIN seq
    PROVE  /\ At(seq, kept) \in Seq(S) /\ Len(At(seq, kept)) <= Len(seq)
           /\ \E pos : PickedFrom(seq, At(seq, kept), pos)
<1> DEFINE position(n) == CHOOSE i \in kept : Cardinality({j \in kept : j < i}) = n - 1
           pos == [n \in 1..Cardinality(kept) |-> position(n)]
<1>1. Len(seq) \in Nat /\ DOMAIN seq = 1..Len(seq) /\ \A i \in DOMAIN seq : seq[i] \in S
    BY LenProperties, ElementOfSeq
<1>2. /\ IsFiniteSet(kept) /\ Cardinality(kept) \in Nat /\ Cardinality(kept) <= Len(seq)
      /\ kept \subseteq Nat
    <2>1. IsFiniteSet(1..Len(seq)) /\ Cardinality(1..Len(seq)) = Len(seq)
        <3>1. PICK n \in Nat : n = Len(seq)
            BY <1>1
        <3>2. IsFiniteSet(1..n) /\ Cardinality(1..n) = IF 1 > n THEN 0 ELSE n - 1 + 1
            BY FS_Interval
        <3> QED
            BY <3>1, <3>2
    <2> QED
        BY <1>1, <2>1, FS_Subset, FS_CardinalityType
<1>3. At(seq, kept) = [n \in 1..Cardinality(kept) |-> seq[position(n)]]
    BY DEF At
<1>4. ASSUME NEW n \in 1..Cardinality(kept)
      PROVE  position(n) \in kept /\ Cardinality({j \in kept : j < position(n)}) = n - 1
    <2>1. n - 1 \in 0..(Cardinality(kept) - 1)
        BY <1>2
    <2>2. \E i \in kept : Cardinality({j \in kept : j < i}) = n - 1
        BY <1>2, <2>1, Ranks
    <2> QED
        BY <2>2
<1>5. ASSUME NEW m \in 1..Cardinality(kept), NEW n \in 1..Cardinality(kept), m < n
      PROVE  position(m) < position(n)
    <2>1. position(m) \in Nat /\ position(n) \in Nat
        BY <1>2, <1>4
    <2>2. ASSUME position(n) <= position(m) PROVE FALSE
        <3> DEFINE a == {j \in kept : j < position(n)}
                   b == {j \in kept : j < position(m)}
        <3>1. a \in SUBSET b /\ b \in SUBSET kept
            <4>1. \A x \in kept : x < position(n) => x < position(m)
                BY <1>2, <2>1, <2>2
            <4> QED
                BY <4>1
        <3>2. Cardinality(a) = n - 1 /\ Cardinality(b) = m - 1
            BY <1>4
        <3> HIDE DEF a, b
        <3>3. Cardinality(a) <= Cardinality(b)
            BY <1>2, <3>1, FS_Subset
        <3> QED
            BY <1>2, <1>5, <3>2, <3>3
    <2> QED
        BY <2>1, <2>2
<1> HIDE DEF position
<1>6. /\ DOMAIN At(seq, kept) = 1..Cardinality(kept)
      /\ \A n \in 1..Cardinality(kept) : At(seq, kept)[n] = seq[pos[n]] /\ pos[n] \in DOMAIN seq
    BY <1>3, <1>4
<1>7. At(seq, kept) \in Seq(S) /\ Len(At(seq, kept)) = Cardinality(kept)
    BY <1>1, <1>2, <1>3, <1>6
<1>8. \A m, n \in DOMAIN At(seq, kept) : m < n => pos[m] < pos[n]
    BY <1>5, <1>6
<1> HIDE DEF pos
<1>9. PickedFrom(seq, At(seq, kept), pos)
    BY <1>6, <1>8 DEF PickedFrom
<1> QED
    BY <1>2, <1>7, <1>9

\* The lists a cast leaves when it begins, and the cleanup, are such.
LEMMA CancelledIsSubsequence ==
    ASSUME NEW S, NEW seq \in Seq(S), NEW s, NEW left \in Cancelled(seq, s)
    PROVE  \E kept \in SUBSET (DOMAIN seq) : left = At(seq, kept)
<1> DEFINE matches == {i \in DOMAIN seq : seq[i].skill \in skills_to_cancel[s]}
           skippable == {i \in matches \ {Len(seq)} : Rank(seq, i) > 1}
<1>1. PICK skipped \in SUBSET skippable : left = At(seq, (DOMAIN seq \ matches) \cup skipped)
    BY DEF Cancelled
<1>2. (DOMAIN seq \ matches) \cup skipped \in SUBSET (DOMAIN seq)
    OBVIOUS
<1> QED
    BY <1>1, <1>2

\* joined has at last a new cast x, and before it casts of seq in their order.
Joined(seq, joined, x, last, pos) ==
    /\ last \in Nat /\ DOMAIN joined = 1..last /\ joined[last] = x
    /\ \A i \in 1..last : i = last \/ i \in 1..last - 1
    /\ \A i \in 1..last - 1 : pos[i] \in DOMAIN seq /\ joined[i] = seq[pos[i]]
    /\ \A i, j \in 1..last - 1 : i < j => pos[i] < pos[j]

\* So it is when a cast begins.
LEMMA Begun ==
    ASSUME NEW S, NEW seq, NEW s, NEW left, NEW x,
           seq \in Seq(S), x \in S, left \in Cancelled(seq, s)
    PROVE  /\ Append(left, x) \in Seq(S) /\ Len(Append(left, x)) <= Len(seq) + 1
           /\ \E last, pos : Joined(seq, Append(left, x), x, last, pos)
<1>1. PICK kept : kept \subseteq DOMAIN seq /\ left = At(seq, kept)
    BY CancelledIsSubsequence
<1>2. /\ left \in Seq(S) /\ Len(left) <= Len(seq)
      /\ \E pos : PickedFrom(seq, left, pos)
    BY <1>1, Subsequence
<1>3. PICK pos : PickedFrom(seq, left, pos)
    BY <1>2
<1>4. Len(seq) \in Nat /\ DOMAIN left = 1..Len(left)
    BY <1>2, LenProperties
<1>5. PICK n \in Nat : n = Len(left)
    BY <1>2, LenProperties
<1>6. PICK t : t = Append(left, x)
    OBVIOUS
<1>7. /\ t \in Seq(S) /\ Len(t) = n + 1 /\ DOMAIN t = 1..n + 1
      /\ \A m \in 1..n : t[m] = left[m]
      /\ t[n + 1] = x
    BY <1>2, <1>5, <1>6, AppendProperties, LenProperties
<1>8. PICK last \in Nat : last = n + 1 /\ last - 1 = n
    OBVIOUS
<1>9. Joined(seq, t, x, last, pos)
    <2>1. \A i \in 1..last : i = last \/ i \in 1..n
        BY <1>8
    <2>2. \A i \in 1..n : i \in DOMAIN left /\ pos[i] \in DOMAIN seq /\ t[i] = seq[pos[i]]
        BY <1>3, <1>4, <1>5, <1>7 DEF PickedFrom
    <2>3. \A i, j \in 1..n : i < j => pos[i] < pos[j]
        BY <1>3, <2>2 DEF PickedFrom
    <2>4. DOMAIN t = 1..last /\ t[last] = x
        BY <1>7, <1>8
    <2> QED
        BY <1>8, <2>1, <2>2, <2>3, <2>4 DEF Joined
<1>10. Len(t) <= Len(seq) + 1
    BY <1>2, <1>4, <1>5, <1>7
<1> QED
    BY <1>6, <1>7, <1>8, <1>9, <1>10

-----------------------------------------------------------------------------
(* The loops over the tick lists *)

\* The walk stops after the ticks that are due.
LEMMA ReachedProperties ==
    ASSUME NEW list \in Seq(Nat), NEW next \in 0..Len(list), NEW t \in Int
    PROVE  /\ Reached(list, next, t) \in next..Len(list)
           /\ \A m \in next + 1..Reached(list, next, t) : list[m] <= t
           /\ Reached(list, next, t) < Len(list) => list[Reached(list, next, t) + 1] > t
<1>1. Len(list) \in Nat /\ \A m \in 1..Len(list) : list[m] \in Nat
    BY LenProperties, ElementOfSeq
<1> DEFINE stops == {n \in next..Len(list) : n = Len(list) \/ list[n + 1] > t}
<1>2. stops # {} /\ stops \subseteq Nat
    BY <1>1
<1>3. PICK n \in stops : \A j \in stops : ~(j < n)
    <2> HIDE DEF stops
    <2>1. PICK n \in stops : \A j \in stops : ~(<<j, n>> \in OpToRel(<, Nat))
        BY <1>2, NatLessThanWellFounded, WFMin, Zenon
    <2>2. \A j \in stops : ~(j < n)
        BY <1>2, <2>1, Zenon DEF OpToRel
    <2> QED
        BY <2>2
<1>4. \A m \in next + 1..n : list[m] <= t
    <2> TAKE m \in next + 1..n
    <2>1. m - 1 \in next..Len(list) /\ m - 1 < n /\ m \in 1..Len(list) /\ m - 1 + 1 = m
        BY <1>1, <1>3
    <2>2. m - 1 \notin stops
        BY <1>3, <2>1
    <2> QED
        BY <1>1, <2>1, <2>2
<1>5. n \in next..Len(list) /\ (n < Len(list) => list[n + 1] > t)
    BY <1>1, <1>3
<1>6. \E k \in next..Len(list) :
         /\ \A m \in (next + 1)..k : list[m] <= t
         /\ k < Len(list) => list[k + 1] > t
    BY <1>4, <1>5
<1> QED
    BY <1>6 DEF Reached

\* When all of the list is due, it stops at the end.
LEMMA ReachedAll ==
    ASSUME NEW list \in Seq(Nat), NEW next \in 0..Len(list), NEW t \in Int,
           \A m \in 1..Len(list) : list[m] <= t
    PROVE  Reached(list, next, t) = Len(list)
<1>1. Len(list) \in Nat /\ \A m \in 1..Len(list) : list[m] \in Nat
    BY LenProperties, ElementOfSeq
<1> DEFINE n == Reached(list, next, t)
<1>2. n \in next..Len(list) /\ (n < Len(list) => list[n + 1] > t)
    BY ReachedProperties
<1> HIDE DEF n
<1>3. ASSUME n < Len(list) PROVE FALSE
    <2>1. n + 1 \in 1..Len(list)
        BY <1>1, <1>2, <1>3
    <2> QED
        BY <1>1, <1>2, <1>3, <2>1
<1>4. n = Len(list)
    BY <1>1, <1>2, <1>3
<1> QED
    BY <1>4 DEF n

LEMMA BackIsLargest ==
    ASSUME NEW list \in Seq(Nat), Ascending(list)
    PROVE  Back(list) \in Nat /\ \A m \in 1..Len(list) : list[m] <= Back(list)
<1>1. /\ Len(list) \in Nat /\ DOMAIN list = 1..Len(list)
      /\ \A m \in 1..Len(list) : list[m] \in Nat
    BY LenProperties, ElementOfSeq
<1>2. CASE list = <<>>
    BY <1>2 DEF Back
<1>3. CASE list # <<>>
    <2>1. Len(list) \in 1..Len(list)
        BY <1>1, <1>3, EmptySeq
    <2>2. ASSUME NEW m \in 1..Len(list) PROVE list[m] <= list[Len(list)]
        <3>1. PICK n \in Nat : n = Len(list)
            BY <1>1
        <3>2. m = n \/ m < n
            BY <3>1
        <3>3. CASE m = n
            BY <1>1, <2>1, <3>1, <3>3
        <3>4. CASE m < n
            BY <1>1, <2>1, <3>1, <3>4 DEF Ascending
        <3> QED
            BY <3>2, <3>3, <3>4
    <2> QED
        BY <1>1, <1>3, <2>1, <2>2 DEF Back
<1> QED
    BY <1>2, <1>3

\* The durations a percentage is taken of cover the lists.
LEMMA Durations ==
    ASSUME NEW k \in Kinds, NEW s \in Skills, NEW q \in Index
    PROVE  /\ Duration(k, s, q) \in Nat /\ Duration(k, s, q) >= cast_duration[s][q]
           /\ \A m \in 1..Len(on_tick_list[k][s][q]) : on_tick_list[k][s][q][m] <= Duration(k, s, q)
           /\ Duration(k, s, q) \in {Back(on_tick_list[k][s][q]), cast_duration[s][q]}
<1>1. on_tick_list[k][s][q] \in Seq(Nat) /\ Ascending(on_tick_list[k][s][q]) /\ cast_duration[s][q] \in Nat
    BY Configuration DEF Index
<1>2. PICK list \in Seq(Nat) : list = on_tick_list[k][s][q]
    BY <1>1
<1>3. /\ Back(list) \in Nat /\ \A m \in 1..Len(list) : list[m] <= Back(list)
      /\ Len(list) \in Nat /\ \A m \in 1..Len(list) : list[m] \in Nat
    BY <1>1, <1>2, BackIsLargest, LenProperties, ElementOfSeq
<1>4. PICK b \in Nat, c \in Nat : b = Back(list) /\ c = cast_duration[s][q]
    BY <1>1, <1>3
<1>5. PICK d \in {b, c} : d = Duration(k, s, q) /\ d >= b /\ d >= c
    BY <1>2, <1>4 DEF Duration, Larger
<1>6. \A m \in 1..Len(list) : list[m] <= d
    BY <1>3, <1>4, <1>5
<1> QED
    BY <1>2, <1>4, <1>5, <1>6

\* A cast that is through has come to every tick of its base lists.
LEMMA ThroughIsDue ==
    ASSUME NEW k \in Kinds, NEW a \in Action, Through(k, a)
    PROVE  /\ EffectiveTick(k, a) \in Nat
           /\ \A m \in 1..Len(on_tick_list[k][a.skill][0]) :
                 on_tick_list[k][a.skill][0][m] <= EffectiveTick(k, a)
<1> DEFINE base == Duration(k, a.skill, 0)
           quick == Duration(k, a.skill, 1)
<1>1. /\ a.skill \in Skills /\ a.action_progress[0] \in Nat /\ a.action_progress[1] \in Nat
      /\ 0 \in Index /\ 1 \in Index
    BY DEF Action, Index
<1>2. base \in Nat /\ quick \in Nat
      /\ \A m \in 1..Len(on_tick_list[k][a.skill][0]) : on_tick_list[k][a.skill][0][m] <= base
    BY <1>1, Durations
<1>3. Progress(k, a) \in Nat /\ Progress(k, a) >= base * quick
    <2>1. /\ Progress(k, a) = a.action_progress[0] * quick + a.action_progress[1] * base
          /\ Whole(k, a.skill) = base * quick
        BY DEF Progress, Whole
    <2> HIDE DEF base, quick
    <2>2. a.action_progress[0] * quick \in Nat /\ a.action_progress[1] * base \in Nat
        BY <1>1, <1>2
    <2> QED
        BY <2>1, <2>2 DEF Through
<1> HIDE DEF base, quick
<1>4. EffectiveTick(k, a) \in Nat /\ EffectiveTick(k, a) >= base
    <2>1. CASE base = 0
        BY <2>1 DEF EffectiveTick, base
    <2>2. CASE base # 0 /\ quick = 0
        BY <1>1, <1>2, <2>2 DEF EffectiveTick, base, quick
    <2>3. CASE base # 0 /\ quick # 0
        <3>1. PICK p \in Nat : p = Progress(k, a)
            BY <1>3
        <3>2. p \div quick \in Nat /\ p < (p \div quick) * quick + quick
            BY <1>2, <2>3
        <3>3. PICK n \in Nat : n = p \div quick
            BY <3>2
        <3>4. ASSUME n + 1 <= base PROVE FALSE
            <4>1. (base - (n + 1)) * quick >= 0
                BY <1>2, <3>4
            <4>2. (base - (n + 1)) * quick = base * quick - n * quick - quick
                BY <1>2
            <4>3. PICK x \in Nat, y \in Nat : x = base * quick /\ y = n * quick
                BY <1>2
            <4>4. p >= x /\ p < y + quick /\ x - y - quick >= 0
                BY <1>3, <3>1, <3>2, <3>3, <4>1, <4>2, <4>3
            <4>5. PICK c \in Nat : c = quick
                BY <1>2
            <4>6. p < y + c /\ x - y - c >= 0
                BY <4>4, <4>5
            <4> QED
                BY <4>3, <4>4, <4>6
        <3>5. EffectiveTick(k, a) = n
            BY <2>3, <3>1, <3>3 DEF EffectiveTick, base, quick
        <3> QED
            BY <1>2, <3>4, <3>5
    <2> QED
        BY <2>1, <2>2, <2>3
<1> QED
    <2>1. \A m \in 1..Len(on_tick_list[k][a.skill][0]) : on_tick_list[k][a.skill][0][m] \in Nat
        <3>1. on_tick_list[k][a.skill][0] \in Seq(Nat)
            BY <1>1, Configuration
        <3> QED
            BY <3>1, ElementOfSeq
    <2> QED
        BY <1>2, <1>4, <2>1

-----------------------------------------------------------------------------
(* The steps of a tick *)

LEMMA ListedNone ==
    ASSUME NEW seq
    PROVE  Listed(seq, {}) = NoneListed
<1>1. \A s \in Skills : {i \in {} : seq[i].skill = s} = {}
    OBVIOUS
<1> QED
    BY <1>1, FS_EmptySet DEF Listed, NoneListed

LEMMA CastTypes ==
    ASSUME Types
    PROVE  /\ DOMAIN actions = 1..Len(actions) /\ Len(actions) \in Nat
           /\ \A i \in DOMAIN actions :
                 /\ actions[i] \in Action /\ actions[i].skill \in Skills
                 /\ actions[i].action_progress \in [Index -> Nat]
                 /\ actions[i].next \in [Kinds -> Nat]
           /\ DOMAIN tracked = 1..Len(tracked) /\ Len(tracked) \in Nat
           /\ \A i \in DOMAIN tracked :
                 /\ tracked[i] \in Tracker /\ tracked[i].skill \in Skills
                 /\ tracked[i].progress \in Nat /\ tracked[i].next \in Nat
<1>1. \A i \in DOMAIN actions : actions[i] \in Action
    BY ElementOfSeq, LenProperties DEF Types
<1>2. \A i \in DOMAIN tracked : tracked[i] \in Tracker
    BY ElementOfSeq, LenProperties DEF Types
<1> QED
    BY <1>1, <1>2, LenProperties DEF Types, Action, Tracker

LEMMA InitInv == Init => Inv
<1> SUFFICES ASSUME Init PROVE Inv
    OBVIOUS
<1>1. DOMAIN actions = {} /\ DOMAIN tracked = {} /\ Len(actions) = 0 /\ Len(tracked) = 0
      /\ actions \in Seq(Action) /\ tracked \in Seq(Tracker)
    BY DEF Init
<1>2. Types
    <2>1. animation_progress \in [Index -> Nat] /\ 0 <= MaxCasts
        BY Configuration DEF Init, NotStarted
    <2> QED
        BY <1>1, <2>1 DEF Init, Types, Phases
<1>3. Lists
    BY <1>1, ListedNone DEF Init, Lists
<1> QED
    BY <1>1, <1>2, <1>3 DEF Init, Inv, OlderFirst, FirstOnesEnd, FirstEnd, Walked, AnimationBehind,
        Expiry, EveryHitDealt, HitsLandWithinTheCast

\* A cast joins those it leaves behind its elders, and an animation its new cast.
LEMMA BeginInv ==
    ASSUME Inv, NEW s \in Skills, Begin(s),
           \/ Instant(s) /\ UNCHANGED cast
           \/ /\ ~Instant(s) /\ animation = NoCast /\ animation' = s
              /\ animation_progress' = NotStarted /\ UNCHANGED animation_expired
    PROVE  Inv'
<1>1. /\ phase = "rotations" /\ Len(actions) < MaxCasts /\ Len(tracked) < MaxCasts
      /\ UNCHANGED <<phase, has_owner, has_quickness, finished_actions, finished_ticks, ended_actions,
                     ended_ticks>>
    BY DEF Begin, finished, quickness
<1>2. ended_actions = {} /\ ended_ticks = {} /\ animation_expired = FALSE
    BY <1>1 DEF Inv, Lists, Expiry, Types
<1>3. animation_expired' = FALSE
    BY <1>2 DEF cast
<1>4. PICK new \in Action : new = [skill |-> s, action_progress |-> NotStarted,
                                   next |-> [k \in Kinds |-> 0]]
    BY DEF Action, NotStarted
<1>5. PICK started \in Tracker : started = [skill |-> s, progress |-> 0, next |-> 0]
    BY DEF Tracker
<1>6. /\ new.skill = s /\ new.action_progress = NotStarted /\ \A k \in Kinds : new.next[k] = 0
      /\ started.skill = s /\ started.progress = 0 /\ started.next = 0
      /\ \A q \in Index : NotStarted[q] = 0
    BY <1>4, <1>5 DEF NotStarted
<1>7. /\ actions \in Seq(Action) /\ tracked \in Seq(Tracker)
      /\ Len(actions) \in Nat /\ Len(tracked) \in Nat
    BY CastTypes DEF Inv, Types
<1>8. PICK left : left \in Cancelled(actions, s) /\ actions' = Append(left, new)
    BY <1>4 DEF Begin
<1>9. /\ actions' \in Seq(Action) /\ Len(actions') <= Len(actions) + 1
      /\ \E last, pos : Joined(actions, actions', new, last, pos)
    BY <1>7, <1>8, Begun
<1>10. PICK last, pos : Joined(actions, actions', new, last, pos)
    BY <1>9
<1>12. /\ last \in Nat /\ DOMAIN actions' = 1..last /\ actions'[last] = new
       /\ \A i \in 1..last : i = last \/ i \in 1..last - 1
       /\ \A i \in 1..last - 1 : pos[i] \in DOMAIN actions /\ actions'[i] = actions[pos[i]]
       /\ \A i, j \in 1..last - 1 : i < j => pos[i] < pos[j]
    BY <1>10 DEF Joined
<1>13. PICK rest : rest \in Cancelled(tracked, s) /\ tracked' = Append(rest, started)
    BY <1>5 DEF Begin
<1>14. /\ tracked' \in Seq(Tracker) /\ Len(tracked') <= Len(tracked) + 1
       /\ \E n, p : Joined(tracked, tracked', started, n, p)
    BY <1>7, <1>13, Begun
<1>15. PICK end, at : Joined(tracked, tracked', started, end, at)
    BY <1>14
<1>17. /\ end \in Nat /\ DOMAIN tracked' = 1..end /\ tracked'[end] = started
       /\ \A i \in 1..end : i = end \/ i \in 1..end - 1
       /\ \A i \in 1..end - 1 : at[i] \in DOMAIN tracked /\ tracked'[i] = tracked[at[i]]
       /\ \A i, j \in 1..end - 1 : i < j => at[i] < at[j]
    BY <1>15 DEF Joined
<1>18. Types'
    <2>1. Len(actions') <= MaxCasts /\ Len(tracked') <= MaxCasts
        <3>1. Len(actions') \in Nat /\ Len(tracked') \in Nat
            BY <1>9, <1>14, LenProperties
        <3> QED
            BY <1>1, <1>7, <1>9, <1>14, <3>1, Configuration
    <2>2. ASSUME NEW i \in DOMAIN actions', NEW k \in Kinds
          PROVE  actions'[i].next[k] <= Len(on_tick_list[k][actions'[i].skill][0])
        <3>1. CASE i = last
            <4>1. on_tick_list[k][s][0] \in Seq(Nat)
                BY Configuration DEF Index
            <4> QED
                BY <1>6, <1>12, <3>1, <4>1, LenProperties
        <3>2. CASE i # last
            BY <1>12, <3>2 DEF Inv, Types
        <3> QED
            BY <3>1, <3>2
    <2>3. ASSUME NEW i \in DOMAIN tracked'
          PROVE  tracked'[i].next <= Len(skill_ticks[tracked'[i].skill])
        <3>1. CASE i = end
            <4>1. skill_ticks[s] \in Seq(Nat)
                BY Configuration
            <4> QED
                BY <1>6, <1>17, <3>1, <4>1, LenProperties
        <3>2. CASE i # end
            BY <1>17, <3>2 DEF Inv, Types
        <3> QED
            BY <3>1, <3>2
    <2>4. /\ animation' \in Skills \cup {NoCast} /\ animation_progress' \in [Index -> Nat]
        BY DEF cast, Inv, Types, NotStarted
    <2> QED
        BY <1>1, <1>3, <1>9, <1>14, <2>1, <2>2, <2>3, <2>4 DEF Inv, Types
<1>19. Lists'
    BY <1>1, <1>2, ListedNone DEF Inv, Lists
<1>20. OlderFirst'
    <2>1. ASSUME NEW i \in DOMAIN actions', NEW j \in DOMAIN actions', i < j,
                 actions'[i].skill = actions'[j].skill, NEW q \in Index
          PROVE  actions'[j].action_progress[q] <= actions'[i].action_progress[q]
        <3>1. i \in 1..last - 1
            BY <1>12, <2>1
        <3>2. CASE j = last
            <4>1. actions'[i].action_progress[q] \in Nat
                BY <1>12, <3>1, CastTypes DEF Inv
            <4> QED
                BY <1>6, <1>12, <3>2, <4>1
        <3>3. CASE j # last
            BY <1>12, <2>1, <3>1, <3>3 DEF Inv, OlderFirst
        <3> QED
            BY <3>2, <3>3
    <2>2. ASSUME NEW i \in DOMAIN tracked', NEW j \in DOMAIN tracked', i < j,
                 tracked'[i].skill = tracked'[j].skill
          PROVE  tracked'[j].progress <= tracked'[i].progress
        <3>1. i \in 1..end - 1
            BY <1>17, <2>2
        <3>2. CASE j = end
            <4>1. tracked'[i].progress \in Nat
                BY <1>17, <3>1, CastTypes DEF Inv
            <4> QED
                BY <1>6, <1>17, <3>2, <4>1
        <3>3. CASE j # end
            BY <1>17, <2>2, <3>1, <3>3 DEF Inv, OlderFirst
        <3> QED
            BY <3>2, <3>3
    <2> QED
        BY <2>1, <2>2 DEF OlderFirst
<1>21. FirstOnesEnd' /\ EveryHitDealt' /\ HitsLandWithinTheCast' /\ Expiry'
    BY <1>1, <1>2, <1>3 DEF FirstOnesEnd, FirstEnd, EveryHitDealt, HitsLandWithinTheCast, Expiry
<1>22. Walked'
    <2> SUFFICES ASSUME NEW i \in DOMAIN tracked', NEW m \in 1..tracked'[i].next
                 PROVE  skill_ticks[tracked'[i].skill][m] <= tracked'[i].progress
        BY DEF Walked
    <2>1. i # end
        BY <1>6, <1>17
    <2> QED
        BY <1>17, <2>1 DEF Inv, Walked
<1>23. AnimationBehind'
    <2>1. animation' # NoCast => ~Instant(animation')
        BY DEF Inv, AnimationBehind, cast
    <2>2. ASSUME animation' # NoCast, SameQuickness',
                 NEW i \in DOMAIN actions', actions'[i].skill = animation', NEW q \in Index
          PROVE  animation_progress'[q] <= actions'[i].action_progress[q]
        <3>1. CASE Instant(s) /\ UNCHANGED cast
            <4>1. i # last
                BY <1>6, <1>12, <2>1, <2>2, <3>1
            <4>2. pos[i] \in DOMAIN actions /\ actions'[i] = actions[pos[i]]
                BY <1>12, <4>1
            <4>3. animation # NoCast /\ actions[pos[i]].skill = animation
                BY <2>2, <3>1, <4>2 DEF cast
            <4> QED
                BY <1>1, <2>2, <3>1, <4>2, <4>3 DEF Inv, AnimationBehind, SameQuickness, cast
        <3>2. CASE ~Instant(s)
            <4>1. animation_progress'[q] = 0
                BY <1>6, <3>2
            <4>2. actions'[i] \in Action
                BY <1>9, ElementOfSeq, LenProperties
            <4> QED
                BY <4>1, <4>2 DEF Action
        <3> QED
            BY <3>1, <3>2
    <2> QED
        BY <1>1, <2>1, <2>2 DEF AnimationBehind, Instant
<1> QED
    BY <1>18, <1>19, <1>20, <1>21, <1>22, <1>23 DEF Inv

\* A list whose casts are replaced one by one.
LEMMA Replaced ==
    ASSUME NEW S, NEW T, NEW seq, NEW new,
           seq \in Seq(S), new \in [DOMAIN seq -> T]
    PROVE  new \in Seq(T) /\ Len(new) = Len(seq) /\ DOMAIN new = DOMAIN seq
<1>1. PICK n \in Nat : n = Len(seq) /\ DOMAIN seq = 1..n
    BY LenProperties
<1>2. new \in [1..n -> T]
    BY <1>1
<1> QED
    BY <1>1, <1>2, IsASeq, LenProperties

LEMMA AdvancedInOrder ==
    ASSUME NEW p \in [Index -> Nat], NEW r \in [Index -> Nat], NEW q \in Index, p[q] <= r[q],
           NEW quick \in BOOLEAN
    PROVE  /\ Advanced(p, quick) \in [Index -> Nat]
           /\ Advanced(p, quick)[q] <= Advanced(r, quick)[q]
BY DEF Advanced, Index

LEMMA QuicknessTypes == Types => OwnQuickness \in BOOLEAN /\ has_quickness \in BOOLEAN
BY DEF Types, OwnQuickness

\* The animation gets ahead of its cast by the tick that progress_casting_skills then makes up.
LEMMA ProgressAnimationsInv ==
    ASSUME Inv, progress_animations
    PROVE  Inv'
<1>1. /\ phase = "rotations" /\ phase' = "progress"
      /\ UNCHANGED <<has_owner, has_quickness, animation, actions, tracked, finished_actions, finished_ticks,
                     ended_actions, ended_ticks>>
    BY DEF progress_animations, finished, quickness
<1>2. /\ animation_progress' = IF animation = NoCast THEN animation_progress
                               ELSE Advanced(animation_progress, has_quickness)
      /\ animation_progress \in [Index -> Nat]
    BY DEF progress_animations, Inv, Types
<1>3. animation_progress' \in [Index -> Nat]
    BY <1>2 DEF Advanced, Index
<1>4. Types'
    BY <1>1, <1>3 DEF Inv, Types, Phases, progress_animations
<1>5. Lists' /\ OlderFirst' /\ FirstOnesEnd' /\ Walked'
    BY <1>1 DEF Inv, Lists, OlderFirst, FirstOnesEnd, FirstEnd, Walked, Listed
<1>6. AnimationBehind'
    <2>1. animation' # NoCast => ~Instant(animation')
        BY <1>1 DEF Inv, AnimationBehind
    <2>2. ASSUME animation' # NoCast, SameQuickness',
                 NEW i \in DOMAIN actions', actions'[i].skill = animation', NEW q \in Index
          PROVE  animation_progress'[q] <= Advanced(actions[i].action_progress, OwnQuickness)[q]
        <3>1. animation_progress' = Advanced(animation_progress, has_quickness)
            BY <1>1, <1>2, <2>2
        <3>2. SameQuickness /\ has_quickness = OwnQuickness
            <4>1. has_owner => animation_progress[1] = 0 /\ ~has_quickness
                BY <1>1, <1>2, <2>2, <3>1 DEF SameQuickness, Advanced, Index
            <4> QED
                BY <4>1 DEF SameQuickness, OwnQuickness, Inv, Types
        <3>3. animation_progress[q] <= actions[i].action_progress[q]
            BY <1>1, <2>2, <3>2 DEF Inv, AnimationBehind
        <3>4. actions[i].action_progress \in [Index -> Nat]
            BY <1>1, <2>2, CastTypes DEF Inv
        <3> QED
            BY <1>2, <3>1, <3>2, <3>3, <3>4, AdvancedInOrder, QuicknessTypes DEF Inv
    <2> QED
        BY <1>1, <2>1, <2>2 DEF AnimationBehind, Instant, Advanced, OwnQuickness
<1>7. Expiry'
    BY <1>1, <1>2 DEF Expiry, progress_animations, AnimationPercent
<1>8. EveryHitDealt' /\ HitsLandWithinTheCast'
    BY <1>1 DEF Inv, Lists, EveryHitDealt, HitsLandWithinTheCast
<1> QED
    BY <1>4, <1>5, <1>6, <1>7, <1>8 DEF Inv

LEMMA ProgressCastingSkillsInv ==
    ASSUME Inv, progress_casting_skills
    PROVE  Inv'
<1>1. /\ phase = "progress" /\ phase' = "ticks"
      /\ UNCHANGED <<has_owner, has_quickness, animation, animation_progress, animation_expired,
                     finished_actions, finished_ticks, ended_actions, ended_ticks>>
    BY DEF progress_casting_skills, finished, cast, quickness
<1>2. ended_actions = {} /\ ended_ticks = {}
    BY <1>1 DEF Inv, Lists
<1>3. /\ DOMAIN actions' = DOMAIN actions
      /\ \A i \in DOMAIN actions :
            /\ actions'[i] = [actions[i] EXCEPT !.action_progress = Advanced(@, OwnQuickness)]
            /\ actions'[i] \in Action
            /\ actions'[i].skill = actions[i].skill /\ actions'[i].next = actions[i].next
            /\ actions'[i].action_progress = Advanced(actions[i].action_progress, OwnQuickness)
      /\ actions' \in [DOMAIN actions -> Action]
    <2>1. /\ DOMAIN actions' = DOMAIN actions
          /\ \A i \in DOMAIN actions :
                actions'[i] = [actions[i] EXCEPT !.action_progress = Advanced(@, OwnQuickness)]
        BY DEF progress_casting_skills
    <2>2. ASSUME NEW i \in DOMAIN actions
          PROVE  /\ actions'[i] \in Action
                 /\ actions'[i].skill = actions[i].skill /\ actions'[i].next = actions[i].next
                 /\ actions'[i].action_progress = Advanced(actions[i].action_progress, OwnQuickness)
        <3>1. PICK a \in Action : a = actions[i]
            BY CastTypes DEF Inv
        <3>2. Advanced(a.action_progress, OwnQuickness) \in [Index -> Nat]
            BY QuicknessTypes DEF Action, Advanced, Index
        <3>3. actions'[i] = [a EXCEPT !.action_progress = Advanced(@, OwnQuickness)]
            BY <2>1, <3>1
        <3> QED
            BY <3>1, <3>2, <3>3 DEF Action
    <2>3. actions' = [i \in DOMAIN actions |-> actions'[i]]
        BY DEF progress_casting_skills
    <2> QED
        BY <2>1, <2>2, <2>3
<1>4. /\ DOMAIN tracked' = DOMAIN tracked
      /\ \A i \in DOMAIN tracked :
            /\ tracked'[i] = [tracked[i] EXCEPT !.progress = @ + 1]
            /\ tracked'[i] \in Tracker
            /\ tracked'[i].skill = tracked[i].skill /\ tracked'[i].next = tracked[i].next
            /\ tracked'[i].progress = tracked[i].progress + 1
      /\ tracked' \in [DOMAIN tracked -> Tracker]
    <2>1. /\ DOMAIN tracked' = DOMAIN tracked
          /\ \A i \in DOMAIN tracked : tracked'[i] = [tracked[i] EXCEPT !.progress = @ + 1]
        BY DEF progress_casting_skills
    <2>2. ASSUME NEW i \in DOMAIN tracked
          PROVE  /\ tracked'[i] \in Tracker
                 /\ tracked'[i].skill = tracked[i].skill /\ tracked'[i].next = tracked[i].next
                 /\ tracked'[i].progress = tracked[i].progress + 1
        <3>1. PICK a \in Tracker : a = tracked[i]
            BY CastTypes DEF Inv
        <3>3. tracked'[i] = [a EXCEPT !.progress = @ + 1]
            BY <2>1, <3>1
        <3> QED
            BY <3>1, <3>3 DEF Tracker
    <2>3. tracked' = [i \in DOMAIN tracked |-> tracked'[i]]
        BY DEF progress_casting_skills
    <2> QED
        BY <2>1, <2>2, <2>3
<1>5. /\ actions' \in Seq(Action) /\ Len(actions') = Len(actions)
      /\ tracked' \in Seq(Tracker) /\ Len(tracked') = Len(tracked)
    <2>1. actions \in Seq(Action) /\ tracked \in Seq(Tracker)
        BY DEF Inv, Types
    <2> QED
        BY <1>3, <1>4, <2>1, Replaced
<1>6. Types'
    BY <1>1, <1>3, <1>4, <1>5 DEF Inv, Types, Phases
<1>7. Lists'
    BY <1>1, <1>2, ListedNone DEF Inv, Lists
<1>8. OlderFirst'
    <2>1. ASSUME NEW i \in DOMAIN actions', NEW j \in DOMAIN actions', i < j,
                 actions'[i].skill = actions'[j].skill, NEW q \in Index
          PROVE  actions'[j].action_progress[q] <= actions'[i].action_progress[q]
        <3>1. actions[j].action_progress[q] <= actions[i].action_progress[q]
            BY <1>3, <2>1 DEF Inv, OlderFirst
        <3>2. /\ actions[i].action_progress \in [Index -> Nat]
              /\ actions[j].action_progress \in [Index -> Nat]
            BY <1>3, <2>1, CastTypes DEF Inv
        <3> QED
            BY <1>3, <2>1, <3>1, <3>2, AdvancedInOrder, QuicknessTypes DEF Inv
    <2>2. ASSUME NEW i \in DOMAIN tracked', NEW j \in DOMAIN tracked', i < j,
                 tracked'[i].skill = tracked'[j].skill
          PROVE  tracked'[j].progress <= tracked'[i].progress
        <3>1. tracked[j].progress <= tracked[i].progress
            BY <1>4, <2>2 DEF Inv, OlderFirst
        <3>2. tracked[i].progress \in Nat /\ tracked[j].progress \in Nat
            BY <1>4, <2>2, CastTypes DEF Inv
        <3> QED
            BY <1>4, <2>2, <3>1, <3>2
    <2> QED
        BY <2>1, <2>2 DEF OlderFirst
<1>9. FirstOnesEnd' /\ EveryHitDealt' /\ HitsLandWithinTheCast'
    BY <1>1, <1>2 DEF FirstOnesEnd, FirstEnd, EveryHitDealt, HitsLandWithinTheCast
<1>10. Walked'
    <2> SUFFICES ASSUME NEW i \in DOMAIN tracked', NEW m \in 1..tracked'[i].next
                 PROVE  skill_ticks[tracked'[i].skill][m] <= tracked'[i].progress
        BY DEF Walked
    <2>1. /\ tracked[i].next \in Nat /\ tracked[i].progress \in Nat /\ tracked[i].skill \in Skills
          /\ tracked[i].next <= Len(skill_ticks[tracked[i].skill]) /\ i \in DOMAIN tracked
        BY <1>4, CastTypes DEF Inv, Types
    <2>2. skill_ticks[tracked[i].skill][m] <= tracked[i].progress
        BY <1>4, <2>1 DEF Inv, Walked
    <2>3. skill_ticks[tracked[i].skill][m] \in Nat
        <3>1. skill_ticks[tracked[i].skill] \in Seq(Nat)
            BY <2>1, Configuration
        <3>2. m \in 1..Len(skill_ticks[tracked[i].skill])
            BY <1>4, <2>1, <3>1, LenProperties
        <3> QED
            BY <3>1, <3>2, ElementOfSeq
    <2> QED
        BY <1>4, <2>1, <2>2, <2>3
<1>11. AnimationBehind'
    <2>1. ASSUME animation # NoCast, SameQuickness,
                 NEW i \in DOMAIN actions', actions'[i].skill = animation, NEW q \in Index
          PROVE  animation_progress[q] <= actions'[i].action_progress[q]
        BY <1>1, <1>3, <2>1 DEF Inv, AnimationBehind
    <2> QED
        BY <1>1, <2>1 DEF Inv, AnimationBehind, Instant, SameQuickness
<1>12. Expiry'
    BY <1>1 DEF Inv, Expiry, AnimationPercent
<1> QED
    BY <1>6, <1>7, <1>8, <1>9, <1>10, <1>11, <1>12 DEF Inv

\* Who is listed is known by skill: walking on leaves the lists true.
LEMMA ListedKept ==
    ASSUME NEW seq, NEW new, NEW ended, ended \subseteq DOMAIN seq,
           \A i \in DOMAIN seq : new[i].skill = seq[i].skill
    PROVE  Listed(new, ended) = Listed(seq, ended)
<1>1. \A s \in Skills : {i \in ended : new[i].skill = s} = {i \in ended : seq[i].skill = s}
    OBVIOUS
<1> QED
    BY <1>1 DEF Listed

\* perform_skill_ticks: where a tracker has come to.
TicksReached(i) == Reached(skill_ticks[tracked[i].skill], tracked[i].next, tracked[i].progress)
TicksEnded == {i \in DOMAIN tracked : TicksReached(i) = Len(skill_ticks[tracked[i].skill])}

LEMMA TicksWalked ==
    ASSUME Types, Walked, NEW i \in DOMAIN tracked
    PROVE  /\ skill_ticks[tracked[i].skill] \in Seq(Nat)
           /\ tracked[i].next \in 0..Len(skill_ticks[tracked[i].skill])
           /\ TicksReached(i) \in Nat /\ TicksReached(i) <= Len(skill_ticks[tracked[i].skill])
           /\ \A m \in 1..TicksReached(i) :
                 skill_ticks[tracked[i].skill][m] <= tracked[i].progress
<1>1. PICK list \in Seq(Nat) : list = skill_ticks[tracked[i].skill] /\ Len(list) \in Nat
    BY CastTypes, Configuration, LenProperties
<1>2. PICK next \in 0..Len(list) : next = tracked[i].next
    BY <1>1, CastTypes DEF Types
<1>3. PICK now \in Nat : now = tracked[i].progress
    BY CastTypes
<1>4. PICK n : n = Reached(list, next, now)
    OBVIOUS
<1>5. n \in next..Len(list) /\ \A m \in next + 1..n : list[m] <= now
    BY <1>4, ReachedProperties
<1>6. \A m \in 1..next : list[m] <= now
    BY <1>1, <1>2, <1>3 DEF Walked
<1>7. \A m \in 1..n : m \in 1..next \/ m \in next + 1..n
    BY <1>1, <1>2, <1>5
<1>8. n = TicksReached(i)
    BY <1>1, <1>2, <1>3, <1>4 DEF TicksReached
<1> QED
    BY <1>1, <1>2, <1>3, <1>5, <1>6, <1>7, <1>8

LEMMA PerformSkillTicksInv ==
    ASSUME Inv, perform_skill_ticks
    PROVE  Inv'
<1>1. /\ phase = "ticks" /\ phase' = "actions"
      /\ UNCHANGED <<has_owner, has_quickness, animation, animation_progress, animation_expired, actions,
                     finished_actions, ended_actions>>
      /\ tracked' = [i \in DOMAIN tracked |-> [tracked[i] EXCEPT !.next = TicksReached(i)]]
      /\ ended_ticks' = TicksEnded /\ finished_ticks' = Listed(tracked, TicksEnded)
    BY DEF perform_skill_ticks, TicksReached, TicksEnded, cast, quickness
<1>2. ended_actions = {}
    BY <1>1 DEF Inv, Lists
<1>3. ASSUME NEW i \in DOMAIN tracked
      PROVE  /\ tracked'[i] \in Tracker
             /\ tracked'[i].skill = tracked[i].skill
             /\ tracked'[i].progress = tracked[i].progress
             /\ tracked'[i].next = TicksReached(i)
    <2>1. PICK a \in Tracker : a = tracked[i]
        BY CastTypes DEF Inv
    <2>2. PICK n \in Nat : n = TicksReached(i)
        BY TicksWalked DEF Inv
    <2>3. tracked'[i] = [a EXCEPT !.next = n]
        BY <1>1, <2>1, <2>2
    <2> QED
        BY <2>1, <2>2, <2>3 DEF Tracker
<1>4. tracked' \in [DOMAIN tracked -> Tracker]
    <2>1. tracked' = [i \in DOMAIN tracked |-> tracked'[i]]
        BY <1>1
    <2> QED
        BY <1>3, <2>1
<1>5. tracked' \in Seq(Tracker) /\ Len(tracked') = Len(tracked) /\ DOMAIN tracked' = DOMAIN tracked
    <2>1. tracked \in Seq(Tracker)
        BY DEF Inv, Types
    <2> QED
        BY <1>4, <2>1, Replaced
<1>6. Types'
    <2>1. \A i \in DOMAIN tracked' : tracked'[i].next <= Len(skill_ticks[tracked'[i].skill])
        BY <1>3, <1>5, TicksWalked DEF Inv
    <2> QED
        BY <1>1, <1>5, <2>1 DEF Inv, Types, Phases
<1>7. Lists'
    <2>1. TicksEnded \subseteq DOMAIN tracked
        BY DEF TicksEnded
    <2>2. Listed(tracked', TicksEnded) = Listed(tracked, TicksEnded)
        BY <1>3, <2>1, ListedKept
    <2> QED
        BY <1>1, <1>5, <2>1, <2>2 DEF Inv, Lists, Listed
<1>8. OlderFirst'
    <2>1. ASSUME NEW i \in DOMAIN tracked', NEW j \in DOMAIN tracked', i < j,
                 tracked'[i].skill = tracked'[j].skill
          PROVE  tracked'[j].progress <= tracked'[i].progress
        BY <1>3, <1>5, <2>1 DEF Inv, OlderFirst
    <2> QED
        BY <1>1, <2>1 DEF Inv, OlderFirst
<1>9. FirstOnesEnd'
    <2>1. ASSUME NEW i \in DOMAIN tracked, NEW j \in DOMAIN tracked, i < j,
                 tracked[i].skill = tracked[j].skill, j \in TicksEnded
          PROVE  i \in TicksEnded
        <3>1. PICK list \in Seq(Nat) :
                 list = skill_ticks[tracked[i].skill] /\ list = skill_ticks[tracked[j].skill]
            BY <2>1, TicksWalked DEF Inv
        <3>2. \A m \in 1..Len(list) : list[m] <= tracked[j].progress
            BY <2>1, <3>1, TicksWalked DEF Inv, TicksEnded
        <3>3. /\ tracked[j].progress <= tracked[i].progress
              /\ tracked[j].progress \in Nat /\ tracked[i].progress \in Nat
            BY <2>1, CastTypes DEF Inv, OlderFirst
        <3>4. \A m \in 1..Len(list) : list[m] <= tracked[i].progress
            <4>1. \A m \in 1..Len(list) : list[m] \in Nat
                BY ElementOfSeq
            <4> QED
                BY <3>2, <3>3, <4>1
        <3>5. tracked[i].next \in 0..Len(list)
            BY <3>1, TicksWalked DEF Inv
        <3>6. Reached(list, tracked[i].next, tracked[i].progress) = Len(list)
            BY <3>3, <3>4, <3>5, ReachedAll
        <3> QED
            BY <3>1, <3>6 DEF TicksEnded, TicksReached
    <2>2. FirstEnd(tracked, TicksEnded)
        BY <2>1 DEF FirstEnd
    <2>3. FirstEnd(tracked', TicksEnded)
        BY <1>3, <1>5, <2>2 DEF FirstEnd
    <2> QED
        BY <1>1, <2>3 DEF Inv, FirstOnesEnd, FirstEnd
<1>10. Walked'
    <2> SUFFICES ASSUME NEW i \in DOMAIN tracked', NEW m \in 1..tracked'[i].next
                 PROVE  skill_ticks[tracked'[i].skill][m] <= tracked'[i].progress
        BY DEF Walked
    <2> QED
        BY <1>3, <1>5, TicksWalked DEF Inv
<1>11. AnimationBehind' /\ Expiry'
    BY <1>1 DEF Inv, AnimationBehind, Expiry, AnimationPercent, Instant, SameQuickness
<1>12. EveryHitDealt' /\ HitsLandWithinTheCast'
    BY <1>1, <1>2 DEF EveryHitDealt, HitsLandWithinTheCast
<1> QED
    BY <1>6, <1>7, <1>8, <1>9, <1>10, <1>11, <1>12 DEF Inv

-----------------------------------------------------------------------------
(* perform_skills: what the percentages say of the lists *)

LEMMA TimesMonotone ==
    ASSUME NEW x \in Int, NEW y \in Int, NEW c \in Nat, x <= y
    PROVE  x * c <= y * c
<1>1. (y - x) * c >= 0
    OBVIOUS
<1> QED
    BY <1>1

\* More progress in neither part and as much in all is the same progress.
LEMMA SameProgress ==
    ASSUME NEW p0 \in Nat, NEW p1 \in Nat, NEW r0 \in Nat, NEW r1 \in Nat,
           NEW d0 \in Nat, NEW d1 \in Nat, d0 > 0, d1 > 0,
           p0 <= r0, p1 <= r1, r0 * d1 + r1 * d0 = p0 * d1 + p1 * d0
    PROVE  p0 = r0 /\ p1 = r1
<1>1. p0 * d1 <= r0 * d1 /\ p1 * d0 <= r1 * d0
    BY TimesMonotone
<1>2. p0 * d1 = r0 * d1 /\ p1 * d0 = r1 * d0
    BY <1>1
<1> QED
    BY <1>2

LEMMA MoreProgress ==
    ASSUME NEW p0 \in Nat, NEW p1 \in Nat, NEW r0 \in Nat, NEW r1 \in Nat,
           NEW d0 \in Nat, NEW d1 \in Nat, p0 <= r0, p1 <= r1
    PROVE  p0 * d1 + p1 * d0 <= r0 * d1 + r1 * d0
<1>1. p0 * d1 <= r0 * d1 /\ p1 * d0 <= r1 * d0
    BY TimesMonotone
<1> QED
    BY <1>1

LEMMA Remainder ==
    ASSUME NEW p \in Nat, NEW d \in Nat, d > 0
    PROVE  /\ p \div d \in Nat /\ p % d \in 0..(d - 1)
           /\ p = d * (p \div d) + (p % d)
OBVIOUS

\* Truncated percentages that come to a hundred make a whole, and exactly a whole only when
\* there was nothing to truncate.
LEMMA PercentsMakeAWhole ==
    ASSUME NEW p0 \in Nat, NEW p1 \in Nat, NEW d0 \in Nat, NEW d1 \in Nat, d0 > 0, d1 > 0,
           ((p0 * 100) \div d0) + ((p1 * 100) \div d1) >= 100
    PROVE  /\ p0 * d1 + p1 * d0 >= d0 * d1
           /\ p0 * d1 + p1 * d0 = d0 * d1 => (100 * p0) % d0 = 0
<1>1. PICK x \in Nat, y \in Nat : x = 100 * p0 /\ x = p0 * 100 /\ y = 100 * p1 /\ y = p1 * 100
    OBVIOUS
<1>2. PICK a \in Nat, e \in 0..(d0 - 1) : a = x \div d0 /\ e = x % d0 /\ x = d0 * a + e
    BY Remainder
<1>3. PICK b \in Nat, f \in 0..(d1 - 1) : b = y \div d1 /\ f = y % d1 /\ y = d1 * b + f
    BY Remainder
<1>4. a + b >= 100
    BY <1>1, <1>2, <1>3
<1>5. PICK w \in Nat, z \in Nat : w = d0 * d1 /\ z = p0 * d1 + p1 * d0
    OBVIOUS
<1>6. e * d1 + f * d0 \in Nat /\ e * d1 \in Nat /\ f * d0 \in Nat
    OBVIOUS
<1>7. 100 * z = x * d1 + y * d0
    BY <1>1, <1>5
<1>8. x * d1 + y * d0 = (a + b) * w + (e * d1 + f * d0)
    BY <1>2, <1>3, <1>5
<1>9. 100 * w <= (a + b) * w
    BY <1>4, <1>5, TimesMonotone
<1>10. z >= w /\ (z = w => e * d1 = 0)
    <2>1. PICK v \in Nat : v = (a + b) * w
        BY <1>5
    <2> QED
        BY <1>5, <1>6, <1>7, <1>8, <1>9, <2>1
<1>11. e * d1 = 0 => e = 0
    OBVIOUS
<1> QED
    BY <1>1, <1>2, <1>5, <1>10, <1>11

\* perform_skills, part by part: whether the percentage of cast i comes out at 100, the tick it
\* has come to, where its loops stop, and the casts that end.
Done(k, i, below) == Through(k, actions[i]) /\ Sample(k, actions[i]) \notin below
TickOf(k, i, below, short) ==
    IF Sample(k, actions[i]) \in short /\ ~Done(k, i, below)
    THEN EffectiveTick(k, actions[i]) - 1 ELSE EffectiveTick(k, actions[i])
HitsReached(i, below, short) == [k \in Kinds |->
    Reached(on_tick_list[k][actions[i].skill][0], actions[i].next[k], TickOf(k, i, below, short))]
HitsEnded(below) == {i \in DOMAIN actions : \A k \in Kinds : Done(k, i, below)}

LEMMA EffectiveTickInt ==
    ASSUME NEW k \in Kinds, NEW a \in Action
    PROVE  EffectiveTick(k, a) \in Int
<1> DEFINE base == Duration(k, a.skill, 0)
           quick == Duration(k, a.skill, 1)
<1>1. /\ a.skill \in Skills /\ a.action_progress[0] \in Nat /\ a.action_progress[1] \in Nat
      /\ 0 \in Index /\ 1 \in Index
    BY DEF Action, Index
<1>2. base \in Nat /\ quick \in Nat
    BY <1>1, Durations
<1>3. /\ Progress(k, a) = a.action_progress[0] * quick + a.action_progress[1] * base
      /\ EffectiveTick(k, a) = IF base = 0 THEN 0
            ELSE IF quick = 0 THEN a.action_progress[0] + base ELSE Progress(k, a) \div quick
    BY DEF Progress, EffectiveTick
<1> HIDE DEF base, quick
<1>4. a.action_progress[0] * quick \in Nat /\ a.action_progress[1] * base \in Nat
    BY <1>1, <1>2
<1>5. PICK p \in Nat : p = Progress(k, a)
    BY <1>3, <1>4
<1>6. CASE quick > 0
    <2>1. p \div quick \in Int
        BY <1>2, <1>6
    <2> QED
        BY <1>1, <1>2, <1>3, <1>5, <2>1
<1> QED
    BY <1>1, <1>2, <1>3, <1>6

\* The loops of perform_skills stop within the lists, and at their ends once the cast is done.
LEMMA HitsWalked ==
    ASSUME Types, NEW i \in DOMAIN actions, NEW below, NEW short, NEW k \in Kinds
    PROVE  /\ HitsReached(i, below, short)[k] \in Nat
           /\ HitsReached(i, below, short)[k] <= Len(on_tick_list[k][actions[i].skill][0])
           /\ Done(k, i, below) =>
                 HitsReached(i, below, short)[k] = Len(on_tick_list[k][actions[i].skill][0])
<1>1. PICK a \in Action : a = actions[i]
    BY CastTypes
<1>2. PICK list \in Seq(Nat) : list = on_tick_list[k][a.skill][0] /\ Len(list) \in Nat
    BY Configuration, LenProperties DEF Action, Index
<1>3. PICK next \in 0..Len(list) : next = a.next[k]
    BY <1>1, <1>2 DEF Types, Action
<1>4. PICK tick \in Int : tick = TickOf(k, i, below, short)
    <2>1. EffectiveTick(k, a) \in Int
        BY EffectiveTickInt
    <2> QED
        BY <1>1, <2>1 DEF TickOf
<1>5. HitsReached(i, below, short)[k] = Reached(list, next, tick)
    BY <1>1, <1>2, <1>3, <1>4 DEF HitsReached
<1>6. Reached(list, next, tick) \in next..Len(list)
    BY ReachedProperties
<1>7. ASSUME Done(k, i, below) PROVE Reached(list, next, tick) = Len(list)
    <2>1. tick = EffectiveTick(k, a) /\ Through(k, a)
        BY <1>1, <1>4, <1>7 DEF Done, TickOf
    <2>2. \A m \in 1..Len(list) : list[m] <= tick
        BY <1>2, <2>1, ThroughIsDue
    <2> QED
        BY <2>2, ReachedAll
<1> QED
    BY <1>1, <1>2, <1>5, <1>6, <1>7

\* A percentage that comes out below 100 is one of exactly a whole.
LEMMA BelowIsInexact ==
    ASSUME Types, NEW below \in SUBSET Samples(Inexact), NEW i \in DOMAIN actions, NEW k \in Kinds,
           Sample(k, actions[i]) \in below
    PROVE  Inexact(k, actions[i])
<1>1. PICK kind \in Kinds, j \in DOMAIN actions :
         Inexact(kind, actions[j]) /\ Sample(k, actions[i]) = Sample(kind, actions[j])
    BY DEF Samples
<1>2. /\ kind = k /\ actions[j].skill = actions[i].skill
      /\ actions[j].action_progress = actions[i].action_progress
    BY <1>1 DEF Sample
<1> QED
    BY <1>1, <1>2 DEF Inexact, Progress, Whole

\* The parts of the percentages, as numbers.
LEMMA Parts ==
    ASSUME NEW k \in Kinds, NEW a \in Action
    PROVE  /\ a.skill \in Skills /\ a.action_progress \in [Index -> Nat]
           /\ a.action_progress[0] \in Nat /\ a.action_progress[1] \in Nat
           /\ Duration(k, a.skill, 0) \in Nat /\ Duration(k, a.skill, 1) \in Nat
<1>1. 0 \in Index /\ 1 \in Index
    BY DEF Index
<1>2. a.skill \in Skills /\ a.action_progress \in [Index -> Nat]
    BY DEF Action
<1> QED
    BY <1>1, <1>2, Durations

\* So the older of two casts of a skill is done when the younger is.
LEMMA ElderIsDone ==
    ASSUME Types, OlderFirst, NEW below \in SUBSET Samples(Inexact), NEW k \in Kinds,
           NEW i \in DOMAIN actions, NEW j \in DOMAIN actions, i < j,
           actions[i].skill = actions[j].skill, Done(k, j, below)
    PROVE  Done(k, i, below)
<1>1. PICK a \in Action, b \in Action : a = actions[i] /\ b = actions[j]
    BY CastTypes
<1>2. PICK d0 \in Nat, d1 \in Nat :
         /\ d0 = Duration(k, a.skill, 0) /\ d1 = Duration(k, a.skill, 1)
    BY Parts
<1>3. PICK p0 \in Nat, p1 \in Nat : p0 = b.action_progress[0] /\ p1 = b.action_progress[1]
    BY Parts
<1>4. PICK r0 \in Nat, r1 \in Nat : r0 = a.action_progress[0] /\ r1 = a.action_progress[1]
    BY Parts
<1>5. p0 <= r0 /\ p1 <= r1
    BY <1>1, <1>3, <1>4 DEF OlderFirst, Index
<1>6. /\ Progress(k, b) = p0 * d1 + p1 * d0 /\ Progress(k, a) = r0 * d1 + r1 * d0
      /\ Whole(k, a.skill) = d0 * d1 /\ Whole(k, b.skill) = d0 * d1
    BY <1>1, <1>2, <1>3, <1>4 DEF Progress, Whole
<1>7. p0 * d1 + p1 * d0 >= d0 * d1
    BY <1>1, <1>6 DEF Done, Through
<1>8. p0 * d1 + p1 * d0 <= r0 * d1 + r1 * d0
    BY <1>5, MoreProgress
<1>9. PICK w \in Nat, y \in Nat, z \in Nat :
         w = d0 * d1 /\ y = p0 * d1 + p1 * d0 /\ z = r0 * d1 + r1 * d0
    OBVIOUS
<1>10. Through(k, a)
    BY <1>6, <1>7, <1>8, <1>9 DEF Through
<1>11. ASSUME Sample(k, a) \in below PROVE FALSE
    <2>1. Inexact(k, a)
        BY <1>1, <1>11, BelowIsInexact
    <2>2. w > 0 /\ z = w /\ y = w
        <3>1. Whole(k, a.skill) > 0 /\ Progress(k, a) = Whole(k, a.skill)
            BY <2>1 DEF Inexact
        <3>2. w > 0 /\ z = w
            BY <1>6, <1>9, <3>1
        <3>3. y >= w /\ y <= z
            BY <1>7, <1>8, <1>9
        <3> QED
            BY <3>2, <3>3
    <2>3. d0 > 0 /\ d1 > 0
        BY <1>9, <2>2
    <2>4. p0 = r0 /\ p1 = r1
        BY <1>5, <1>9, <2>2, <2>3, SameProgress
    <2>5. a.action_progress = b.action_progress
        <3>1. a.action_progress \in [Index -> Nat] /\ b.action_progress \in [Index -> Nat]
            BY Parts
        <3>2. \A q \in Index : a.action_progress[q] = b.action_progress[q]
            BY <1>3, <1>4, <2>4 DEF Index
        <3> QED
            BY <3>1, <3>2
    <2>6. Sample(k, b) = Sample(k, a)
        BY <1>1, <2>5 DEF Sample
    <2> QED
        BY <1>1, <1>11, <2>6 DEF Done
<1> QED
    BY <1>1, <1>10, <1>11 DEF Done

\* A cast whose skill is the animation's, within its cast time, is done when that has expired.
LEMMA ExpiredIsDone ==
    ASSUME Types, AnimationBehind, Expiry, SameQuickness, phase = "actions", animation_expired,
           \A k \in Kinds, q \in Index :
              Back(on_tick_list[k][animation][q]) <= cast_duration[animation][q],
           NEW below \in SUBSET Samples(Inexact), NEW k \in Kinds, NEW i \in DOMAIN actions,
           actions[i].skill = animation
    PROVE  Done(k, i, below)
<1>1. PICK a \in Action : a = actions[i]
    BY CastTypes
<1>2. PICK s \in Skills : s = animation /\ s = a.skill /\ animation # NoCast /\ ~Instant(s)
    BY <1>1 DEF Expiry, AnimationBehind, Action
<1>3. PICK d0 \in Nat, d1 \in Nat : d0 = cast_duration[s][0] /\ d1 = cast_duration[s][1]
    BY Configuration DEF Index
<1>4. d0 > 0 /\ d1 > 0
    BY <1>2, <1>3, Configuration DEF Instant
<1>5. Duration(k, s, 0) = d0 /\ Duration(k, s, 1) = d1
    <2>1. /\ Duration(k, s, 0) \in Nat /\ Duration(k, s, 0) >= d0
          /\ Duration(k, s, 0) \in {Back(on_tick_list[k][s][0]), d0}
        BY <1>3, Durations DEF Index
    <2>2. /\ Duration(k, s, 1) \in Nat /\ Duration(k, s, 1) >= d1
          /\ Duration(k, s, 1) \in {Back(on_tick_list[k][s][1]), d1}
        BY <1>3, Durations DEF Index
    <2>3. Back(on_tick_list[k][s][0]) <= d0 /\ Back(on_tick_list[k][s][1]) <= d1
        BY <1>2, <1>3 DEF Index
    <2> QED
        BY <2>1, <2>2, <2>3
<1>6. PICK p0 \in Nat, p1 \in Nat : p0 = animation_progress[0] /\ p1 = animation_progress[1]
    BY DEF Types, Index
<1>7. PICK r0 \in Nat, r1 \in Nat : r0 = a.action_progress[0] /\ r1 = a.action_progress[1]
    BY Parts
<1>8. p0 <= r0 /\ p1 <= r1
    BY <1>1, <1>2, <1>6, <1>7 DEF AnimationBehind, Index
<1>9. ((p0 * 100) \div d0) + ((p1 * 100) \div d1) >= 100
    BY <1>2, <1>3, <1>6 DEF Expiry, AnimationPercent
<1>10. /\ p0 * d1 + p1 * d0 >= d0 * d1
       /\ p0 * d1 + p1 * d0 = d0 * d1 => (100 * p0) % d0 = 0
    BY <1>4, <1>9, PercentsMakeAWhole
<1>11. p0 * d1 + p1 * d0 <= r0 * d1 + r1 * d0
    BY <1>8, MoreProgress
<1>12. PICK w \in Nat, y \in Nat, z \in Nat :
          w = d0 * d1 /\ y = p0 * d1 + p1 * d0 /\ z = r0 * d1 + r1 * d0
    OBVIOUS
<1>13. Progress(k, a) = z /\ Whole(k, a.skill) = w
    BY <1>2, <1>5, <1>7, <1>12 DEF Progress, Whole
<1>14. Through(k, a)
    BY <1>10, <1>11, <1>12, <1>13 DEF Through
<1>15. ASSUME Sample(k, a) \in below PROVE FALSE
    <2>1. Inexact(k, a)
        BY <1>1, <1>15, BelowIsInexact
    <2>2. z = w /\ (100 * r0) % d0 # 0
        BY <1>2, <1>5, <1>7, <1>13, <2>1 DEF Inexact
    <2>3. y >= w /\ y <= z
        BY <1>10, <1>11, <1>12
    <2>4. y = w /\ y = z
        BY <2>2, <2>3
    <2>5. p0 = r0
        BY <1>4, <1>8, <1>12, <2>4, SameProgress
    <2> QED
        BY <1>10, <1>12, <2>2, <2>4, <2>5
<1> QED
    BY <1>1, <1>14, <1>15 DEF Done

LEMMA PerformSkillsInv ==
    ASSUME Inv, NEW below \in SUBSET Samples(Inexact), NEW short, PerformSkills(below, short)
    PROVE  Inv'
<1>1. /\ phase = "actions" /\ phase' = "cleanup"
      /\ UNCHANGED <<has_owner, has_quickness, animation, animation_progress, animation_expired, tracked,
                     finished_ticks, ended_ticks>>
      /\ actions' = [i \in DOMAIN actions |->
            [actions[i] EXCEPT !.next = HitsReached(i, below, short)]]
      /\ ended_actions' = HitsEnded(below) /\ finished_actions' = Listed(actions, HitsEnded(below))
    BY DEF PerformSkills, HitsReached, HitsEnded, TickOf, Done, cast, quickness
<1>2. ASSUME NEW i \in DOMAIN actions
      PROVE  /\ actions'[i] \in Action
             /\ actions'[i].skill = actions[i].skill
             /\ actions'[i].action_progress = actions[i].action_progress
             /\ actions'[i].next = HitsReached(i, below, short)
    <2>1. PICK a \in Action : a = actions[i]
        BY CastTypes DEF Inv
    <2>2. PICK next \in [Kinds -> Nat] : next = HitsReached(i, below, short)
        <3>1. \A k \in Kinds : HitsReached(i, below, short)[k] \in Nat
            BY HitsWalked DEF Inv
        <3> QED
            BY <3>1 DEF HitsReached
    <2>3. actions'[i] = [a EXCEPT !.next = next]
        BY <1>1, <2>1, <2>2
    <2> QED
        BY <2>1, <2>2, <2>3 DEF Action
<1>3. actions' \in [DOMAIN actions -> Action]
    <2>1. actions' = [i \in DOMAIN actions |-> actions'[i]]
        BY <1>1
    <2> QED
        BY <1>2, <2>1
<1>4. actions' \in Seq(Action) /\ Len(actions') = Len(actions) /\ DOMAIN actions' = DOMAIN actions
    <2>1. actions \in Seq(Action)
        BY DEF Inv, Types
    <2> QED
        BY <1>3, <2>1, Replaced
<1>5. Types'
    <2>1. \A i \in DOMAIN actions', k \in Kinds :
             actions'[i].next[k] <= Len(on_tick_list[k][actions'[i].skill][0])
        BY <1>2, <1>4, HitsWalked DEF Inv
    <2> QED
        BY <1>1, <1>4, <2>1 DEF Inv, Types, Phases
<1>6. Lists'
    <2>1. HitsEnded(below) \subseteq DOMAIN actions
        BY DEF HitsEnded
    <2>2. Listed(actions', HitsEnded(below)) = Listed(actions, HitsEnded(below))
        BY <1>2, <2>1, ListedKept
    <2> QED
        BY <1>1, <1>4, <2>1, <2>2 DEF Inv, Lists, Listed
<1>7. OlderFirst'
    <2>1. ASSUME NEW i \in DOMAIN actions', NEW j \in DOMAIN actions', i < j,
                 actions'[i].skill = actions'[j].skill, NEW q \in Index
          PROVE  actions'[j].action_progress[q] <= actions'[i].action_progress[q]
        BY <1>2, <1>4, <2>1 DEF Inv, OlderFirst
    <2> QED
        BY <1>1, <2>1 DEF Inv, OlderFirst
<1>8. FirstOnesEnd'
    <2>1. \A i, j \in DOMAIN actions :
             i < j /\ actions[i].skill = actions[j].skill /\ j \in HitsEnded(below) =>
                i \in HitsEnded(below)
        BY ElderIsDone DEF Inv, HitsEnded
    <2>2. FirstEnd(actions', HitsEnded(below))
        BY <1>2, <1>4, <2>1 DEF FirstEnd
    <2> QED
        BY <1>1, <2>2 DEF Inv, FirstOnesEnd, FirstEnd
<1>9. Walked' /\ Expiry'
    BY <1>1 DEF Inv, Walked, Expiry, AnimationPercent
<1>10. AnimationBehind'
    <2>1. ASSUME animation # NoCast, SameQuickness,
                 NEW i \in DOMAIN actions', actions'[i].skill = animation, NEW q \in Index
          PROVE  animation_progress[q] <= actions'[i].action_progress[q]
        BY <1>1, <1>2, <1>4, <2>1 DEF Inv, AnimationBehind
    <2> QED
        BY <1>1, <2>1 DEF Inv, AnimationBehind, Instant, SameQuickness
<1>11. EveryHitDealt'
    <2> SUFFICES ASSUME NEW i \in HitsEnded(below), NEW k \in Kinds
                 PROVE  actions'[i].next[k] = Len(on_tick_list[k][actions'[i].skill][0])
        BY <1>1 DEF EveryHitDealt
    <2>1. i \in DOMAIN actions /\ Done(k, i, below)
        BY DEF HitsEnded
    <2> QED
        BY <1>2, <2>1, HitsWalked DEF Inv
<1>12. HitsLandWithinTheCast'
    <2> SUFFICES ASSUME animation_expired, Within(animation), SameQuickness,
                        NEW i \in DOMAIN actions', NEW k \in Kinds, actions'[i].skill = animation
                 PROVE  actions'[i].next[k] = Len(on_tick_list[k][animation][0])
        BY <1>1 DEF HitsLandWithinTheCast, Within, SameQuickness
    <2>1. i \in DOMAIN actions /\ actions[i].skill = animation
        BY <1>2, <1>4
    <2>2. Done(k, i, below)
        BY <1>1, <2>1, ExpiredIsDone DEF Inv, Within
    <2> QED
        BY <1>2, <2>1, <2>2, HitsWalked DEF Inv
<1> QED
    BY <1>5, <1>6, <1>7, <1>8, <1>9, <1>10, <1>11, <1>12 DEF Inv

-----------------------------------------------------------------------------
(* cleanup: the first casts of the listed skills are the ones that ended *)

\* A cast that ended ranks among the casts that did; one that goes on ranks behind them all.
LEMMA EndedRankFirst ==
    ASSUME NEW seq, NEW n \in Nat, DOMAIN seq = 1..n, NEW ended, ended \subseteq DOMAIN seq,
           FirstEnd(seq, ended), NEW i \in DOMAIN seq
    PROVE  Rank(seq, i) > Cardinality({j \in ended : seq[j].skill = seq[i].skill}) <=> i \notin ended
<1> DEFINE ranked == {j \in 1..i : seq[j].skill = seq[i].skill}
           listed == {j \in ended : seq[j].skill = seq[i].skill}
<1>1. i \in Nat /\ i <= n /\ i \in ranked
    OBVIOUS
<1>2. IsFiniteSet(1..i) /\ IsFiniteSet(1..n)
    BY <1>1, FS_Interval
<1>3. ranked \in SUBSET (1..i) /\ listed \in SUBSET (1..n)
    OBVIOUS
<1>4. Rank(seq, i) = Cardinality(ranked)
    BY DEF Rank
<1>5. ASSUME i \in ended PROVE ranked \subseteq listed
    <2> SUFFICES ASSUME NEW j \in ranked PROVE j \in listed
        OBVIOUS
    <2>1. j \in DOMAIN seq /\ seq[j].skill = seq[i].skill /\ (j < i \/ j = i)
        BY <1>1
    <2>2. j \in ended
        BY <1>5, <2>1 DEF FirstEnd
    <2> QED
        BY <2>1, <2>2
<1>6. ASSUME i \notin ended PROVE listed \cup {i} \subseteq ranked /\ i \notin listed
    <2>1. ASSUME NEW j \in listed PROVE j \in ranked
        <3>1. j \in DOMAIN seq /\ j \in ended /\ seq[j].skill = seq[i].skill
            BY <2>1
        <3>2. ~(i < j)
            BY <1>6, <3>1 DEF FirstEnd
        <3>3. j \in 1..i
            BY <1>1, <3>1, <3>2
        <3> QED
            BY <3>1, <3>3
    <2> QED
        BY <1>1, <1>6, <2>1
<1> HIDE DEF ranked, listed
<1>7. /\ IsFiniteSet(ranked) /\ IsFiniteSet(listed)
      /\ Cardinality(ranked) \in Nat /\ Cardinality(listed) \in Nat
    BY <1>2, <1>3, FS_Subset, FS_CardinalityType
<1>8. ASSUME i \in ended PROVE Cardinality(ranked) <= Cardinality(listed)
    BY <1>5, <1>7, <1>8, FS_Subset
<1>9. ASSUME i \notin ended PROVE Cardinality(listed) + 1 <= Cardinality(ranked)
    <2>1. Cardinality(listed \cup {i}) = Cardinality(listed) + 1
        BY <1>6, <1>7, <1>9, FS_AddElement
    <2>2. Cardinality(listed \cup {i}) <= Cardinality(ranked)
        BY <1>6, <1>7, <1>9, FS_Subset
    <2> QED
        BY <2>1, <2>2
<1>10. Cardinality(ranked) > Cardinality(listed) <=> i \notin ended
    BY <1>7, <1>8, <1>9
<1> QED
    BY <1>4, <1>10 DEF listed

LEMMA ErasedAreTheEnded ==
    ASSUME NEW seq, NEW n \in Nat, DOMAIN seq = 1..n, NEW ended, ended \subseteq DOMAIN seq,
           FirstEnd(seq, ended), \A i \in DOMAIN seq : seq[i].skill \in Skills
    PROVE  Erased(seq, Listed(seq, ended)) = At(seq, DOMAIN seq \ ended)
<1>1. ASSUME NEW i \in DOMAIN seq
      PROVE  Rank(seq, i) > Listed(seq, ended)[seq[i].skill] <=> i \notin ended
    <2>1. Listed(seq, ended)[seq[i].skill] = Cardinality({j \in ended : seq[j].skill = seq[i].skill})
        BY DEF Listed
    <2> QED
        BY <2>1, EndedRankFirst
<1>2. {i \in DOMAIN seq : Rank(seq, i) > Listed(seq, ended)[seq[i].skill]} = DOMAIN seq \ ended
    BY <1>1
<1> QED
    BY <1>2 DEF Erased

LEMMA CleanupErases ==
    ASSUME Inv, cleanup
    PROVE  /\ actions' = At(actions, DOMAIN actions \ ended_actions)
           /\ tracked' = At(tracked, DOMAIN tracked \ ended_ticks)
<1>1. /\ actions' = Erased(actions, Listed(actions, ended_actions))
      /\ tracked' = Erased(tracked, Listed(tracked, ended_ticks))
    BY DEF cleanup, Inv, Lists
<1>2. /\ ended_actions \subseteq DOMAIN actions /\ FirstEnd(actions, ended_actions)
      /\ ended_ticks \subseteq DOMAIN tracked /\ FirstEnd(tracked, ended_ticks)
    BY DEF Inv, Lists, FirstOnesEnd
<1>3. PICK m \in Nat, n \in Nat : DOMAIN actions = 1..m /\ DOMAIN tracked = 1..n
    BY CastTypes DEF Inv
<1>4. /\ \A i \in DOMAIN actions : actions[i].skill \in Skills
      /\ \A i \in DOMAIN tracked : tracked[i].skill \in Skills
    BY CastTypes DEF Inv
<1>5. Erased(actions, Listed(actions, ended_actions)) = At(actions, DOMAIN actions \ ended_actions)
    BY <1>2, <1>3, <1>4, ErasedAreTheEnded
<1>6. Erased(tracked, Listed(tracked, ended_ticks)) = At(tracked, DOMAIN tracked \ ended_ticks)
    BY <1>2, <1>3, <1>4, ErasedAreTheEnded
<1> QED
    BY <1>1, <1>5, <1>6

LEMMA CleanupInv ==
    ASSUME Inv, cleanup
    PROVE  Inv'
<1>1. /\ phase = "cleanup" /\ phase' = "rotations" /\ animation_expired' = FALSE
      /\ animation' = IF animation_expired THEN NoCast ELSE animation
      /\ animation_progress' = IF animation_expired THEN NotStarted ELSE animation_progress
      /\ finished_actions' = NoneListed /\ finished_ticks' = NoneListed
      /\ ended_actions' = {} /\ ended_ticks' = {} /\ has_quickness' \in BOOLEAN
      /\ has_owner' = has_owner
    BY DEF cleanup, ClearLists
<1>2. /\ actions \in Seq(Action) /\ tracked \in Seq(Tracker)
      /\ Len(actions) \in Nat /\ Len(tracked) \in Nat
    BY CastTypes DEF Inv, Types
<1>3. /\ actions' \in Seq(Action) /\ Len(actions') <= Len(actions)
      /\ \E pos : PickedFrom(actions, actions', pos)
    <2>1. PICK kept : kept \subseteq DOMAIN actions /\ actions' = At(actions, kept)
        BY CleanupErases
    <2> QED
        BY <1>2, <2>1, Subsequence
<1>4. /\ tracked' \in Seq(Tracker) /\ Len(tracked') <= Len(tracked)
      /\ \E pos : PickedFrom(tracked, tracked', pos)
    <2>1. PICK kept : kept \subseteq DOMAIN tracked /\ tracked' = At(tracked, kept)
        BY CleanupErases
    <2> QED
        BY <1>2, <2>1, Subsequence
<1>5. PICK pos : PickedFrom(actions, actions', pos)
    BY <1>3
<1>6. PICK at : PickedFrom(tracked, tracked', at)
    BY <1>4
<1>7. /\ \A m \in DOMAIN actions' : pos[m] \in DOMAIN actions /\ actions'[m] = actions[pos[m]]
      /\ \A m, n \in DOMAIN actions' : m < n => pos[m] < pos[n]
    BY <1>5 DEF PickedFrom
<1>8. /\ \A m \in DOMAIN tracked' : at[m] \in DOMAIN tracked /\ tracked'[m] = tracked[at[m]]
      /\ \A m, n \in DOMAIN tracked' : m < n => at[m] < at[n]
    BY <1>6 DEF PickedFrom
<1>9. Types'
    <2>1. Len(actions') \in Nat /\ Len(tracked') \in Nat
        BY <1>3, <1>4, LenProperties
    <2>2. Len(actions') <= MaxCasts /\ Len(tracked') <= MaxCasts
        BY <1>2, <1>3, <1>4, <2>1, Configuration DEF Inv, Types
    <2>3. /\ \A i \in DOMAIN actions', k \in Kinds :
                actions'[i].next[k] <= Len(on_tick_list[k][actions'[i].skill][0])
          /\ \A i \in DOMAIN tracked' : tracked'[i].next <= Len(skill_ticks[tracked'[i].skill])
        BY <1>7, <1>8 DEF Inv, Types
    <2>4. /\ animation' \in Skills \cup {NoCast} /\ animation_progress' \in [Index -> Nat]
          /\ has_owner' \in BOOLEAN
        BY <1>1 DEF Inv, Types, NotStarted
    <2> QED
        BY <1>1, <1>3, <1>4, <2>2, <2>3, <2>4 DEF Types, Phases
<1>10. Lists'
    BY <1>1, ListedNone DEF Lists
<1>11. OlderFirst'
    <2>1. ASSUME NEW i \in DOMAIN actions', NEW j \in DOMAIN actions', i < j,
                 actions'[i].skill = actions'[j].skill, NEW q \in Index
          PROVE  actions'[j].action_progress[q] <= actions'[i].action_progress[q]
        BY <1>7, <2>1 DEF Inv, OlderFirst
    <2>2. ASSUME NEW i \in DOMAIN tracked', NEW j \in DOMAIN tracked', i < j,
                 tracked'[i].skill = tracked'[j].skill
          PROVE  tracked'[j].progress <= tracked'[i].progress
        BY <1>8, <2>2 DEF Inv, OlderFirst
    <2> QED
        BY <2>1, <2>2 DEF OlderFirst
<1>12. Walked'
    <2> SUFFICES ASSUME NEW i \in DOMAIN tracked', NEW m \in 1..tracked'[i].next
                 PROVE  skill_ticks[tracked'[i].skill][m] <= tracked'[i].progress
        BY DEF Walked
    <2> QED
        BY <1>8 DEF Inv, Walked
<1>13. AnimationBehind'
    <2>1. ASSUME animation' # NoCast
          PROVE  animation' = animation /\ animation # NoCast
                 /\ animation_progress' = animation_progress
        BY <1>1, <2>1
    <2>2. ASSUME animation' # NoCast, SameQuickness',
                 NEW i \in DOMAIN actions', actions'[i].skill = animation', NEW q \in Index
          PROVE  animation_progress'[q] <= actions'[i].action_progress[q]
        BY <1>1, <1>7, <2>1, <2>2 DEF Inv, AnimationBehind, SameQuickness
    <2> QED
        BY <1>1, <2>1, <2>2 DEF Inv, AnimationBehind, Instant
<1>14. FirstOnesEnd' /\ Expiry' /\ EveryHitDealt' /\ HitsLandWithinTheCast'
    BY <1>1 DEF FirstOnesEnd, FirstEnd, Expiry, EveryHitDealt, HitsLandWithinTheCast
<1> QED
    BY <1>9, <1>10, <1>11, <1>12, <1>13, <1>14 DEF Inv

-----------------------------------------------------------------------------
(* The theorems *)

LEMMA NextInv == Inv /\ [Next]_vars => Inv'
<1> SUFFICES ASSUME Inv, [Next]_vars PROVE Inv'
    OBVIOUS
<1>1. ASSUME NEW s \in Skills, InstantCast(s) PROVE Inv'
    BY <1>1, BeginInv DEF InstantCast
<1>2. ASSUME NEW s \in Skills, AnimatedCast(s) PROVE Inv'
    BY <1>2, BeginInv DEF AnimatedCast
<1>3. CASE progress_animations
    BY <1>3, ProgressAnimationsInv
<1>4. CASE progress_casting_skills
    BY <1>4, ProgressCastingSkillsInv
<1>5. CASE perform_skill_ticks
    BY <1>5, PerformSkillTicksInv
<1>6. ASSUME NEW below \in SUBSET Samples(Inexact), NEW short, PerformSkills(below, short)
      PROVE  Inv'
    BY <1>6, PerformSkillsInv
<1>7. CASE cleanup
    BY <1>7, CleanupInv
<1>8. CASE UNCHANGED vars
    <2>1. /\ UNCHANGED <<phase, has_owner, has_quickness, animation, animation_progress>>
          /\ UNCHANGED <<animation_expired, actions, tracked, finished_actions, finished_ticks,
                         ended_actions, ended_ticks>>
        BY <1>8 DEF vars, cast, finished, quickness
    <2>2. Types' /\ Lists' /\ OlderFirst' /\ FirstOnesEnd' /\ Walked'
        BY <2>1 DEF Inv, Types, Lists, OlderFirst, FirstOnesEnd, FirstEnd, Walked, Listed
    <2>3. AnimationBehind' /\ Expiry' /\ EveryHitDealt' /\ HitsLandWithinTheCast'
        BY <2>1 DEF Inv, AnimationBehind, Expiry, EveryHitDealt, HitsLandWithinTheCast, Instant,
            Advanced, AnimationPercent, Within, SameQuickness, OwnQuickness
    <2> QED
        BY <2>2, <2>3 DEF Inv
<1> QED
    BY <1>1, <1>2, <1>3, <1>4, <1>5, <1>6, <1>7, <1>8 DEF Next

\* Of several casts of a skill the older ones are ahead and end first, what a tracker has walked
\* past is due, and while it counts the same quickness the animation is never ahead of its cast,
\* in every reachable state.
THEOREM InvHolds == Spec => []Inv
<1>1. Init => Inv
    BY InitInv
<1>2. Inv /\ [Next]_vars => Inv'
    BY NextInv
<1> QED
    BY <1>1, <1>2, PTL DEF Spec

\* Every running cast keeps its positions within its lists, and what is listed as finished are
\* the skills of the casts that ended.
THEOREM TypeCorrect == Spec => []TypeOK
<1>1. Inv => TypeOK
    <2> SUFFICES ASSUME Inv PROVE TypeOK
        OBVIOUS
    <2>1. ASSUME NEW i \in DOMAIN actions, NEW k \in Kinds
          PROVE  actions[i].next[k] \in 0..Len(on_tick_list[k][actions[i].skill][0])
        <3>1. actions[i].next \in [Kinds -> Nat] /\ actions[i].skill \in Skills
            BY CastTypes DEF Inv
        <3>2. on_tick_list[k][actions[i].skill][0] \in Seq(Nat)
            BY <3>1, Configuration DEF Index
        <3> QED
            BY <3>1, <3>2, LenProperties DEF Inv, Types
    <2>2. ASSUME NEW i \in DOMAIN tracked
          PROVE  tracked[i].next \in 0..Len(skill_ticks[tracked[i].skill])
        <3>1. tracked[i].next \in Nat /\ tracked[i].skill \in Skills
            BY CastTypes DEF Inv
        <3>2. skill_ticks[tracked[i].skill] \in Seq(Nat)
            BY <3>1, Configuration
        <3> QED
            BY <3>1, <3>2, LenProperties DEF Inv, Types
    <2>3. /\ \A i \in DOMAIN actions :
                actions[i].skill \in Skills /\ actions[i].action_progress \in [Index -> Nat]
          /\ \A i \in DOMAIN tracked :
                tracked[i].skill \in Skills /\ tracked[i].progress \in Nat
        BY CastTypes DEF Inv
    <2> QED
        BY <2>1, <2>2, <2>3 DEF Inv, Types, Lists, TypeOK
<1> QED
    BY <1>1, InvHolds, PTL

\* perform_skills ends a cast by its percentages: whatever quickness came and went and however
\* the doubles round, a cast that ends has walked its lists to the end.
THEOREM EndedCastsHaveDealtEveryHit == Spec => []EveryHitDealt
<1>1. Inv => EveryHitDealt
    BY DEF Inv
<1> QED
    BY <1>1, InvHolds, PTL

\* A cast whose lists lie within its cast time has dealt all its hits when its animation ends:
\* truncated percentages are never ahead of the ones in doubles.  Of a child actor this is said
\* when its owner had no quickness during the cast, which its animation alone would count.
THEOREM NoHitOutlastsItsCast == Spec => []HitsLandWithinTheCast
<1>1. Inv => HitsLandWithinTheCast
    BY DEF Inv
<1> QED
    BY <1>1, InvHolds, PTL

\* cleanup_skill_actions and cleanup_skill_ticks_tracker, which are told skills and not casts,
\* erase exactly the casts that finished.
THEOREM CleanupLeavesTheOthers == Spec => FinishedCastsLeave
<1>1. ASSUME Inv, [Next]_vars
      PROVE  [phase = "cleanup" =>
                 /\ actions' = At(actions, DOMAIN actions \ ended_actions)
                 /\ tracked' = At(tracked, DOMAIN tracked \ ended_ticks)]_vars
    <2> SUFFICES ASSUME phase = "cleanup", ~UNCHANGED vars
                 PROVE  /\ actions' = At(actions, DOMAIN actions \ ended_actions)
                        /\ tracked' = At(tracked, DOMAIN tracked \ ended_ticks)
        OBVIOUS
    <2>1. cleanup
        <3>1. \A s \in Skills : ~InstantCast(s) /\ ~AnimatedCast(s)
            BY DEF InstantCast, AnimatedCast, Begin
        <3>2. ~progress_animations /\ ~progress_casting_skills /\ ~perform_skill_ticks
            BY DEF progress_animations, progress_casting_skills, perform_skill_ticks
        <3>3. \A below, short : ~PerformSkills(below, short)
            BY DEF PerformSkills
        <3> QED
            BY <1>1, <3>1, <3>2, <3>3 DEF Next
    <2> QED
        BY <1>1, <2>1, CleanupErases
<1> QED
    BY <1>1, InvHolds, PTL DEF Spec, FinishedCastsLeave
=============================================================================
