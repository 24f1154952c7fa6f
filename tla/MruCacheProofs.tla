--------------------------- MODULE MruCacheProofs ---------------------------
(***************************************************************************)
(* The registry cache never loses the agreement of its list and its map,   *)
(* never exceeds its capacity, and implements BoundedLru step by step, for *)
(* any keys, snapshots and sizes.                                          *)
(***************************************************************************)
EXTENDS MruCache, SequenceTheorems, FiniteSetTheorems, TLAPS

-----------------------------------------------------------------------------
(* What the two list surgeries of the cache do to a sequence.              *)

\* Erasing one position keeps the others in order.
LEMMA RemoveAtProperties ==
  ASSUME NEW S, NEW s \in Seq(S), NEW i \in 1 .. Len(s)
  PROVE  /\ RemoveAt(s, i) \in Seq(S)
         /\ Len(RemoveAt(s, i)) = Len(s) - 1
         /\ \A j \in 1 .. Len(s) - 1 :
              RemoveAt(s, i)[j] = IF j < i THEN s[j] ELSE s[j + 1]
<1> DEFINE front == SubSeq(s, 1, i - 1)
           back == SubSeq(s, i + 1, Len(s))
<1>1. Len(s) \in Nat /\ \A j \in 1 .. Len(s) : s[j] \in S
  BY LenProperties, ElementOfSeq
<1>2. /\ front \in Seq(S)
      /\ Len(front) = i - 1
      /\ \A j \in 1 .. i - 1 : front[j] = s[j]
  <2>1. \A j \in 1 .. i - 1 : s[j] \in S
    BY <1>1
  <2> QED BY <1>1, <2>1, SubSeqProperties, Z3
<1>3. /\ back \in Seq(S)
      /\ Len(back) = Len(s) - i
      /\ \A j \in 1 .. Len(s) - i : back[j] = s[i + j]
  <2>1. \A j \in i + 1 .. Len(s) : s[j] \in S
    BY <1>1
  <2>2. i + 1 \in Int /\ Len(s) \in Int
    BY <1>1
  <2>3. /\ back \in Seq(S)
        /\ Len(back) = IF i + 1 <= Len(s) THEN Len(s) - (i + 1) + 1 ELSE 0
        /\ \A j \in 1 .. Len(s) - (i + 1) + 1 : back[j] = s[i + 1 + j - 1]
    BY <2>1, <2>2, SubSeqProperties
  <2> QED BY <1>1, <2>3
<1>4. /\ front \o back \in Seq(S)
      /\ Len(front \o back) = Len(front) + Len(back)
      /\ \A j \in 1 .. Len(front) + Len(back) :
           (front \o back)[j] = IF j <= Len(front) THEN front[j] ELSE back[j - Len(front)]
  BY <1>2, <1>3, ConcatProperties
<1>5. RemoveAt(s, i) = front \o back
  BY DEF RemoveAt
<1> HIDE DEF front, back
<1>6. ASSUME NEW j \in 1 .. Len(s) - 1
      PROVE  (front \o back)[j] = IF j < i THEN s[j] ELSE s[j + 1]
  <2>1. j \in 1 .. Len(front) + Len(back)
    BY <1>1, <1>2, <1>3
  <2>2. CASE j < i
    BY <1>1, <1>2, <1>4, <2>1, <2>2
  <2>3. CASE j >= i
    <3>1. j - (i - 1) \in 1 .. Len(s) - i
      BY <1>1, <2>3
    <3>2. back[j - (i - 1)] = s[i + (j - (i - 1))]
      BY <1>3, <3>1
    <3>3. i + (j - (i - 1)) = j + 1
      BY <1>1
    <3> QED BY <1>1, <1>2, <1>4, <2>1, <2>3, <3>2, <3>3
  <2>4. j < i \/ j >= i
    BY <1>1
  <2> QED BY <2>2, <2>3, <2>4
<1>7. Len(front \o back) = Len(s) - 1
  BY <1>1, <1>2, <1>3, <1>4
<1> QED BY <1>4, <1>5, <1>6, <1>7

\* Putting an element in front shifts the others by one.
LEMMA ConsProperties ==
  ASSUME NEW S, NEW s \in Seq(S), NEW e \in S
  PROVE  /\ <<e>> \o s \in Seq(S)
         /\ Len(<<e>> \o s) = Len(s) + 1
         /\ \A j \in 1 .. Len(s) + 1 : (<<e>> \o s)[j] = IF j = 1 THEN e ELSE s[j - 1]
<1>1. <<e>> \in Seq(S) /\ Len(<<e>>) = 1 /\ <<e>>[1] = e
  OBVIOUS
<1>2. Len(s) \in Nat
  BY LenProperties
<1> QED BY <1>1, <1>2, ConcatProperties

\* Moving one element of a duplicate-free sequence to its front only
\* reorders it (the splice of get, the erase and push_front of put).
LEMMA MoveToFront ==
  ASSUME NEW S, NEW s \in Seq(S), IsInjective(s), NEW i \in 1 .. Len(s)
  PROVE  LET t == <<s[i]>> \o RemoveAt(s, i)
         IN t \in Seq(S) /\ Len(t) = Len(s) /\ IsInjective(t) /\ Range(t) = Range(s)
<1> DEFINE r == RemoveAt(s, i)
           t == <<s[i]>> \o r
<1>1. Len(s) \in Nat /\ DOMAIN s = 1 .. Len(s) /\ s[i] \in S
  BY LenProperties, ElementOfSeq
<1>2. /\ r \in Seq(S)
      /\ Len(r) = Len(s) - 1
      /\ \A j \in 1 .. Len(s) - 1 : r[j] = IF j < i THEN s[j] ELSE s[j + 1]
  BY RemoveAtProperties
<1> HIDE DEF r
<1>3. /\ t \in Seq(S)
      /\ Len(t) = Len(r) + 1
      /\ \A j \in 1 .. Len(r) + 1 : t[j] = IF j = 1 THEN s[i] ELSE r[j - 1]
  <2> DEFINE e == s[i]
  <2>1. r \in Seq(S) /\ e \in S
    BY <1>1, <1>2
  <2> HIDE DEF e
  <2>2. /\ <<e>> \o r \in Seq(S)
        /\ Len(<<e>> \o r) = Len(r) + 1
        /\ \A j \in 1 .. Len(r) + 1 : (<<e>> \o r)[j] = IF j = 1 THEN e ELSE r[j - 1]
    BY <2>1, ConsProperties
  <2> QED BY <2>2 DEF e
<1> HIDE DEF t
<1>4. DOMAIN t = 1 .. Len(s) /\ Len(t) = Len(s)
  BY <1>1, <1>2, <1>3, LenProperties
<1> DEFINE from(j) == IF j = 1 THEN i ELSE IF j - 1 < i THEN j - 1 ELSE j
<1>5. \A j \in 1 .. Len(s) : from(j) \in 1 .. Len(s) /\ t[j] = s[from(j)]
  BY <1>1, <1>2, <1>3
<1>6. \A j, k \in 1 .. Len(s) : from(j) = from(k) => j = k
  BY <1>1
<1>7. \A m \in 1 .. Len(s) : \E j \in 1 .. Len(s) : from(j) = m
  <2> TAKE m \in 1 .. Len(s)
  <2>1. CASE m = i
    <3>1. 1 \in 1 .. Len(s) /\ from(1) = m
      BY <2>1, <1>1
    <3> QED BY <3>1
  <2>2. CASE m < i
    <3>1. m + 1 \in 1 .. Len(s) /\ from(m + 1) = m
      BY <2>2, <1>1
    <3> QED BY <3>1
  <2>3. CASE m > i
    <3>1. from(m) = m
      BY <2>3, <1>1
    <3> QED BY <3>1
  <2> QED BY <2>1, <2>2, <2>3, <1>1
<1> HIDE DEF from
<1>8. IsInjective(t)
  BY <1>1, <1>4, <1>5, <1>6 DEF IsInjective
<1>9. Range(t) = Range(s)
  <2>1. Range(t) = {t[j] : j \in 1 .. Len(s)} /\ Range(s) = {s[j] : j \in 1 .. Len(s)}
    BY <1>1, <1>4 DEF Range
  <2>2. \A j \in 1 .. Len(s) : t[j] \in {s[m] : m \in 1 .. Len(s)}
    BY <1>5
  <2>3. \A m \in 1 .. Len(s) : s[m] \in {t[j] : j \in 1 .. Len(s)}
    BY <1>5, <1>7
  <2> QED BY <2>1, <2>2, <2>3
<1> QED BY <1>3, <1>4, <1>8, <1>9 DEF t, r

\* Keeping the first n elements of a duplicate-free sequence keeps exactly the
\* elements that are not among the last ones (the eviction loops).
LEMMA KeepFirst ==
  ASSUME NEW S, NEW s \in Seq(S), IsInjective(s), NEW n \in 0 .. Len(s)
  PROVE  LET t == SubSeq(s, 1, n)
         IN /\ t \in Seq(S) /\ Len(t) = n /\ IsInjective(t)
            /\ Range(t) = Range(s) \ {s[i] : i \in n + 1 .. Len(s)}
<1> DEFINE t == SubSeq(s, 1, n)
<1>1. Len(s) \in Nat /\ DOMAIN s = 1 .. Len(s) /\ \A j \in 1 .. Len(s) : s[j] \in S
  BY LenProperties, ElementOfSeq
<1>2. \A j \in 1 .. n : s[j] \in S
  BY <1>1
<1>3. /\ t \in Seq(S)
      /\ Len(t) = IF 1 <= n THEN n - 1 + 1 ELSE 0
      /\ \A j \in 1 .. n - 1 + 1 : t[j] = s[1 + j - 1]
  BY <1>1, <1>2, SubSeqProperties
<1> HIDE DEF t
<1>4. Len(t) = n /\ DOMAIN t = 1 .. n /\ \A j \in 1 .. n : t[j] = s[j]
  BY <1>1, <1>3, LenProperties
<1>5. IsInjective(t)
  BY <1>1, <1>4 DEF IsInjective
<1>6. Range(t) = {s[j] : j \in 1 .. n}
  BY <1>4 DEF Range
<1>7. Range(s) = {s[j] : j \in 1 .. Len(s)}
  BY <1>1 DEF Range
<1>8. \A j \in 1 .. n : s[j] \notin {s[i] : i \in n + 1 .. Len(s)}
  BY <1>1 DEF IsInjective
<1>9. Range(t) = Range(s) \ {s[i] : i \in n + 1 .. Len(s)}
  BY <1>1, <1>6, <1>7, <1>8
<1> QED BY <1>3, <1>4, <1>5, <1>9 DEF t

\* Putting a new element in front of a duplicate-free sequence.
LEMMA ConsNew ==
  ASSUME NEW S, NEW s \in Seq(S), IsInjective(s), NEW e \in S, e \notin Range(s)
  PROVE  LET t == <<e>> \o s
         IN /\ t \in Seq(S) /\ Len(t) = Len(s) + 1 /\ IsInjective(t)
            /\ Range(t) = Range(s) \cup {e}
<1> DEFINE t == <<e>> \o s
<1>1. Len(s) \in Nat /\ DOMAIN s = 1 .. Len(s)
  BY LenProperties
<1>2. /\ t \in Seq(S)
      /\ Len(t) = Len(s) + 1
      /\ \A j \in 1 .. Len(s) + 1 : t[j] = IF j = 1 THEN e ELSE s[j - 1]
  BY ConsProperties
<1> HIDE DEF t
<1>3. DOMAIN t = 1 .. Len(s) + 1
  BY <1>2, LenProperties
<1>4. t[1] = e /\ \A j \in 1 .. Len(s) : t[j + 1] = s[j]
  BY <1>1, <1>2
<1>5. Range(t) = Range(s) \cup {e}
  <2>1. \A j \in 1 .. Len(s) + 1 : j = 1 \/ \E k \in 1 .. Len(s) : j = k + 1
    <3> TAKE j \in 1 .. Len(s) + 1
    <3>1. j = 1 \/ (j - 1 \in 1 .. Len(s) /\ j = (j - 1) + 1)
      BY <1>1
    <3> QED BY <3>1
  <2>2. ASSUME NEW j \in 1 .. Len(s) + 1
        PROVE  t[j] \in Range(s) \cup {e}
    <3>1. CASE j = 1
      BY <1>4, <3>1
    <3>2. ASSUME NEW k \in 1 .. Len(s), j = k + 1
          PROVE  t[j] \in Range(s)
      BY <1>1, <1>4, <3>2 DEF Range
    <3> QED BY <2>1, <3>1, <3>2
  <2>3. Range(t) \subseteq Range(s) \cup {e}
    BY <1>3, <2>2 DEF Range
  <2>4. 1 \in DOMAIN t /\ \A k \in 1 .. Len(s) : k + 1 \in DOMAIN t
    BY <1>1, <1>3
  <2>5. Range(s) \cup {e} \subseteq Range(t)
    BY <1>1, <1>4, <2>4 DEF Range
  <2> QED BY <2>3, <2>5
<1>6. IsInjective(t)
  <2>1. \A j \in 1 .. Len(s) : s[j] # e
    BY <1>1 DEF Range
  <2>2. ASSUME NEW j \in DOMAIN t, NEW k \in DOMAIN t, t[j] = t[k]
        PROVE  j = k
    <3>1. CASE j = 1 /\ k = 1
      BY <3>1
    <3>2. CASE j # 1 /\ k = 1
      <4>1. j - 1 \in 1 .. Len(s) /\ t[j] = s[j - 1] /\ t[k] = e
        BY <1>1, <1>2, <1>3, <3>2
      <4> QED BY <2>1, <2>2, <4>1
    <3>3. CASE j = 1 /\ k # 1
      <4>1. k - 1 \in 1 .. Len(s) /\ t[k] = s[k - 1] /\ t[j] = e
        BY <1>1, <1>2, <1>3, <3>3
      <4> QED BY <2>1, <2>2, <4>1
    <3>4. CASE j # 1 /\ k # 1
      <4>1. /\ j - 1 \in 1 .. Len(s) /\ t[j] = s[j - 1]
            /\ k - 1 \in 1 .. Len(s) /\ t[k] = s[k - 1]
        BY <1>1, <1>2, <1>3, <3>4
      <4>2. j - 1 = k - 1
        BY <1>1, <2>2, <4>1 DEF IsInjective
      <4> QED BY <1>1, <1>3, <4>2
    <3> QED BY <3>1, <3>2, <3>3, <3>4
  <2> QED BY <2>2 DEF IsInjective
<1> QED BY <1>2, <1>5, <1>6 DEF t
-----------------------------------------------------------------------------
(* The inductive invariant.  WithinCapacity alone is not inductive: an      *)
(* eviction pops list nodes and erases the entries they name, so it bounds  *)
(* the map only because the list names every entry exactly once.            *)
Inv ==
  /\ TypeOK
  /\ ListIndexesCache
  /\ Len(mru_list) <= capacity

LEMMA CapacityIsNat ==
  ASSUME NEW desired \in DesiredMiB, NEW average \in AverageMiB, average > 0
  PROVE  CapacityOf(desired, average) \in Nat
<1>1. desired \in Int /\ average \in Int
  BY SizeAssumption
<1>2. CASE desired > 0
  <2>1. desired \div average \in Int /\ desired \div average >= 0
    BY <1>1, <1>2, Z3
  <2> QED BY <1>2, <2>1 DEF CapacityOf
<1>3. CASE ~(desired > 0)
  BY <1>3 DEF CapacityOf
<1> QED BY <1>2, <1>3

\* The iterator stored with a cached key points to the node of that key.
LEMMA IteratorIsLive ==
  ASSUME TypeOK, ListIndexesCache, NEW key, contains(key)
  PROVE  Iterator(key) \in 1 .. Len(mru_list) /\ mru_list[Iterator(key)] = key
<1>1. DOMAIN mru_list = 1 .. Len(mru_list)
  BY LenProperties DEF TypeOK
<1>2. \E i \in DOMAIN mru_list : mru_list[i] = key
  BY DEF contains, ListIndexesCache, Range
<1> QED BY <1>1, <1>2 DEF Iterator

\* A hit, or the replacement of an entry, moves one node to the front.
LEMMA Promotion ==
  ASSUME Inv, NEW key, contains(key)
  PROVE  LET promoted == <<key>> \o Erased(key)
         IN /\ promoted \in Seq(Keys) /\ Len(promoted) = Len(mru_list)
            /\ IsInjective(promoted) /\ Range(promoted) = DOMAIN cache
<1>1. Iterator(key) \in 1 .. Len(mru_list) /\ mru_list[Iterator(key)] = key
  BY IteratorIsLive DEF Inv
<1>2. mru_list \in Seq(Keys) /\ IsInjective(mru_list) /\ Range(mru_list) = DOMAIN cache
  BY DEF Inv, TypeOK, ListIndexesCache
<1> QED BY <1>1, <1>2, MoveToFront, Zenon DEF Erased

\* Evicting down to n entries drops the same keys from the list and the map.
LEMMA Eviction ==
  ASSUME Inv, NEW n \in Nat
  PROVE  /\ Kept(n) \in Seq(Keys) /\ Len(Kept(n)) <= n
         /\ IsInjective(Kept(n)) /\ Range(Kept(n)) = DOMAIN cache \ Dropped(n)
<1> DEFINE len == Len(mru_list)
           m == IF len < n THEN len ELSE n
<1>1. mru_list \in Seq(Keys) /\ IsInjective(mru_list) /\ Range(mru_list) = DOMAIN cache
  BY DEF Inv, TypeOK, ListIndexesCache
<1>2. len \in Nat
  BY <1>1, LenProperties
<1>3. m \in 0 .. len /\ m <= n
  BY <1>2
<1>4. n + 1 .. len = m + 1 .. len
  BY <1>2
<1>5. Kept(n) = SubSeq(mru_list, 1, m) /\ Dropped(n) = {mru_list[i] : i \in m + 1 .. len}
  BY <1>4 DEF Kept, Dropped
<1> HIDE DEF m
<1>6. /\ SubSeq(mru_list, 1, m) \in Seq(Keys) /\ Len(SubSeq(mru_list, 1, m)) = m
      /\ IsInjective(SubSeq(mru_list, 1, m))
      /\ Range(SubSeq(mru_list, 1, m)) = Range(mru_list) \ {mru_list[i] : i \in m + 1 .. len}
  <2>1. mru_list \in Seq(Keys) /\ IsInjective(mru_list) /\ m \in 0 .. Len(mru_list)
    BY <1>1, <1>3
  <2> QED BY <2>1, KeepFirst
<1> QED BY <1>1, <1>3, <1>5, <1>6

LEMMA InitInv == Init => Inv
<1> SUFFICES ASSUME Init PROVE Inv
  OBVIOUS
<1>1. capacity \in Nat
  BY CapacityIsNat DEF Init
<1>2. mru_list = <<>> /\ cache = <<>>
  BY DEF Init
<1>3. DOMAIN mru_list = {} /\ DOMAIN cache = {} /\ Len(mru_list) = 0 /\ mru_list \in Seq(Keys)
  BY <1>2
<1> QED BY <1>1, <1>3 DEF Inv, TypeOK, ListIndexesCache, Range, IsInjective

LEMMA GetInv == ASSUME Inv, NEW key \in Keys, get(key) PROVE Inv'
<1>1. UNCHANGED <<capacity, cache>>
  BY DEF get
<1>2. CASE ~contains(key)
  <2>1. UNCHANGED mru_list
    BY <1>2 DEF get
  <2> QED BY <1>1, <2>1 DEF Inv, TypeOK, ListIndexesCache
<1>3. CASE contains(key)
  <2>1. mru_list' = <<key>> \o Erased(key)
    BY <1>3 DEF get
  <2>2. /\ mru_list' \in Seq(Keys) /\ Len(mru_list') = Len(mru_list)
        /\ IsInjective(mru_list') /\ Range(mru_list') = DOMAIN cache
    BY <1>3, <2>1, Promotion
  <2> QED BY <1>1, <2>2 DEF Inv, TypeOK, ListIndexesCache
<1> QED BY <1>2, <1>3

LEMMA PutInv ==
  ASSUME Inv, NEW key \in Keys, NEW value \in Snapshots, put(key, value) PROVE Inv'
<1>1. UNCHANGED capacity /\ capacity \in Nat /\ capacity > 0
  BY DEF put, enabled, Inv, TypeOK
<1>2. CASE PutReplacing(key, value)
  <2>1. contains(key) /\ mru_list' = <<key>> \o Erased(key)
    BY <1>2 DEF PutReplacing
  <2>2. /\ mru_list' \in Seq(Keys) /\ Len(mru_list') = Len(mru_list)
        /\ IsInjective(mru_list') /\ Range(mru_list') = DOMAIN cache
    BY <2>1, Promotion
  <2>3. DOMAIN cache' = DOMAIN cache /\ \A k \in DOMAIN cache : cache'[k] \in Snapshots
    BY <1>2 DEF PutReplacing, Inv, TypeOK
  <2> QED BY <1>1, <2>2, <2>3 DEF Inv, TypeOK, ListIndexesCache
<1>3. CASE PutInserting(key, value)
  <2> DEFINE kept == Kept(capacity - 1)
  <2>1. /\ kept \in Seq(Keys) /\ Len(kept) <= capacity - 1
        /\ IsInjective(kept) /\ Range(kept) = DOMAIN cache \ Dropped(capacity - 1)
    <3>1. capacity - 1 \in Nat
      BY <1>1
    <3> QED BY <3>1, Eviction
  <2>2. key \notin Range(kept)
    BY <1>3, <2>1 DEF PutInserting, contains
  <2>3. mru_list' = <<key>> \o kept
    BY <1>3 DEF PutInserting
  <2> HIDE DEF kept
  <2>4. /\ mru_list' \in Seq(Keys) /\ Len(mru_list') = Len(kept) + 1
        /\ IsInjective(mru_list') /\ Range(mru_list') = Range(kept) \cup {key}
    BY <2>1, <2>2, <2>3, ConsNew
  <2>5. DOMAIN cache' = (DOMAIN cache \ Dropped(capacity - 1)) \cup {key}
    BY <1>3 DEF PutInserting
  <2>6. \A k \in DOMAIN cache' : cache'[k] \in Snapshots
    BY <1>3 DEF PutInserting, Inv, TypeOK
  <2>7. DOMAIN cache' \subseteq Keys
    BY <2>5 DEF Inv, TypeOK
  <2>8. Len(mru_list') <= capacity'
    <3>1. Len(kept) \in Nat
      BY <2>1, LenProperties
    <3> QED BY <1>1, <2>1, <2>4, <3>1
  <2> QED BY <1>1, <2>1, <2>4, <2>5, <2>6, <2>7, <2>8 DEF Inv, TypeOK, ListIndexesCache
<1> QED BY <1>2, <1>3 DEF put

LEMMA ResizeInv ==
  ASSUME Inv, NEW desired \in DesiredMiB, NEW average \in AverageMiB, resize(desired, average)
  PROVE  Inv'
<1>1. capacity' \in Nat
  BY CapacityIsNat DEF resize
<1>2. /\ mru_list' = Kept(capacity')
      /\ cache' = Restrict(cache, DOMAIN cache \ Dropped(capacity'))
  BY DEF resize
<1>3. /\ mru_list' \in Seq(Keys) /\ Len(mru_list') <= capacity'
      /\ IsInjective(mru_list') /\ Range(mru_list') = DOMAIN cache \ Dropped(capacity')
  BY <1>1, <1>2, Eviction
<1>4. /\ DOMAIN cache' = DOMAIN cache \ Dropped(capacity')
      /\ \A k \in DOMAIN cache' : cache'[k] = cache[k]
  BY <1>2 DEF Restrict
<1> QED BY <1>1, <1>3, <1>4 DEF Inv, TypeOK, ListIndexesCache

\* Every step of every caller keeps the inductive invariant.
THEOREM InvHolds == Spec => []Inv
<1>1. Inv /\ [Next]_vars => Inv'
  <2> SUFFICES ASSUME Inv, [Next]_vars PROVE Inv'
    OBVIOUS
  <2>1. ASSUME NEW key \in Keys, get(key) PROVE Inv'
    BY <2>1, GetInv
  <2>2. ASSUME NEW key \in Keys, NEW value \in Snapshots, put(key, value) PROVE Inv'
    BY <2>2, PutInv
  <2>3. ASSUME NEW desired \in DesiredMiB, NEW average \in AverageMiB, resize(desired, average)
        PROVE  Inv'
    BY <2>3, ResizeInv
  <2>4. CASE UNCHANGED vars
    BY <2>4 DEF vars, Inv, TypeOK, ListIndexesCache
  <2> QED BY <2>1, <2>2, <2>3, <2>4 DEF Next
<1> QED BY InitInv, <1>1, PTL DEF Spec

\* The capacity is never negative (a size_t), the list holds keys and the map
\* takes keys to snapshots, for every sequence of get, put and resize.
THEOREM TypeCorrect == Spec => []TypeOK
<1>1. Inv => TypeOK
  BY DEF Inv
<1> QED BY InvHolds, <1>1, PTL

\* The list and the map of mru_cache.hpp always name the same keys and every
\* stored iterator is live, for any number of keys and any capacity.
THEOREM ListAlwaysIndexesCache == Spec => []ListIndexesCache
<1>1. Inv => ListIndexesCache
  BY DEF Inv
<1> QED BY InvHolds, <1>1, PTL

\* The memory budget holds in every state, also right after a resize.
THEOREM AlwaysWithinCapacity == Spec => []WithinCapacity
<1>1. Inv => WithinCapacity
  <2> SUFFICES ASSUME Inv PROVE Cardinality(DOMAIN cache) <= capacity
    BY DEF WithinCapacity
  <2> DEFINE positions == 1 .. Len(mru_list)
  <2>1. /\ Len(mru_list) \in Nat /\ DOMAIN mru_list = positions
        /\ mru_list \in [positions -> Keys]
    BY LenProperties DEF Inv, TypeOK
  <2>2. IsFiniteSet(positions) /\ Cardinality(positions) = Len(mru_list)
    BY <2>1, FS_Interval
  <2>3. mru_list \in Surjection(positions, DOMAIN cache)
    <3>1. \A i \in positions : mru_list[i] \in DOMAIN cache
      BY <2>1 DEF Inv, ListIndexesCache, Range
    <3>2. \A k \in DOMAIN cache : \E i \in positions : mru_list[i] = k
      BY <2>1 DEF Inv, ListIndexesCache, Range
    <3> QED BY <2>1, <3>1, <3>2 DEF Surjection
  <2>4. Cardinality(DOMAIN cache) <= Cardinality(positions) /\ IsFiniteSet(DOMAIN cache)
    BY <2>2, <2>3, FS_Surjection
  <2>5. Cardinality(DOMAIN cache) \in Nat
    BY <2>4, FS_CardinalityType
  <2> QED BY <2>1, <2>2, <2>4, <2>5 DEF Inv, TypeOK
<1> QED BY InvHolds, <1>1, PTL
-----------------------------------------------------------------------------
(* The refinement of BoundedLru.  "newer" is Newer, the order of the list: *)
(* what each list surgery of the cache does to the order of a sequence.    *)

Before(s) == {<<s[p[1]], s[p[2]]>> : p \in {q \in (DOMAIN s) \X (DOMAIN s) : q[1] < q[2]}}

LEMMA BeforePairs ==
  ASSUME NEW S, NEW s \in Seq(S), NEW p
  PROVE  p \in Before(s) <=> \E j, k \in 1 .. Len(s) : j < k /\ p = <<s[j], s[k]>>
<1>1. DOMAIN s = 1 .. Len(s)
  BY LenProperties
<1>2. ASSUME p \in Before(s)
      PROVE  \E j, k \in 1 .. Len(s) : j < k /\ p = <<s[j], s[k]>>
  <2>1. PICK q \in (DOMAIN s) \X (DOMAIN s) : q[1] < q[2] /\ p = <<s[q[1]], s[q[2]]>>
    BY <1>2 DEF Before
  <2> QED BY <1>1, <2>1
<1>3. ASSUME NEW j \in 1 .. Len(s), NEW k \in 1 .. Len(s), j < k, p = <<s[j], s[k]>>
      PROVE  p \in Before(s)
  <2>1. <<j, k>> \in {q \in (DOMAIN s) \X (DOMAIN s) : q[1] < q[2]}
    BY <1>1, <1>3
  <2>2. p = <<s[<<j, k>>[1]], s[<<j, k>>[2]]>>
    BY <1>3
  <2> QED BY <2>1, <2>2 DEF Before
<1> QED BY <1>2, <1>3

\* A new front precedes everything, and the rest keeps its order.
LEMMA FrontOrder ==
  ASSUME NEW S, NEW s \in Seq(S), NEW e \in S
  PROVE  Before(<<e>> \o s) = Before(s) \cup ({e} \X Range(s))
<1> DEFINE t == <<e>> \o s
<1>1. Len(s) \in Nat /\ DOMAIN s = 1 .. Len(s)
  BY LenProperties
<1>2. /\ t \in Seq(S) /\ Len(t) = Len(s) + 1
      /\ \A j \in 1 .. Len(s) + 1 : t[j] = IF j = 1 THEN e ELSE s[j - 1]
  BY ConsProperties
<1> HIDE DEF t
<1>3. ASSUME NEW p \in Before(t)
      PROVE  p \in Before(s) \cup ({e} \X Range(s))
  <2>1. PICK j, k \in 1 .. Len(t) : j < k /\ p = <<t[j], t[k]>>
    BY <1>2, BeforePairs
  <2>2. k - 1 \in 1 .. Len(s) /\ t[k] = s[k - 1]
    BY <1>1, <1>2, <2>1
  <2>3. CASE j = 1
    <3>1. p = <<e, s[k - 1]>> /\ s[k - 1] \in Range(s)
      BY <1>1, <1>2, <2>1, <2>2, <2>3 DEF Range
    <3> QED BY <3>1
  <2>4. CASE j # 1
    <3>1. j - 1 \in 1 .. Len(s) /\ j - 1 < k - 1 /\ p = <<s[j - 1], s[k - 1]>>
      BY <1>1, <1>2, <2>1, <2>2, <2>4
    <3> QED BY <2>2, <3>1, BeforePairs
  <2> QED BY <2>3, <2>4
<1>4. ASSUME NEW p \in Before(s)
      PROVE  p \in Before(t)
  <2>1. PICK j, k \in 1 .. Len(s) : j < k /\ p = <<s[j], s[k]>>
    BY BeforePairs
  <2>2. /\ j + 1 \in 1 .. Len(t) /\ k + 1 \in 1 .. Len(t) /\ j + 1 < k + 1
        /\ t[j + 1] = s[j] /\ t[k + 1] = s[k]
    BY <1>1, <1>2, <2>1
  <2> QED BY <1>2, <2>1, <2>2, BeforePairs
<1>5. ASSUME NEW k \in 1 .. Len(s)
      PROVE  <<e, s[k]>> \in Before(t)
  <2>1. /\ 1 \in 1 .. Len(t) /\ k + 1 \in 1 .. Len(t) /\ 1 < k + 1
        /\ t[1] = e /\ t[k + 1] = s[k]
    BY <1>1, <1>2
  <2> QED BY <1>2, <2>1, BeforePairs
<1>6. \A p \in {e} \X Range(s) : p \in Before(t)
  BY <1>1, <1>5 DEF Range
<1>7. Before(t) = Before(s) \cup ({e} \X Range(s))
  BY <1>3, <1>4, <1>6
<1> QED BY <1>7 DEF t

\* What is left of a sequence keeps its order: the pairs of kept elements.
LEMMA KeptOrder ==
  ASSUME NEW S, NEW s \in Seq(S), IsInjective(s), NEW n \in 0 .. Len(s)
  PROVE  LET t == SubSeq(s, 1, n)
         IN Before(t) = {p \in Before(s) : p[1] \in Range(t) /\ p[2] \in Range(t)}
<1> DEFINE t == SubSeq(s, 1, n)
<1>1. Len(s) \in Nat /\ DOMAIN s = 1 .. Len(s) /\ \A j \in 1 .. Len(s) : s[j] \in S
  BY LenProperties, ElementOfSeq
<1>2. /\ t \in Seq(S) /\ Len(t) = n /\ DOMAIN t = 1 .. n
      /\ \A j \in 1 .. n : t[j] = s[j]
  <2>1. \A j \in 1 .. n : s[j] \in S
    BY <1>1
  <2>2. /\ t \in Seq(S)
        /\ Len(t) = IF 1 <= n THEN n - 1 + 1 ELSE 0
        /\ \A j \in 1 .. n - 1 + 1 : t[j] = s[1 + j - 1]
    BY <1>1, <2>1, SubSeqProperties
  <2> HIDE DEF t
  <2> QED BY <1>1, <2>2, LenProperties
<1> HIDE DEF t
<1>3. ASSUME NEW p \in Before(t)
      PROVE  p \in Before(s) /\ p[1] \in Range(t) /\ p[2] \in Range(t)
  <2>1. PICK j, k \in 1 .. n : j < k /\ p = <<t[j], t[k]>>
    BY <1>2, BeforePairs
  <2>2. j \in 1 .. Len(s) /\ k \in 1 .. Len(s) /\ p = <<s[j], s[k]>>
    BY <1>1, <1>2, <2>1
  <2>3. p \in Before(s)
    BY <2>1, <2>2, BeforePairs
  <2>4. t[j] \in Range(t) /\ t[k] \in Range(t)
    BY <1>2 DEF Range
  <2> QED BY <2>1, <2>3, <2>4
<1>4. ASSUME NEW p \in Before(s), p[1] \in Range(t), p[2] \in Range(t)
      PROVE  p \in Before(t)
  <2>1. PICK j, k \in 1 .. Len(s) : j < k /\ p = <<s[j], s[k]>>
    BY BeforePairs
  <2>2. PICK a, b \in 1 .. n : t[a] = s[j] /\ t[b] = s[k]
    BY <1>2, <1>4, <2>1 DEF Range
  <2>3. a = j /\ b = k
    <3>1. a \in 1 .. Len(s) /\ b \in 1 .. Len(s) /\ s[a] = s[j] /\ s[b] = s[k]
      BY <1>1, <1>2, <2>2
    <3> QED BY <1>1, <3>1 DEF IsInjective
  <2> QED BY <1>2, <2>1, <2>2, <2>3, BeforePairs
<1>5. Before(t) = {p \in Before(s) : p[1] \in Range(t) /\ p[2] \in Range(t)}
  BY <1>3, <1>4
<1> QED BY <1>5 DEF t

\* Erasing one element leaves the pairs of the others.
LEMMA ErasedOrder ==
  ASSUME NEW S, NEW s \in Seq(S), IsInjective(s), NEW i \in 1 .. Len(s)
  PROVE  /\ Range(RemoveAt(s, i)) = Range(s) \ {s[i]}
         /\ Before(RemoveAt(s, i)) = {p \in Before(s) : s[i] \notin {p[1], p[2]}}
<1> DEFINE r == RemoveAt(s, i)
<1>1. Len(s) \in Nat /\ DOMAIN s = 1 .. Len(s)
  BY LenProperties
<1>2. /\ r \in Seq(S) /\ Len(r) = Len(s) - 1 /\ DOMAIN r = 1 .. Len(s) - 1
      /\ \A j \in 1 .. Len(s) - 1 : r[j] = IF j < i THEN s[j] ELSE s[j + 1]
  <2>1. /\ r \in Seq(S) /\ Len(r) = Len(s) - 1
        /\ \A j \in 1 .. Len(s) - 1 : r[j] = IF j < i THEN s[j] ELSE s[j + 1]
    BY RemoveAtProperties
  <2> HIDE DEF r
  <2> QED BY <2>1, LenProperties
<1> HIDE DEF r
<1> DEFINE from(j) == IF j < i THEN j ELSE j + 1
           to(j) == IF j < i THEN j ELSE j - 1
<1>3. ASSUME NEW j \in 1 .. Len(s) - 1
      PROVE  from(j) \in 1 .. Len(s) /\ from(j) # i /\ r[j] = s[from(j)]
  BY <1>1, <1>2
<1>4. ASSUME NEW j \in 1 .. Len(s), j # i
      PROVE  to(j) \in 1 .. Len(s) - 1 /\ from(to(j)) = j
  BY <1>1, <1>4
<1>5. ASSUME NEW j \in 1 .. Len(s) - 1, NEW k \in 1 .. Len(s) - 1
      PROVE  j < k <=> from(j) < from(k)
  BY <1>1
<1>6. \A j \in 1 .. Len(s) : s[j] = s[i] <=> j = i
  BY <1>1 DEF IsInjective
<1> HIDE DEF from, to
<1>7. Range(r) = Range(s) \ {s[i]}
  <2>1. \A j \in 1 .. Len(s) - 1 : r[j] \in Range(s) \ {s[i]}
    BY <1>1, <1>3, <1>6 DEF Range
  <2>2. \A j \in 1 .. Len(s) : j # i => s[j] = r[to(j)] /\ to(j) \in 1 .. Len(s) - 1
    BY <1>3, <1>4
  <2>3. Range(s) \ {s[i]} \subseteq Range(r)
    BY <1>1, <1>2, <2>2 DEF Range
  <2> QED BY <1>2, <2>1, <2>3 DEF Range
<1>8. ASSUME NEW p \in Before(r)
      PROVE  p \in Before(s) /\ s[i] \notin {p[1], p[2]}
  <2>1. PICK j, k \in 1 .. Len(s) - 1 : j < k /\ p = <<r[j], r[k]>>
    BY <1>2, BeforePairs
  <2>2. /\ from(j) \in 1 .. Len(s) /\ from(k) \in 1 .. Len(s) /\ from(j) < from(k)
        /\ p = <<s[from(j)], s[from(k)]>> /\ from(j) # i /\ from(k) # i
    BY <1>3, <1>5, <2>1
  <2> QED BY <1>6, <2>2, BeforePairs
<1>9. ASSUME NEW p \in Before(s), s[i] \notin {p[1], p[2]}
      PROVE  p \in Before(r)
  <2>1. PICK j, k \in 1 .. Len(s) : j < k /\ p = <<s[j], s[k]>>
    BY BeforePairs
  <2>2. j # i /\ k # i
    BY <1>9, <2>1
  <2>3. /\ to(j) \in 1 .. Len(s) - 1 /\ from(to(j)) = j
        /\ to(k) \in 1 .. Len(s) - 1 /\ from(to(k)) = k
    BY <1>4, <2>2
  <2>4. to(j) < to(k) /\ p = <<r[to(j)], r[to(k)]>>
    BY <1>3, <1>5, <2>1, <2>3
  <2> QED BY <1>2, <2>3, <2>4, BeforePairs
<1>10. Before(r) = {p \in Before(s) : s[i] \notin {p[1], p[2]}}
  BY <1>8, <1>9
<1> QED BY <1>7, <1>10 DEF r

\* The elements with fewer than n before them are the first n.
Foremost(D, order, n) == {a \in D : Cardinality({b \in D : <<b, a>> \in order}) < n}

LEMMA FirstOnes ==
  ASSUME NEW S, NEW s \in Seq(S), IsInjective(s), NEW n \in Nat
  PROVE  Foremost(Range(s), Before(s), n) = {s[i] : i \in {i \in 1 .. Len(s) : i <= n}}
<1> DEFINE newer(a) == {b \in Range(s) : <<b, a>> \in Before(s)}
<1>1. Len(s) \in Nat /\ DOMAIN s = 1 .. Len(s) /\ Range(s) = {s[i] : i \in 1 .. Len(s)}
  BY LenProperties DEF Range
<1>2. ASSUME NEW i \in 1 .. Len(s)
      PROVE  Cardinality(newer(s[i])) = i - 1
  <2> DEFINE first == 1 .. i - 1
             f == [j \in first |-> s[j]]
  <2>1. i \in Int /\ IsFiniteSet(first) /\ Cardinality(first) = i - 1
    <3>1. i \in Int /\ i - 1 \in Int /\ i >= 1
      BY <1>1
    <3>2. Cardinality(first) = IF 1 > i - 1 THEN 0 ELSE i - 1 - 1 + 1
      BY <3>1, FS_Interval
    <3> QED BY <3>1, <3>2, FS_Interval
  <2>2. ASSUME NEW b \in newer(s[i])
        PROVE  \E j \in first : s[j] = b
    <3>1. PICK j, k \in 1 .. Len(s) : j < k /\ <<b, s[i]>> = <<s[j], s[k]>>
      BY BeforePairs
    <3>2. k = i
      BY <1>1, <3>1 DEF IsInjective
    <3> QED BY <1>1, <3>1, <3>2
  <2>3. ASSUME NEW j \in first
        PROVE  s[j] \in newer(s[i])
    <3>1. j \in 1 .. Len(s) /\ j < i /\ s[j] \in Range(s)
      BY <1>1
    <3> QED BY <3>1, BeforePairs
  <2> HIDE DEF newer
  <2>4. f \in [first -> newer(s[i])]
    BY <2>3
  <2>5. DOMAIN f = first /\ IsInjective(f)
    BY <1>1 DEF IsInjective
  <2>6. \A b \in newer(s[i]) : \E j \in first : f[j] = b
    BY <2>2
  <2> HIDE DEF f
  <2>7. f \in Surjection(first, newer(s[i])) /\ f \in Injection(first, newer(s[i]))
    BY <2>4, <2>5, <2>6 DEF Surjection, Injection
  <2> HIDE DEF first
  <2>8. Cardinality(newer(s[i])) = Cardinality(first)
    BY <2>1, <2>7, FS_Surjection
  <2> QED BY <2>1, <2>8
<1> HIDE DEF newer
<1>3. \A i \in 1 .. Len(s) : i - 1 < n <=> i <= n
  BY <1>1
<1>4. \A i \in 1 .. Len(s) : Cardinality(newer(s[i])) < n <=> i <= n
  BY <1>2, <1>3
<1>5. {a \in Range(s) : Cardinality(newer(a)) < n} = {s[i] : i \in {i \in 1 .. Len(s) : i <= n}}
  BY <1>1, <1>4
<1> QED BY <1>5 DEF newer, Foremost

-----------------------------------------------------------------------------
(* Every step of the cache is a step of BoundedLru, or a stutter. *)

\* Eviction keeps the n most recently used entries and the order among them.
LEMMA EvictionIsLru ==
  ASSUME Inv, NEW n \in Nat
  PROVE  /\ Lru!MostRecent(n) = Range(Kept(n))
         /\ Before(Kept(n)) = {p \in Newer : p[1] \in Range(Kept(n)) /\ p[2] \in Range(Kept(n))}
<1> DEFINE len == Len(mru_list)
           m == IF len < n THEN len ELSE n
<1>1. mru_list \in Seq(Keys) /\ IsInjective(mru_list) /\ Range(mru_list) = DOMAIN cache
  BY DEF Inv, TypeOK, ListIndexesCache
<1>2. len \in Nat /\ DOMAIN mru_list = 1 .. len
  BY <1>1, LenProperties
<1>3. m \in 0 .. len /\ 1 .. m = {i \in 1 .. len : i <= n}
  BY <1>2
<1>4. Kept(n) = SubSeq(mru_list, 1, m) /\ Newer = Before(mru_list)
  BY DEF Kept, Newer, Before
<1> HIDE DEF m
<1>5. Before(Kept(n)) = {p \in Newer : p[1] \in Range(Kept(n)) /\ p[2] \in Range(Kept(n))}
  BY <1>1, <1>3, <1>4, KeptOrder
<1>6. Range(Kept(n)) = {mru_list[i] : i \in 1 .. m}
  <2>1. \A j \in 1 .. m : mru_list[j] \in Keys
    BY <1>1, <1>2, <1>3, ElementOfSeq
  <2>2. m \in Nat
    BY <1>2, <1>3
  <2>3. /\ Kept(n) \in Seq(Keys)
        /\ Len(Kept(n)) = IF 1 <= m THEN m - 1 + 1 ELSE 0
        /\ \A j \in 1 .. m - 1 + 1 : Kept(n)[j] = mru_list[1 + j - 1]
    BY <1>4, <2>1, <2>2, SubSeqProperties
  <2>4. DOMAIN Kept(n) = 1 .. m /\ \A j \in 1 .. m : Kept(n)[j] = mru_list[j]
    BY <2>2, <2>3, LenProperties
  <2> QED BY <2>4 DEF Range
<1>7. Lru!MostRecent(n) = {mru_list[i] : i \in {i \in 1 .. len : i <= n}}
  <2>1. \A T : Lru!Cardinality(T) = Cardinality(T)
    BY DEF Lru!Cardinality, Cardinality
  <2>2. Lru!MostRecent(n) = Foremost(DOMAIN cache, Newer, n)
    BY <2>1 DEF Lru!MostRecent, Foremost
  <2> QED BY <1>1, <1>4, <2>2, FirstOnes
<1> QED BY <1>3, <1>5, <1>6, <1>7

\* A promotion makes a key the most recently used one and reorders no others.
LEMMA PromotionIsLru ==
  ASSUME Inv, NEW key, contains(key)
  PROVE  Before(<<key>> \o Erased(key)) = Lru!UsedLast(key, DOMAIN cache)
<1>1. Iterator(key) \in 1 .. Len(mru_list) /\ mru_list[Iterator(key)] = key
  BY IteratorIsLive DEF Inv
<1>2. /\ mru_list \in Seq(Keys) /\ IsInjective(mru_list) /\ Range(mru_list) = DOMAIN cache
      /\ Newer = Before(mru_list)
  BY DEF Inv, TypeOK, ListIndexesCache, Newer, Before
<1> DEFINE r == Erased(key)
<1>3. /\ r \in Seq(Keys)
      /\ Range(r) = DOMAIN cache \ {key}
      /\ Before(r) = {p \in Newer : key \notin {p[1], p[2]}}
  BY <1>1, <1>2, RemoveAtProperties, ErasedOrder DEF Erased
<1>4. key \in Keys
  BY DEF Inv, TypeOK, contains
<1> HIDE DEF r
<1>5. Before(<<key>> \o r) = Before(r) \cup ({key} \X Range(r))
  BY <1>3, <1>4, FrontOrder
<1>6. \A p \in Newer : p[1] \in DOMAIN cache /\ p[2] \in DOMAIN cache
  <2> TAKE p \in Newer
  <2>1. PICK j, k \in 1 .. Len(mru_list) : p = <<mru_list[j], mru_list[k]>>
    BY <1>2, BeforePairs
  <2> QED BY <1>2, <2>1, LenProperties DEF Range
<1> QED BY <1>3, <1>5, <1>6 DEF Lru!UsedLast, r

LEMMA InitIsLru == Init => Lru!Init
<1> SUFFICES ASSUME Init PROVE Lru!Init
  OBVIOUS
<1>1. Newer = {}
  BY DEF Init, Newer
<1> QED BY <1>1 DEF Init, Lru!Init

LEMMA GetIsLru ==
  ASSUME Inv, NEW key \in Keys, get(key)
  PROVE  Lru!Lookup(key) \/ UNCHANGED vars
<1>1. CASE contains(key)
  <2>1. mru_list' = <<key>> \o Erased(key) /\ UNCHANGED <<capacity, cache>>
    BY <1>1 DEF get
  <2>2. Newer' = Lru!UsedLast(key, DOMAIN cache)
    BY <1>1, <2>1, PromotionIsLru DEF Newer, Before
  <2> QED BY <1>1, <2>1, <2>2 DEF Lru!Lookup, contains
<1>2. CASE ~contains(key)
  BY <1>2 DEF get, vars
<1> QED BY <1>1, <1>2

LEMMA PutIsLru ==
  ASSUME Inv, NEW key \in Keys, NEW value \in Snapshots, put(key, value)
  PROVE  Lru!Insert(key, value)
<1>1. UNCHANGED capacity /\ capacity \in Nat /\ capacity > 0
  BY DEF put, enabled, Inv, TypeOK
<1>2. CASE PutReplacing(key, value)
  <2>1. contains(key) /\ mru_list' = <<key>> \o Erased(key)
    BY <1>2 DEF PutReplacing
  <2>2. Newer' = Lru!UsedLast(key, DOMAIN cache)
    BY <2>1, PromotionIsLru DEF Newer, Before
  <2>3. cache' = [x \in DOMAIN cache \cup {key} |-> IF x = key THEN value ELSE cache[x]]
    BY <1>2, <2>1 DEF PutReplacing, contains
  <2> QED BY <1>1, <2>1, <2>2, <2>3 DEF Lru!Insert, contains
<1>3. CASE PutInserting(key, value)
  <2> DEFINE kept == Kept(capacity - 1)
  <2>1. capacity - 1 \in Nat
    BY <1>1
  <2>2. /\ kept \in Seq(Keys)
        /\ Range(kept) = DOMAIN cache \ Dropped(capacity - 1)
        /\ Lru!MostRecent(capacity - 1) = Range(kept)
        /\ Before(kept) = {p \in Newer : p[1] \in Range(kept) /\ p[2] \in Range(kept)}
    BY <2>1, Eviction, EvictionIsLru
  <2>3. ~contains(key) /\ mru_list' = <<key>> \o kept
    BY <1>3 DEF PutInserting
  <2>4. cache' = [x \in Range(kept) \cup {key} |-> IF x = key THEN value ELSE cache[x]]
    BY <1>3, <2>2 DEF PutInserting
  <2> HIDE DEF kept
  <2>5. Newer' = Before(kept) \cup ({key} \X Range(kept))
    <3>1. Newer' = Before(<<key>> \o kept)
      BY <2>3 DEF Newer, Before
    <3> QED BY <2>2, <3>1, FrontOrder
  <2>6. key \notin Range(kept) /\ key \notin DOMAIN cache
    BY <2>2, <2>3 DEF contains
  <2>7. Newer' = Lru!UsedLast(key, Range(kept))
    BY <2>2, <2>5, <2>6 DEF Lru!UsedLast
  <2> QED BY <1>1, <2>2, <2>4, <2>6, <2>7 DEF Lru!Insert
<1> QED BY <1>2, <1>3 DEF put

LEMMA ResizeIsLru ==
  ASSUME Inv, NEW desired \in DesiredMiB, NEW average \in AverageMiB, resize(desired, average)
  PROVE  Lru!Rebound(CapacityOf(desired, average))
<1> DEFINE n == CapacityOf(desired, average)
<1>1. n \in Nat
  BY CapacityIsNat DEF resize
<1> HIDE DEF n
<1>2. /\ capacity' = n /\ mru_list' = Kept(n)
      /\ cache' = Restrict(cache, DOMAIN cache \ Dropped(n))
  BY DEF resize, n
<1>3. /\ Range(Kept(n)) = DOMAIN cache \ Dropped(n) /\ Lru!MostRecent(n) = Range(Kept(n))
      /\ Before(Kept(n)) = {p \in Newer : p[1] \in Range(Kept(n)) /\ p[2] \in Range(Kept(n))}
  BY <1>1, Eviction, EvictionIsLru
<1>4. Newer' = Before(Kept(n))
  BY <1>2 DEF Newer, Before
<1>5. Lru!Rebound(n)
  BY <1>2, <1>3, <1>4 DEF Lru!Rebound, Restrict, Lru!Restrict
<1> QED BY <1>5 DEF n

\* The list, the iterators and the map of mru_cache.hpp are a bounded least-recently-used
\* map, for any keys, snapshots and arguments of resize: what is forgotten, and when, is
\* decided by the order of use and the bound alone.
THEOREM CacheImplementsLru == Spec => ImplementsLru
<1>1. Inv /\ [Next]_vars => [Lru!Next]_(Lru!vars)
  <2> SUFFICES ASSUME Inv, [Next]_vars PROVE [Lru!Next]_(Lru!vars)
    OBVIOUS
  <2>1. ASSUME NEW key \in Keys, get(key) PROVE Lru!Next \/ UNCHANGED vars
    BY <2>1, GetIsLru DEF Lru!Next
  <2>2. ASSUME NEW key \in Keys, NEW value \in Snapshots, put(key, value) PROVE Lru!Next
    BY <2>2, PutIsLru DEF Lru!Next
  <2>3. ASSUME NEW desired \in DesiredMiB, NEW average \in AverageMiB, resize(desired, average)
        PROVE  Lru!Next
    <3>1. average > 0
      BY <2>3 DEF resize
    <3>2. CapacityOf(desired, average) \in
            {CapacityOf(d, a) : d \in DesiredMiB, a \in {x \in AverageMiB : x > 0}}
      BY <3>1
    <3> QED BY <2>3, <3>2, ResizeIsLru DEF Lru!Next
  <2>4. UNCHANGED vars => UNCHANGED Lru!vars
    BY DEF vars, Lru!vars, Newer
  <2> QED BY <2>1, <2>2, <2>3, <2>4 DEF Next
<1> QED BY InitIsLru, InvHolds, <1>1, PTL DEF Spec, ImplementsLru, Lru!Spec
=============================================================================
