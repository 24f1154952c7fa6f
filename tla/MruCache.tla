------------------------------ MODULE MruCache ------------------------------
(***************************************************************************)
(* src/src/mru_cache.hpp: the process-wide cache of registry snapshots     *)
(* that all request threads share.  Each public member function holds the  *)
(* mutex for its whole body, so each is one action.                        *)
(*                                                                         *)
(* A list iterator kept beside a snapshot is the position of its key: a    *)
(* std::list node keeps its identity through splice, so the iterator of k  *)
(* denotes the node that holds k for as long as that node exists.          *)
(***************************************************************************)
EXTENDS Integers, Sequences, FiniteSets, SequencesExt

CONSTANTS Keys,         \* normalised encounters (cache keys)
          Snapshots,    \* immutable registry snapshots
          DesiredMiB,   \* the arguments of resize a caller may pass
          AverageMiB

ASSUME SizeAssumption == DesiredMiB \subseteq Int /\ AverageMiB \subseteq Int

VARIABLES capacity,  \* size_t capacity
          mru_list,  \* std::list of keys, most recently used first
          cache      \* std::unordered_map: a function on the cached keys

vars == <<capacity, mru_list, cache>>

TypeOK ==
  /\ capacity \in Nat
  /\ mru_list \in Seq(Keys)
  /\ DOMAIN cache \subseteq Keys
  /\ \A k \in DOMAIN cache : cache[k] \in Snapshots
-----------------------------------------------------------------------------
enabled == capacity # 0

contains(key) == key \in DOMAIN cache

\* The list node that the iterator stored with key points to.
Iterator(key) == CHOOSE i \in DOMAIN mru_list : mru_list[i] = key

\* list.erase(iterator)
Erased(key) == RemoveAt(mru_list, Iterator(key))

\* while (cache.size() > n) { cache.erase(mru_list.back()); mru_list.pop_back(); }
Dropped(n) == {mru_list[i] : i \in n + 1 .. Len(mru_list)}
Kept(n) == SubSeq(mru_list, 1, IF Len(mru_list) < n THEN Len(mru_list) ELSE n)

\* Mutant: a negative size is divided like any other.
CapacityOfAny(desired, average) == desired \div average

\* resize's arithmetic: integer division of two positive ints.
CapacityOf(desired, average) == IF desired > 0 THEN desired \div average ELSE 0
-----------------------------------------------------------------------------
\* A hit splices its node to the front (the caller copies cache[key]); a miss
\* returns nullptr and changes nothing.
get(key) ==
  /\ mru_list' = IF contains(key) THEN <<key>> \o Erased(key) ELSE mru_list
  /\ UNCHANGED <<capacity, cache>>

\* Mutant: the node of the replaced entry stays in the list.
PutReplacingKeepsNode(key, value) ==
  /\ contains(key)
  /\ mru_list' = <<key>> \o mru_list
  /\ cache' = [cache EXCEPT ![key] = value]

\* put of a key that is there: the old node and entry go, nothing is evicted.
PutReplacing(key, value) ==
  /\ contains(key)
  /\ mru_list' = <<key>> \o Erased(key)
  /\ cache' = [cache EXCEPT ![key] = value]

\* Mutant: the new key goes to the back of the list.
PutInsertingAtBack(key, value) ==
  /\ ~contains(key)
  /\ mru_list' = Kept(capacity - 1) \o <<key>>
  /\ cache' = [k \in (DOMAIN cache \ Dropped(capacity - 1)) \cup {key} |->
                 IF k = key THEN value ELSE cache[k]]

\* put of a new key: evict from the back while cache.size() >= capacity.
PutInserting(key, value) ==
  /\ ~contains(key)
  /\ mru_list' = <<key>> \o Kept(capacity - 1)
  /\ cache' = [k \in (DOMAIN cache \ Dropped(capacity - 1)) \cup {key} |->
                 IF k = key THEN value ELSE cache[k]]

put(key, value) ==
  /\ enabled
  /\ PutReplacing(key, value) \/ PutInserting(key, value)
  /\ UNCHANGED capacity

\* A non-positive average throws before the mutex is taken: no step.
resize(desired, average) ==
  /\ average > 0
  /\ capacity' = CapacityOf(desired, average)
  /\ mru_list' = Kept(capacity')
  /\ cache' = Restrict(cache, DOMAIN cache \ Dropped(capacity'))

\* The constructor resizes an empty cache.
Init ==
  /\ \E desired \in DesiredMiB, average \in AverageMiB :
       average > 0 /\ capacity = CapacityOf(desired, average)
  /\ mru_list = <<>>
  /\ cache = <<>>

Next ==
  \/ \E key \in Keys : get(key)
  \/ \E key \in Keys, value \in Snapshots : put(key, value)
  \/ \E desired \in DesiredMiB, average \in AverageMiB : resize(desired, average)

Spec == Init /\ [][Next]_vars
-----------------------------------------------------------------------------
\* The list and the map name the same keys and no key has two list nodes, so
\* every iterator the map holds is live and eviction from the back of the list
\* always finds an entry to erase (get, put and resize of mru_cache.hpp).
ListIndexesCache ==
  /\ Range(mru_list) = DOMAIN cache
  /\ IsInjective(mru_list)

\* The cache never holds more snapshots than the memory budget allows, also
\* right after a resize to less than what is stored.
WithinCapacity == Cardinality(DOMAIN cache) <= capacity

\* The list order is the recency order.
Newer == {<<mru_list[p[1]], mru_list[p[2]]>> :
            p \in {q \in (DOMAIN mru_list) \X (DOMAIN mru_list) : q[1] < q[2]}}

Lru == INSTANCE BoundedLru
         WITH bound <- capacity, store <- cache, newer <- Newer,
              Bounds <- {CapacityOf(d, a) : d \in DesiredMiB,
                                            a \in {x \in AverageMiB : x > 0}}

\* The list, the iterators and the map together are a bounded
\* least-recently-used map: new and replaced entries are the most recent, nothing
\* but the promotion of one key reorders the others, and an eviction takes the
\* keys used longest ago, at the bound and not before (mru_cache.hpp).
ImplementsLru == Lru!Spec
=============================================================================
