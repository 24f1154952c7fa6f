----------------------------- MODULE BoundedLru -----------------------------
(***************************************************************************)
(* What the process-wide registry cache promises its callers, with no     *)
(* list, no iterator and no hash table: a map of at most "bound" entries   *)
(* that forgets the least recently used ones first.  MruCache (the code of *)
(* src/src/mru_cache.hpp) is shown to implement this specification.        *)
(***************************************************************************)
EXTENDS Integers, FiniteSets, Functions

CONSTANTS Keys,       \* normalised encounters
          Snapshots,  \* immutable registry snapshots
          Bounds      \* the bounds a caller may ask for

VARIABLES bound,  \* how many entries may be kept
          store,  \* the entries: a function from some keys to snapshots
          newer   \* the pairs <<a, b>> such that a was used after b

vars == <<bound, store, newer>>

Init ==
  /\ bound \in Bounds
  /\ store = <<>>
  /\ newer = {}

\* Key k becomes the most recently used one of the entries in kept.
UsedLast(k, kept) ==
  {p \in newer : p[1] \in kept /\ p[2] \in kept /\ k \notin {p[1], p[2]}}
    \cup ({k} \X (kept \ {k}))

\* The n most recently used entries (all of them when there are fewer).
MostRecent(n) ==
  {a \in DOMAIN store : Cardinality({b \in DOMAIN store : <<b, a>> \in newer}) < n}

\* A miss is a stutter.
Lookup(k) ==
  /\ k \in DOMAIN store
  /\ newer' = UsedLast(k, DOMAIN store)
  /\ UNCHANGED <<bound, store>>

\* A key that is there is replaced and nothing is forgotten; a new key takes
\* the place of the least recently used entries when the map is full.
Insert(k, s) ==
  /\ bound > 0
  /\ LET kept == IF k \in DOMAIN store THEN DOMAIN store ELSE MostRecent(bound - 1)
     IN /\ store' = [x \in kept \cup {k} |-> IF x = k THEN s ELSE store[x]]
        /\ newer' = UsedLast(k, kept)
  /\ UNCHANGED bound

\* A smaller bound forgets at once what no longer fits.
Rebound(b) ==
  /\ bound' = b
  /\ LET kept == MostRecent(b)
     IN /\ store' = Restrict(store, kept)
        /\ newer' = {p \in newer : p[1] \in kept /\ p[2] \in kept}

Next ==
  \/ \E k \in Keys : Lookup(k)
  \/ \E k \in Keys, s \in Snapshots : Insert(k, s)
  \/ \E b \in Bounds : Rebound(b)

Spec == Init /\ [][Next]_vars
=============================================================================
