-------------------------------- MODULE IdempLru --------------------------------
(***************************************************************************)
(* What the idempotency cache promises, as a state machine over the        *)
(* operators of IdempCache: the calls that App makes, in any order.        *)
(***************************************************************************)
EXTENDS IdempCache

CONSTANTS Keys, Fingerprints, Plans, Results

VARIABLE cache   \* entries, most recently used first

Init == cache = << >>

Lookup(k, fp) == cache' = Touched(cache, k, fp)

Next ==
  \/ \E k \in Keys \cup {NoKey}, fp \in Fingerprints :
       \/ Lookup(k, fp)
       \/ \E p \in Plans : cache' = StorePlan(cache, k, fp, p)
       \/ \E r \in Results : cache' = StoreApply(cache, k, fp, r)
  \/ \E k \in Keys : cache' = Evict(cache, k)
  \/ cache' = << >>

Spec == Init /\ [][Next]_cache
=================================================================================
