------------------------------ MODULE IdempCache ------------------------------
(***************************************************************************)
(* The idempotency cache of internal/app/idempotency.go as operators on a  *)
(* sequence of entries, most recently used first. The code keeps a map     *)
(* and a doubly linked list; IdempList models those and is shown to        *)
(* implement these operators. Every call is made with App.mu held.         *)
(***************************************************************************)
EXTENDS Naturals, Sequences

CONSTANTS
  NoKey,     \* the empty Idempotency-Key: the call is not cached
  Nil,       \* the nil *Plan or *ApplyResult of an entry
  IdempMax   \* idempCache.max

ASSUME IdempMaxAssumption == IdempMax \in Nat \ {0}

Holds(c, k) == \E i \in DOMAIN c : c[i].key = k

Position(c, k) == CHOOSE i \in DOMAIN c : c[i].key = k

Entry(c, k) == c[Position(c, k)]

\* The sequence c without its i-th element (removeLocked and unlinkLocked).
Without(c, i) == [j \in 1 .. Len(c) - 1 |-> IF j < i THEN c[j] ELSE c[j + 1]]

\* e in front of all elements of c.
Prepend(e, c) == [j \in 1 .. Len(c) + 1 |-> IF j = 1 THEN e ELSE c[j - 1]]

\* evict: drop the key if it is cached.
Evict(c, k) == IF Holds(c, k) THEN Without(c, Position(c, k)) ELSE c

\* (Mutant) a clear that keeps the entries.
MutClear(c) == c

\* clear: forget everything.
Clear(c) == << >>

\* moveFrontLocked of a cached key's entry.
MoveFront(c, k) == Prepend(Entry(c, k), Without(c, Position(c, k)))

\* insertFrontLocked: replace an entry of the same key, then drop the least
\* recently used entries beyond IdempMax.
InsertFront(c, e) ==
  LET all == Prepend(e, Evict(c, e.key))
  IN  IF Len(all) > IdempMax THEN Without(all, Len(all)) ELSE all

\* lookup reports a reused key: cached with another fingerprint.
Reused(c, k, fp) == k # NoKey /\ Holds(c, k) /\ Entry(c, k).fp # fp

\* (Mutant) the fingerprint is not compared.
MutHit(c, k, fp) == k # NoKey /\ Holds(c, k)

\* lookup hits: the entry of the same request.
Hit(c, k, fp) == k # NoKey /\ Holds(c, k) /\ Entry(c, k).fp = fp

\* The cache after a lookup that is not Reused: a hit becomes most recent.
Touched(c, k, fp) == IF Hit(c, k, fp) THEN MoveFront(c, k) ELSE c

\* storePlan and storeApply: fill the entry of the same request, which
\* becomes most recent, or insert a new one.
StorePlan(c, k, fp, p) ==
  IF k = NoKey THEN c
  ELSE IF Hit(c, k, fp)
       THEN Prepend([key |-> k, fp |-> fp, plan |-> p, apply |-> Entry(c, k).apply],
                    Without(c, Position(c, k)))
       ELSE InsertFront(c, [key |-> k, fp |-> fp, plan |-> p, apply |-> Nil])

StoreApply(c, k, fp, r) ==
  IF k = NoKey THEN c
  ELSE IF Hit(c, k, fp)
       THEN Prepend([key |-> k, fp |-> fp, plan |-> Entry(c, k).plan, apply |-> r],
                    Without(c, Position(c, k)))
       ELSE InsertFront(c, [key |-> k, fp |-> fp, plan |-> Nil, apply |-> r])
===============================================================================
