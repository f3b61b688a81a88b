------------------------------- MODULE IdempList -------------------------------
(***************************************************************************)
(* internal/app/idempotency.go as written: a map from key to entry, whose  *)
(* entries are linked both ways from head to tail. A node stands for the   *)
(* *idempEntry that the map holds for its key: an entry that leaves the    *)
(* map is unlinked and never used again.                                   *)
(***************************************************************************)
EXTENDS IdempCache, FiniteSets

CONSTANTS Keys, Fingerprints, Plans, Results

ASSUME ListAssumption == NoKey \notin Keys

VARIABLES
  entries,   \* idempCache.entries: key -> [fp, plan, apply, prev, next]
  head,      \* idempCache.head and tail, by key; NoKey is nil
  tail

vars == <<entries, head, tail>>

Cached(k) == k \in DOMAIN entries

\* The three fields together, as the helpers below pass them on.
Here == [entries |-> entries, head |-> head, tail |-> tail]

Becomes(l) == entries' = l.entries /\ head' = l.head /\ tail' = l.tail

\* e.next = v, and e.prev = v, when e is not nil.
SetNext(es, k, v) == IF k = NoKey THEN es ELSE [es EXCEPT ![k].next = v]

SetPrev(es, k, v) == IF k = NoKey THEN es ELSE [es EXCEPT ![k].prev = v]

\* (Mutant) removing the last entry leaves tail on it.
MutUnlinkLocked(l, k) ==
  LET e == l.entries[k]
      skipped == SetPrev(SetNext(l.entries, e.prev, e.next), e.next, e.prev)
  IN  [entries |-> [skipped EXCEPT ![k].prev = NoKey, ![k].next = NoKey],
       head |-> IF e.prev = NoKey THEN e.next ELSE l.head,
       tail |-> l.tail]

\* unlinkLocked: the neighbours, or head and tail, skip the entry.
unlinkLocked(l, k) ==
  LET e == l.entries[k]
      skipped == SetPrev(SetNext(l.entries, e.prev, e.next), e.next, e.prev)
  IN  [entries |-> [skipped EXCEPT ![k].prev = NoKey, ![k].next = NoKey],
       head |-> IF e.prev = NoKey THEN e.next ELSE l.head,
       tail |-> IF e.next = NoKey THEN e.prev ELSE l.tail]

\* removeLocked: out of the map and out of the list.
removeLocked(l, k) ==
  LET u == unlinkLocked(l, k)
  IN  [u EXCEPT !.entries = [j \in DOMAIN u.entries \ {k} |-> u.entries[j]]]

\* The unlinked entry k becomes the head.
LinkFront(l, k) ==
  [entries |-> SetPrev([l.entries EXCEPT ![k].prev = NoKey, ![k].next = l.head], l.head, k),
   head |-> k,
   tail |-> IF l.tail = NoKey THEN k ELSE l.tail]

\* (Mutant) a hit does not make the entry recent.
MutMoveFrontLocked(l, k) == l

moveFrontLocked(l, k) ==
  IF k = l.head THEN l ELSE LinkFront(unlinkLocked(l, k), k)

\* insertFrontLocked. The loop that evicts runs at most once, since one entry
\* was added to a cache within its bound.
insertFrontLocked(l, k, fp, plan, apply) ==
  LET gone == IF k \in DOMAIN l.entries THEN removeLocked(l, k) ELSE l
      e == [fp |-> fp, plan |-> plan, apply |-> apply, prev |-> NoKey, next |-> NoKey]
      put == [gone EXCEPT !.entries =
                [j \in DOMAIN gone.entries \cup {k} |-> IF j = k THEN e ELSE gone.entries[j]]]
      all == LinkFront(put, k)
  IN  IF Cardinality(DOMAIN all.entries) > IdempMax /\ all.tail # NoKey
      THEN removeLocked(all, all.tail) ELSE all

-------------------------------------------------------------------------------
lookup(k, fp) ==
  IF Cached(k) /\ entries[k].fp = fp
  THEN Becomes(moveFrontLocked(Here, k))
  ELSE UNCHANGED vars

storePlan(k, fp, p) ==
  IF k = NoKey THEN UNCHANGED vars
  ELSE IF Cached(k) /\ entries[k].fp = fp
       THEN Becomes(moveFrontLocked([Here EXCEPT !.entries[k].plan = p], k))
       ELSE Becomes(insertFrontLocked(Here, k, fp, p, Nil))

storeApply(k, fp, r) ==
  IF k = NoKey THEN UNCHANGED vars
  ELSE IF Cached(k) /\ entries[k].fp = fp
       THEN Becomes(moveFrontLocked([Here EXCEPT !.entries[k].apply = r], k))
       ELSE Becomes(insertFrontLocked(Here, k, fp, Nil, r))

evict(k) == IF Cached(k) THEN Becomes(removeLocked(Here, k)) ELSE UNCHANGED vars

clear == entries' = << >> /\ head' = NoKey /\ tail' = NoKey

Init == entries = << >> /\ head = NoKey /\ tail = NoKey

Next ==
  \/ \E k \in Keys \cup {NoKey}, fp \in Fingerprints :
       \/ lookup(k, fp)
       \/ \E p \in Plans : storePlan(k, fp, p)
       \/ \E r \in Results : storeApply(k, fp, r)
  \/ \E k \in Keys : evict(k)
  \/ clear

Spec == Init /\ [][Next]_vars

-------------------------------------------------------------------------------
\* The map holds entries whose links are keys or nil.
TypeOK ==
  /\ DOMAIN entries \subseteq Keys
  /\ \A k \in DOMAIN entries :
       entries[k] \in [fp : Fingerprints, plan : Plans \cup {Nil}, apply : Results \cup {Nil},
                       prev : Keys \cup {NoKey}, next : Keys \cup {NoKey}]
  /\ {head, tail} \subseteq Keys \cup {NoKey}

\* The keys met on following a link, from an end, n times; NoKey past the end.
Walk(end, link, n) ==
  LET at[i \in 1 .. n] ==
        IF i = 1 THEN end
        ELSE IF Cached(at[i - 1]) THEN entries[at[i - 1]][link] ELSE NoKey
  IN  at

Count == Cardinality(DOMAIN entries)

\* Forwards from head and backwards from tail one meets the entries of the
\* map, each once, in opposite orders, and then nil: no entry is lost to the
\* list or kept by it after it left the map (idempotency.go:107-163).
WellLinked ==
  LET there == Walk(head, "next", Count + 1)
      back  == Walk(tail, "prev", Count + 1)
  IN  /\ {there[i] : i \in 1 .. Count} = DOMAIN entries
      /\ there[Count + 1] = NoKey /\ back[Count + 1] = NoKey
      /\ \A i \in 1 .. Count : there[i] = back[Count + 1 - i]

\* The cache as the list shows it.
Listed ==
  LET at == Walk(head, "next", Count)
  IN  [i \in 1 .. Count |->
         IF Cached(at[i])
         THEN [key |-> at[i], fp |-> entries[at[i]].fp,
               plan |-> entries[at[i]].plan, apply |-> entries[at[i]].apply]
         ELSE Nil]

\* The map and the list implement the bounded sequence that the control plane
\* is modelled with: recency, replacement, fill-in and eviction (idempotency.go).
Lru == INSTANCE IdempLru WITH cache <- Listed

ImplementsLru == Lru!Spec
===============================================================================
