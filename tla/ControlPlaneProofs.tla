-------------------------- MODULE ControlPlaneProofs --------------------------
(***************************************************************************)
(* Proofs about ControlPlane, for every set of documents, bodies, keys,    *)
(* addresses and files, every operation and compiler that meet the named   *)
(* assumptions, every cache and ring size and every MaxGeneration.         *)
(***************************************************************************)
EXTENDS ControlPlane, TLAPS

-------------------------------------------------------------------------------
(* The cache: every operation of internal/app/idempotency.go returns a     *)
(* sequence of entries, and which members it keeps, drops or adds.         *)


\* Removing the element at a valid index of a sequence (removeLocked).
LEMMA WithoutType ==
  ASSUME NEW S, NEW c \in Seq(S), NEW i \in 1 .. Len(c)
  PROVE  /\ Without(c, i) \in Seq(S)
         /\ Len(Without(c, i)) = Len(c) - 1
  BY DEF Without

\* Putting an element in front of a sequence (insertFrontLocked).
LEMMA PrependType ==
  ASSUME NEW S, NEW c \in Seq(S), NEW e \in S
  PROVE  /\ Prepend(e, c) \in Seq(S)
         /\ Len(Prepend(e, c)) = Len(c) + 1
  BY DEF Prepend

\* A cached key has a position, and the entry there has that key.
LEMMA PositionType ==
  ASSUME NEW S, NEW c \in Seq(S), NEW k, Holds(c, k)
  PROVE  /\ Position(c, k) \in 1 .. Len(c)
         /\ Entry(c, k) \in S
         /\ Entry(c, k).key = k
  BY DEF Holds, Position, Entry

\* evict returns a sequence of entries.
LEMMA EvictType ==
  ASSUME NEW S, NEW c \in Seq(S), NEW k
  PROVE  Evict(c, k) \in Seq(S)
  BY WithoutType, PositionType DEF Evict

\* moveFrontLocked of a cached key returns a sequence of entries.
LEMMA MoveFrontType ==
  ASSUME NEW S, NEW c \in Seq(S), NEW k, Holds(c, k)
  PROVE  MoveFront(c, k) \in Seq(S)
  BY WithoutType, PrependType, PositionType DEF MoveFront

\* insertFrontLocked returns a sequence of entries.
LEMMA InsertFrontType ==
  ASSUME NEW S, NEW c \in Seq(S), NEW e \in S
  PROVE  InsertFront(c, e) \in Seq(S)
<1> DEFINE all == Prepend(e, Evict(c, e.key))
<1>1. Evict(c, e.key) \in Seq(S)
  BY EvictType
<1>2. all \in Seq(S) /\ Len(all) = Len(Evict(c, e.key)) + 1
  BY <1>1, PrependType
<1>3. Len(all) \in 1 .. Len(all)
  BY <1>1, <1>2
<1> HIDE DEF all
<1>4. Without(all, Len(all)) \in Seq(S)
  BY <1>2, <1>3, WithoutType
<1> QED
  BY <1>2, <1>4 DEF InsertFront, all

\* A lookup leaves a sequence of entries, whether or not it hits.
LEMMA TouchedType ==
  ASSUME NEW S, NEW c \in Seq(S), NEW k, NEW fp
  PROVE  Touched(c, k, fp) \in Seq(S)
  BY MoveFrontType DEF Touched, Hit

\* storePlan leaves a sequence of entries, when the kind of entry allows for the
\* plan, alone or beside the apply result that is already there.
LEMMA StorePlanType ==
  ASSUME NEW K, NEW F, NEW P, NEW A, NEW k, NEW fp \in F, NEW p \in P,
         NEW c \in Seq([key : K, fp : F, plan : P, apply : A]),
         k # NoKey => k \in K, Nil \in P, Nil \in A
  PROVE  StorePlan(c, k, fp, p) \in Seq([key : K, fp : F, plan : P, apply : A])
<1> DEFINE S == [key : K, fp : F, plan : P, apply : A]
<1>1. CASE k = NoKey
  BY <1>1 DEF StorePlan
<1>2. CASE k # NoKey /\ Hit(c, k, fp)
  <2> DEFINE e == [key |-> k, fp |-> fp, plan |-> p, apply |-> Entry(c, k).apply]
  <2>1. Holds(c, k) /\ Position(c, k) \in 1 .. Len(c) /\ Entry(c, k) \in S
    BY <1>2, PositionType DEF Hit
  <2>2. Without(c, Position(c, k)) \in Seq(S)
    BY <2>1, WithoutType
  <2>3. e \in S
    BY <1>2, <2>1
  <2>4. Prepend(e, Without(c, Position(c, k))) \in Seq(S)
    BY <2>2, <2>3, PrependType
  <2> QED
    BY <1>2, <2>4 DEF StorePlan
<1>3. CASE k # NoKey /\ ~Hit(c, k, fp)
  <2> DEFINE e == [key |-> k, fp |-> fp, plan |-> p, apply |-> Nil]
  <2>1. e \in S
    BY <1>3
  <2>2. InsertFront(c, e) \in Seq(S)
    BY <2>1, InsertFrontType
  <2> QED
    BY <1>3, <2>2 DEF StorePlan
<1> QED
  BY <1>1, <1>2, <1>3

\* storeApply leaves a sequence of entries, in the same way.
LEMMA StoreApplyType ==
  ASSUME NEW K, NEW F, NEW P, NEW A, NEW k, NEW fp \in F, NEW r \in A,
         NEW c \in Seq([key : K, fp : F, plan : P, apply : A]),
         k # NoKey => k \in K, Nil \in P, Nil \in A
  PROVE  StoreApply(c, k, fp, r) \in Seq([key : K, fp : F, plan : P, apply : A])
<1> DEFINE S == [key : K, fp : F, plan : P, apply : A]
<1>1. CASE k = NoKey
  BY <1>1 DEF StoreApply
<1>2. CASE k # NoKey /\ Hit(c, k, fp)
  <2> DEFINE e == [key |-> k, fp |-> fp, plan |-> Entry(c, k).plan, apply |-> r]
  <2>1. Holds(c, k) /\ Position(c, k) \in 1 .. Len(c) /\ Entry(c, k) \in S
    BY <1>2, PositionType DEF Hit
  <2>2. Without(c, Position(c, k)) \in Seq(S)
    BY <2>1, WithoutType
  <2>3. e \in S
    BY <1>2, <2>1
  <2>4. Prepend(e, Without(c, Position(c, k))) \in Seq(S)
    BY <2>2, <2>3, PrependType
  <2> QED
    BY <1>2, <2>4 DEF StoreApply
<1>3. CASE k # NoKey /\ ~Hit(c, k, fp)
  <2> DEFINE e == [key |-> k, fp |-> fp, plan |-> Nil, apply |-> r]
  <2>1. e \in S
    BY <1>3
  <2>2. InsertFront(c, e) \in Seq(S)
    BY <2>1, InsertFrontType
  <2> QED
    BY <1>3, <2>2 DEF StoreApply
<1> QED
  BY <1>1, <1>2, <1>3

-------------------------------------------------------------------------------
\* The entries of a cache, and that it has at most one per key.
Members(c) == {c[i] : i \in DOMAIN c}

Distinct(c) == \A i, j \in DOMAIN c : c[i].key = c[j].key => i = j

\* A cached key's entry is the only one with that key.
LEMMA EntryUnique ==
  ASSUME NEW S, NEW c \in Seq(S), Distinct(c), NEW k
  PROVE  /\ Holds(c, k) <=> \E e \in Members(c) : e.key = k
         /\ Holds(c, k) => Entry(c, k) \in Members(c) /\ Entry(c, k).key = k
         /\ \A e \in Members(c) : e.key = k => e = Entry(c, k)
<1>1. Holds(c, k) <=> \E e \in Members(c) : e.key = k
  BY DEF Holds, Members
<1>2. Holds(c, k) => Position(c, k) \in DOMAIN c /\ c[Position(c, k)].key = k
  BY DEF Holds, Position
<1>3. ASSUME NEW i \in DOMAIN c, c[i].key = k
      PROVE  c[i] = Entry(c, k)
  BY <1>2, <1>3 DEF Holds, Distinct, Entry
<1> QED
  BY <1>1, <1>2, <1>3 DEF Members, Entry

\* Removing an element takes that entry out, and no other.
LEMMA WithoutMembers ==
  ASSUME NEW S, NEW c \in Seq(S), Distinct(c), NEW i \in 1 .. Len(c)
  PROVE  /\ Distinct(Without(c, i))
         /\ Members(Without(c, i)) = {e \in Members(c) : e.key # c[i].key}
<1> DEFINE w == Without(c, i)
           from(j) == IF j < i THEN j ELSE j + 1
<1>1. Len(c) \in Nat /\ DOMAIN c = 1 .. Len(c) /\ DOMAIN w = 1 .. Len(c) - 1
  BY DEF Without
<1>2. ASSUME NEW j \in DOMAIN w
      PROVE  from(j) \in (DOMAIN c) \ {i} /\ w[j] = c[from(j)]
  BY <1>1, <1>2 DEF Without
<1>3. ASSUME NEW k \in (DOMAIN c) \ {i}
      PROVE  \E j \in DOMAIN w : from(j) = k
  <2> DEFINE j == IF k < i THEN k ELSE k - 1
  <2>1. j \in DOMAIN w /\ from(j) = k
    BY <1>1
  <2> QED
    BY <2>1
<1>4. \A j, k \in DOMAIN w : from(j) = from(k) => j = k
  BY <1>1
<1>5. \A k \in (DOMAIN c) \ {i} : c[k].key # c[i].key
  BY <1>1 DEF Distinct
<1> HIDE DEF w, from
<1>6. Distinct(w)
  BY <1>2, <1>4 DEF Distinct
<1>7. Members(w) \subseteq {e \in Members(c) : e.key # c[i].key}
  BY <1>2, <1>5 DEF Members
<1>8. ASSUME NEW e \in Members(c), e.key # c[i].key
      PROVE  e \in Members(w)
  <2>1. PICK k \in DOMAIN c : e = c[k]
    BY DEF Members
  <2>2. k # i
    BY <1>8, <2>1
  <2>3. PICK j \in DOMAIN w : from(j) = k
    BY <1>3, <2>2
  <2> QED
    BY <1>2, <2>1, <2>3 DEF Members
<1> QED
  BY <1>6, <1>7, <1>8 DEF w

\* Putting an entry with a new key in front adds that entry.
LEMMA PrependMembers ==
  ASSUME NEW S, NEW c \in Seq(S), Distinct(c), NEW e,
         \A f \in Members(c) : f.key # e.key
  PROVE  /\ Distinct(Prepend(e, c))
         /\ Members(Prepend(e, c)) = {e} \cup Members(c)
<1> DEFINE p == Prepend(e, c)
<1>1. Len(c) \in Nat /\ DOMAIN c = 1 .. Len(c) /\ DOMAIN p = 1 .. Len(c) + 1
  BY DEF Prepend
<1>2. p[1] = e /\ \A j \in DOMAIN c : p[j + 1] = c[j]
  BY <1>1 DEF Prepend
<1>3. \A j \in DOMAIN p : j # 1 => j - 1 \in DOMAIN c /\ p[j] = c[j - 1]
  BY <1>1 DEF Prepend
<1> HIDE DEF p
<1>4. Members(p) = {e} \cup Members(c)
  <2>1. Members(p) \subseteq {e} \cup Members(c)
    BY <1>2, <1>3 DEF Members
  <2>2. e \in Members(p)
    BY <1>1, <1>2 DEF Members
  <2>3. ASSUME NEW j \in DOMAIN c
        PROVE  c[j] \in Members(p)
    <3>1. j + 1 \in DOMAIN p /\ p[j + 1] = c[j]
      BY <1>1, <1>2
    <3> QED
      BY <3>1 DEF Members
  <2> QED
    BY <2>1, <2>2, <2>3 DEF Members
<1>5. ASSUME NEW i \in DOMAIN p, NEW j \in DOMAIN p, p[i].key = p[j].key
      PROVE  i = j
  <2>1. CASE i # 1 /\ j # 1
    <3>1. i - 1 = j - 1
      BY <1>3, <1>5, <2>1 DEF Distinct
    <3> QED
      BY <1>1, <3>1
  <2>2. CASE i = 1 \/ j = 1
    <3>1. \A m \in DOMAIN p : m # 1 => p[m].key # e.key
      BY <1>3 DEF Members
    <3> QED
      BY <1>2, <1>5, <2>2, <3>1
  <2> QED
    BY <2>1, <2>2
<1> QED
  BY <1>4, <1>5 DEF Distinct, p

\* evict forgets the key and nothing else.
LEMMA EvictMembers ==
  ASSUME NEW S, NEW c \in Seq(S), Distinct(c), NEW k
  PROVE  /\ Distinct(Evict(c, k))
         /\ Members(Evict(c, k)) = {e \in Members(c) : e.key # k}
         /\ Len(Evict(c, k)) <= Len(c)
<1>1. CASE Holds(c, k)
  BY <1>1, WithoutMembers, WithoutType, PositionType, EntryUnique DEF Evict, Entry
<1>2. CASE ~Holds(c, k)
  BY <1>2, EntryUnique DEF Evict
<1> QED
  BY <1>1, <1>2

\* moveFrontLocked forgets nothing.
LEMMA MoveFrontMembers ==
  ASSUME NEW S, NEW c \in Seq(S), Distinct(c), NEW k, Holds(c, k)
  PROVE  /\ Distinct(MoveFront(c, k))
         /\ Members(MoveFront(c, k)) = Members(c)
         /\ Len(MoveFront(c, k)) = Len(c)
<1> DEFINE w == Without(c, Position(c, k))
           e == Entry(c, k)
<1>1. Position(c, k) \in 1 .. Len(c) /\ e = c[Position(c, k)] /\ e \in S /\ e.key = k
  BY PositionType DEF Entry
<1>2. /\ w \in Seq(S) /\ Len(w) = Len(c) - 1
      /\ Distinct(w) /\ Members(w) = {f \in Members(c) : f.key # k}
  BY <1>1, WithoutMembers, WithoutType
<1>3. e \in Members(c) /\ \A f \in Members(c) : f.key = k => f = e
  BY EntryUnique
<1> HIDE DEF w, e
<1>4. /\ Distinct(Prepend(e, w)) /\ Members(Prepend(e, w)) = {e} \cup Members(w)
      /\ Len(Prepend(e, w)) = Len(w) + 1
  BY <1>1, <1>2, PrependMembers, PrependType
<1>5. {e} \cup Members(w) = Members(c)
  BY <1>1, <1>2, <1>3
<1> QED
  BY <1>2, <1>4, <1>5 DEF MoveFront, w, e

\* A lookup forgets nothing.
LEMMA TouchedMembers ==
  ASSUME NEW S, NEW c \in Seq(S), Distinct(c), NEW k, NEW fp
  PROVE  /\ Distinct(Touched(c, k, fp))
         /\ Members(Touched(c, k, fp)) = Members(c)
         /\ Len(Touched(c, k, fp)) = Len(c)
  BY MoveFrontMembers DEF Touched, Hit

\* insertFrontLocked adds the entry in place of one with its key, and forgets at
\* most the least recently used one, never the new one.
LEMMA InsertFrontMembers ==
  ASSUME NEW S, NEW c \in Seq(S), Distinct(c), Len(c) <= IdempMax, NEW e \in S
  PROVE  /\ Distinct(InsertFront(c, e))
         /\ Len(InsertFront(c, e)) <= IdempMax
         /\ e \in Members(InsertFront(c, e))
         /\ Members(InsertFront(c, e)) \subseteq {e} \cup {f \in Members(c) : f.key # e.key}
<1> DEFINE v == Evict(c, e.key)
           all == Prepend(e, v)
<1>1. /\ v \in Seq(S) /\ Distinct(v) /\ Len(v) <= Len(c)
      /\ Members(v) = {f \in Members(c) : f.key # e.key}
  BY EvictType, EvictMembers
<1> HIDE DEF v
<1>2. /\ all \in Seq(S) /\ Len(all) = Len(v) + 1
      /\ Distinct(all) /\ Members(all) = {e} \cup Members(v)
      /\ all[1] = e
  BY <1>1, PrependType, PrependMembers DEF Prepend
<1>3. Len(v) \in Nat /\ Len(c) \in Nat /\ IdempMax \in Nat \ {0}
  BY <1>1, IdempMaxAssumption
<1> HIDE DEF all
<1>4. CASE Len(all) > IdempMax
  <2> DEFINE w == Without(all, Len(all))
  <2>1. Len(all) \in 1 .. Len(all) /\ 1 \in 1 .. Len(all) /\ Len(all) # 1
    BY <1>2, <1>3, <1>4
  <2>2. /\ w \in Seq(S) /\ Len(w) = Len(all) - 1 /\ Distinct(w)
        /\ Members(w) = {f \in Members(all) : f.key # all[Len(all)].key}
    <3>1. w \in Seq(S) /\ Len(w) = Len(all) - 1
      BY <1>2, <2>1, WithoutType
    <3>2. Distinct(w) /\ Members(w) = {f \in Members(all) : f.key # all[Len(all)].key}
      BY <1>2, <2>1, WithoutMembers
    <3> QED
      BY <3>1, <3>2
  <2>3. all[Len(all)].key # e.key
    BY <1>2, <2>1 DEF Distinct
  <2> HIDE DEF w
  <2>4. InsertFront(c, e) = w
    BY <1>4 DEF InsertFront, all, v, w
  <2> QED
    BY <1>1, <1>2, <1>3, <2>2, <2>3, <2>4
<1>5. CASE ~(Len(all) > IdempMax)
  <2>1. InsertFront(c, e) = all
    BY <1>5 DEF InsertFront, all, v
  <2> QED
    BY <1>1, <1>2, <1>3, <1>5, <2>1
<1> QED
  BY <1>4, <1>5

\* The entry a stored plan makes, and the one a stored apply result makes: what
\* the key had of the other kind stays, if it was the same request.
PlanEntry(c, k, fp, p) ==
  [key |-> k, fp |-> fp, plan |-> p, apply |-> IF Hit(c, k, fp) THEN Entry(c, k).apply ELSE Nil]

ApplyEntry(c, k, fp, r) ==
  [key |-> k, fp |-> fp, plan |-> IF Hit(c, k, fp) THEN Entry(c, k).plan ELSE Nil, apply |-> r]

\* What filling an entry, or inserting one, does to the cache.
LEMMA FillMembers ==
  ASSUME NEW S, NEW c \in Seq(S), Distinct(c), Len(c) <= IdempMax, NEW k, NEW e \in S,
         e.key = k, Holds(c, k)
  PROVE  LET d == Prepend(e, Without(c, Position(c, k)))
         IN  /\ Distinct(d) /\ Len(d) <= IdempMax /\ e \in Members(d)
             /\ Members(d) \subseteq {e} \cup {f \in Members(c) : f.key # k}
<1> DEFINE w == Without(c, Position(c, k))
<1>1. Position(c, k) \in 1 .. Len(c) /\ c[Position(c, k)].key = k
  BY PositionType DEF Entry
<1>2. /\ w \in Seq(S) /\ Len(w) = Len(c) - 1
      /\ Distinct(w) /\ Members(w) = {f \in Members(c) : f.key # k}
  BY <1>1, WithoutMembers, WithoutType
<1> HIDE DEF w
<1>3. /\ Distinct(Prepend(e, w)) /\ Members(Prepend(e, w)) = {e} \cup Members(w)
      /\ Len(Prepend(e, w)) = Len(w) + 1
  BY <1>2, PrependMembers, PrependType
<1>4. Len(c) \in Nat
  OBVIOUS
<1> QED
  BY <1>2, <1>3, <1>4, IdempMaxAssumption DEF w

\* storePlan touches the entry of its key alone.
LEMMA StorePlanMembers ==
  ASSUME NEW S, NEW c \in Seq(S), Distinct(c), Len(c) <= IdempMax, NEW k, NEW fp, NEW p,
         k # NoKey => PlanEntry(c, k, fp, p) \in S
  PROVE  LET d == StorePlan(c, k, fp, p)
             e == PlanEntry(c, k, fp, p)
         IN  /\ Distinct(d) /\ Len(d) <= IdempMax
             /\ k = NoKey => d = c
             /\ k # NoKey => /\ e \in Members(d)
                             /\ Members(d) \subseteq {e} \cup {f \in Members(c) : f.key # k}
<1>1. CASE k = NoKey
  BY <1>1 DEF StorePlan
<1>2. CASE k # NoKey /\ Hit(c, k, fp)
  <2>1. Holds(c, k) /\ PlanEntry(c, k, fp, p).key = k
    BY <1>2 DEF Hit, PlanEntry
  <2>2. StorePlan(c, k, fp, p) = Prepend(PlanEntry(c, k, fp, p), Without(c, Position(c, k)))
    BY <1>2 DEF StorePlan, PlanEntry
  <2> QED
    BY <1>2, <2>1, <2>2, FillMembers
<1>3. CASE k # NoKey /\ ~Hit(c, k, fp)
  <2>1. PlanEntry(c, k, fp, p).key = k
    BY DEF PlanEntry
  <2>2. StorePlan(c, k, fp, p) = InsertFront(c, PlanEntry(c, k, fp, p))
    BY <1>3 DEF StorePlan, PlanEntry
  <2> QED
    BY <1>3, <2>1, <2>2, InsertFrontMembers
<1> QED
  BY <1>1, <1>2, <1>3

\* storeApply touches the entry of its key alone.
LEMMA StoreApplyMembers ==
  ASSUME NEW S, NEW c \in Seq(S), Distinct(c), Len(c) <= IdempMax, NEW k, NEW fp, NEW r,
         k # NoKey => ApplyEntry(c, k, fp, r) \in S
  PROVE  LET d == StoreApply(c, k, fp, r)
             e == ApplyEntry(c, k, fp, r)
         IN  /\ Distinct(d) /\ Len(d) <= IdempMax
             /\ k = NoKey => d = c
             /\ k # NoKey => /\ e \in Members(d)
                             /\ Members(d) \subseteq {e} \cup {f \in Members(c) : f.key # k}
<1>1. CASE k = NoKey
  BY <1>1 DEF StoreApply
<1>2. CASE k # NoKey /\ Hit(c, k, fp)
  <2>1. Holds(c, k) /\ ApplyEntry(c, k, fp, r).key = k
    BY <1>2 DEF Hit, ApplyEntry
  <2>2. StoreApply(c, k, fp, r) = Prepend(ApplyEntry(c, k, fp, r), Without(c, Position(c, k)))
    BY <1>2 DEF StoreApply, ApplyEntry
  <2> QED
    BY <1>2, <2>1, <2>2, FillMembers
<1>3. CASE k # NoKey /\ ~Hit(c, k, fp)
  <2>1. ApplyEntry(c, k, fp, r).key = k
    BY DEF ApplyEntry
  <2>2. StoreApply(c, k, fp, r) = InsertFront(c, ApplyEntry(c, k, fp, r))
    BY <1>3 DEF StoreApply, ApplyEntry
  <2> QED
    BY <1>3, <2>1, <2>2, InsertFrontMembers
<1> QED
  BY <1>1, <1>2, <1>3
-------------------------------------------------------------------------------
(* The control plane.                                                      *)

\* Trimming a sequence to its newest n elements (the rings).
LEMMA NewestType ==
  ASSUME NEW S, NEW s \in Seq(S), NEW n \in Nat
  PROVE  /\ Newest(s, n) \in Seq(S)
         /\ Len(Newest(s, n)) = IF Len(s) <= n THEN Len(s) ELSE n
         /\ \A i \in 1 .. Len(Newest(s, n)) :
              Newest(s, n)[i] = s[Len(s) - Len(Newest(s, n)) + i]
<1>1. CASE Len(s) <= n
  BY <1>1 DEF Newest
<1>2. CASE ~(Len(s) <= n)
  <2>1. Newest(s, n) = [i \in 1 .. n |-> s[Len(s) - n + i]]
    BY <1>2 DEF Newest
  <2>2. \A i \in 1 .. n : Len(s) - n + i \in 1 .. Len(s)
    BY <1>2
  <2>3. \A i \in 1 .. n : s[Len(s) - n + i] \in S
    BY <2>2
  <2>4. Newest(s, n) \in Seq(S) /\ Len(Newest(s, n)) = n
    BY <2>1, <2>3
  <2> QED
    BY <1>2, <2>1, <2>4
<1> QED
  BY <1>1, <1>2

\* A candidate that plan or apply accepts is a compiled document with the
\* reset-only fields of the active one (buildCandidate).
LEMMA CandidateFacts ==
  ASSUME TypeOK, NEW req \in Requests, Candidate(req) # Rejected
  PROVE  /\ Candidate(req) \in Canonical
         /\ ResetOnly(Candidate(req)) = ResetOnly(active.doc)
<1> DEFINE after == applyOperations(active.doc, req.body)
<1>1. active.doc \in Documents /\ active.doc.mgmt # Off /\ req.body \in Bodies
  BY DEF TypeOK, Snapshots, Canonical, Requests
<1>2. after # Rejected /\ ResetOnly(after) = ResetOnly(active.doc)
      /\ Candidate(req) = Compile(after)
  BY DEF Candidate
<1>3. after \in Documents
  BY <1>1, <1>2, OperationsAssumption
<1>4. after.mgmt # Off
  BY <1>1, <1>2 DEF ResetOnly
<1>5. Candidate(req) \in Canonical
  BY <1>2, <1>3, CompileAssumption
<1>6. ResetOnly(Compile(after)) = ResetOnly(after)
  BY <1>2, <1>3, <1>4, CompileKeepsResetOnly DEF ResetOnly
<1> QED
  BY <1>2, <1>5, <1>6

\* What a reset that passes its checks installs is a compiled document.
LEMMA BootstrapCandidateFacts ==
  ASSUME TypeOK, BootstrapCandidate # Rejected
  PROVE  BootstrapCandidate \in Canonical
  BY FilesAssumption, CompileAssumption DEF TypeOK, BootstrapCandidate

\* A compiled document's query log has a positive size.
LEMMA QueryLogSizeFact ==
  ASSUME NEW d \in Canonical
  PROVE  d.qsize \in Nat \ {0}
<1>1. d \in Documents /\ d.qsize > 0
  BY DEF Canonical
<1>2. d.qsize \in QueryLogSizes
  BY <1>1 DEF Documents
<1>3. d.qsize \in Nat
  BY <1>2, QueryLogSizeAssumption
<1> QED
  BY <1>1, <1>3

\* The address arithmetic of the listen flags.
LEMMA EffectiveType ==
  ASSUME NEW d \in Canonical
  PROVE  /\ effectiveNTP(d.ntp) \in Addrs
         /\ effectiveMgmt(d.mgmt) \in Addrs \cup {Off}
  BY OverrideAssumption DEF Canonical, Documents, effectiveNTP, effectiveMgmt

\* Fanout.Record keeps the ring a ring of events.
LEMMA recordAuditType ==
  ASSUME TypeOK, NEW cap \in {"changes.apply", "state.reset"},
         NEW rev \in Revisions, NEW prev \in Revisions
  PROVE  recordAudit(audit, cap, rev, prev) \in [nextID : Nat, events : Seq(Events)]
<1> DEFINE ev == [id |-> audit.nextID + 1, capability |-> cap,
                  revision |-> rev, previous |-> prev]
<1>1. audit.nextID \in Nat /\ audit.events \in Seq(Events)
  BY DEF TypeOK
<1>2. ev \in Events
  BY <1>1 DEF Events
<1>3. Append(audit.events, ev) \in Seq(Events)
  BY <1>1, <1>2
<1>4. Newest(Append(audit.events, ev), AuditMax) \in Seq(Events)
  BY <1>3, NewestType, AuditMaxAssumption
<1> QED
  BY <1>1, <1>4 DEF recordAudit

\* Ring.Resize leaves a log of the new capacity, holding no more.
LEMMA ResizeType ==
  ASSUME NEW q \in [capacity : Nat \ {0}, count : Nat], NEW n \in Nat \ {0}
  PROVE  /\ Resize(q, n) \in [capacity : Nat \ {0}, count : Nat]
         /\ Resize(q, n).capacity = n
         /\ Resize(q, n).count <= n
  BY DEF Resize

-------------------------------------------------------------------------------
\* Compiled documents have revisions and installed snapshots are snapshots.
LEMMA SnapshotType ==
  ASSUME TypeOK, NEW d \in Canonical
  PROVE  /\ Revision(d) \in Revisions
         /\ Revision(active.doc) \in Revisions
         /\ NextSnapshot(d) \in Snapshots
         /\ Snapshot(d, active.generation + 1, Revision(d)) \in Snapshots
<1>1. active.doc \in Documents /\ active.generation \in Nat /\ active.boot \in Revisions
  BY DEF TypeOK, Snapshots, Canonical
<1>2. d \in Documents
  BY DEF Canonical
<1>3. Revision(d) \in Revisions /\ Revision(active.doc) \in Revisions
  BY <1>1, <1>2 DEF Revision, Revisions
<1> QED
  BY <1>1, <1>3 DEF Snapshots, Snapshot, NextSnapshot

\* The fields of a request.
LEMMA RequestType ==
  ASSUME NEW req \in Requests
  PROVE  /\ req.body \in Bodies
         /\ req.key # NoKey => req.key \in IdempKeys
         /\ Fingerprint(req.body) \in {Fingerprint(b) : b \in Bodies}
  BY DEF Requests

\* Plan, and the error paths of apply, change the cache alone.
LEMMA PlanType ==
  ASSUME TypeOK, NEW req \in Requests, Plan(req) \/ ApplyReplay(req) \/ CandidateError(req)
  PROVE  /\ UNCHANGED <<store, file, audit, qlog, listeners>>
         /\ cache' \in Seq(Entries)
<1> DEFINE fp == Fingerprint(req.body)
<1>0. cache \in Seq(Entries)
  BY DEF TypeOK
<1>1. CASE KeyReused(req)
  BY <1>0, <1>1 DEF KeyReused, vars, store, listeners
<1>2. CASE PlanReplay(req) \/ ApplyReplay(req)
  BY <1>0, <1>2, MoveFrontType DEF PlanReplay, ApplyReplay, Hit
<1>3. CASE CandidateError(req)
  BY <1>0, <1>3, TouchedType, EvictType DEF CandidateError
<1>4. CASE /\ Candidate(req) # Rejected
           /\ cache' = StorePlan(cache, req.key, fp, PlanOf(Candidate(req), req.body))
           /\ UNCHANGED <<store, file, audit, qlog, listeners>>
  <2>1. Candidate(req) \in Canonical
    BY <1>4, CandidateFacts
  <2>2. PlanOf(Candidate(req), req.body) \in Plans
    BY <2>1, SnapshotType, RequestType DEF PlanOf, Plans
  <2> QED
    BY <1>0, <1>4, <2>2, StorePlanType, RequestType DEF Entries
<1> QED
  BY <1>1, <1>2, <1>3, <1>4 DEF Plan, PlanBuild

\* An apply that commits.
LEMMA CommitType ==
  ASSUME TypeOK, NEW req \in Requests, Candidate(req) # Rejected, Commit(req)
  PROVE  TypeOK'
<1> DEFINE d == Candidate(req)
           next == NextSnapshot(d)
           trail == recordAudit(audit, "changes.apply", Revision(next.doc),
                                Revision(active.doc))
           result == [plan |-> PlanOf(next.doc, req.body),
                      generation |-> next.generation, auditID |-> trail.nextID]
<1>1. d \in Canonical /\ next \in Snapshots /\ next.doc = d
  BY CandidateFacts, SnapshotType DEF NextSnapshot, Snapshot
<1>2. trail \in [nextID : Nat, events : Seq(Events)]
  BY <1>1, SnapshotType, recordAuditType
<1>3. Resize(qlog, next.doc.qsize) \in [capacity : Nat \ {0}, count : Nat]
  BY <1>1, ResizeType, QueryLogSizeFact DEF TypeOK
<1>4. result \in Results
  <2>1. PlanOf(next.doc, req.body) \in Plans
    BY <1>1, SnapshotType, RequestType DEF PlanOf, Plans
  <2> QED
    BY <1>1, <1>2, <2>1 DEF Results, Snapshots
<1>5. StoreApply(cache, req.key, Fingerprint(req.body), result) \in Seq(Entries)
  BY <1>4, StoreApplyType, RequestType DEF TypeOK, Entries
<1>6. /\ active' = next /\ previous' = active
      /\ qlog' = Resize(qlog, next.doc.qsize)
      /\ audit' = trail
      /\ cache' = StoreApply(cache, req.key, Fingerprint(req.body), result)
      /\ UNCHANGED <<bootstrap, file, listeners>>
  BY DEF Commit
<1> HIDE DEF next, trail, result
<1> QED
  BY <1>1, <1>2, <1>3, <1>5, <1>6 DEF TypeOK, listeners

\* A reset, successful or not.
LEMMA ResetType ==
  ASSUME TypeOK, Reset
  PROVE  TypeOK'
<1> DEFINE d == BootstrapCandidate
<1>1. CASE ResetRefused \/ ResetNTPFails
  BY <1>1 DEF ResetRefused, ResetNTPFails, TypeOK, vars
<1>2. CASE ResetHTTPFails
  <2>1. effectiveNTP(active.doc.ntp) \in Addrs
    BY EffectiveType DEF TypeOK, Snapshots
  <2>2. newNTP(d) \in Addrs
    BY <1>2, BootstrapCandidateFacts, EffectiveType DEF newNTP, ResetHTTPFails
  <2>3. ntpBound' \in Addrs
    BY <1>2, <2>1, <2>2 DEF ResetHTTPFails, TypeOK
  <2> QED
    BY <1>2, <2>3 DEF ResetHTTPFails, TypeOK, store
<1>3. CASE ResetCommit
  <2> DEFINE next == Snapshot(d, active.generation + 1, Revision(d))
             trail == recordAudit(audit, "state.reset", Revision(d), Revision(active.doc))
             wiped == Wipe(qlog)
  <2>1. d \in Canonical /\ next \in Snapshots
    BY <1>3, BootstrapCandidateFacts, SnapshotType DEF ResetCommit
  <2>2. trail \in [nextID : Nat, events : Seq(Events)]
    BY <2>1, SnapshotType, recordAuditType
  <2>3. wiped \in [capacity : Nat \ {0}, count : Nat]
    BY DEF TypeOK, Wipe
  <2>4. Resize(wiped, d.qsize) \in [capacity : Nat \ {0}, count : Nat]
    BY <2>1, <2>3, ResizeType, QueryLogSizeFact
  <2>5. newNTP(d) \in Addrs /\ newMgmt(d) \in Addrs \cup {Off}
    BY <2>1, EffectiveType DEF newNTP, newMgmt
  <2>6. /\ active' = next /\ previous' = active /\ bootstrap' = next
        /\ cache' = << >> /\ audit' = trail /\ qlog' = Resize(wiped, d.qsize)
        /\ ntpBound' \in {newNTP(d), ntpBound}
        /\ httpBound' \in {newMgmt(d), httpBound}
        /\ mgmtEffective' = newMgmt(d)
        /\ file' = file
    BY <1>3 DEF ResetCommit, Clear
  <2> HIDE DEF next, trail, wiped, d
  <2> QED
    BY <2>1, <2>2, <2>4, <2>5, <2>6 DEF TypeOK
<1> QED
  BY <1>1, <1>2, <1>3 DEF Reset

\* One step of any client, of the operator or of the data plane.
LEMMA TypeStep ==
  ASSUME TypeOK, [Next]_vars
  PROVE  TypeOK'
<1>1. ASSUME NEW req \in Requests, Plan(req) \/ Apply(req)
      PROVE  TypeOK'
  <2>1. CASE Plan(req) \/ ApplyReplay(req) \/ CandidateError(req)
    BY <2>1, PlanType DEF TypeOK, store, listeners
  <2>2. CASE Candidate(req) # Rejected /\ Commit(req)
    BY <2>2, CommitType
  <2> QED
    BY <1>1, <2>1, <2>2 DEF Apply, ApplyBuild, Plan
<1>2. CASE Reset
  BY <1>2, ResetType
<1>3. CASE EditFile
  BY <1>3 DEF EditFile, TypeOK, store, listeners
<1>4. CASE Query
  <2>1. qlog' \in [capacity : Nat \ {0}, count : Nat]
    BY <1>4 DEF Query, Insert, TypeOK
  <2> QED
    BY <1>4, <2>1 DEF Query, TypeOK, store, listeners
<1>5. CASE UNCHANGED vars
  BY <1>5 DEF vars, TypeOK
<1> QED
  BY <1>1, <1>2, <1>3, <1>4, <1>5 DEF Next

\* Boot installs a compiled file.
LEMMA TypeInit == Init => TypeOK
<1> SUFFICES ASSUME Init PROVE TypeOK
  OBVIOUS
<1>1. Compile(file) \in Canonical
  BY FilesAssumption, CompileAssumption DEF Init
<1>2. active.doc = Compile(file) /\ active \in Snapshots
  BY <1>1 DEF Init, Snapshot, Snapshots, Revision, Revisions, Canonical
<1>3. /\ effectiveNTP(active.doc.ntp) \in Addrs
      /\ effectiveMgmt(active.doc.mgmt) \in Addrs \cup {Off}
  BY <1>1, <1>2, EffectiveType
<1>4. active.doc.qsize \in Nat \ {0}
  BY <1>1, <1>2, QueryLogSizeFact
<1> QED
  BY <1>2, <1>3, <1>4 DEF Init, TypeOK

\* Every variable keeps its type and only compiled documents are installed.
THEOREM TypeCorrect == Spec => []TypeOK
<1>1. Init => TypeOK
  BY TypeInit
<1>2. TypeOK /\ [Next]_vars => TypeOK'
  BY TypeStep
<1> QED
  BY <1>1, <1>2, PTL DEF Spec

-------------------------------------------------------------------------------
\* What the steps that install no snapshot leave alone, without "rollback".
LEMMA QuietStep ==
  ASSUME "rollback" \notin Faults, TypeOK, ListenersFollowSnapshot, [Next]_vars,
         active' = active
  PROVE  UNCHANGED <<previous, bootstrap, audit, listeners>>
<1>1. ASSUME NEW req \in Requests, Plan(req) \/ Apply(req)
      PROVE  UNCHANGED <<previous, bootstrap, audit, listeners>>
  <2>1. CASE Plan(req) \/ ApplyReplay(req) \/ CandidateError(req)
    BY <2>1, PlanType DEF store
  <2>2. CASE Commit(req)
    BY <2>2 DEF Commit, NextSnapshot, Snapshot, TypeOK, Snapshots
  <2> QED
    BY <1>1, <2>1, <2>2 DEF Apply, ApplyBuild, Plan
<1>2. CASE ResetRefused \/ ResetNTPFails \/ UNCHANGED vars
  BY <1>2 DEF ResetRefused, ResetNTPFails, vars, listeners
<1>3. CASE ResetHTTPFails
  BY <1>3 DEF ResetHTTPFails, ListenersFollowSnapshot, store, listeners
<1>4. CASE ResetCommit
  BY <1>4 DEF ResetCommit, Snapshot, TypeOK, Snapshots
<1>5. CASE EditFile \/ Query
  BY <1>5 DEF EditFile, Query, store
<1> QED
  BY <1>1, <1>2, <1>3, <1>4, <1>5 DEF Next, Reset

\* The two ways a snapshot is installed, and all that the proofs below need
\* of them.
LEMMA InstallStep ==
  ASSUME TypeOK, [Next]_vars, active' # active
  PROVE  \/ \E req \in Requests : Candidate(req) # Rejected /\ Commit(req)
         \/ BootstrapCandidate # Rejected /\ ResetCommit
<1>1. ASSUME NEW req \in Requests, Plan(req) \/ Apply(req)
      PROVE  Candidate(req) # Rejected /\ Commit(req)
  <2>1. ~(Plan(req) \/ ApplyReplay(req) \/ CandidateError(req))
    BY PlanType DEF store
  <2> QED
    BY <1>1, <2>1 DEF Apply, ApplyBuild, Plan
<1>2. CASE Reset
  BY <1>2 DEF Reset, ResetRefused, ResetNTPFails, ResetHTTPFails, ResetCommit, vars, store
<1>3. CASE EditFile \/ Query \/ UNCHANGED vars
  BY <1>3 DEF EditFile, Query, store, vars
<1> QED
  BY <1>1, <1>2, <1>3 DEF Next

\* One step keeps the listeners where the active snapshot puts them.
LEMMA ListenersStep ==
  ASSUME "rollback" \notin Faults, TypeOK, ListenersFollowSnapshot, [Next]_vars
  PROVE  ListenersFollowSnapshot'
<1>1. CASE active' = active
  BY <1>1, QuietStep DEF ListenersFollowSnapshot, listeners
<1>2. CASE active' # active
  <2>1. ASSUME NEW req \in Requests, Candidate(req) # Rejected, Commit(req)
        PROVE  ListenersFollowSnapshot'
    <3>1. active'.doc.ntp = active.doc.ntp /\ active'.doc.mgmt = active.doc.mgmt
      BY <2>1, CandidateFacts DEF Commit, NextSnapshot, Snapshot, ResetOnly
    <3> QED
      BY <2>1, <3>1 DEF Commit, ListenersFollowSnapshot, listeners
  <2>2. CASE ResetCommit
    BY <2>2 DEF ResetCommit, Snapshot, ListenersFollowSnapshot, MovesNTP, MovesHTTP,
                newNTP, newMgmt
  <2> QED
    BY <1>2, <2>1, <2>2, InstallStep
<1> QED
  BY <1>1, <1>2

\* The NTP and management listeners are where the active snapshot and the
\* flags put them, after any applies, resets and failed resets, provided the
\* bind that rolls NTP back does not fail as well (reset.go).
THEOREM ListenersAgree ==
  ASSUME "rollback" \notin Faults
  PROVE  Spec => []ListenersFollowSnapshot
<1>1. Init => ListenersFollowSnapshot
  BY DEF Init, ListenersFollowSnapshot
<1>2. TypeOK /\ ListenersFollowSnapshot /\ [Next]_vars => ListenersFollowSnapshot'
  BY ListenersStep
<1> QED
  BY <1>1, <1>2, TypeCorrect, PTL DEF Spec

\* A call that installs no snapshot leaves the store, the audit trail and
\* the listeners alone, under the same proviso.
THEOREM FailuresAreTraceless ==
  ASSUME "rollback" \notin Faults
  PROVE  Spec => FailureLeavesNoTrace
<1>1. TypeOK /\ ListenersFollowSnapshot /\ [Next]_vars
        => [active' = active => UNCHANGED <<previous, bootstrap, audit, listeners>>]_vars
  BY QuietStep
<1> QED
  BY <1>1, TypeCorrect, ListenersAgree, PTL DEF Spec, FailureLeavesNoTrace

-------------------------------------------------------------------------------
\* One step keeps drift measured against the last reset. Nothing is assumed
\* of the listeners, so the lemma holds whatever binds fail.
LEMMA DriftStep ==
  ASSUME TypeOK, DriftBaseline, [Next]_vars
  PROVE  DriftBaseline'
<1>0. active.generation \in Nat /\ bootstrap.generation \in Nat
  BY DEF TypeOK, Snapshots
<1>1. CASE active' = active
  <2>1. bootstrap' = bootstrap
    <3>1. ASSUME NEW req \in Requests, Plan(req) \/ Apply(req)
          PROVE  bootstrap' = bootstrap
      BY <3>1, PlanType DEF store, Apply, ApplyBuild, Commit, Plan
    <3>2. CASE Reset
      BY <1>0, <1>1, <3>2 DEF Reset, ResetRefused, ResetNTPFails, ResetHTTPFails,
           ResetCommit, Snapshot, vars, store
    <3> QED
      BY <3>1, <3>2 DEF Next, EditFile, Query, store, vars
  <2> QED
    BY <1>1, <2>1 DEF DriftBaseline
<1>2. CASE active' # active
  <2>1. ASSUME NEW req \in Requests, Candidate(req) # Rejected, Commit(req)
        PROVE  DriftBaseline'
    <3>1. ResetOnly(active'.doc) = ResetOnly(active.doc)
      BY <2>1, CandidateFacts DEF Commit, NextSnapshot, Snapshot
    <3>2. active'.boot = active.boot /\ active'.generation = active.generation + 1
      BY <2>1 DEF Commit, NextSnapshot, Snapshot
    <3>3. bootstrap' = bootstrap
      BY <2>1 DEF Commit
    <3> QED
      BY <1>0, <3>1, <3>2, <3>3 DEF DriftBaseline
  <2>2. CASE ResetCommit
    BY <1>0, <2>2 DEF ResetCommit, Snapshot, DriftBaseline
  <2> QED
    BY <1>2, <2>1, <2>2, InstallStep
<1> QED
  BY <1>1, <1>2

\* Whatever fails, drift is measured against the bootstrap of the last reset
\* and no sequence of applies changes a reset-only field.
THEOREM DriftIsFromBootstrap == Spec => []DriftBaseline
<1>1. Init => DriftBaseline
  BY DEF Init, DriftBaseline, Snapshot
<1>2. TypeOK /\ DriftBaseline /\ [Next]_vars => DriftBaseline'
  BY DriftStep
<1> QED
  BY <1>1, <1>2, TypeCorrect, PTL DEF Spec

-------------------------------------------------------------------------------
\* Appending the next event to a bounded ring of numbered, chained events.
LEMMA RingStep ==
  ASSUME NEW S, NEW old \in Seq(S), NEW ev \in S, NEW n \in Nat, NEW m \in Nat \ {0},
         Chained(old, n, m), ev.id = n + 1,
         old # << >> => ev.previous = old[Len(old)].revision
  PROVE  LET new == Newest(Append(old, ev), m)
         IN  Chained(new, n + 1, m) /\ new # << >> /\ new[Len(new)] = ev
<1> DEFINE all == Append(old, ev)
           new == Newest(all, m)
<1>1. /\ all \in Seq(S) /\ Len(all) = Len(old) + 1 /\ all[Len(old) + 1] = ev
      /\ \A i \in 1 .. Len(old) : all[i] = old[i]
  OBVIOUS
<1>2. /\ Len(old) \in Nat
      /\ Len(old) = IF n < m THEN n ELSE m
      /\ \A i \in 1 .. Len(old) : old[i].id = n - Len(old) + i
      /\ \A i \in 1 .. Len(old) - 1 : old[i + 1].previous = old[i].revision
      /\ Len(old) > 0 => ev.previous = old[Len(old)].revision
  BY DEF Chained
<1> HIDE DEF all
<1>3. \A i \in 1 .. Len(all) : all[i].id = n - Len(old) + i
  <2> TAKE i \in 1 .. Len(all)
  <2>1. CASE i \in 1 .. Len(old)
    BY <1>1, <1>2, <2>1
  <2>2. CASE i = Len(old) + 1
    BY <1>1, <1>2, <2>2
  <2> QED
    BY <1>1, <1>2, <2>1, <2>2
<1>4. \A i \in 1 .. Len(all) - 1 : all[i + 1].previous = all[i].revision
  <2> TAKE i \in 1 .. Len(all) - 1
  <2>1. CASE i < Len(old)
    <3>1. i \in 1 .. Len(old) - 1 /\ i \in 1 .. Len(old) /\ i + 1 \in 1 .. Len(old)
      BY <1>1, <1>2, <2>1
    <3> QED
      BY <1>1, <1>2, <3>1
  <2>2. CASE i = Len(old)
    BY <1>1, <1>2, <2>2
  <2> QED
    BY <1>1, <1>2, <2>1, <2>2
<1>5. CASE n < m
  <2>1. new = all
    BY <1>1, <1>2, <1>5 DEF Newest
  <2>2. Len(all) = n + 1 /\ n + 1 <= m
    BY <1>1, <1>2, <1>5
  <2>3. Chained(all, n + 1, m)
    BY <1>2, <1>3, <1>4, <1>5, <2>2 DEF Chained
  <2>4. all # << >> /\ all[Len(all)] = ev
    BY <1>1, <1>2
  <2> QED
    BY <2>1, <2>3, <2>4 DEF all
<1>6. CASE ~(n < m)
  <2>1. Len(old) = m /\ Len(all) = m + 1
    BY <1>1, <1>2, <1>6
  <2>2. /\ new \in Seq(S) /\ Len(new) = m
        /\ \A i \in 1 .. m : new[i] = all[(m + 1) - m + i]
    <3>1. ~(Len(all) <= m)
      BY <2>1
    <3>2. all \in Seq(S) /\ m \in Nat \ {0}
      BY <1>1
    <3>3. /\ Newest(all, m) \in Seq(S)
          /\ Len(Newest(all, m)) = IF Len(all) <= m THEN Len(all) ELSE m
          /\ \A i \in 1 .. Len(Newest(all, m)) :
               Newest(all, m)[i] = all[Len(all) - Len(Newest(all, m)) + i]
      BY ONLY <3>2, NewestType
    <3> QED
      BY <2>1, <3>1, <3>3
  <2>3. Len(new) = m /\ \A i \in 1 .. m : new[i] = all[1 + i]
    <3> SUFFICES ASSUME NEW i \in 1 .. m PROVE new[i] = all[1 + i]
      BY <2>2
    <3>1. (m + 1) - m + i = 1 + i
      OBVIOUS
    <3> QED
      BY <2>2, <3>1
  <2>4. \A i \in 1 .. m : new[i].id = n + 1 - m + i
    <3> TAKE i \in 1 .. m
    <3>1. 1 + i \in 1 .. Len(all)
      BY <2>1
    <3>2. new[i].id = n - m + (1 + i)
      BY <1>3, <2>1, <2>3, <3>1
    <3> QED
      BY <3>2
  <2>5. \A i \in 1 .. m - 1 : new[i + 1].previous = new[i].revision
    <3> TAKE i \in 1 .. m - 1
    <3>1. i \in 1 .. m /\ i + 1 \in 1 .. m /\ 1 + i \in 1 .. Len(all) - 1
      BY <2>1
    <3>2. all[(1 + i) + 1].previous = all[1 + i].revision
      BY <1>4, <3>1
    <3>3. 1 + (i + 1) = (1 + i) + 1
      OBVIOUS
    <3> QED
      BY <2>3, <3>1, <3>2, <3>3
  <2>6. new[m] = ev
    BY <1>1, <2>1, <2>3
  <2> HIDE DEF new
  <2>7. Chained(new, n + 1, m) /\ new # << >> /\ new[Len(new)] = ev
    <3>1. m = IF n + 1 < m THEN n + 1 ELSE m
      BY <1>6
    <3>2. Chained(new, n + 1, m)
      BY <2>3, <2>4, <2>5, <3>1 DEF Chained
    <3>3. new # << >>
      BY <2>2
    <3> QED
      BY <2>3, <2>6, <3>2, <3>3
  <2> QED
    BY <2>7 DEF new, all
<1> QED
  BY <1>5, <1>6

\* Recording the event of an installed snapshot extends the trail.
LEMMA TrailStep ==
  ASSUME TypeOK, AuditTrail, NEW cap,
         active'.generation = active.generation + 1,
         audit' = recordAudit(audit, cap, Revision(active'.doc), Revision(active.doc))
  PROVE  AuditTrail'
<1> DEFINE ev == [id |-> audit.nextID + 1, capability |-> cap,
                  revision |-> Revision(active'.doc), previous |-> Revision(active.doc)]
           old == audit.events
           S == Events \cup {ev}
<1>1. /\ audit.nextID \in Nat /\ AuditMax \in Nat \ {0} /\ old \in Seq(S) /\ ev \in S
  BY AuditMaxAssumption DEF TypeOK
<1>2. /\ ev.id = audit.nextID + 1 /\ ev.revision = Revision(active'.doc)
      /\ ev.previous = Revision(active.doc)
  OBVIOUS
<1>3. audit'.nextID = audit.nextID + 1 /\ audit'.events = Newest(Append(old, ev), AuditMax)
  BY DEF recordAudit
<1> HIDE DEF ev, S
<1>4. /\ audit.nextID = active.generation
      /\ Chained(old, audit.nextID, AuditMax)
      /\ old # << >> => ev.previous = old[Len(old)].revision
  BY <1>2 DEF AuditTrail
<1> DEFINE new == Newest(Append(old, ev), AuditMax)
<1>5. Chained(new, audit.nextID + 1, AuditMax) /\ new # << >> /\ new[Len(new)] = ev
  BY <1>1, <1>2, <1>4, RingStep
<1> HIDE DEF new
<1>6. audit'.nextID = audit.nextID + 1 /\ audit'.events = new
  BY <1>3 DEF new
<1> QED
  BY <1>2, <1>4, <1>5, <1>6 DEF AuditTrail

\* Every installed snapshot is in the audit trail once, each event starts
\* from the revision the one before left, and the last one is active.
THEOREM AuditTrailIsComplete == Spec => []AuditTrail
<1>1. Init => AuditTrail
  BY AuditMaxAssumption DEF Init, AuditTrail, Chained, Snapshot
<1>2. ASSUME TypeOK, AuditTrail, [Next]_vars
      PROVE  AuditTrail'
  <2>1. CASE active' = active
    <3>1. audit' = audit
      <4>1. ASSUME NEW req \in Requests, Plan(req) \/ Apply(req)
            PROVE  audit' = audit
        <5>1. ~Commit(req)
          BY <1>2, <2>1 DEF Commit, NextSnapshot, Snapshot, TypeOK, Snapshots
        <5> QED
          BY <1>2, <4>1, <5>1, PlanType DEF Apply, ApplyBuild, Plan
      <4>2. CASE Reset
        BY <1>2, <2>1, <4>2 DEF Reset, ResetRefused, ResetNTPFails, ResetHTTPFails,
             ResetCommit, Snapshot, vars, TypeOK, Snapshots
      <4> QED
        BY <1>2, <4>1, <4>2 DEF Next, EditFile, Query, vars
    <3> QED
      BY <1>2, <2>1, <3>1 DEF AuditTrail
  <2>2. CASE active' # active
    <3>1. ASSUME NEW req \in Requests, Commit(req)
          PROVE  AuditTrail'
      BY <1>2, <3>1, TrailStep DEF Commit, NextSnapshot, Snapshot
    <3>2. CASE ResetCommit
      BY <1>2, <3>2, TrailStep DEF ResetCommit, Snapshot
    <3> QED
      BY <1>2, <2>2, <3>1, <3>2, InstallStep
  <2> QED
    BY <2>1, <2>2
<1> QED
  BY <1>1, <1>2, TypeCorrect, PTL DEF Spec

-------------------------------------------------------------------------------
\* The size the log was given is the size of the snapshot installed with it.
LEMMA LogStep ==
  ASSUME TypeOK, LogFitsSnapshot, [Next]_vars
  PROVE  LogFitsSnapshot'
<1>1. ASSUME NEW req \in Requests, Plan(req) \/ Apply(req)
      PROVE  LogFitsSnapshot'
  <2>1. CASE Plan(req) \/ ApplyReplay(req) \/ CandidateError(req)
    BY <2>1, PlanType DEF store, LogFitsSnapshot
  <2>2. CASE Candidate(req) # Rejected /\ Commit(req)
    <3>1. Candidate(req).qsize \in Nat \ {0}
      BY <1>1, <2>2, CandidateFacts, QueryLogSizeFact
    <3>2. /\ active'.doc = Candidate(req)
          /\ qlog' = Resize(qlog, Candidate(req).qsize)
      BY <2>2 DEF Commit, NextSnapshot, Snapshot
    <3> QED
      BY <3>1, <3>2, ResizeType DEF TypeOK, LogFitsSnapshot
  <2> QED
    BY <1>1, <2>1, <2>2 DEF Apply, ApplyBuild, Plan
<1>2. CASE ResetCommit
  <2>1. BootstrapCandidate.qsize \in Nat \ {0}
    BY <1>2, BootstrapCandidateFacts, QueryLogSizeFact DEF ResetCommit
  <2>2. Wipe(qlog) \in [capacity : Nat \ {0}, count : Nat]
    BY DEF TypeOK, Wipe
  <2>3. /\ active'.doc = BootstrapCandidate
        /\ qlog' = Resize(Wipe(qlog), BootstrapCandidate.qsize)
    BY <1>2 DEF ResetCommit, Snapshot
  <2> QED
    BY <2>1, <2>2, <2>3, ResizeType DEF LogFitsSnapshot
<1>3. CASE ResetRefused \/ ResetNTPFails \/ ResetHTTPFails \/ EditFile \/ UNCHANGED vars
  BY <1>3 DEF ResetRefused, ResetNTPFails, ResetHTTPFails, EditFile, vars, store,
     LogFitsSnapshot
<1>4. CASE Query
  BY <1>4 DEF Query, Insert, store, TypeOK, LogFitsSnapshot
<1> QED
  BY <1>1, <1>2, <1>3, <1>4 DEF Next, Reset

\* Whatever applies resize and resets wipe, and however resets fail, the query
\* log has the active snapshot's size (mutate.go:89-91, reset.go:98-103).
THEOREM LogFits == Spec => []LogFitsSnapshot
<1>1. Init => LogFitsSnapshot
  <2> SUFFICES ASSUME Init PROVE LogFitsSnapshot
    OBVIOUS
  <2>1. active.doc.qsize \in Nat
    BY TypeInit, QueryLogSizeFact DEF TypeOK, Snapshots
  <2> QED
    BY <2>1 DEF Init, LogFitsSnapshot
<1> QED
  BY <1>1, LogStep, TypeCorrect, PTL DEF Spec

-------------------------------------------------------------------------------
\* The cache has one entry per key and is not over its size.
CacheInv == Distinct(cache) /\ Len(cache) <= IdempMax

\* A plan says what its operations make of the document it names as its base.
Sound(p) ==
  LET after == applyOperations(p.previous.sha256, p.operations)
  IN  after # Rejected /\ p.candidate = Revision(Compile(after))

\* Every cached plan, alone or in an apply result, is sound and is of a body with
\* the fingerprint of its entry.
AnswersInv ==
  \A e \in Members(cache) :
    /\ e.plan # Nil => Sound(e.plan) /\ Fingerprint(e.plan.operations) = e.fp
    /\ e.apply # Nil => Sound(e.apply.plan) /\ Fingerprint(e.apply.plan.operations) = e.fp

\* What an audit event says of the apply result with its ID.
Attests(ev, r) ==
  ev.id = r.auditID => /\ ev.capability = "changes.apply"
                       /\ ev.revision = r.plan.candidate
                       /\ ev.previous = r.plan.previous

\* Every cached apply result is of one snapshot since the last reset.
ResultsInv ==
  /\ \A e \in Members(cache) : e.apply # Nil =>
       /\ e.apply.generation \in bootstrap.generation + 1 .. active.generation
       /\ e.apply.auditID = e.apply.generation
       /\ \A j \in DOMAIN audit.events : Attests(audit.events[j], e.apply)
  /\ \A e, f \in Members(cache) :
       /\ e.apply # Nil /\ f.apply # Nil
       /\ e.apply.generation = f.apply.generation
       => e.key = f.key

\* The four things a step does to the cache: it forgets or reorders, ...
Keeps ==
  /\ Members(cache') \subseteq Members(cache)
  /\ UNCHANGED <<active, bootstrap, audit>>

\* ... a plan fills its key's entry, ...
StoresPlan(req) ==
  LET fp == Fingerprint(req.body)
      p  == PlanOf(Candidate(req), req.body)
  IN  /\ Candidate(req) # Rejected
      /\ Members(cache') \subseteq
           {PlanEntry(cache, req.key, fp, p)} \cup {f \in Members(cache) : f.key # req.key}
      /\ UNCHANGED <<active, bootstrap, audit>>

\* What an apply that commits answers.
ResultOf(req) ==
  [plan |-> PlanOf(Candidate(req), req.body), generation |-> active.generation + 1,
   auditID |-> audit.nextID + 1]

\* ... an apply that found no result of its key's body fills it, if it has a key, ...
StoresApply(req) ==
  LET fp == Fingerprint(req.body)
  IN  /\ Candidate(req) # Rejected /\ Commit(req)
      /\ req.key # NoKey /\ Holds(cache, req.key) => Entry(cache, req.key).fp = fp
      /\ req.key # NoKey /\ Holds(cache, req.key) => Entry(cache, req.key).apply = Nil
      /\ Members(cache') \subseteq
           IF req.key = NoKey THEN Members(cache)
           ELSE {ApplyEntry(cache, req.key, fp, ResultOf(req))}
                  \cup {f \in Members(cache) : f.key # req.key}

\* ... or a reset forgets everything.
Forgets == ResetCommit /\ Members(cache') = {}

\* What a commit computes, in the terms above.
LEMMA CommitFacts ==
  ASSUME TypeOK, NEW req \in Requests, Candidate(req) # Rejected, Commit(req)
  PROVE  /\ active' = NextSnapshot(Candidate(req))
         /\ active'.doc = Candidate(req)
         /\ active'.generation = active.generation + 1
         /\ bootstrap' = bootstrap
         /\ audit' = recordAudit(audit, "changes.apply", Revision(Candidate(req)),
                                 Revision(active.doc))
         /\ cache' = StoreApply(cache, req.key, Fingerprint(req.body), ResultOf(req))
         /\ ResultOf(req) \in Results
<1>1. ResultOf(req) \in Results
  <2>1. PlanOf(Candidate(req), req.body) \in Plans
    BY CandidateFacts, SnapshotType, RequestType DEF PlanOf, Plans
  <2>2. active.generation \in Nat /\ audit.nextID \in Nat
    BY DEF TypeOK, Snapshots
  <2> QED
    BY <2>1, <2>2 DEF ResultOf, Results
<1> QED
  BY <1>1 DEF Commit, NextSnapshot, Snapshot, recordAudit, ResultOf

\* One step does one of the four, and keeps one entry per key.
LEMMA CacheStep ==
  ASSUME TypeOK, CacheInv, [Next]_vars
  PROVE  /\ CacheInv'
         /\ \/ Keeps
            \/ \E req \in Requests : StoresPlan(req) \/ StoresApply(req)
            \/ Forgets
<1> DEFINE Kinds == \/ Keeps
                    \/ \E req \in Requests : StoresPlan(req) \/ StoresApply(req)
                    \/ Forgets
<1>0. cache \in Seq(Entries) /\ Distinct(cache) /\ Len(cache) <= IdempMax /\ Len(cache) \in Nat
  BY DEF TypeOK, CacheInv
<1>1. ASSUME cache' = cache, UNCHANGED <<active, bootstrap, audit>>
      PROVE  CacheInv' /\ Keeps
  BY <1>1 DEF CacheInv, Keeps
<1>2. ASSUME NEW req \in Requests, Plan(req) \/ Apply(req)
      PROVE  CacheInv' /\ Kinds
  <2> DEFINE fp == Fingerprint(req.body)
             t == Touched(cache, req.key, fp)
  <2>1. CASE KeyReused(req)
    BY <1>1, <2>1 DEF KeyReused, vars
  <2>2. CASE CandidateError(req)
    <3>1. /\ t \in Seq(Entries) /\ Distinct(t) /\ Members(t) = Members(cache)
          /\ Len(t) = Len(cache)
      BY <1>0, TouchedType, TouchedMembers
    <3> HIDE DEF t
    <3>2. /\ Evict(t, req.key) \in Seq(Entries) /\ Distinct(Evict(t, req.key))
          /\ Members(Evict(t, req.key)) \subseteq Members(cache)
          /\ Len(Evict(t, req.key)) <= Len(t)
      BY <3>1, EvictType, EvictMembers
    <3>3. cache' = t \/ cache' = Evict(t, req.key)
      BY <2>2 DEF CandidateError, t
    <3>4. UNCHANGED <<active, bootstrap, audit>>
      BY <2>2 DEF CandidateError, store
    <3>5. Distinct(cache') /\ Len(cache') <= IdempMax /\ Members(cache') \subseteq Members(cache)
      <4>1. Len(Evict(t, req.key)) \in Nat
        BY <3>2
      <4> QED
        BY <1>0, <3>1, <3>2, <3>3, <4>1, IdempMaxAssumption
    <3> QED
      BY <3>4, <3>5 DEF CacheInv, Keeps
  <2>3. CASE PlanReplay(req) \/ ApplyReplay(req)
    <3>1. cache' = MoveFront(cache, req.key) /\ Holds(cache, req.key)
      BY <2>3 DEF PlanReplay, ApplyReplay, Hit
    <3>2. UNCHANGED <<active, bootstrap, audit>>
      BY <2>3 DEF PlanReplay, ApplyReplay, store
    <3> QED
      BY <1>0, <3>1, <3>2, MoveFrontMembers DEF CacheInv, Keeps
  <2>4. CASE /\ Candidate(req) # Rejected
             /\ cache' = StorePlan(cache, req.key, fp, PlanOf(Candidate(req), req.body))
             /\ UNCHANGED <<store, file, audit, qlog, listeners>>
    <3> DEFINE p == PlanOf(Candidate(req), req.body)
    <3>1. p \in Plans
      BY <2>4, CandidateFacts, SnapshotType, RequestType DEF PlanOf, Plans
    <3>2. req.key # NoKey => PlanEntry(cache, req.key, fp, p) \in Entries
      <4>1. Hit(cache, req.key, fp) => Entry(cache, req.key) \in Entries
        BY <1>0, PositionType DEF Hit
      <4> QED
        BY <3>1, <4>1, RequestType DEF PlanEntry, Entries
    <3> HIDE DEF p
    <3>3. /\ Distinct(cache') /\ Len(cache') <= IdempMax
          /\ req.key = NoKey => cache' = cache
          /\ req.key # NoKey =>
               Members(cache') \subseteq {PlanEntry(cache, req.key, fp, p)}
                                  \cup {f \in Members(cache) : f.key # req.key}
      BY <1>0, <2>4, <3>2, StorePlanMembers DEF p
    <3>4. UNCHANGED <<active, bootstrap, audit>>
      BY <2>4 DEF store
    <3>5. CASE req.key = NoKey
      BY <1>1, <3>3, <3>4, <3>5
    <3>6. CASE req.key # NoKey
      BY <2>4, <3>3, <3>4, <3>6 DEF CacheInv, StoresPlan, p
    <3> QED
      BY <3>5, <3>6
  <2>5. CASE /\ ~Reused(cache, req.key, fp)
             /\ Hit(cache, req.key, fp) => Entry(cache, req.key).apply = Nil
             /\ Candidate(req) # Rejected
             /\ Commit(req)
    <3>1. /\ cache' = StoreApply(cache, req.key, fp, ResultOf(req))
          /\ ResultOf(req) \in Results
      BY <2>5, CommitFacts
    <3>2. req.key # NoKey => ApplyEntry(cache, req.key, fp, ResultOf(req)) \in Entries
      <4>1. Hit(cache, req.key, fp) => Entry(cache, req.key) \in Entries
        BY <1>0, PositionType DEF Hit
      <4> QED
        BY <3>1, <4>1, RequestType DEF ApplyEntry, Entries
    <3>3. /\ Distinct(cache') /\ Len(cache') <= IdempMax
          /\ req.key = NoKey => cache' = cache
          /\ req.key # NoKey =>
               Members(cache') \subseteq {ApplyEntry(cache, req.key, fp, ResultOf(req))}
                                  \cup {f \in Members(cache) : f.key # req.key}
      BY <1>0, <3>1, <3>2, StoreApplyMembers
    <3>4. req.key # NoKey /\ Holds(cache, req.key) =>
            Entry(cache, req.key).fp = fp /\ Entry(cache, req.key).apply = Nil
      BY <2>5 DEF Reused, Hit
    <3> QED
      BY <2>5, <3>3, <3>4 DEF CacheInv, StoresApply
  <2> QED
    BY <1>2, <2>1, <2>2, <2>3, <2>4, <2>5 DEF Plan, PlanBuild, Apply, ApplyBuild
<1>3. CASE Reset
  <2>1. CASE ResetCommit
    <3>1. cache' = << >>
      BY <2>1 DEF ResetCommit, Clear
    <3>2. Distinct(cache') /\ Members(cache') = {} /\ Len(cache') <= IdempMax
      BY <3>1, IdempMaxAssumption DEF Distinct, Members
    <3> QED
      BY <2>1, <3>2 DEF CacheInv, Forgets
  <2>2. CASE ~ResetCommit
    BY <1>1, <1>3, <2>2 DEF Reset, ResetRefused, ResetNTPFails, ResetHTTPFails, store, vars
  <2> QED
    BY <2>1, <2>2
<1>4. CASE EditFile \/ Query \/ UNCHANGED vars
  BY <1>1, <1>4 DEF EditFile, Query, store, vars
<1> QED
  BY <1>2, <1>3, <1>4 DEF Next

-------------------------------------------------------------------------------
\* The plan that is built for a request is sound, and of the request's body.
LEMMA PlanOfSound ==
  ASSUME NEW req \in Requests, Candidate(req) # Rejected
  PROVE  /\ Sound(PlanOf(Candidate(req), req.body))
         /\ Fingerprint(PlanOf(Candidate(req), req.body).operations) = Fingerprint(req.body)
<1>1. /\ applyOperations(active.doc, req.body) # Rejected
      /\ Candidate(req) = Compile(applyOperations(active.doc, req.body))
  BY DEF Candidate
<1> QED
  BY <1>1 DEF Sound, PlanOf, Revision

\* One step caches sound plans only, under the fingerprint of their operations.
LEMMA AnswersStep ==
  ASSUME TypeOK, CacheInv, AnswersInv, [Next]_vars
  PROVE  AnswersInv'
<1> DEFINE Good(e) ==
      /\ e.plan # Nil => Sound(e.plan) /\ Fingerprint(e.plan.operations) = e.fp
      /\ e.apply # Nil => Sound(e.apply.plan) /\ Fingerprint(e.apply.plan.operations) = e.fp
<1>0. cache \in Seq(Entries) /\ Distinct(cache)
  BY DEF TypeOK, CacheInv
<1>1. \A e \in Members(cache) : Good(e)
  BY DEF AnswersInv
<1>2. \A k : Holds(cache, k) => Entry(cache, k) \in Members(cache)
  BY <1>0, EntryUnique
<1>3. ASSUME NEW req \in Requests, StoresPlan(req)
      PROVE  \A e \in Members(cache') : Good(e)
  <2> DEFINE p == PlanOf(Candidate(req), req.body)
             x == PlanEntry(cache, req.key, Fingerprint(req.body), p)
  <2>1. Sound(p) /\ Fingerprint(p.operations) = Fingerprint(req.body)
    BY <1>3, PlanOfSound DEF StoresPlan
  <2> HIDE DEF p
  <2>2. Good(x)
    BY <1>1, <1>2, <2>1 DEF PlanEntry, Hit
  <2> QED
    BY <1>1, <1>3, <2>2 DEF StoresPlan, p
<1>4. ASSUME NEW req \in Requests, StoresApply(req)
      PROVE  \A e \in Members(cache') : Good(e)
  <2> DEFINE r == ResultOf(req)
             x == ApplyEntry(cache, req.key, Fingerprint(req.body), r)
  <2>1. Sound(r.plan) /\ Fingerprint(r.plan.operations) = Fingerprint(req.body)
    BY <1>4, PlanOfSound DEF StoresApply, ResultOf
  <2> HIDE DEF r
  <2>2. Good(x)
    BY <1>1, <1>2, <2>1 DEF ApplyEntry, Hit
  <2> QED
    BY <1>1, <1>4, <2>2 DEF StoresApply, r
<1>5. \A e \in Members(cache') : Good(e)
  BY <1>1, <1>3, <1>4, CacheStep DEF Keeps, Forgets
<1> QED
  BY <1>5 DEF AnswersInv, Members, Sound

\* The events of the ring after a record are the new one and older ones.
LEMMA RecordedEvents ==
  ASSUME TypeOK, AuditTrail, NEW cap, NEW rev, NEW prev,
         audit' = recordAudit(audit, cap, rev, prev)
  PROVE  \A j \in DOMAIN audit'.events :
           LET ev == audit'.events[j]
           IN  \/ ev = [id |-> audit.nextID + 1, capability |-> cap,
                        revision |-> rev, previous |-> prev]
               \/ \E i \in DOMAIN audit.events : ev = audit.events[i] /\ ev.id <= audit.nextID
<1> DEFINE ev == [id |-> audit.nextID + 1, capability |-> cap,
                  revision |-> rev, previous |-> prev]
           old == audit.events
           S == Events \cup {ev}
           all == Append(old, ev)
<1>1. audit.nextID \in Nat /\ AuditMax \in Nat /\ old \in Seq(S) /\ ev \in S
  BY AuditMaxAssumption DEF TypeOK
<1>2. /\ all \in Seq(S) /\ Len(all) = Len(old) + 1 /\ all[Len(old) + 1] = ev
      /\ \A i \in 1 .. Len(old) : all[i] = old[i]
  BY <1>1
<1>3. \A i \in 1 .. Len(old) : old[i].id = audit.nextID - Len(old) + i
  BY DEF AuditTrail, Chained
<1>4. audit'.events = Newest(all, AuditMax)
  BY DEF recordAudit
<1> HIDE DEF ev, all, S
<1> DEFINE new == Newest(all, AuditMax)
<1>5. /\ new \in Seq(S) /\ Len(new) <= Len(all) /\ Len(new) \in Nat /\ Len(all) \in Nat
      /\ \A i \in 1 .. Len(new) : new[i] = all[Len(all) - Len(new) + i]
  BY <1>1, <1>2, NewestType, SMTT(30)
<1> HIDE DEF new
<1>6. ASSUME NEW j \in DOMAIN new
      PROVE  \/ new[j] = ev
             \/ \E i \in DOMAIN old : new[j] = old[i] /\ new[j].id <= audit.nextID
  <2>1. j \in 1 .. Len(new) /\ Len(old) \in Nat /\ DOMAIN old = 1 .. Len(old)
    BY <1>1, <1>5, <1>6
  <2> DEFINE i == Len(all) - Len(new) + j
  <2>2. i \in 1 .. Len(old) + 1 /\ new[j] = all[i]
    BY <1>2, <1>5, <2>1, SMTT(30)
  <2> HIDE DEF i
  <2>3. CASE i = Len(old) + 1
    BY <1>2, <2>2, <2>3
  <2>4. CASE i \in 1 .. Len(old)
    BY <1>1, <1>2, <1>3, <2>1, <2>2, <2>4, SMTT(30)
  <2> QED
    BY <2>1, <2>2, <2>3, <2>4
<1> QED
  BY <1>4, <1>6 DEF ev, new

\* One step keeps each cached result the result of one snapshot.
LEMMA ResultsStep ==
  ASSUME TypeOK, CacheInv, AuditTrail, DriftBaseline, ResultsInv, [Next]_vars
  PROVE  ResultsInv'
<1>0. /\ cache \in Seq(Entries) /\ Distinct(cache)
      /\ active.generation \in Nat /\ bootstrap.generation \in Nat
      /\ bootstrap.generation <= active.generation
      /\ audit.nextID = active.generation
  BY DEF TypeOK, CacheInv, Snapshots, AuditTrail, DriftBaseline
<1>1. CASE Keeps
  BY <1>1 DEF Keeps, ResultsInv, Attests, Members
<1>2. ASSUME NEW req \in Requests, StoresPlan(req)
      PROVE  ResultsInv'
  <2> DEFINE p == PlanOf(Candidate(req), req.body)
             x == PlanEntry(cache, req.key, Fingerprint(req.body), p)
  <2>1. /\ Members(cache') \subseteq {x} \cup {f \in Members(cache) : f.key # req.key}
        /\ UNCHANGED <<active, bootstrap, audit>>
    BY <1>2 DEF StoresPlan
  <2>2. x.key = req.key /\ (x.apply # Nil =>
          \E e \in Members(cache) : e.apply = x.apply /\ e.key = x.key)
    BY <1>0, EntryUnique DEF PlanEntry, Hit
  <2> HIDE DEF x
  <2>3. \A e \in Members(cache') : e.apply # Nil =>
          \E f \in Members(cache) : f.apply = e.apply /\ f.key = e.key
    BY <2>1, <2>2
  <2>4. ASSUME NEW e \in Members(cache'), e.apply # Nil
        PROVE  /\ e.apply.generation \in bootstrap'.generation + 1 .. active'.generation
               /\ e.apply.auditID = e.apply.generation
               /\ \A j \in DOMAIN audit'.events : Attests(audit'.events[j], e.apply)
    BY <2>1, <2>3, <2>4 DEF ResultsInv
  <2>5. ASSUME NEW e \in Members(cache'), NEW f \in Members(cache'),
               e.apply # Nil, f.apply # Nil, e.apply.generation = f.apply.generation
        PROVE  e.key = f.key
    BY <2>3, <2>5 DEF ResultsInv
  <2> QED
    BY <2>4, <2>5 DEF ResultsInv, Attests, Members
<1>3. ASSUME NEW req \in Requests, StoresApply(req)
      PROVE  ResultsInv'
  <2> DEFINE r == ResultOf(req)
             x == ApplyEntry(cache, req.key, Fingerprint(req.body), r)
  <2>1. /\ active'.generation = active.generation + 1 /\ bootstrap' = bootstrap
        /\ audit' = recordAudit(audit, "changes.apply", Revision(Candidate(req)),
                                Revision(active.doc))
    BY <1>3, CommitFacts DEF StoresApply
  <2>2. /\ r.generation = active.generation + 1 /\ r.auditID = active.generation + 1
        /\ r.plan.candidate = Revision(Candidate(req))
        /\ r.plan.previous = Revision(active.doc)
    BY <1>0 DEF ResultOf, PlanOf
  <2> HIDE DEF r
  <2>3. x.apply = r /\ x.key = req.key
    BY DEF ApplyEntry
  <2>4. \A e \in Members(cache') : e = x \/ e \in Members(cache)
    BY <1>3 DEF StoresApply, r
  <2> HIDE DEF x
  <2>5. \A j \in DOMAIN audit'.events :
          \/ /\ audit'.events[j].id = active.generation + 1
             /\ audit'.events[j].capability = "changes.apply"
             /\ audit'.events[j].revision = Revision(Candidate(req))
             /\ audit'.events[j].previous = Revision(active.doc)
          \/ \E i \in DOMAIN audit.events :
               audit'.events[j] = audit.events[i] /\ audit'.events[j].id <= active.generation
    <3> DEFINE ev == [id |-> audit.nextID + 1, capability |-> "changes.apply",
                      revision |-> Revision(Candidate(req)),
                      previous |-> Revision(active.doc)]
    <3>1. /\ ev.id = active.generation + 1 /\ ev.capability = "changes.apply"
          /\ ev.revision = Revision(Candidate(req)) /\ ev.previous = Revision(active.doc)
      BY <1>0
    <3> HIDE DEF ev
    <3>2. \A j \in DOMAIN audit'.events :
            \/ audit'.events[j] = ev
            \/ \E i \in DOMAIN audit.events :
                 audit'.events[j] = audit.events[i] /\ audit'.events[j].id <= audit.nextID
      BY <2>1, RecordedEvents DEF ev
    <3> QED
      BY <1>0, <3>1, <3>2
  <2>6. ASSUME NEW j \in DOMAIN audit'.events
        PROVE  Attests(audit'.events[j], r)
    <3>1. ~(active.generation + 1 <= active.generation)
      BY <1>0
    <3> QED
      BY <2>2, <2>5, <2>6, <3>1 DEF Attests
  <2>7. ASSUME NEW e \in Members(cache), e.apply # Nil
        PROVE  /\ e.apply.generation \in bootstrap.generation + 1 .. active.generation
               /\ e.apply.auditID = e.apply.generation
               /\ \A j \in DOMAIN audit'.events : Attests(audit'.events[j], e.apply)
    <3>1. /\ e.apply.generation \in bootstrap.generation + 1 .. active.generation
          /\ e.apply.auditID = e.apply.generation
          /\ \A j \in DOMAIN audit.events : Attests(audit.events[j], e.apply)
      BY <2>7 DEF ResultsInv
    <3>2. e.apply.auditID # active.generation + 1
      BY <1>0, <3>1
    <3> QED
      BY <2>5, <3>1, <3>2 DEF Attests
  <2>8. ASSUME NEW e \in Members(cache'), e.apply # Nil
        PROVE  /\ e.apply.generation \in bootstrap'.generation + 1 .. active'.generation
               /\ e.apply.auditID = e.apply.generation
               /\ \A j \in DOMAIN audit'.events : Attests(audit'.events[j], e.apply)
    <3>1. CASE e = x
      <4>1. e.apply = r
        BY <2>3, <3>1
      <4>2. r.generation \in bootstrap'.generation + 1 .. active'.generation
        BY <1>0, <2>1, <2>2
      <4> QED
        BY <2>2, <2>6, <4>1, <4>2
    <3>2. CASE e \in Members(cache)
      <4>1. bootstrap.generation + 1 .. active.generation
              \subseteq bootstrap'.generation + 1 .. active'.generation
        BY <1>0, <2>1
      <4> QED
        BY <2>7, <2>8, <3>2, <4>1
    <3> QED
      BY <2>4, <3>1, <3>2
  <2>9. \A e \in Members(cache) : e.apply # Nil => e.apply.generation # active.generation + 1
    BY <1>0, <2>7
  <2>10. ASSUME NEW e \in Members(cache'), NEW f \in Members(cache'),
                e.apply # Nil, f.apply # Nil, e.apply.generation = f.apply.generation
         PROVE  e.key = f.key
    BY <2>2, <2>3, <2>4, <2>9, <2>10 DEF ResultsInv
  <2> QED
    BY <2>8, <2>10 DEF ResultsInv, Attests, Members
<1>4. CASE Forgets
  BY <1>4 DEF Forgets, ResultsInv, Members
<1> QED
  BY <1>1, <1>2, <1>3, <1>4, CacheStep

-------------------------------------------------------------------------------
\* The inductive invariant of the cache: one entry per key, plans that say what
\* their operations make of their base, and each apply result the result of one
\* snapshot, which the audit event with its ID attests.
CacheIInv == CacheInv /\ AnswersInv /\ ResultsInv

\* The cache invariant holds throughout, with the trail and the baseline that
\* its results are compared with.
LEMMA CacheInductive == Spec => [](TypeOK /\ CacheIInv)
<1>1. Init => CacheIInv
  BY IdempMaxAssumption DEF Init, CacheIInv, CacheInv, AnswersInv, ResultsInv, Distinct,
     Members
<1>2. TypeOK /\ AuditTrail /\ DriftBaseline /\ CacheIInv /\ [Next]_vars => CacheIInv'
  BY CacheStep, AnswersStep, ResultsStep DEF CacheIInv
<1> QED
  BY <1>1, <1>2, TypeCorrect, AuditTrailIsComplete, DriftIsFromBootstrap, PTL DEF Spec

\* A retry with a key gets the result of a snapshot that was installed since the
\* last reset, the one whose audit event it names, and no two keys get the same
\* one (idempotency.go, mutate.go:126-135, reset.go:111).
THEOREM ResultsAreCurrent == Spec => []CachedResultsAreCurrent
<1>1. ASSUME TypeOK, CacheIInv
      PROVE  CachedResultsAreCurrent
  <2>0. Len(cache) <= IdempMax /\ Distinct(cache)
    BY <1>1 DEF CacheIInv, CacheInv
  <2>1. \A i \in DOMAIN cache : cache[i] \in Members(cache)
    BY DEF Members
  <2>2. ASSUME NEW i \in DOMAIN cache, cache[i].apply # Nil
        PROVE  LET r == cache[i].apply
               IN  /\ r.generation \in bootstrap.generation + 1 .. active.generation
                   /\ r.auditID = r.generation
                   /\ \A e \in DOMAIN audit.events : Attests(audit.events[e], r)
    BY <1>1, <2>1, <2>2 DEF CacheIInv, ResultsInv
  <2>3. ASSUME NEW i \in DOMAIN cache, NEW j \in DOMAIN cache,
               cache[i].apply # Nil, cache[j].apply # Nil,
               cache[i].apply.generation = cache[j].apply.generation
        PROVE  i = j
    <3>1. cache[i].key = cache[j].key
      BY <1>1, <2>1, <2>3 DEF CacheIInv, ResultsInv
    <3> QED
      BY <2>0, <3>1 DEF Distinct
  <2> QED
    BY <2>0, <2>2, <2>3 DEF CachedResultsAreCurrent, Distinct, Attests
<1> QED
  BY <1>1, CacheInductive, PTL

\* A cached plan whose base is active again, after whatever applies and resets,
\* still says what applying its operations would install (plan.go, compileCandidate).
THEOREM PlansPredict == Spec => []PlanPredictsApply
<1>1. ASSUME TypeOK, CacheIInv
      PROVE  PlanPredictsApply
  <2> SUFFICES ASSUME NEW i \in DOMAIN cache, cache[i].plan # Nil,
                      cache[i].plan.previous = Revision(active.doc)
               PROVE  LET p == cache[i].plan
                          after == applyOperations(active.doc, p.operations)
                      IN  after # Rejected /\ p.candidate = Revision(Compile(after))
    BY DEF PlanPredictsApply
  <2>1. Sound(cache[i].plan)
    BY <1>1 DEF CacheIInv, AnswersInv, Members
  <2>2. cache[i].plan.previous.sha256 = active.doc
    BY DEF Revision
  <2> QED
    BY <2>1, <2>2 DEF Sound
<1> QED
  BY <1>1, CacheInductive, PTL

\* Whatever bodies clients send, an answer that is replayed for one was computed
\* for a body with its fingerprint: entries are looked up and filled under the
\* fingerprint of the request alone (idempotency.go:40-83).
THEOREM ReplayIsOfTheRequest == Spec => []ReplayAnswersTheRequest
<1>1. ASSUME TypeOK, CacheIInv
      PROVE  ReplayAnswersTheRequest
  <2> SUFFICES ASSUME NEW k \in IdempKeys, NEW b \in Bodies, Hit(cache, k, Fingerprint(b))
               PROVE  LET e == Entry(cache, k)
                      IN  /\ e.plan # Nil => Fingerprint(e.plan.operations) = Fingerprint(b)
                          /\ e.apply # Nil =>
                               Fingerprint(e.apply.plan.operations) = Fingerprint(b)
    BY DEF ReplayAnswersTheRequest
  <2> DEFINE e == Entry(cache, k)
  <2>1. e \in Members(cache) /\ e.fp = Fingerprint(b)
    BY <1>1, EntryUnique, PositionType DEF CacheIInv, CacheInv, TypeOK, Hit
  <2> QED
    BY <1>1, <2>1 DEF CacheIInv, AnswersInv
<1> QED
  BY <1>1, CacheInductive, PTL

\* While a key's apply result is cached it never changes: an apply that finds one
\* installs nothing, and a plan with the key leaves it in place or forgets it
\* (mutate.go:48-68, idempotency.go:88-110).
THEOREM ResultsAreFinal == Spec => CachedResultIsFinal
<1>1. ASSUME TypeOK, TypeOK', CacheIInv, [Next]_vars,
             NEW k \in IdempKeys, Applied(cache, k), Applied(cache', k)
      PROVE  Entry(cache, k).apply = Entry(cache', k).apply
  <2> DEFINE e == Entry(cache, k)
             f == Entry(cache', k)
  <2>1. Distinct(cache) /\ cache \in Seq(Entries)
    BY <1>1 DEF CacheIInv, CacheInv, TypeOK
  <2>2. Distinct(cache') /\ cache' \in Seq(Entries)
    <3>1. CacheInv'
      BY <1>1, CacheStep DEF CacheIInv
    <3> QED
      BY <1>1, <3>1 DEF CacheInv, TypeOK, Distinct
  <2>3. /\ Holds(cache, k) /\ e.apply # Nil
        /\ \A g \in Members(cache) : g.key = k => g = e
    BY <1>1, <2>1, EntryUnique DEF Applied
  <2>4. f \in Members(cache') /\ f.key = k /\ f.apply # Nil
    BY <1>1, <2>2, EntryUnique DEF Applied
  <2> HIDE DEF f
  <2>5. CASE f \in Members(cache)
    BY <2>3, <2>4, <2>5 DEF f
  <2>6. ASSUME NEW req \in Requests, StoresPlan(req), f \notin Members(cache)
        PROVE  f.apply = e.apply
    <3> DEFINE x == PlanEntry(cache, req.key, Fingerprint(req.body),
                              PlanOf(Candidate(req), req.body))
    <3>1. f = x
      BY <2>4, <2>6 DEF StoresPlan
    <3>2. req.key = k /\ (x.apply = Entry(cache, req.key).apply \/ x.apply = Nil)
      BY <2>4, <3>1 DEF PlanEntry
    <3> QED
      BY <2>4, <3>1, <3>2
  <2>7. ASSUME NEW req \in Requests, StoresApply(req)
        PROVE  f \in Members(cache)
    <3>1. k # NoKey
      BY KeysAssumption
    <3>2. CASE req.key = NoKey
      BY <2>4, <2>7, <3>2 DEF StoresApply
    <3>3. CASE req.key # NoKey
      <4>1. req.key # k
        BY <2>3, <2>7, <3>1 DEF StoresApply
      <4>2. f # ApplyEntry(cache, req.key, Fingerprint(req.body), ResultOf(req))
        BY <2>4, <4>1 DEF ApplyEntry
      <4> QED
        BY <2>4, <2>7, <3>3, <4>2 DEF StoresApply
    <3> QED
      BY <3>2, <3>3
  <2>8. ~Forgets
    BY <2>4 DEF Forgets
  <2>9. Keeps => f \in Members(cache)
    BY <2>4 DEF Keeps
  <2>10. Keeps \/ \E req \in Requests : StoresPlan(req) \/ StoresApply(req)
    BY <1>1, <2>8, CacheStep DEF CacheIInv
  <2> QED
    BY <2>5, <2>6, <2>7, <2>9, <2>10 DEF f
<1>2. TypeOK /\ TypeOK' /\ CacheIInv /\ [Next]_vars
        => [\A k \in IdempKeys :
              Applied(cache, k) /\ Applied(cache', k) /\ bootstrap' = bootstrap
                => Entry(cache, k).apply = Entry(cache', k).apply]_vars
  BY <1>1
<1> QED
  BY <1>2, CacheInductive, PTL DEF Spec, CachedResultIsFinal
===============================================================================
