---------------------------- MODULE IdempListProofs ----------------------------
(***************************************************************************)
(* The map and the links of the idempotency cache show one sequence of     *)
(* entries: each helper of internal/app/idempotency.go that relinks them   *)
(* is an operator of IdempCache on that sequence, so the list is well      *)
(* linked at all times, and what it shows is the cache of IdempLru.        *)
(***************************************************************************)
EXTENDS IdempList, TLAPS, FiniteSetTheorems, WellFoundedInduction

\* Removing the element at a valid index of a sequence (removeLocked).
LEMMA WithoutType ==
  ASSUME NEW S, NEW c \in Seq(S), NEW i \in 1 .. Len(c)
  PROVE  /\ Without(c, i) \in Seq(S)
         /\ Len(Without(c, i)) = Len(c) - 1
  BY DEF Without

\* Putting an element in front of a sequence (insertFrontLocked).
LEMMA PrependType ==
  ASSUME NEW S, NEW c \in Seq(S), NEW e \in S
  PROVE  /\ Prepend(e, c) \in Seq(S)
         /\ Len(Prepend(e, c)) = Len(c) + 1
  BY DEF Prepend

\* A cached key has a position, and the entry there has that key.
LEMMA PositionType ==
  ASSUME NEW S, NEW c \in Seq(S), NEW k, Holds(c, k)
  PROVE  /\ Position(c, k) \in 1 .. Len(c)
         /\ Entry(c, k) \in S
         /\ Entry(c, k).key = k
  BY DEF Holds, Position, Entry

\* moveFrontLocked keeps the length.
LEMMA MoveFrontLength ==
  ASSUME NEW S, NEW c \in Seq(S), NEW k, Holds(c, k)
  PROVE  Len(MoveFront(c, k)) = Len(c)
<1> DEFINE w == Without(c, Position(c, k))
<1>1. Entry(c, k) \in S /\ w \in Seq(S) /\ Len(w) = Len(c) - 1 /\ Len(c) \in Nat
  BY WithoutType, PositionType
<1> HIDE DEF w
<1>2. Len(Prepend(Entry(c, k), w)) = Len(w) + 1
  BY <1>1, PrependType
<1> QED
  BY <1>1, <1>2 DEF MoveFront, w

\* The key of c's i-th entry, and nil beyond its ends.
KeyAt(c, i) == IF i \in 1 .. Len(c) THEN c[i].key ELSE NoKey

KeysOf(c) == {c[i].key : i \in 1 .. Len(c)}

\* The entries that a cache can hold, and the map's node for one between two
\* neighbours.
ListEntries == [key : Keys, fp : Fingerprints, plan : Plans \cup {Nil}, apply : Results \cup {Nil}]

Node(e, p, n) == [fp |-> e.fp, plan |-> e.plan, apply |-> e.apply, prev |-> p, next |-> n]

\* The links of l run through the entries of c in their order.
Links(l, c) ==
  /\ l = [entries |-> l.entries, head |-> l.head, tail |-> l.tail]
  /\ c \in Seq(ListEntries)
  /\ \A i, j \in 1 .. Len(c) : c[i].key = c[j].key => i = j
  /\ l.head = KeyAt(c, 1)
  /\ l.tail = KeyAt(c, Len(c))
  /\ \A i \in 1 .. Len(c) :
       /\ c[i].key \in DOMAIN l.entries
       /\ l.entries[c[i].key] = Node(c[i], KeyAt(c, i - 1), KeyAt(c, i + 1))

\* The map holds nothing else.
Shows(l, c) == Links(l, c) /\ DOMAIN l.entries = KeysOf(c)

\* A set of numbers has a least one.
LEMMA LeastNumber ==
  ASSUME NEW S, S \subseteq Nat, S # {}
  PROVE  \E i \in S : \A j \in S : i <= j
<1> DEFINE Less == OpToRel(<, Nat)
<1>1. \A i, j \in Nat : j < i => <<j, i>> \in Less
  BY DEF OpToRel
<1>2. IsWellFoundedOn(Less, Nat)
  BY NatLessThanWellFounded
<1> HIDE DEF Less
<1>3. PICK i \in S : \A j \in S : <<j, i>> \notin Less
  BY <1>2, WFMin
<1>4. \A j \in S : ~(j < i)
  BY <1>1, <1>3
<1> QED
  BY <1>3, <1>4

\* A walk is what starts at its end and goes on from each key to the linked one.
LEMMA WalkIs ==
  ASSUME NEW n \in Nat, NEW end, NEW link, NEW S, NEW w \in [1 .. n -> S],
         1 \in 1 .. n => w[1] = end,
         \A i \in 1 .. n : i # 1 => w[i - 1] \in DOMAIN entries /\ entries[w[i - 1]][link] = w[i]
  PROVE  Walk(end, link, n) = w
<1> DEFINE W == Walk(end, link, n)
           Rec(f) == [i \in 1 .. n |->
                        IF i = 1 THEN end
                        ELSE IF Cached(f[i - 1]) THEN entries[f[i - 1]][link] ELSE NoKey]
<1>1. W = CHOOSE f : f = Rec(f)
  BY DEF Walk
<1> HIDE DEF W
<1> USE DEF Cached
<1>2. w = Rec(w)
  <2>1. ASSUME NEW i \in 1 .. n
        PROVE  w[i] = Rec(w)[i]
    <3>1. CASE i = 1
      BY <3>1
    <3>2. CASE i # 1
      BY <3>2
    <3> QED
      BY <3>1, <3>2
  <2>2. Rec(w) = [i \in 1 .. n |-> Rec(w)[i]]
    OBVIOUS
  <2> HIDE DEF Rec
  <2> QED
    BY <2>1, <2>2
<1>3. W = Rec(W)
  BY <1>1, <1>2
<1>4. \A i \in 1 .. n : (i = 1 \/ W[i - 1] = w[i - 1]) => W[i] = w[i]
  <2> SUFFICES ASSUME NEW i \in 1 .. n, i = 1 \/ W[i - 1] = w[i - 1]
               PROVE  W[i] = w[i]
    OBVIOUS
  <2>1. CASE i = 1
    BY <1>3, <2>1
  <2>2. CASE i # 1
    <3>1. W[i] = IF Cached(W[i - 1]) THEN entries[W[i - 1]][link] ELSE NoKey
      BY <1>3, <2>2
    <3> QED
      BY <2>2, <3>1
  <2> QED
    BY <2>1, <2>2
<1>5. /\ DOMAIN W = 1 .. n /\ W = [i \in DOMAIN W |-> W[i]]
      /\ DOMAIN w = 1 .. n /\ w = [i \in DOMAIN w |-> w[i]]
  BY <1>3
<1> HIDE DEF Rec
<1> DEFINE D == {i \in 1 .. n : W[i] # w[i]}
<1>6. D = {}
  <2> SUFFICES ASSUME D # {} PROVE FALSE
    OBVIOUS
  <2>1. D \subseteq Nat
    OBVIOUS
  <2> HIDE DEF D
  <2>2. PICK i \in D : \A j \in D : i <= j
    BY <2>1, LeastNumber
  <2> USE DEF D
  <2>3. i = 1 \/ (i - 1 \in 1 .. n /\ i - 1 \notin D)
    BY <2>2
  <2> QED
    BY <1>4, <2>2, <2>3
<1> QED
  BY <1>5, <1>6 DEF W

\* A place of the list has a key, and beyond its ends there is nil.
LEMMA KeyAtType ==
  ASSUME NEW l, NEW c, Links(l, c), NEW i
  PROVE  KeyAt(c, i) \in Keys \cup {NoKey}
<1>1. CASE i \in 1 .. Len(c)
  <2>1. c[i] \in ListEntries
    BY <1>1 DEF Links
  <2> QED
    BY <1>1, <2>1 DEF KeyAt, ListEntries
<1>2. CASE i \notin 1 .. Len(c)
  BY <1>2 DEF KeyAt
<1> QED
  BY <1>1, <1>2

\* The entry at a place of the list, and its neighbours.
LEMMA NodeAt ==
  ASSUME NEW l, NEW c, Links(l, c), NEW i \in 1 .. Len(c)
  PROVE  /\ KeyAt(c, i) = c[i].key
         /\ KeyAt(c, i) \in DOMAIN l.entries
         /\ l.entries[KeyAt(c, i)] = Node(c[i], KeyAt(c, i - 1), KeyAt(c, i + 1))
         /\ l.entries[KeyAt(c, i)].prev = KeyAt(c, i - 1)
         /\ l.entries[KeyAt(c, i)].next = KeyAt(c, i + 1)
<1>1. KeyAt(c, i) = c[i].key
  BY DEF KeyAt
<1>2. l.entries[c[i].key] = Node(c[i], KeyAt(c, i - 1), KeyAt(c, i + 1)) /\ c[i].key \in DOMAIN l.entries
  BY DEF Links
<1>3. \A p, q : Node(c[i], p, q).prev = p /\ Node(c[i], p, q).next = q
  BY DEF Node
<1> QED
  BY <1>1, <1>2, <1>3

\* Following the next links from head, one meets the entries in order.
LEMMA WalkForwards ==
  ASSUME NEW c, Links(Here, c), NEW n \in Nat, n <= Len(c) + 1
  PROVE  Walk(head, "next", n) = [i \in 1 .. n |-> KeyAt(c, i)]
<1> DEFINE w == [i \in 1 .. n |-> KeyAt(c, i)]
<1>1. head = KeyAt(c, 1) /\ Len(c) \in Nat
  BY DEF Links, Here
<1>2. ASSUME NEW i \in 1 .. n, i # 1
      PROVE  Cached(w[i - 1]) /\ entries[w[i - 1]].next = w[i]
  <2> DEFINE j == i - 1
  <2>1. j \in 1 .. Len(c) /\ j \in 1 .. n /\ j + 1 = i
    BY <1>1, <1>2
  <2>2. Cached(KeyAt(c, j)) /\ entries[KeyAt(c, j)].next = KeyAt(c, j + 1)
    BY <2>1, NodeAt DEF Here, Cached
  <2> QED
    BY <2>1, <2>2
<1> DEFINE K == Keys \cup {NoKey}
<1>3. w \in [1 .. n -> K] /\ (1 \in 1 .. n => w[1] = head)
  BY <1>1, KeyAtType
<1> HIDE DEF w, K
<1>4. Walk(head, "next", n) = w
  <2>1. \A i \in 1 .. n : i # 1 => w[i - 1] \in DOMAIN entries /\ entries[w[i - 1]]["next"] = w[i]
    BY <1>2 DEF Cached
  <2> QED
    BY <2>1, <1>3, WalkIs, ZenonT(60)
<1> QED
  BY <1>4 DEF w

\* Following the prev links from tail, one meets them in the opposite order.
LEMMA WalkBackwards ==
  ASSUME NEW c, Links(Here, c), NEW n \in Nat, n <= Len(c) + 1
  PROVE  Walk(tail, "prev", n) = [i \in 1 .. n |-> KeyAt(c, Len(c) + 1 - i)]
<1> DEFINE w == [i \in 1 .. n |-> KeyAt(c, Len(c) + 1 - i)]
<1>1. tail = KeyAt(c, Len(c)) /\ Len(c) \in Nat
  BY DEF Links, Here
<1>2. ASSUME NEW i \in 1 .. n, i # 1
      PROVE  Cached(w[i - 1]) /\ entries[w[i - 1]].prev = w[i]
  <2> DEFINE j == Len(c) + 1 - (i - 1)
  <2>1. j \in 1 .. Len(c) /\ i - 1 \in 1 .. n /\ j - 1 = Len(c) + 1 - i
    BY <1>1, <1>2
  <2> HIDE DEF j
  <2>2. Cached(KeyAt(c, j)) /\ entries[KeyAt(c, j)].prev = KeyAt(c, j - 1)
    BY <2>1, NodeAt DEF Here, Cached
  <2> USE DEF j
  <2> QED
    BY <2>1, <2>2
<1> DEFINE K == Keys \cup {NoKey}
<1>3. w \in [1 .. n -> K] /\ (1 \in 1 .. n => w[1] = tail)
  BY <1>1, KeyAtType
<1> HIDE DEF w, K
<1>4. Walk(tail, "prev", n) = w
  <2>1. \A i \in 1 .. n : i # 1 => w[i - 1] \in DOMAIN entries /\ entries[w[i - 1]]["prev"] = w[i]
    BY <1>2 DEF Cached
  <2> QED
    BY <2>1, <1>3, WalkIs, ZenonT(60)
<1> QED
  BY <1>4 DEF w

-------------------------------------------------------------------------------
\* Setting one link of one entry (unlinkLocked's assignments).
LEMMA SetLinks ==
  ASSUME NEW es, NEW k, NEW v, NEW j \in DOMAIN es, NEW e, NEW p, NEW n, es[j] = Node(e, p, n)
  PROVE  /\ DOMAIN SetNext(es, k, v) = DOMAIN es
         /\ SetNext(es, k, v)[j] = Node(e, p, IF j = k /\ k # NoKey THEN v ELSE n)
         /\ DOMAIN SetPrev(es, k, v) = DOMAIN es
         /\ SetPrev(es, k, v)[j] = Node(e, IF j = k /\ k # NoKey THEN v ELSE p, n)
<1>1. /\ [es[j] EXCEPT !.next = v] = Node(e, p, v)
      /\ [es[j] EXCEPT !.prev = v] = Node(e, v, n)
  BY DEF Node
<1>2. /\ [es EXCEPT ![k].next = v][j] = IF j = k THEN [es[j] EXCEPT !.next = v] ELSE es[j]
      /\ [es EXCEPT ![k].prev = v][j] = IF j = k THEN [es[j] EXCEPT !.prev = v] ELSE es[j]
  OBVIOUS
<1>3. DOMAIN SetNext(es, k, v) = DOMAIN es /\ DOMAIN SetPrev(es, k, v) = DOMAIN es
  BY DEF SetNext, SetPrev
<1>4. SetNext(es, k, v)[j] = Node(e, p, IF j = k /\ k # NoKey THEN v ELSE n)
  BY <1>1, <1>2 DEF SetNext
<1>5. SetPrev(es, k, v)[j] = Node(e, IF j = k /\ k # NoKey THEN v ELSE p, n)
  BY <1>1, <1>2 DEF SetPrev
<1> QED
  BY <1>3, <1>4, <1>5

\* Keys are distinct and none is nil: a place is found by its key, and nil
\* stands for the places beyond the ends only.
LEMMA KeyAtPlace ==
  ASSUME NEW l, NEW c, Links(l, c), NEW i \in Int, NEW j \in 1 .. Len(c)
  PROVE  /\ KeyAt(c, j) = c[j].key /\ KeyAt(c, j) # NoKey /\ KeyAt(c, j) \in Keys
         /\ KeyAt(c, i) = KeyAt(c, j) <=> i = j
         /\ KeyAt(c, i) = NoKey <=> i \notin 1 .. Len(c)
<1>1. ASSUME NEW m \in 1 .. Len(c)
      PROVE  c[m].key \in Keys /\ c[m].key # NoKey
  <2>1. c[m] \in ListEntries
    BY DEF Links
  <2> QED
    BY <2>1, ListAssumption DEF ListEntries
<1>2. \A m \in 1 .. Len(c) : c[m].key = c[j].key => m = j
  BY DEF Links
<1> QED
  BY <1>1, <1>2 DEF KeyAt

\* The keys of the list without one of its entries (unlinkLocked).
LEMMA KeyAtWithout ==
  ASSUME NEW S, NEW c \in Seq(S), NEW i \in 1 .. Len(c), NEW m \in Nat
  PROVE  KeyAt(Without(c, i), m) = IF m < i THEN KeyAt(c, m) ELSE KeyAt(c, m + 1)
<1>1. Len(c) \in Nat /\ Len(Without(c, i)) = Len(c) - 1
  BY WithoutType
<1>2. CASE m \in 1 .. Len(c) - 1
  <2>1. Without(c, i)[m] = IF m < i THEN c[m] ELSE c[m + 1]
    BY <1>2 DEF Without
  <2> QED
    BY <1>1, <1>2, <2>1 DEF KeyAt
<1>3. CASE m \notin 1 .. Len(c) - 1
  BY <1>1, <1>3 DEF KeyAt
<1> QED
  BY <1>2, <1>3

\* An entry in front of a list moves its keys one place further.
LEMMA KeyAtPrepend ==
  ASSUME NEW S, NEW c \in Seq(S), NEW e \in S, NEW m \in Nat
  PROVE  KeyAt(Prepend(e, c), m) = IF m = 1 THEN e.key ELSE KeyAt(c, m - 1)
<1>1. Len(c) \in Nat /\ Len(Prepend(e, c)) = Len(c) + 1
  BY PrependType
<1>2. CASE m \in 1 .. Len(c) + 1
  <2>1. Prepend(e, c)[m] = IF m = 1 THEN e ELSE c[m - 1]
    BY <1>2 DEF Prepend
  <2> QED
    BY <1>1, <1>2, <2>1 DEF KeyAt
<1>3. CASE m \notin 1 .. Len(c) + 1
  BY <1>1, <1>3 DEF KeyAt
<1> QED
  BY <1>2, <1>3

\* Without one of its entries a list has the same ones at their new places, and
\* not the key of that one.
LEMMA WithoutPlace ==
  ASSUME NEW l, NEW c, Links(l, c), NEW i \in 1 .. Len(c)
  PROVE  /\ Without(c, i) \in Seq(ListEntries) /\ Len(Without(c, i)) = Len(c) - 1
         /\ \A j \in 1 .. Len(c) - 1 : Without(c, i)[j] = IF j < i THEN c[j] ELSE c[j + 1]
         /\ \A j, m \in 1 .. Len(c) - 1 : Without(c, i)[j].key = Without(c, i)[m].key => j = m
         /\ KeysOf(Without(c, i)) = KeysOf(c) \ {c[i].key}
<1> DEFINE w == Without(c, i)
<1>1. c \in Seq(ListEntries) /\ Len(c) \in Nat
  BY DEF Links
<1>2. w \in Seq(ListEntries) /\ Len(w) = Len(c) - 1
  BY <1>1, WithoutType
<1>3. \A j \in 1 .. Len(c) - 1 : w[j] = IF j < i THEN c[j] ELSE c[j + 1]
  BY <1>1 DEF Without
<1>4. \A j, m \in 1 .. Len(c) : c[j].key = c[m].key => j = m
  BY DEF Links
<1> HIDE DEF w
<1>5. \A j, m \in 1 .. Len(c) - 1 : w[j].key = w[m].key => j = m
  <2> SUFFICES ASSUME NEW j \in 1 .. Len(c) - 1, NEW m \in 1 .. Len(c) - 1, w[j].key = w[m].key
               PROVE  j = m
    OBVIOUS
  <2> DEFINE jj == IF j < i THEN j ELSE j + 1
             mm == IF m < i THEN m ELSE m + 1
  <2>1. jj \in 1 .. Len(c) /\ mm \in 1 .. Len(c) /\ w[j] = c[jj] /\ w[m] = c[mm]
    BY <1>1, <1>3
  <2>2. jj = mm
    <3> HIDE DEF jj, mm
    <3> QED
      BY <1>4, <2>1
  <2> QED
    BY <2>2
<1>6. KeysOf(w) \subseteq KeysOf(c) \ {c[i].key}
  <2> SUFFICES ASSUME NEW j \in 1 .. Len(w)
               PROVE  w[j].key \in KeysOf(c) \ {c[i].key}
    BY DEF KeysOf
  <2> DEFINE jj == IF j < i THEN j ELSE j + 1
  <2>1. jj \in 1 .. Len(c) /\ w[j] = c[jj] /\ jj # i
    BY <1>1, <1>2, <1>3
  <2> HIDE DEF jj
  <2> QED
    BY <1>4, <2>1 DEF KeysOf
<1>7. KeysOf(c) \ {c[i].key} \subseteq KeysOf(w)
  <2> SUFFICES ASSUME NEW m \in 1 .. Len(c), m # i
               PROVE  c[m].key \in KeysOf(w)
    BY DEF KeysOf
  <2> DEFINE j == IF m < i THEN m ELSE m - 1
  <2>1. j \in 1 .. Len(w) /\ w[j] = c[m]
    BY <1>1, <1>2, <1>3
  <2> HIDE DEF j
  <2> QED
    BY <2>1 DEF KeysOf
<1> QED
  BY <1>2, <1>3, <1>5, <1>6, <1>7 DEF w

\* unlinkLocked takes an entry out of the list, and leaves it in the map with
\* nil links.
LEMMA Unlinked ==
  ASSUME NEW l, NEW c, Links(l, c), NEW i \in 1 .. Len(c)
  PROVE  LET u == unlinkLocked(l, c[i].key)
         IN  /\ DOMAIN u.entries = DOMAIN l.entries
             /\ u.entries[c[i].key] = Node(c[i], NoKey, NoKey)
             /\ Links(u, Without(c, i))
<1> DEFINE es == l.entries
           k == c[i].key
           before == KeyAt(c, i - 1)
           after == KeyAt(c, i + 1)
           s == SetNext(es, before, after)
           r == SetPrev(s, after, before)
           u == unlinkLocked(l, k)
           w == Without(c, i)
<1>1. c \in Seq(ListEntries) /\ Len(c) \in Nat /\ i \in Int
  BY DEF Links
<1>2. k \in DOMAIN es /\ es[k] = Node(c[i], before, after)
  BY DEF Links
<1>3. es[k].prev = before /\ es[k].next = after
  BY <1>2 DEF Node
<1>4. u = [entries |-> [r EXCEPT ![k].prev = NoKey, ![k].next = NoKey],
           head |-> IF before = NoKey THEN after ELSE l.head,
           tail |-> IF after = NoKey THEN before ELSE l.tail]
  BY <1>3 DEF unlinkLocked
<1>5. DOMAIN s = DOMAIN es /\ DOMAIN r = DOMAIN es
  BY DEF SetNext, SetPrev
<1> HIDE DEF u, w
<1>6. ASSUME NEW j \in 1 .. Len(c)
      PROVE  /\ KeyAt(c, j) = c[j].key /\ c[j].key \in DOMAIN es
             /\ r[c[j].key] = Node(c[j], IF j = i + 1 THEN before ELSE KeyAt(c, j - 1),
                                        IF j = i - 1 THEN after ELSE KeyAt(c, j + 1))
  <2>1. /\ c[j].key \in DOMAIN es /\ KeyAt(c, j) = c[j].key
        /\ es[c[j].key] = Node(c[j], KeyAt(c, j - 1), KeyAt(c, j + 1))
    BY NodeAt
  <2>2. /\ c[j].key = before /\ before # NoKey <=> j = i - 1
        /\ c[j].key = after /\ after # NoKey <=> j = i + 1
    BY <1>1, <2>1, KeyAtPlace
  <2> HIDE DEF before, after, es, s, r
  <2>3. s[c[j].key] = Node(c[j], KeyAt(c, j - 1), IF j = i - 1 THEN after ELSE KeyAt(c, j + 1))
    BY <2>1, <2>2, SetLinks DEF s
  <2>4. r[c[j].key] = Node(c[j], IF j = i + 1 THEN before ELSE KeyAt(c, j - 1),
                                 IF j = i - 1 THEN after ELSE KeyAt(c, j + 1))
    BY <1>5, <2>1, <2>2, <2>3, SetLinks DEF r
  <2> QED
    BY <2>1, <2>4
<1> HIDE DEF s, r, es
<1>7. DOMAIN u.entries = DOMAIN es
  BY <1>4, <1>5
<1>8. u.entries[k] = Node(c[i], NoKey, NoKey)
  <2>1. r[k] = Node(c[i], before, after)
    BY <1>1, <1>6
  <2>2. u.entries[k] = [r[k] EXCEPT !.prev = NoKey, !.next = NoKey]
    BY <1>2, <1>4, <1>5
  <2>3. [Node(c[i], before, after) EXCEPT !.prev = NoKey] = Node(c[i], NoKey, after)
    BY DEF Node
  <2>4. [Node(c[i], NoKey, after) EXCEPT !.next = NoKey] = Node(c[i], NoKey, NoKey)
    BY DEF Node
  <2>5. u.entries[k] = [[r[k] EXCEPT !.prev = NoKey] EXCEPT !.next = NoKey]
    BY <2>2
  <2> QED
    BY <2>1, <2>3, <2>4, <2>5
<1>9. /\ w \in Seq(ListEntries) /\ Len(w) = Len(c) - 1
      /\ \A j \in 1 .. Len(w) : w[j] = IF j < i THEN c[j] ELSE c[j + 1]
      /\ \A j, m \in 1 .. Len(w) : w[j].key = w[m].key => j = m
  BY WithoutPlace DEF w
<1>10. \A m \in Nat : KeyAt(w, m) = IF m < i THEN KeyAt(c, m) ELSE KeyAt(c, m + 1)
  BY <1>1, KeyAtWithout DEF w
<1>11. u.head = KeyAt(w, 1) /\ u.tail = KeyAt(w, Len(w))
  <2>1. l.head = KeyAt(c, 1) /\ l.tail = KeyAt(c, Len(c))
    BY DEF Links
  <2>2. before = NoKey <=> i = 1
    <3>1. i - 1 \in Int /\ (i - 1 \notin 1 .. Len(c) <=> i = 1)
      BY <1>1
    <3> QED
      BY <3>1, KeyAtPlace
  <2>3. after = NoKey <=> i = Len(c)
    <3>1. i + 1 \in Int /\ (i + 1 \notin 1 .. Len(c) <=> i = Len(c))
      BY <1>1
    <3> QED
      BY <3>1, KeyAtPlace
  <2>4. KeyAt(w, 1) = IF 1 < i THEN KeyAt(c, 1) ELSE KeyAt(c, 2)
    BY <1>10
  <2>5. KeyAt(w, Len(c) - 1) = IF Len(c) - 1 < i THEN KeyAt(c, Len(c) - 1) ELSE KeyAt(c, Len(c))
    BY <1>1, <1>10
  <2> QED
    BY <1>1, <1>4, <1>9, <2>1, <2>2, <2>3, <2>4, <2>5
<1>12. ASSUME NEW j \in 1 .. Len(w)
       PROVE  /\ w[j].key \in DOMAIN u.entries
              /\ u.entries[w[j].key] = Node(w[j], KeyAt(w, j - 1), KeyAt(w, j + 1))
  <2> DEFINE m == IF j < i THEN j ELSE j + 1
  <2>1. m \in 1 .. Len(c) /\ m # i /\ w[j] = c[m]
    BY <1>1, <1>9
  <2>2. /\ KeyAt(w, j - 1) = IF j - 1 < i THEN KeyAt(c, j - 1) ELSE KeyAt(c, j - 1 + 1)
        /\ KeyAt(w, j + 1) = IF j + 1 < i THEN KeyAt(c, j + 1) ELSE KeyAt(c, j + 1 + 1)
    BY <1>1, <1>9, <1>10, SMTT(30)
  <2>3. /\ KeyAt(w, j - 1) = IF m = i + 1 THEN before ELSE KeyAt(c, m - 1)
        /\ KeyAt(w, j + 1) = IF m = i - 1 THEN after ELSE KeyAt(c, m + 1)
    <3>1. CASE j < i
      <4>1. m = j /\ (j + 1 < i <=> j # i - 1) /\ j + 1 + 1 = j + 2 /\ (j = i - 1 => j + 1 + 1 = i + 1)
        BY <1>1, <3>1
      <4> QED
        BY <1>1, <2>2, <3>1, <4>1
    <3>2. CASE ~(j < i)
      <4>1. m = j + 1 /\ (j - 1 < i <=> j = i) /\ j - 1 + 1 = j /\ m - 1 = j /\ m # i - 1 /\ j + 1 + 1 = m + 1
        BY <1>1, <3>2
      <4> QED
        BY <1>1, <2>2, <3>2, <4>1
    <3> QED
      BY <3>1, <3>2
  <2> HIDE DEF m, before, after
  <2>4. c[m].key # k
    BY <2>1 DEF Links
  <2>5. u.entries[c[m].key] = r[c[m].key]
    BY <1>4, <1>5, <1>6, <2>1, <2>4
  <2> QED
    BY <1>6, <1>7, <2>1, <2>3, <2>5
<1>13. Links(u, w)
  <2>1. u = [entries |-> u.entries, head |-> u.head, tail |-> u.tail]
    BY <1>4
  <2> QED
    BY <1>9, <1>11, <1>12, <2>1 DEF Links
<1> QED
  BY <1>7, <1>8, <1>13 DEF u, w, es

\* A list with one more entry in front has the others one place further.
LEMMA PrependPlace ==
  ASSUME NEW l, NEW c, Links(l, c), NEW e \in ListEntries, e.key \notin KeysOf(c)
  PROVE  /\ Prepend(e, c) \in Seq(ListEntries) /\ Len(Prepend(e, c)) = Len(c) + 1
         /\ \A j \in 1 .. Len(c) + 1 : Prepend(e, c)[j] = IF j = 1 THEN e ELSE c[j - 1]
         /\ \A j, m \in 1 .. Len(c) + 1 : Prepend(e, c)[j].key = Prepend(e, c)[m].key => j = m
         /\ KeysOf(Prepend(e, c)) = KeysOf(c) \cup {e.key}
<1> DEFINE d == Prepend(e, c)
<1>1. c \in Seq(ListEntries) /\ Len(c) \in Nat
  BY DEF Links
<1>2. d \in Seq(ListEntries) /\ Len(d) = Len(c) + 1
  BY <1>1, PrependType
<1>3. \A j \in 1 .. Len(c) + 1 : d[j] = IF j = 1 THEN e ELSE c[j - 1]
  BY <1>1 DEF Prepend
<1>4. \A j, m \in 1 .. Len(c) : c[j].key = c[m].key => j = m
  BY DEF Links
<1> HIDE DEF d
<1>5. ASSUME NEW j \in 1 .. Len(c) + 1, j # 1
      PROVE  j - 1 \in 1 .. Len(c) /\ d[j] = c[j - 1] /\ d[j].key \in KeysOf(c)
  <2>1. j - 1 \in 1 .. Len(c) /\ d[j] = c[j - 1]
    BY <1>1, <1>3, <1>5
  <2> QED
    BY <2>1 DEF KeysOf
<1>6. d[1] = e /\ 1 \in 1 .. Len(d)
  BY <1>1, <1>2, <1>3
<1>7. \A j, m \in 1 .. Len(c) + 1 : d[j].key = d[m].key => j = m
  <2> SUFFICES ASSUME NEW j \in 1 .. Len(c) + 1, NEW m \in 1 .. Len(c) + 1, d[j].key = d[m].key
               PROVE  j = m
    OBVIOUS
  <2>1. CASE j = 1 \/ m = 1
    BY <1>5, <1>6, <2>1
  <2>2. CASE j # 1 /\ m # 1
    <3>1. j - 1 = m - 1
      BY <1>4, <1>5, <2>2
    <3> QED
      BY <3>1
  <2> QED
    BY <2>1, <2>2
<1>8. KeysOf(d) \subseteq KeysOf(c) \cup {e.key}
  BY <1>2, <1>5, <1>6 DEF KeysOf
<1>9. KeysOf(c) \cup {e.key} \subseteq KeysOf(d)
  <2>1. e.key \in KeysOf(d)
    BY <1>6 DEF KeysOf
  <2>2. ASSUME NEW m \in 1 .. Len(c)
        PROVE  c[m].key \in KeysOf(d)
    <3>1. m + 1 \in 1 .. Len(d) /\ d[m + 1] = c[m]
      BY <1>1, <1>2, <1>3
    <3> QED
      BY <3>1 DEF KeysOf
  <2> QED
    BY <2>1, <2>2 DEF KeysOf
<1> QED
  BY <1>2, <1>3, <1>7, <1>8, <1>9 DEF d

\* Linking an entry that is in the map but not in the list puts it in front.
LEMMA Linked ==
  ASSUME NEW l, NEW c, Links(l, c), NEW e \in ListEntries, e.key \notin KeysOf(c),
         NEW p, NEW n, e.key \in DOMAIN l.entries, l.entries[e.key] = Node(e, p, n)
  PROVE  LET f == LinkFront(l, e.key)
         IN  DOMAIN f.entries = DOMAIN l.entries /\ Links(f, Prepend(e, c))
<1> DEFINE es == l.entries
           k == e.key
           first == KeyAt(c, 1)
           s == [es EXCEPT ![k].prev = NoKey, ![k].next = first]
           r == SetPrev(s, first, k)
           f == LinkFront(l, k)
           d == Prepend(e, c)
<1>1. c \in Seq(ListEntries) /\ Len(c) \in Nat /\ l.head = first /\ l.tail = KeyAt(c, Len(c))
  BY DEF Links
<1>2. f = [entries |-> r, head |-> k, tail |-> IF l.tail = NoKey THEN k ELSE l.tail]
  BY <1>1 DEF LinkFront
<1>3. DOMAIN s = DOMAIN es /\ DOMAIN r = DOMAIN es
  BY DEF SetPrev
<1>4. first # k /\ k # NoKey /\ (first = NoKey <=> Len(c) = 0)
  <2>1. k \in Keys
    BY DEF ListEntries
  <2>2. CASE Len(c) = 0
    <3>1. first = NoKey
      BY <2>2 DEF KeyAt
    <3> QED
      BY <2>1, <2>2, <3>1, ListAssumption
  <2>3. CASE Len(c) # 0
    <3>1. 1 \in 1 .. Len(c)
      BY <1>1, <2>3
    <3>2. first = c[1].key /\ first # NoKey
      BY <3>1, KeyAtPlace
    <3>3. first # k
      BY <3>1, <3>2 DEF KeysOf
    <3> QED
      BY <2>1, <2>3, <3>2, <3>3, ListAssumption
  <2> QED
    BY <2>2, <2>3
<1> HIDE DEF f, d
<1>5. s[k] = Node(e, NoKey, first)
  <2>1. s[k] = [[es[k] EXCEPT !.prev = NoKey] EXCEPT !.next = first]
    OBVIOUS
  <2>2. [Node(e, p, n) EXCEPT !.prev = NoKey] = Node(e, NoKey, n)
    BY DEF Node
  <2>3. [Node(e, NoKey, n) EXCEPT !.next = first] = Node(e, NoKey, first)
    BY DEF Node
  <2> QED
    BY <2>1, <2>2, <2>3
<1>6. r[k] = Node(e, NoKey, first)
  <2> HIDE DEF s
  <2> QED
    BY <1>3, <1>4, <1>5, SetLinks DEF r
<1>7. ASSUME NEW j \in 1 .. Len(c)
      PROVE  /\ KeyAt(c, j) = c[j].key /\ c[j].key \in DOMAIN es
             /\ r[c[j].key] = Node(c[j], IF j = 1 THEN k ELSE KeyAt(c, j - 1), KeyAt(c, j + 1))
  <2>1. /\ c[j].key \in DOMAIN es /\ KeyAt(c, j) = c[j].key
        /\ es[c[j].key] = Node(c[j], KeyAt(c, j - 1), KeyAt(c, j + 1))
    BY NodeAt
  <2>2. c[j].key # k
    BY DEF KeysOf
  <2>3. s[c[j].key] = Node(c[j], KeyAt(c, j - 1), KeyAt(c, j + 1))
    BY <2>1, <2>2
  <2>4. c[j].key = first /\ first # NoKey <=> j = 1
    BY <2>1, KeyAtPlace
  <2> HIDE DEF s, first
  <2> QED
    BY <1>3, <2>1, <2>3, <2>4, SetLinks DEF r
<1> HIDE DEF r, s
<1>8. /\ d \in Seq(ListEntries) /\ Len(d) = Len(c) + 1
      /\ \A j \in 1 .. Len(d) : d[j] = IF j = 1 THEN e ELSE c[j - 1]
      /\ \A j, m \in 1 .. Len(d) : d[j].key = d[m].key => j = m
  BY PrependPlace DEF d
<1>9. \A m \in Nat : KeyAt(d, m) = IF m = 1 THEN k ELSE KeyAt(c, m - 1)
  BY <1>1, KeyAtPrepend DEF d
<1>10. f.head = KeyAt(d, 1) /\ f.tail = KeyAt(d, Len(d))
  <2>1. KeyAt(d, 1) = k /\ KeyAt(d, Len(c) + 1) = IF Len(c) = 0 THEN k ELSE KeyAt(c, Len(c))
    BY <1>1, <1>9
  <2>2. l.tail = NoKey <=> Len(c) = 0
    BY <1>1, KeyAtPlace DEF KeyAt
  <2> QED
    BY <1>1, <1>2, <1>8, <2>1, <2>2
<1>11. ASSUME NEW j \in 1 .. Len(d)
       PROVE  /\ d[j].key \in DOMAIN f.entries
              /\ f.entries[d[j].key] = Node(d[j], KeyAt(d, j - 1), KeyAt(d, j + 1))
  <2>1. CASE j = 1
    <3>1. KeyAt(d, 0) = NoKey /\ KeyAt(d, 2) = first
      BY <1>1, <1>9 DEF KeyAt
    <3> QED
      BY <1>2, <1>3, <1>6, <1>8, <2>1, <3>1
  <2>2. CASE j # 1
    <3> DEFINE m == j - 1
    <3>1. m \in 1 .. Len(c) /\ d[j] = c[m] /\ m + 1 = j
      BY <1>1, <1>8, <2>2
    <3>2. KeyAt(d, j - 1) = IF m = 1 THEN k ELSE KeyAt(c, m - 1)
      BY <1>9, <3>1
    <3>3. KeyAt(d, j + 1) = KeyAt(c, m + 1)
      BY <1>9, <3>1
    <3> HIDE DEF m
    <3> QED
      BY <1>2, <1>3, <1>7, <3>1, <3>2, <3>3
  <2> QED
    BY <2>1, <2>2
<1>12. Links(f, d)
  <2>1. f = [entries |-> f.entries, head |-> f.head, tail |-> f.tail]
    BY <1>2
  <2> QED
    BY <1>8, <1>10, <1>11, <2>1 DEF Links
<1> QED
  BY <1>2, <1>3, <1>12 DEF f, d

-------------------------------------------------------------------------------
\* A cached key has its place in the list.
LEMMA PlaceOf ==
  ASSUME NEW l, NEW c, Shows(l, c), NEW k
  PROVE  /\ Holds(c, k) <=> k \in DOMAIN l.entries
         /\ Holds(c, k) => /\ Position(c, k) \in 1 .. Len(c)
                           /\ c[Position(c, k)] = Entry(c, k)
                           /\ Entry(c, k) \in ListEntries /\ Entry(c, k).key = k
                           /\ \E p, n : l.entries[k] = Node(Entry(c, k), p, n)
<1>1. c \in Seq(ListEntries)
  BY DEF Shows, Links
<1>2. Holds(c, k) <=> k \in DOMAIN l.entries
  BY <1>1 DEF Shows, KeysOf, Holds
<1>3. ASSUME Holds(c, k)
      PROVE  /\ Position(c, k) \in 1 .. Len(c)
             /\ c[Position(c, k)] = Entry(c, k)
             /\ Entry(c, k) \in ListEntries /\ Entry(c, k).key = k
             /\ \E p, n : l.entries[k] = Node(Entry(c, k), p, n)
  <2> DEFINE i == Position(c, k)
  <2>1. i \in 1 .. Len(c) /\ Entry(c, k) \in ListEntries /\ Entry(c, k).key = k
    BY <1>1, <1>3, PositionType
  <2>2. c[i] = Entry(c, k)
    BY DEF Entry
  <2> HIDE DEF i
  <2>3. l.entries[c[i].key] = Node(c[i], KeyAt(c, i - 1), KeyAt(c, i + 1))
    BY <2>1 DEF Shows, Links
  <2> QED
    BY <2>1, <2>2, <2>3 DEF i
<1> QED
  BY <1>2, <1>3

\* The list and the map depend on the links and the map's domain only.
LEMMA SameShown ==
  ASSUME NEW l, NEW c, Links(l, c), NEW m, m.head = l.head, m.tail = l.tail,
         m = [entries |-> m.entries, head |-> m.head, tail |-> m.tail],
         KeysOf(c) \subseteq DOMAIN m.entries,
         \A k \in KeysOf(c) : m.entries[k] = l.entries[k]
  PROVE  Links(m, c)
  BY DEF Links, KeysOf

\* The map holds as many entries as the list.
LEMMA Sized ==
  ASSUME NEW l, NEW c, Shows(l, c)
  PROVE  Cardinality(DOMAIN l.entries) = Len(c)
<1> DEFINE f == [i \in 1 .. Len(c) |-> c[i].key]
<1>1. Len(c) \in Nat /\ \A i, j \in 1 .. Len(c) : c[i].key = c[j].key => i = j
  BY DEF Shows, Links
<1>2. f \in Bijection(1 .. Len(c), KeysOf(c))
  <2>1. f \in [1 .. Len(c) -> KeysOf(c)]
    BY DEF KeysOf
  <2>2. \A i, j \in 1 .. Len(c) : f[i] = f[j] => i = j
    BY <1>1
  <2>3. \A k \in KeysOf(c) : \E i \in 1 .. Len(c) : f[i] = k
    BY DEF KeysOf
  <2> HIDE DEF f
  <2> QED
    BY <2>1, <2>2, <2>3 DEF Bijection, Injection, Surjection, IsInjective
<1>3. IsFiniteSet(1 .. Len(c)) /\ Cardinality(1 .. Len(c)) = Len(c)
  <2>1. 1 \in Int /\ Len(c) \in Int /\ (1 > Len(c) => Len(c) = 0) /\ Len(c) - 1 + 1 = Len(c)
    BY <1>1
  <2> QED
    BY <2>1, FS_Interval
<1>4. Cardinality(KeysOf(c)) = Len(c)
  BY <1>2, <1>3, FS_Bijection DEF ExistsBijection
<1> QED
  BY <1>4 DEF Shows

\* removeLocked is the removal from the sequence.
LEMMA Removed ==
  ASSUME NEW l, NEW c, Shows(l, c), NEW i \in 1 .. Len(c)
  PROVE  Shows(removeLocked(l, c[i].key), Without(c, i))
<1> DEFINE k == c[i].key
           u == unlinkLocked(l, k)
           m == removeLocked(l, k)
           w == Without(c, i)
<1>1. DOMAIN u.entries = DOMAIN l.entries /\ Links(u, w)
  BY Unlinked DEF Shows
<1>2. KeysOf(w) = KeysOf(c) \ {k}
  BY WithoutPlace DEF Shows
<1>3. /\ m = [entries |-> m.entries, head |-> m.head, tail |-> m.tail]
      /\ m.head = u.head /\ m.tail = u.tail
      /\ m.entries = [j \in DOMAIN u.entries \ {k} |-> u.entries[j]]
  <2>1. u = [entries |-> u.entries, head |-> u.head, tail |-> u.tail]
    BY DEF unlinkLocked
  <2>2. m = [u EXCEPT !.entries = [j \in DOMAIN u.entries \ {k} |-> u.entries[j]]]
    BY DEF removeLocked
  <2> HIDE DEF u, m, k
  <2> QED
    BY <2>1, <2>2
<1>4. DOMAIN l.entries = KeysOf(c)
  BY DEF Shows
<1> HIDE DEF k, u, m, w
<1>5. DOMAIN m.entries = KeysOf(w) /\ \A j \in KeysOf(w) : m.entries[j] = u.entries[j]
  BY <1>1, <1>2, <1>3, <1>4
<1>6. Links(m, w)
  BY <1>1, <1>3, <1>5, SameShown
<1> QED
  BY <1>5, <1>6 DEF Shows, k, m, w

\* moveFrontLocked is the move in the sequence.
LEMMA MovedFront ==
  ASSUME NEW l, NEW c, Shows(l, c), NEW k, Holds(c, k)
  PROVE  Shows(moveFrontLocked(l, k), MoveFront(c, k))
<1> DEFINE i == Position(c, k)
           w == Without(c, i)
           u == unlinkLocked(l, k)
           e == Entry(c, k)
           d == Prepend(e, w)
<1>1. i \in 1 .. Len(c) /\ c[i] = e /\ e \in ListEntries /\ e.key = k
  BY PlaceOf
<1>2. Links(l, c) /\ DOMAIN l.entries = KeysOf(c) /\ Len(c) \in Nat /\ c \in Seq(ListEntries)
  BY DEF Shows, Links
<1>3. MoveFront(c, k) = d
  BY DEF MoveFront
<1> HIDE DEF i, e, w, u, d
<1>4. KeysOf(w) = KeysOf(c) \ {k} /\ k \in KeysOf(c)
  BY <1>1, <1>2, WithoutPlace DEF w, KeysOf
<1>5. CASE k = l.head
  <2>1. l.head = KeyAt(c, 1)
    BY <1>2 DEF Links
  <2>2. i = 1
    <3>1. 1 \in Int /\ KeyAt(c, i) = k
      BY <1>1 DEF KeyAt
    <3>2. KeyAt(c, 1) = KeyAt(c, i) <=> 1 = i
      BY <1>1, <1>2, <3>1, KeyAtPlace
    <3> QED
      BY <1>5, <2>1, <3>1, <3>2
  <2>3. d = c
    <3>1. /\ w \in Seq(ListEntries) /\ Len(w) = Len(c) - 1
          /\ \A j \in 1 .. Len(c) - 1 : w[j] = c[j + 1]
      BY <1>1, <1>2, <2>2, WithoutPlace DEF w
    <3>2. d \in Seq(ListEntries) /\ Len(d) = Len(c)
      BY <1>1, <1>2, <3>1, PrependType DEF d
    <3>3. ASSUME NEW j \in 1 .. Len(c)
          PROVE  d[j] = c[j]
      <4>1. d[j] = IF j = 1 THEN e ELSE w[j - 1]
        BY <1>2, <3>1 DEF d, Prepend
      <4>2. CASE j = 1
        BY <1>1, <2>2, <4>1, <4>2
      <4>3. CASE j # 1
        <5>1. j - 1 \in 1 .. Len(c) - 1 /\ (j - 1) + 1 = j
          BY <1>2, <4>3
        <5> QED
          BY <3>1, <4>1, <4>3, <5>1
      <4> QED
        BY <4>2, <4>3
    <3> QED
      BY <1>2, <3>2, <3>3
  <2>4. moveFrontLocked(l, k) = l
    BY <1>5 DEF moveFrontLocked
  <2> QED
    BY <1>3, <2>3, <2>4
<1>6. CASE k # l.head
  <2>1. /\ DOMAIN u.entries = KeysOf(c) /\ Links(u, w)
        /\ u.entries[k] = Node(e, NoKey, NoKey)
    BY <1>1, <1>2, Unlinked DEF u, w
  <2>2. DOMAIN LinkFront(u, k).entries = KeysOf(c) /\ Links(LinkFront(u, k), d)
    BY <1>1, <1>4, <2>1, Linked DEF d
  <2>3. KeysOf(d) = KeysOf(c)
    <3>1. e.key \notin KeysOf(w)
      BY <1>1, <1>4
    <3>2. KeysOf(d) = KeysOf(w) \cup {e.key}
      BY <1>1, <2>1, <3>1, PrependPlace DEF d
    <3> QED
      BY <1>1, <1>4, <3>2
  <2>4. moveFrontLocked(l, k) = LinkFront(u, k)
    BY <1>6 DEF moveFrontLocked, u
  <2> QED
    BY <1>3, <2>2, <2>3, <2>4 DEF Shows
<1> QED
  BY <1>5, <1>6

\* insertFrontLocked is the insertion into the sequence.
LEMMA Inserted ==
  ASSUME NEW l, NEW c, Shows(l, c), Len(c) <= IdempMax, NEW e \in ListEntries
  PROVE  /\ Shows(insertFrontLocked(l, e.key, e.fp, e.plan, e.apply), InsertFront(c, e))
         /\ Len(InsertFront(c, e)) <= IdempMax
<1> DEFINE k == e.key
           gone == IF k \in DOMAIN l.entries THEN removeLocked(l, k) ELSE l
           b == Evict(c, k)
           new == [fp |-> e.fp, plan |-> e.plan, apply |-> e.apply, prev |-> NoKey, next |-> NoKey]
           put == [gone EXCEPT !.entries =
                     [j \in DOMAIN gone.entries \cup {k} |-> IF j = k THEN new ELSE gone.entries[j]]]
           all == LinkFront(put, k)
           d == Prepend(e, b)
<1>1. Shows(gone, b) /\ k \notin KeysOf(b) /\ Len(b) <= Len(c)
  <2>1. CASE Holds(c, k)
    <3>1. /\ k \in DOMAIN l.entries /\ Position(c, k) \in 1 .. Len(c)
          /\ c[Position(c, k)].key = k
      BY <2>1, PlaceOf
    <3>2. b = Without(c, Position(c, k)) /\ gone = removeLocked(l, k)
      BY <2>1, <3>1 DEF Evict
    <3>3. Shows(gone, b)
      BY <3>1, <3>2, Removed
    <3>4. KeysOf(b) = KeysOf(c) \ {k} /\ Len(b) = Len(c) - 1
      BY <3>1, <3>2, WithoutPlace DEF Shows
    <3>5. Len(c) \in Nat
      BY DEF Shows, Links
    <3> QED
      BY <3>3, <3>4, <3>5
  <2>2. CASE ~Holds(c, k)
    <3>1. k \notin DOMAIN l.entries
      BY <2>2, PlaceOf
    <3>2. Len(c) \in Nat
      BY DEF Shows, Links
    <3> QED
      BY <2>2, <3>1, <3>2 DEF Evict, Shows
  <2> QED
    BY <2>1, <2>2
<1>2. /\ put = [entries |-> put.entries, head |-> put.head, tail |-> put.tail]
      /\ put.head = gone.head /\ put.tail = gone.tail
      /\ put.entries = [j \in DOMAIN gone.entries \cup {k} |-> IF j = k THEN new ELSE gone.entries[j]]
  <2>1. gone = [entries |-> gone.entries, head |-> gone.head, tail |-> gone.tail]
    BY <1>1 DEF Shows, Links
  <2> HIDE DEF gone, new
  <2> QED
    BY <2>1
<1>3. new = Node(e, NoKey, NoKey)
  BY DEF Node
<1>4. insertFrontLocked(l, k, e.fp, e.plan, e.apply) =
        IF Cardinality(DOMAIN all.entries) > IdempMax /\ all.tail # NoKey
        THEN removeLocked(all, all.tail) ELSE all
  BY DEF insertFrontLocked
<1>5. InsertFront(c, e) = IF Len(d) > IdempMax THEN Without(d, Len(d)) ELSE d
  BY DEF InsertFront
<1> HIDE DEF gone, b, new, put, all, d
<1>6. DOMAIN gone.entries = KeysOf(b) /\ Links(gone, b)
  BY <1>1 DEF Shows
<1>7. DOMAIN put.entries = KeysOf(b) \cup {k} /\ put.entries[k] = Node(e, NoKey, NoKey)
  BY <1>2, <1>3, <1>6
<1>8. Links(put, b)
  <2>1. \A j \in KeysOf(b) : put.entries[j] = gone.entries[j]
    BY <1>1, <1>2, <1>6
  <2> QED
    BY <1>2, <1>6, <1>7, <2>1, SameShown
<1>9. DOMAIN all.entries = KeysOf(b) \cup {k} /\ Links(all, d)
  BY <1>1, <1>7, <1>8, Linked DEF all, d
<1>10. KeysOf(d) = KeysOf(b) \cup {k} /\ Len(d) = Len(b) + 1
  BY <1>1, <1>6, PrependPlace DEF d
<1>11. Shows(all, d)
  BY <1>9, <1>10 DEF Shows
<1>12. Cardinality(DOMAIN all.entries) = Len(d)
  BY <1>11, Sized
<1>13. Len(b) \in Nat /\ Len(c) \in Nat
  BY <1>6 DEF Links, Shows
<1>14. Len(d) \in 1 .. Len(d) /\ Len(d) <= IdempMax + 1 /\ IdempMax \in Nat
  BY <1>1, <1>10, <1>13, IdempMaxAssumption
<1>15. all.tail = d[Len(d)].key /\ all.tail # NoKey
  <2>1. all.tail = KeyAt(d, Len(d))
    BY <1>9 DEF Links
  <2> QED
    BY <1>9, <1>14, <2>1, KeyAtPlace
<1>16. CASE Len(d) > IdempMax
  <2>1. Shows(removeLocked(all, all.tail), Without(d, Len(d)))
    BY <1>11, <1>14, <1>15, Removed
  <2>2. Len(Without(d, Len(d))) = Len(d) - 1
    BY <1>9, <1>14, WithoutPlace
  <2> QED
    BY <1>4, <1>5, <1>12, <1>14, <1>15, <1>16, <2>1, <2>2 DEF k
<1>17. CASE ~(Len(d) > IdempMax)
  BY <1>4, <1>5, <1>11, <1>12, <1>14, <1>17 DEF k
<1> QED
  BY <1>16, <1>17

\* Filling in the cached entry of a key, which moves it to the front.
LEMMA Filled ==
  ASSUME NEW l, NEW c, Shows(l, c), Len(c) <= IdempMax, NEW k, Holds(c, k),
         NEW e \in ListEntries, e.key = k,
         NEW m, m = [entries |-> m.entries, head |-> m.head, tail |-> m.tail],
         m.head = l.head, m.tail = l.tail, DOMAIN m.entries = DOMAIN l.entries,
         \A j \in DOMAIN l.entries : j # k => m.entries[j] = l.entries[j],
         m.entries[k] = Node(e, l.entries[k].prev, l.entries[k].next)
  PROVE  LET d == Prepend(e, Without(c, Position(c, k)))
         IN  Shows(moveFrontLocked(m, k), d) /\ Len(d) <= IdempMax
<1> DEFINE i == Position(c, k)
           b == [c EXCEPT ![i] = e]
           w == Without(c, i)
<1>1. i \in 1 .. Len(c) /\ c[i].key = k
  BY PlaceOf
<1>2. Links(l, c) /\ DOMAIN l.entries = KeysOf(c) /\ Len(c) \in Nat /\ c \in Seq(ListEntries)
  BY DEF Shows, Links
<1> HIDE DEF i
<1>3. /\ b \in Seq(ListEntries) /\ Len(b) = Len(c)
      /\ b[i] = e
      /\ \A j \in 1 .. Len(c) : b[j].key = c[j].key /\ (j # i => b[j] = c[j])
  BY <1>1, <1>2
<1> HIDE DEF b, w
<1>4. KeysOf(b) = KeysOf(c) /\ \A j : KeyAt(b, j) = KeyAt(c, j)
  BY <1>3 DEF KeysOf, KeyAt
<1>5. \A p, q \in 1 .. Len(c) : c[p].key = c[q].key => p = q
  BY <1>2 DEF Links
<1>6. ASSUME NEW j \in 1 .. Len(b)
      PROVE  /\ b[j].key \in DOMAIN m.entries
             /\ m.entries[b[j].key] = Node(b[j], KeyAt(b, j - 1), KeyAt(b, j + 1))
  <2>1. /\ c[j].key \in DOMAIN l.entries /\ c[j].key = KeyAt(c, j)
        /\ l.entries[c[j].key] = Node(c[j], KeyAt(c, j - 1), KeyAt(c, j + 1))
        /\ l.entries[c[j].key].prev = KeyAt(c, j - 1)
        /\ l.entries[c[j].key].next = KeyAt(c, j + 1)
    BY <1>2, <1>3, NodeAt
  <2>2. CASE j = i
    BY <1>1, <1>3, <1>4, <2>1, <2>2
  <2>3. CASE j # i
    <3>1. c[j].key # k
      BY <1>1, <1>3, <1>5, <2>3
    <3> QED
      BY <1>3, <1>4, <2>1, <2>3, <3>1
  <2> QED
    BY <2>2, <2>3
<1>7. Links(m, b)
  <2>1. m.head = KeyAt(b, 1) /\ m.tail = KeyAt(b, Len(b))
    BY <1>2, <1>3, <1>4 DEF Links
  <2>2. \A p, q \in 1 .. Len(b) : b[p].key = b[q].key => p = q
    BY <1>3, <1>5
  <2> QED
    BY <1>3, <1>6, <2>1, <2>2 DEF Links
<1>8. Shows(m, b)
  BY <1>2, <1>4, <1>7 DEF Shows
<1>9. Holds(b, k) /\ Position(b, k) = i /\ Entry(b, k) = e
  <2>1. Holds(b, k)
    BY <1>1, <1>3 DEF Holds
  <2>2. Position(b, k) \in 1 .. Len(b) /\ b[Position(b, k)] = Entry(b, k) /\ Entry(b, k).key = k
    BY <1>8, <2>1, PlaceOf
  <2> QED
    BY <1>1, <1>3, <1>5, <2>1, <2>2
<1>10. Without(b, i) = w
  <2>1. /\ w \in Seq(ListEntries) /\ Len(w) = Len(c) - 1
        /\ \A j \in 1 .. Len(c) - 1 : w[j] = IF j < i THEN c[j] ELSE c[j + 1]
    BY <1>1, <1>2, WithoutPlace DEF w
  <2>2. /\ Without(b, i) \in Seq(ListEntries) /\ Len(Without(b, i)) = Len(b) - 1
        /\ \A j \in 1 .. Len(b) - 1 : Without(b, i)[j] = IF j < i THEN b[j] ELSE b[j + 1]
    <3>1. i \in 1 .. Len(b)
      BY <1>1, <1>3
    <3> QED
      BY <1>7, <3>1, WithoutPlace
  <2> DEFINE v == Without(b, i)
  <2> HIDE DEF v
  <2>3. ASSUME NEW j \in 1 .. Len(c) - 1
        PROVE  v[j] = w[j]
    <3>1. j \in 1 .. Len(c) /\ j + 1 \in 1 .. Len(c)
      BY <1>2
    <3>2. v[j] = IF j < i THEN b[j] ELSE b[j + 1]
      BY <1>3, <2>2 DEF v
    <3>3. w[j] = IF j < i THEN c[j] ELSE c[j + 1]
      BY <2>1
    <3>4. CASE j < i
      BY <1>3, <3>1, <3>2, <3>3, <3>4
    <3>5. CASE ~(j < i)
      <4>1. j + 1 # i
        BY <1>1, <3>5
      <4> QED
        BY <1>3, <3>1, <3>2, <3>3, <3>5, <4>1
    <3> QED
      BY <3>4, <3>5
  <2>4. v \in Seq(ListEntries) /\ Len(v) = Len(w)
    BY <1>3, <2>1, <2>2 DEF v
  <2>5. v = w
    BY <1>2, <2>1, <2>3, <2>4
  <2> QED
    BY <2>5 DEF v
<1>11. MoveFront(b, k) = Prepend(e, w)
  BY <1>9, <1>10 DEF MoveFront
<1>12. Shows(moveFrontLocked(m, k), Prepend(e, w))
  BY <1>8, <1>9, <1>11, MovedFront
<1>13. Len(Prepend(e, w)) = Len(c)
  <2>1. w \in Seq(ListEntries) /\ Len(w) = Len(c) - 1
    BY <1>1, <1>2, WithoutPlace DEF w
  <2> QED
    BY <1>2, <2>1, PrependType
<1> QED
  BY <1>12, <1>13 DEF w, i

-------------------------------------------------------------------------------
\* What the links of the three fields show is what Listed reads off them.
LEMMA ListedIs ==
  \A c : Shows(Here, c) => Listed = c /\ WellLinked
<1> SUFFICES ASSUME NEW c, Shows(Here, c)
             PROVE  Listed = c /\ WellLinked
  OBVIOUS
<1>1. Links(Here, c) /\ c \in Seq(ListEntries) /\ Len(c) \in Nat /\ DOMAIN entries = KeysOf(c)
  BY DEF Shows, Links, Here
<1>2. Count = Len(c)
  BY Sized DEF Count, Here
<1> DEFINE short == Walk(head, "next", Count)
           there == Walk(head, "next", Count + 1)
           back == Walk(tail, "prev", Count + 1)
<1>3. /\ short = [i \in 1 .. Len(c) |-> KeyAt(c, i)]
      /\ there = [i \in 1 .. Len(c) + 1 |-> KeyAt(c, i)]
      /\ back = [i \in 1 .. Len(c) + 1 |-> KeyAt(c, Len(c) + 1 - i)]
  BY <1>1, <1>2, WalkForwards, WalkBackwards
<1>4. Listed = c
  <2> DEFINE seen == [i \in 1 .. Count |->
                        IF Cached(short[i])
                        THEN [key |-> short[i], fp |-> entries[short[i]].fp,
                              plan |-> entries[short[i]].plan, apply |-> entries[short[i]].apply]
                        ELSE Nil]
  <2>1. Listed = seen
    BY DEF Listed
  <2> HIDE DEF short
  <2>2. ASSUME NEW i \in 1 .. Len(c)
        PROVE  seen[i] = c[i]
    <3>1. /\ KeyAt(c, i) = c[i].key /\ c[i].key \in DOMAIN entries
          /\ entries[c[i].key] = Node(c[i], KeyAt(c, i - 1), KeyAt(c, i + 1))
      BY <1>1, NodeAt DEF Here
    <3>2. /\ entries[c[i].key].fp = c[i].fp /\ entries[c[i].key].plan = c[i].plan
          /\ entries[c[i].key].apply = c[i].apply
      BY <3>1 DEF Node
    <3>3. short[i] = c[i].key
      BY <1>3, <3>1
    <3>4. seen[i] = [key |-> c[i].key, fp |-> c[i].fp, plan |-> c[i].plan, apply |-> c[i].apply]
      BY <1>2, <3>1, <3>2, <3>3 DEF Cached
    <3>5. c[i] \in ListEntries
      BY <1>1
    <3> QED
      BY <3>4, <3>5 DEF ListEntries
  <2>3. seen = [i \in 1 .. Len(c) |-> seen[i]]
    BY <1>2
  <2> HIDE DEF seen
  <2>4. c = [i \in 1 .. Len(c) |-> c[i]]
    BY <1>1
  <2> QED
    BY <2>1, <2>2, <2>3, <2>4
<1>5. WellLinked
  <2> HIDE DEF there, back
  <2>1. {there[i] : i \in 1 .. Count} = DOMAIN entries
    <3>1. \A i \in 1 .. Len(c) : there[i] = c[i].key
      BY <1>1, <1>3 DEF KeyAt
    <3> QED
      BY <1>1, <1>2, <3>1 DEF KeysOf
  <2>2. there[Count + 1] = NoKey /\ back[Count + 1] = NoKey
    BY <1>1, <1>2, <1>3 DEF KeyAt
  <2>3. \A i \in 1 .. Count : there[i] = back[Count + 1 - i]
    BY <1>1, <1>2, <1>3
  <2> QED
    BY <2>1, <2>2, <2>3 DEF WellLinked, there, back
<1> QED
  BY <1>4, <1>5

\* The same of the three fields after a step.
LEMMA ListedIsNext ==
  (\A c : Shows(Here, c) => Listed = c /\ WellLinked)'
BY ListedIs, PTL

\* The links show a sequence within its bound: the cache.
IInv == Shows(Here, Listed) /\ Len(Listed) <= IdempMax

\* Where a helper's result is stored, it is what the fields show next.
LEMMA Stored ==
  ASSUME NEW l, NEW c, Shows(l, c), Becomes(l)
  PROVE  Shows(Here, c)'
<1>1. /\ Here' = [entries |-> Here'.entries, head |-> Here'.head, tail |-> Here'.tail]
      /\ Here'.entries = l.entries /\ Here'.head = l.head /\ Here'.tail = l.tail
  BY DEF Becomes, Here
<1>2. Links(Here', c)
  BY <1>1, SameShown DEF Shows
<1> QED
  BY <1>1, <1>2 DEF Shows

\* Storing what shows a cache within its bound keeps the invariant, and the
\* abstract cache becomes that one.
LEMMA Becoming ==
  ASSUME NEW l, NEW d, Shows(l, d), Len(d) <= IdempMax, Becomes(l)
  PROVE  IInv' /\ Listed' = d
<1>1. Shows(Here, d)'
  BY Stored
<1>2. Listed' = d
  BY <1>1, ListedIsNext
<1> QED
  BY <1>1, <1>2 DEF IInv

\* A hit is found in the map; the entry it finds is the one in the sequence.
LEMMA HitIs ==
  ASSUME NEW c, Shows(Here, c), NEW k \in Keys \cup {NoKey}, NEW fp
  PROVE  /\ Hit(c, k, fp) <=> Cached(k) /\ entries[k].fp = fp
         /\ Hit(c, k, fp) =>
              /\ Holds(c, k) /\ Entry(c, k) \in ListEntries
              /\ entries[k] = Node(Entry(c, k), entries[k].prev, entries[k].next)
<1>1. DOMAIN entries = KeysOf(c) /\ c \in Seq(ListEntries)
  BY DEF Shows, Links, Here
<1>2. DOMAIN entries \subseteq Keys
  <2>1. \A i \in 1 .. Len(c) : c[i] \in ListEntries
    BY <1>1
  <2> QED
    BY <1>1, <2>1 DEF KeysOf, ListEntries
<1>3. Cached(k) => k # NoKey
  BY <1>2, ListAssumption DEF Cached
<1>4. Holds(c, k) <=> Cached(k)
  BY PlaceOf DEF Cached, Here
<1>5. ASSUME Holds(c, k)
      PROVE  /\ Entry(c, k) \in ListEntries
             /\ entries[k].fp = Entry(c, k).fp
             /\ entries[k] = Node(Entry(c, k), entries[k].prev, entries[k].next)
  <2>1. Entry(c, k) \in ListEntries /\ \E p, n : entries[k] = Node(Entry(c, k), p, n)
    BY <1>5, PlaceOf DEF Here
  <2>2. PICK p, n : entries[k] = Node(Entry(c, k), p, n)
    BY <2>1
  <2>3. entries[k].prev = p /\ entries[k].next = n /\ entries[k].fp = Entry(c, k).fp
    BY <2>2 DEF Node
  <2> QED
    BY <2>1, <2>2, <2>3
<1> QED
  BY <1>3, <1>4, <1>5 DEF Hit

\* A lookup (idempotency.go:40-55).
LEMMA LookupStep ==
  ASSUME IInv, NEW k \in Keys \cup {NoKey}, NEW fp \in Fingerprints, lookup(k, fp)
  PROVE  IInv' /\ Listed' = Touched(Listed, k, fp)
<1> DEFINE c == Listed
<1>1. Shows(Here, c) /\ Len(c) <= IdempMax
  BY DEF IInv
<1> HIDE DEF c
<1>2. Hit(c, k, fp) <=> Cached(k) /\ entries[k].fp = fp
  BY <1>1, HitIs
<1>3. CASE Hit(c, k, fp)
  <2>1. Holds(c, k)
    BY <1>3 DEF Hit
  <2>2. Shows(moveFrontLocked(Here, k), MoveFront(c, k)) /\ Becomes(moveFrontLocked(Here, k))
    BY <1>1, <1>2, <1>3, <2>1, MovedFront DEF lookup
  <2>3. c \in Seq(ListEntries)
    BY <1>1 DEF Shows, Links
  <2>4. Len(MoveFront(c, k)) <= IdempMax
    BY <1>1, <2>1, <2>3, MoveFrontLength
  <2> QED
    BY <1>3, <2>2, <2>4, Becoming DEF Touched, c
<1>4. CASE ~Hit(c, k, fp)
  <2>1. UNCHANGED vars
    BY <1>2, <1>4 DEF lookup
  <2>2. Becomes(Here)
    BY <2>1 DEF vars, Becomes, Here
  <2> QED
    BY <1>1, <1>4, <2>2, Becoming DEF Touched, c
<1> QED
  BY <1>3, <1>4

\* storePlan (idempotency.go:57-69).
LEMMA StorePlanStep ==
  ASSUME IInv, NEW k \in Keys \cup {NoKey}, NEW fp \in Fingerprints, NEW p \in Plans,
         storePlan(k, fp, p)
  PROVE  IInv' /\ Listed' = StorePlan(Listed, k, fp, p)
<1> DEFINE c == Listed
<1>1. Shows(Here, c) /\ Len(c) <= IdempMax
  BY DEF IInv
<1> HIDE DEF c
<1>2. Hit(c, k, fp) <=> Cached(k) /\ entries[k].fp = fp
  BY <1>1, HitIs
<1>3. CASE k = NoKey
  <2>1. Becomes(Here)
    BY <1>3 DEF storePlan, vars, Becomes, Here
  <2> QED
    BY <1>1, <1>3, <2>1, Becoming DEF StorePlan, c
<1>4. CASE k # NoKey /\ Hit(c, k, fp)
  <2> DEFINE m == [Here EXCEPT !.entries[k].plan = p]
             e == [key |-> k, fp |-> fp, plan |-> p, apply |-> Entry(c, k).apply]
             d == Prepend(e, Without(c, Position(c, k)))
  <2>1. /\ Holds(c, k) /\ Entry(c, k) \in ListEntries /\ Entry(c, k).fp = fp /\ Cached(k)
        /\ entries[k] = Node(Entry(c, k), entries[k].prev, entries[k].next)
    BY <1>1, <1>2, <1>4, HitIs DEF Hit
  <2>2. e \in ListEntries /\ e.key = k
    BY <1>4, <2>1 DEF ListEntries
  <2>3. Becomes(moveFrontLocked(m, k)) /\ StorePlan(c, k, fp, p) = d
    BY <1>2, <1>4 DEF storePlan, StorePlan
  <2>4. /\ m = [entries |-> m.entries, head |-> m.head, tail |-> m.tail]
        /\ m.head = head /\ m.tail = tail /\ m.entries = [entries EXCEPT ![k].plan = p]
    BY DEF Here
  <2> HIDE DEF m, d
  <2>5. m.entries[k] = Node(e, entries[k].prev, entries[k].next)
    <3>1. m.entries[k] = [entries[k] EXCEPT !.plan = p]
      BY <2>1, <2>4 DEF Cached
    <3>2. \A f, a, b : [Node(f, a, b) EXCEPT !.plan = p] =
                        [fp |-> f.fp, plan |-> p, apply |-> f.apply, prev |-> a, next |-> b]
      BY DEF Node
    <3>3. m.entries[k] = [fp |-> fp, plan |-> p, apply |-> Entry(c, k).apply,
                          prev |-> entries[k].prev, next |-> entries[k].next]
      BY <2>1, <3>1, <3>2
    <3> QED
      BY <3>3 DEF Node
  <2> HIDE DEF e
  <2>6. /\ DOMAIN m.entries = DOMAIN entries
        /\ \A j \in DOMAIN entries : j # k => m.entries[j] = entries[j]
    BY <2>4
  <2>7. Shows(moveFrontLocked(m, k), d) /\ Len(d) <= IdempMax
    <3> DEFINE l == Here
    <3>1. l.entries = entries /\ l.head = head /\ l.tail = tail
      BY DEF Here
    <3> HIDE DEF l
    <3>2. Shows(l, c)
      BY <1>1 DEF l
    <3>3. /\ m = [entries |-> m.entries, head |-> m.head, tail |-> m.tail]
          /\ m.head = l.head /\ m.tail = l.tail /\ DOMAIN m.entries = DOMAIN l.entries
          /\ \A j \in DOMAIN l.entries : j # k => m.entries[j] = l.entries[j]
          /\ m.entries[k] = Node(e, l.entries[k].prev, l.entries[k].next)
      BY <2>4, <2>5, <2>6, <3>1
    <3> QED
      BY <1>1, <2>1, <2>2, <3>2, <3>3, Filled DEF d
  <2> QED
    BY <2>3, <2>7, Becoming DEF c
<1>5. CASE k # NoKey /\ ~Hit(c, k, fp)
  <2> DEFINE e == [key |-> k, fp |-> fp, plan |-> p, apply |-> Nil]
  <2>1. e \in ListEntries
    BY <1>5 DEF ListEntries
  <2>2. /\ Becomes(insertFrontLocked(Here, e.key, e.fp, e.plan, e.apply))
        /\ StorePlan(c, k, fp, p) = InsertFront(c, e)
    BY <1>2, <1>5 DEF storePlan, StorePlan
  <2> HIDE DEF e
  <2>3. /\ Shows(insertFrontLocked(Here, e.key, e.fp, e.plan, e.apply), InsertFront(c, e))
        /\ Len(InsertFront(c, e)) <= IdempMax
    BY <1>1, <2>1, Inserted
  <2> QED
    BY <2>2, <2>3, Becoming DEF c
<1> QED
  BY <1>3, <1>4, <1>5

\* storeApply (idempotency.go:71-83).
LEMMA StoreApplyStep ==
  ASSUME IInv, NEW k \in Keys \cup {NoKey}, NEW fp \in Fingerprints, NEW r \in Results,
         storeApply(k, fp, r)
  PROVE  IInv' /\ Listed' = StoreApply(Listed, k, fp, r)
<1> DEFINE c == Listed
<1>1. Shows(Here, c) /\ Len(c) <= IdempMax
  BY DEF IInv
<1> HIDE DEF c
<1>2. Hit(c, k, fp) <=> Cached(k) /\ entries[k].fp = fp
  BY <1>1, HitIs
<1>3. CASE k = NoKey
  <2>1. Becomes(Here)
    BY <1>3 DEF storeApply, vars, Becomes, Here
  <2> QED
    BY <1>1, <1>3, <2>1, Becoming DEF StoreApply, c
<1>4. CASE k # NoKey /\ Hit(c, k, fp)
  <2> DEFINE m == [Here EXCEPT !.entries[k].apply = r]
             e == [key |-> k, fp |-> fp, plan |-> Entry(c, k).plan, apply |-> r]
             d == Prepend(e, Without(c, Position(c, k)))
  <2>1. /\ Holds(c, k) /\ Entry(c, k) \in ListEntries /\ Entry(c, k).fp = fp /\ Cached(k)
        /\ entries[k] = Node(Entry(c, k), entries[k].prev, entries[k].next)
    BY <1>1, <1>2, <1>4, HitIs DEF Hit
  <2>2. e \in ListEntries /\ e.key = k
    BY <1>4, <2>1 DEF ListEntries
  <2>3. Becomes(moveFrontLocked(m, k)) /\ StoreApply(c, k, fp, r) = d
    BY <1>2, <1>4 DEF storeApply, StoreApply
  <2>4. /\ m = [entries |-> m.entries, head |-> m.head, tail |-> m.tail]
        /\ m.head = head /\ m.tail = tail /\ m.entries = [entries EXCEPT ![k].apply = r]
    BY DEF Here
  <2> HIDE DEF m, d
  <2>5. m.entries[k] = Node(e, entries[k].prev, entries[k].next)
    <3>1. m.entries[k] = [entries[k] EXCEPT !.apply = r]
      BY <2>1, <2>4 DEF Cached
    <3>2. \A f, a, b : [Node(f, a, b) EXCEPT !.apply = r] =
                        [fp |-> f.fp, plan |-> f.plan, apply |-> r, prev |-> a, next |-> b]
      BY DEF Node
    <3>3. m.entries[k] = [fp |-> fp, plan |-> Entry(c, k).plan, apply |-> r,
                          prev |-> entries[k].prev, next |-> entries[k].next]
      BY <2>1, <3>1, <3>2
    <3> QED
      BY <3>3 DEF Node
  <2> HIDE DEF e
  <2>6. /\ DOMAIN m.entries = DOMAIN entries
        /\ \A j \in DOMAIN entries : j # k => m.entries[j] = entries[j]
    BY <2>4
  <2>7. Shows(moveFrontLocked(m, k), d) /\ Len(d) <= IdempMax
    <3> DEFINE l == Here
    <3>1. l.entries = entries /\ l.head = head /\ l.tail = tail
      BY DEF Here
    <3> HIDE DEF l
    <3>2. Shows(l, c)
      BY <1>1 DEF l
    <3>3. /\ m = [entries |-> m.entries, head |-> m.head, tail |-> m.tail]
          /\ m.head = l.head /\ m.tail = l.tail /\ DOMAIN m.entries = DOMAIN l.entries
          /\ \A j \in DOMAIN l.entries : j # k => m.entries[j] = l.entries[j]
          /\ m.entries[k] = Node(e, l.entries[k].prev, l.entries[k].next)
      BY <2>4, <2>5, <2>6, <3>1
    <3> QED
      BY <1>1, <2>1, <2>2, <3>2, <3>3, Filled DEF d
  <2> QED
    BY <2>3, <2>7, Becoming DEF c
<1>5. CASE k # NoKey /\ ~Hit(c, k, fp)
  <2> DEFINE e == [key |-> k, fp |-> fp, plan |-> Nil, apply |-> r]
  <2>1. e \in ListEntries
    BY <1>5 DEF ListEntries
  <2>2. /\ Becomes(insertFrontLocked(Here, e.key, e.fp, e.plan, e.apply))
        /\ StoreApply(c, k, fp, r) = InsertFront(c, e)
    BY <1>2, <1>5 DEF storeApply, StoreApply
  <2> HIDE DEF e
  <2>3. /\ Shows(insertFrontLocked(Here, e.key, e.fp, e.plan, e.apply), InsertFront(c, e))
        /\ Len(InsertFront(c, e)) <= IdempMax
    BY <1>1, <2>1, Inserted
  <2> QED
    BY <2>2, <2>3, Becoming DEF c
<1> QED
  BY <1>3, <1>4, <1>5

\* evict (idempotency.go:85-94).
LEMMA EvictStep ==
  ASSUME IInv, NEW k \in Keys, evict(k)
  PROVE  IInv' /\ Listed' = Evict(Listed, k)
<1> DEFINE c == Listed
<1>1. Shows(Here, c) /\ Len(c) <= IdempMax /\ Len(c) \in Nat
  BY DEF IInv, Shows, Links
<1> HIDE DEF c
<1>2. Holds(c, k) <=> Cached(k)
  BY <1>1, PlaceOf DEF Cached, Here
<1>3. CASE Holds(c, k)
  <2> DEFINE i == Position(c, k)
  <2>1. i \in 1 .. Len(c) /\ c[i].key = k
    BY <1>1, <1>3, PlaceOf
  <2>2. Becomes(removeLocked(Here, c[i].key)) /\ Evict(c, k) = Without(c, i)
    BY <1>2, <1>3, <2>1 DEF evict, Evict
  <2> HIDE DEF i
  <2>3. Shows(removeLocked(Here, c[i].key), Without(c, i))
    BY <1>1, <2>1, Removed
  <2>4. Len(Without(c, i)) <= IdempMax
    <3>1. Len(Without(c, i)) = Len(c) - 1
      BY <1>1, <2>1, WithoutPlace DEF Shows
    <3> QED
      BY <1>1, <3>1, IdempMaxAssumption
  <2> QED
    BY <2>2, <2>3, <2>4, Becoming DEF c
<1>4. CASE ~Holds(c, k)
  <2>1. Becomes(Here)
    BY <1>2, <1>4 DEF evict, vars, Becomes, Here
  <2> QED
    BY <1>1, <1>4, <2>1, Becoming DEF Evict, c
<1> QED
  BY <1>3, <1>4

\* The empty map and list show the empty cache.
LEMMA EmptyShown ==
  Shows([entries |-> << >>, head |-> NoKey, tail |-> NoKey], << >>) /\ Len(<< >>) <= IdempMax
<1> DEFINE l == [entries |-> << >>, head |-> NoKey, tail |-> NoKey]
           c == << >>
<1>1. c \in Seq(ListEntries) /\ Len(c) = 0 /\ DOMAIN l.entries = {}
  OBVIOUS
<1>2. l.head = NoKey /\ l.tail = NoKey /\ l = [entries |-> l.entries, head |-> l.head, tail |-> l.tail]
  OBVIOUS
<1> HIDE DEF l, c
<1>3. Shows(l, c)
  BY <1>1, <1>2 DEF Shows, Links, KeysOf, KeyAt
<1> QED
  BY <1>1, <1>3, IdempMaxAssumption DEF l, c

\* clear (idempotency.go:96-105).
LEMMA ClearStep ==
  ASSUME clear
  PROVE  IInv' /\ Listed' = << >>
<1>1. Becomes([entries |-> << >>, head |-> NoKey, tail |-> NoKey])
  BY DEF clear, Becomes
<1> QED
  BY <1>1, EmptyShown, Becoming

\* The operators of the abstract cache are those of IdempCache.
LEMMA SameOperators ==
  ASSUME NEW c, NEW k, NEW fp, NEW v
  PROVE  /\ Lru!Touched(c, k, fp) = Touched(c, k, fp)
         /\ Lru!StorePlan(c, k, fp, v) = StorePlan(c, k, fp, v)
         /\ Lru!StoreApply(c, k, fp, v) = StoreApply(c, k, fp, v)
         /\ Lru!Evict(c, k) = Evict(c, k)
<1>1. /\ \A d, i : Lru!Without(d, i) = Without(d, i)
      /\ \A d, e : Lru!Prepend(e, d) = Prepend(e, d)
      /\ \A d, j : Lru!Holds(d, j) <=> Holds(d, j)
  BY DEF Lru!Without, Without, Lru!Prepend, Prepend, Lru!Holds, Holds
<1>2. \A d, j : Lru!Position(d, j) = Position(d, j)
  BY DEF Lru!Position, Position
<1>3. \A d, j : Lru!Entry(d, j) = Entry(d, j)
  BY <1>2 DEF Lru!Entry, Entry
<1>4. \A d, j : Lru!Evict(d, j) = Evict(d, j) /\ Lru!MoveFront(d, j) = MoveFront(d, j)
  BY <1>1, <1>2, <1>3 DEF Lru!Evict, Evict, Lru!MoveFront, MoveFront
<1>5. \A d, e : Lru!InsertFront(d, e) = InsertFront(d, e)
  BY <1>1, <1>4 DEF Lru!InsertFront, InsertFront
<1>6. Lru!Hit(c, k, fp) <=> Hit(c, k, fp)
  BY <1>1, <1>3 DEF Lru!Hit, Hit
<1>7. Lru!Touched(c, k, fp) = Touched(c, k, fp)
  BY <1>4, <1>6 DEF Lru!Touched, Touched
<1>8. Lru!StorePlan(c, k, fp, v) = StorePlan(c, k, fp, v)
  BY <1>1, <1>2, <1>3, <1>5, <1>6 DEF Lru!StorePlan, StorePlan
<1>9. Lru!StoreApply(c, k, fp, v) = StoreApply(c, k, fp, v)
  BY <1>1, <1>2, <1>3, <1>5, <1>6 DEF Lru!StoreApply, StoreApply
<1> QED
  BY <1>4, <1>7, <1>8, <1>9

\* Every step keeps the invariant and is one of the abstract cache's, or none.
LEMMA Step ==
  ASSUME IInv, [Next]_vars
  PROVE  IInv' /\ [Lru!Next]_Listed
<1>1. CASE UNCHANGED vars
  <2>1. Becomes(Here)
    BY <1>1 DEF vars, Becomes, Here
  <2> QED
    BY <2>1, Becoming DEF IInv
<1>2. ASSUME NEW k \in Keys \cup {NoKey}, NEW fp \in Fingerprints, lookup(k, fp)
      PROVE  IInv' /\ [Lru!Next]_Listed
  BY <1>2, LookupStep, SameOperators DEF Lru!Next, Lru!Lookup
<1>3. ASSUME NEW k \in Keys \cup {NoKey}, NEW fp \in Fingerprints, NEW p \in Plans, storePlan(k, fp, p)
      PROVE  IInv' /\ [Lru!Next]_Listed
  BY <1>3, StorePlanStep, SameOperators DEF Lru!Next
<1>4. ASSUME NEW k \in Keys \cup {NoKey}, NEW fp \in Fingerprints, NEW r \in Results, storeApply(k, fp, r)
      PROVE  IInv' /\ [Lru!Next]_Listed
  BY <1>4, StoreApplyStep, SameOperators DEF Lru!Next
<1>5. ASSUME NEW k \in Keys, evict(k)
      PROVE  IInv' /\ [Lru!Next]_Listed
  BY <1>5, EvictStep, SameOperators DEF Lru!Next
<1>6. CASE clear
  BY <1>6, ClearStep DEF Lru!Next
<1> QED
  BY <1>1, <1>2, <1>3, <1>4, <1>5, <1>6 DEF Next

\* The first state shows the empty cache.
LEMMA First ==
  ASSUME Init
  PROVE  IInv /\ Listed = << >>
<1>1. Shows(Here, << >>) /\ Len(<< >>) <= IdempMax
  BY EmptyShown DEF Init, Here
<1>2. Listed = << >>
  BY <1>1, ListedIs
<1> QED
  BY <1>1, <1>2 DEF IInv

-------------------------------------------------------------------------------
\* The links show a cache within its bound after any calls of the cache's
\* methods (idempotency.go:40-163).
THEOREM Inductive == Spec => []IInv
<1>1. Init => IInv
  BY First
<1>2. IInv /\ [Next]_vars => IInv'
  BY Step
<1> QED
  BY <1>1, <1>2, PTL DEF Spec

\* Forwards and backwards the links run through exactly the entries of the map,
\* each once, and end in nil (idempotency.go:107-163).
THEOREM ListIsWellLinked == Spec => []WellLinked
<1>1. IInv => WellLinked
  BY ListedIs DEF IInv
<1> QED
  BY <1>1, Inductive, PTL

\* The map's entries are typed, and their links and the ends are keys or nil.
THEOREM TypeCorrect == Spec => []TypeOK
<1>1. IInv => TypeOK
  <2> SUFFICES ASSUME IInv PROVE TypeOK
    OBVIOUS
  <2> DEFINE c == Listed
  <2>1. Links(Here, c) /\ DOMAIN entries = KeysOf(c) /\ c \in Seq(ListEntries)
    BY DEF IInv, Shows, Links, Here
  <2> HIDE DEF c
  <2>2. \A i : KeyAt(c, i) \in Keys \cup {NoKey}
    BY <2>1, KeyAtType
  <2>3. {head, tail} \subseteq Keys \cup {NoKey}
    BY <2>1, <2>2 DEF Links, Here
  <2>4. ASSUME NEW i \in 1 .. Len(c)
        PROVE  /\ c[i].key \in Keys
               /\ entries[c[i].key] \in [fp : Fingerprints, plan : Plans \cup {Nil}, apply : Results \cup {Nil},
                                          prev : Keys \cup {NoKey}, next : Keys \cup {NoKey}]
    <3>1. c[i] \in ListEntries
      BY <2>1
    <3>2. entries[c[i].key] = Node(c[i], KeyAt(c, i - 1), KeyAt(c, i + 1))
      BY <2>1 DEF Links, Here
    <3> QED
      BY <2>2, <3>1, <3>2 DEF Node, ListEntries
  <2> QED
    BY <2>1, <2>3, <2>4 DEF TypeOK, KeysOf
<1> QED
  BY <1>1, Inductive, PTL

\* Read off the links, the map and the list are the bounded sequence, most
\* recently used first, that the control plane is modelled with
\* (idempotency.go).
THEOREM ListImplementsLru == Spec => ImplementsLru
<1>1. Init => Lru!Init
  BY First DEF Lru!Init
<1>2. IInv /\ [Next]_vars => [Lru!Next]_Listed
  BY Step
<1> QED
  BY <1>1, <1>2, Inductive, PTL DEF Spec, ImplementsLru, Lru!Spec
================================================================================
