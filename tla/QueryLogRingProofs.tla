--------------------------- MODULE QueryLogRingProofs ---------------------------
(***************************************************************************)
(* Proofs about QueryLogRing, for every set of configured sizes, every     *)
(* clamp and any number of samples: the index arithmetic of the ring never *)
(* shows an empty slot, a sample twice or two in the wrong order, and the  *)
(* ring implements the plain log of SampleLog.                             *)
(***************************************************************************)
EXTENDS QueryLogRing, SequenceTheorems, TLAPS

\* A remainder is an index of the slice.
LEMMA ModRange ==
  ASSUME NEW a \in Nat, NEW c \in Nat \ {0}
  PROVE  a % c \in 0 .. c - 1
  OBVIOUS

\* An index below the capacity does not wrap.
LEMMA ModSmall ==
  ASSUME NEW a \in Nat, NEW c \in Nat \ {0}, a < c
  PROVE  a % c = a
  OBVIOUS

\* Different multiples of c are at least c apart.
LEMMA MultiplesApart ==
  ASSUME NEW p \in Nat, NEW q \in Nat, NEW c \in Nat, q > p
  PROVE  c * q >= c * p + c
<1>1. PICK d \in Nat : q = p + 1 + d
  <2>1. q - p - 1 \in Nat /\ q = p + 1 + (q - p - 1)
    OBVIOUS
  <2> QED
    BY <2>1
<1>2. c * d \in Nat /\ c * p \in Nat
  OBVIOUS
<1>3. c * (p + 1 + d) = c * p + c + c * d
  OBVIOUS
<1> QED
  BY <1>1, <1>2, <1>3

\* Two indices less than a capacity apart are different slots.
LEMMA ModWindow ==
  ASSUME NEW a \in Nat, NEW b \in Nat, NEW c \in Nat \ {0}, a < b, b < a + c
  PROVE  a % c # b % c
<1> DEFINE p == a \div c
           q == b \div c
<1>1. a = c * p + (a % c) /\ b = c * q + (b % c) /\ p \in Nat /\ q \in Nat
  OBVIOUS
<1>2. a % c \in Nat /\ b % c \in Nat
  OBVIOUS
<1> HIDE DEF p, q
<1>3. q > p => c * q >= c * p + c
  BY <1>1, MultiplesApart
<1>4. q < p => c * p >= c * q + c
  BY <1>1, MultiplesApart
<1>5. c * p \in Nat /\ c * q \in Nat /\ (q = p \/ q < p \/ q > p)
  BY <1>1
<1> QED
  BY <1>1, <1>2, <1>3, <1>4, <1>5

-------------------------------------------------------------------------------
\* The clamped capacity is within the clamps.
LEMMA ClampRange ==
  ASSUME NEW n \in Nat
  PROVE  Clamp(n) \in MinCap .. MaxCap
  BY SizesAssumption DEF Clamp

\* What the type invariant says in the terms of the list.
LEMMA ListFacts ==
  ASSUME TypeOK
  PROVE  /\ Cap \in Nat \ {0} /\ DOMAIN items = 1 .. Cap /\ size \in Nat /\ next \in Nat
         /\ List \in Seq(0 .. MaxSamples) /\ Len(List) = size
         /\ \A i \in 1 .. size :
              /\ next - i \in Nat
              /\ Slot(next - i) \in 1 .. Cap
              /\ List[i] = items[Slot(next - i)]
<1>1. /\ Cap \in Nat \ {0} /\ DOMAIN items = 1 .. Cap
      /\ size \in Nat /\ next \in Nat /\ size <= next
      /\ \A k \in 1 .. Cap : items[k] \in 0 .. MaxSamples
  <2> DEFINE S == 0 .. MaxSamples
  <2>1. items \in Seq(S) /\ Cap = Len(items)
    BY DEF TypeOK, Cap
  <2> HIDE DEF S
  <2>2. Cap \in Nat \ {0}
    BY SizesAssumption DEF TypeOK
  <2>3. size \in Nat /\ next \in Nat /\ size <= next
    BY <2>2 DEF TypeOK
  <2>4. DOMAIN items = 1 .. Cap
    BY <2>1
  <2>5. \A k \in 1 .. Cap : items[k] \in S
    BY <2>1
  <2> QED
    BY <2>2, <2>3, <2>4, <2>5 DEF S
<1>2. ASSUME NEW i \in 1 .. size
      PROVE  /\ next - i \in Nat
             /\ Slot(next - i) \in 1 .. Cap
  <2>1. next - i \in Nat
    BY <1>1
  <2>2. (next - i) % Cap \in 0 .. Cap - 1
    BY <1>1, <2>1, ModRange
  <2> QED
    BY <1>1, <2>1, <2>2 DEF Slot
<1>3. \A i \in 1 .. size : List[i] = items[Slot(next - i)]
  BY DEF List
<1>4. \A i \in 1 .. size : items[Slot(next - i)] \in 0 .. MaxSamples
  BY <1>1, <1>2
<1>5. List \in Seq(0 .. MaxSamples) /\ Len(List) = size
  BY <1>1, <1>4 DEF List
<1> QED
  BY <1>1, <1>2, <1>3, <1>5

\* TryInsert puts the new sample in front of the list, and the oldest one drops
\* out when the ring was full.
LEMMA InsertList ==
  ASSUME TypeOK, TryInsert
  PROVE  /\ items' \in Seq(0 .. MaxSamples) /\ Cap' = Cap
         /\ size' = IF size < Cap THEN size + 1 ELSE size
         /\ size' \in 1 .. Cap
         /\ List' = [i \in 1 .. size' |-> IF i = 1 THEN offered + 1 ELSE List[i - 1]]
<1>1. /\ Cap \in Nat \ {0} /\ DOMAIN items = 1 .. Cap /\ size \in Nat /\ next \in Nat
      /\ size <= Cap /\ size <= next /\ items \in Seq(0 .. MaxSamples)
      /\ offered + 1 \in 0 .. MaxSamples
  BY ListFacts, MaxSamplesAssumption DEF TypeOK, TryInsert
<1> DEFINE at(k) == (k % Cap) + 1
<1>2. /\ items' = [items EXCEPT ![at(next)] = offered + 1]
      /\ next' = next + 1
      /\ size' = IF size < Cap THEN size + 1 ELSE size
  BY DEF TryInsert, Slot
<1>3. at(next) \in 1 .. Cap
  BY <1>1, ModRange
<1> HIDE DEF at
<1>4. items' \in Seq(0 .. MaxSamples) /\ Len(items') = Len(items)
  BY <1>1, <1>2, <1>3, ExceptSeq
<1>5. Cap' = Cap
  BY <1>4 DEF Cap
<1>6. size' \in 1 .. Cap
  BY <1>1, <1>2
<1>7. List' = [i \in 1 .. size' |-> items'[at((next + 1) - i)]]
  <2>1. List' = [i \in 1 .. size' |-> items'[((next' - i) % Cap') + 1]]
    BY DEF List, Slot
  <2>2. \A i \in 1 .. size' : ((next' - i) % Cap') + 1 = at((next + 1) - i)
    <3> TAKE i \in 1 .. size'
    <3>1. next' - i = (next + 1) - i
      BY <1>2
    <3> QED
      BY <1>5, <3>1, Zenon DEF at
  <2> QED
    BY <2>1, <2>2, Zenon
<1>8. ASSUME NEW i \in 1 .. size', i # 1
      PROVE  /\ items'[at((next + 1) - i)] = items[at(next - (i - 1))]
             /\ items[at(next - (i - 1))] = List[i - 1]
  <2>1. i - 1 \in 1 .. size
    BY <1>1, <1>2, <1>8
  <2> DEFINE k == next - (i - 1)
  <2>2. k \in Nat /\ k < next /\ next < k + Cap /\ (next + 1) - i = k
    BY <1>1, <1>6, <1>8, <2>1
  <2>3. k % Cap # next % Cap /\ k % Cap \in 0 .. Cap - 1 /\ next % Cap \in 0 .. Cap - 1
    BY <1>1, <2>2, ModWindow, ModRange
  <2>4. at(k) # at(next) /\ at(k) \in 1 .. Cap
    BY <1>1, <2>3 DEF at
  <2>5. List[i - 1] = items[at(k)]
    BY <2>1 DEF List, Slot, at
  <2> HIDE DEF k
  <2>6. items'[at(k)] = items[at(k)]
    BY <1>1, <1>2, <2>4
  <2> QED
    BY <2>2, <2>5, <2>6 DEF k
<1>9. items'[at((next + 1) - 1)] = offered + 1
  <2>1. (next + 1) - 1 = next
    BY <1>1
  <2> QED
    BY <1>1, <1>2, <1>3, <2>1
<1>10. \A i \in 1 .. size' :
         items'[at((next + 1) - i)] = IF i = 1 THEN offered + 1 ELSE List[i - 1]
  BY <1>8, <1>9
<1> QED
  BY <1>2, <1>4, <1>5, <1>6, <1>7, <1>10

-------------------------------------------------------------------------------
\* The copy a resize holds between its two critical sections.
ResizingType ==
  \/ resizing = << >>
  \/ /\ resizing = <<resizing[1]>>
     /\ resizing[1] \in [to : MinCap .. MaxCap, keep : Seq(0 .. MaxSamples)]

\* Samples 1 to n, newest first.
Ordered(s, n) ==
  /\ \A i \in 1 .. Len(s) : s[i] \in 1 .. n
  /\ \A i \in 1 .. Len(s) - 1 : s[i] > s[i + 1]

\* What the copy shows is ordered as well.
KeptOrdered == resizing # << >> => Ordered(resizing[1].keep, offered)

\* A sample that is listed during a resize either came after the copy, or is in
\* the copy, at a place no later than the one it has now.
Raced ==
  resizing # << >> =>
    \A i \in 1 .. size :
      \/ \A j \in 1 .. Len(resizing[1].keep) : resizing[1].keep[j] < List[i]
      \/ \E j \in 1 .. Len(resizing[1].keep) : j <= i /\ resizing[1].keep[j] = List[i]

IInv ==
  /\ TypeOK
  /\ ResizingType
  /\ Ordered(List, offered)
  /\ KeptOrdered
  /\ Raced

\* The rebuild shows the newest of the copy, as many as fit.
LEMMA InstallList ==
  ASSUME TypeOK, ResizingType, ResizeInstall
  PROVE  LET r == resizing[1]
         IN  /\ r.to \in MinCap .. MaxCap /\ r.keep \in Seq(0 .. MaxSamples)
             /\ items' \in Seq(0 .. MaxSamples) /\ Cap' = r.to
             /\ size' = IF Len(r.keep) > r.to THEN r.to ELSE Len(r.keep)
             /\ size' \in 0 .. r.to /\ next' = size' /\ resizing' = << >>
             /\ List' = [i \in 1 .. size' |-> r.keep[i]]
<1> DEFINE to == resizing[1].to
           keep == resizing[1].keep
           m == IF Len(keep) > to THEN to ELSE Len(keep)
           S == 0 .. MaxSamples
<1>1. to \in MinCap .. MaxCap /\ keep \in Seq(S) /\ Len(keep) \in Nat
  BY DEF ResizingType, ResizeInstall
<1>2. /\ items' = Rebuilt(keep, to) /\ next' = m /\ size' = m /\ resizing' = << >>
  BY DEF ResizeInstall
<1>3. items' = [i \in 1 .. to |-> IF i <= m THEN keep[m - i + 1] ELSE Empty]
  BY <1>2 DEF Rebuilt
<1> HIDE DEF to, keep
<1>4. to \in Nat \ {0} /\ m \in 0 .. to /\ m <= Len(keep)
  BY <1>1, SizesAssumption
<1> HIDE DEF m
<1>5. Empty \in S
  BY MaxSamplesAssumption DEF Empty
<1> HIDE DEF S
<1>6. \A i \in 1 .. to : i <= m => keep[m - i + 1] \in S
  <2> TAKE i \in 1 .. to
  <2>1. i <= m => m - i + 1 \in 1 .. Len(keep)
    BY <1>1, <1>4
  <2> QED
    BY <1>1, <2>1
<1>7. \A i \in 1 .. to : (IF i <= m THEN keep[m - i + 1] ELSE Empty) \in S
  BY <1>5, <1>6
<1>8. items' \in Seq(S) /\ Len(items') = to
  BY <1>3, <1>4, <1>7
<1>9. Cap' = to
  BY <1>8 DEF Cap
<1>10. List' = [i \in 1 .. size' |-> items'[((next' - i) % Cap') + 1]]
  BY DEF List, Slot
<1>11. ASSUME NEW i \in 1 .. m
       PROVE  items'[((m - i) % to) + 1] = keep[i]
  <2>1. m - i \in Nat /\ m - i < to /\ m - i + 1 \in 1 .. to /\ m - i + 1 <= m
    BY <1>4, <1>11
  <2>2. (m - i) % to = m - i
    BY <1>4, <2>1, ModSmall
  <2>3. m - (m - i + 1) + 1 = i
    BY <1>4, <1>11
  <2> QED
    BY <1>3, <2>1, <2>2, <2>3
<1>12. List' = [i \in 1 .. size' |-> keep[i]]
  BY <1>2, <1>9, <1>10, <1>11
<1> QED
  BY <1>1, <1>2, <1>4, <1>8, <1>9, <1>12 DEF to, keep, m, S

\* A wiped ring shows nothing.
LEMMA ResetList ==
  ASSUME TypeOK, Reset
  PROVE  /\ items' \in Seq(0 .. MaxSamples) /\ Cap' = Cap
         /\ size' = 0 /\ next' = 0 /\ List' = << >>
<1>1. Cap \in Nat
  BY ListFacts
<1>2. items' \in Seq(0 .. MaxSamples) /\ Len(items') = Cap
  BY <1>1, MaxSamplesAssumption DEF Reset, Blank, Empty
<1> QED
  BY <1>2 DEF Reset, Cap, List

\* A step that touches neither the slice nor its indices shows the same list.
LEMMA SameList ==
  ASSUME UNCHANGED <<items, next, size>>
  PROVE  List' = List /\ Cap' = Cap
  BY DEF List, Slot, Cap

-------------------------------------------------------------------------------
\* Every step keeps the fields in range.
LEMMA TypeStep ==
  ASSUME TypeOK, ResizingType, [Next]_vars
  PROVE  TypeOK' /\ ResizingType'
<1>0. /\ offered \in Nat /\ dropped \in Nat /\ dropped <= offered /\ offered <= MaxSamples
      /\ next \in Nat /\ size \in Nat /\ size <= Cap /\ size <= next /\ Cap \in Nat
  BY ListFacts, MaxSamplesAssumption DEF TypeOK
<1>1. CASE TryInsert
  <2>1. /\ items' \in Seq(0 .. MaxSamples) /\ Cap' = Cap /\ size' \in 1 .. Cap
        /\ size' <= size + 1
    BY <1>0, <1>1, InsertList
  <2>2. /\ next' = next + 1 /\ offered' = offered + 1 /\ offered < MaxSamples
        /\ dropped' = dropped /\ resizing' = resizing
    BY <1>1 DEF TryInsert
  <2>3. /\ Cap' \in MinCap .. MaxCap /\ next' \in Nat /\ size' \in 0 .. Cap'
        /\ size' <= next' /\ dropped' \in 0 .. offered' /\ offered' \in 0 .. MaxSamples
    BY <1>0, <2>1, <2>2, MaxSamplesAssumption DEF TypeOK
  <2> QED
    BY <2>1, <2>2, <2>3 DEF TypeOK, ResizingType
<1>2. CASE TryInsertGivesUp
  <2>1. dropped' \in 0 .. offered' /\ offered' \in 0 .. MaxSamples
    BY <1>0, <1>2, MaxSamplesAssumption DEF TryInsertGivesUp
  <2> QED
    BY <1>2, <2>1, SameList DEF TryInsertGivesUp, TypeOK, ResizingType
<1>3. CASE Reset
  <2>1. UNCHANGED <<dropped, resizing, offered>>
    BY <1>3 DEF Reset
  <2> QED
    BY <1>0, <1>3, <2>1, ResetList DEF TypeOK, ResizingType
<1>4. ASSUME NEW n \in Sizes, ResizeCopy(n)
      PROVE  TypeOK' /\ ResizingType'
  <2>1. Clamp(n) \in MinCap .. MaxCap /\ List \in Seq(0 .. MaxSamples)
    BY ClampRange, SizesAssumption, ListFacts
  <2>2. resizing' = <<[to |-> Clamp(n), keep |-> List]>>
    BY <1>4 DEF ResizeCopy
  <2>3. ResizingType'
    BY <2>1, <2>2 DEF ResizingType
  <2> QED
    BY <1>4, <2>3, SameList DEF ResizeCopy, TypeOK
<1>5. CASE ResizeInstall
  <2>1. UNCHANGED <<dropped, offered>>
    BY <1>5 DEF ResizeInstall
  <2>2. /\ Cap' \in MinCap .. MaxCap /\ items' \in Seq(0 .. MaxSamples)
        /\ size' \in 0 .. Cap' /\ next' = size' /\ resizing' = << >>
    BY <1>5, InstallList
  <2>3. next' \in Nat /\ size' <= next'
    BY <2>2, SizesAssumption
  <2> QED
    BY <2>1, <2>2, <2>3 DEF TypeOK, ResizingType
<1>6. CASE UNCHANGED vars
  BY <1>6, SameList DEF vars, TypeOK, ResizingType
<1> QED
  BY <1>1, <1>2, <1>3, <1>4, <1>5, <1>6 DEF Next

\* A new ring is empty.
LEMMA RingInit ==
  ASSUME Init
  PROVE  /\ TypeOK /\ List = << >> /\ Cap \in MinCap .. MaxCap
         /\ size = 0 /\ resizing = << >>
<1>1. PICK n \in Sizes : items = Blank(Clamp(n))
  BY DEF Init
<1>2. Clamp(n) \in MinCap .. MaxCap /\ Clamp(n) \in Nat
  BY ClampRange, SizesAssumption
<1>3. items \in Seq(0 .. MaxSamples) /\ Cap = Clamp(n)
  BY <1>1, <1>2, MaxSamplesAssumption DEF Blank, Empty, Cap
<1>4. List = << >> /\ size = 0 /\ resizing = << >>
  BY DEF Init, List
<1> QED
  BY <1>2, <1>3, <1>4, MaxSamplesAssumption DEF Init, TypeOK

-------------------------------------------------------------------------------
\* More offered samples leave a list of some of them one.
LEMMA OrderedGrows ==
  ASSUME NEW s \in Seq(0 .. MaxSamples), NEW n \in Nat, Ordered(s, n)
  PROVE  Ordered(s, n + 1)
<1>1. 1 .. n \subseteq 1 .. n + 1
  OBVIOUS
<1> QED
  BY <1>1 DEF Ordered

\* TryInsert keeps the list ordered and the race told.
LEMMA InsertStep ==
  ASSUME IInv, TryInsert
  PROVE  Ordered(List', offered') /\ KeptOrdered' /\ Raced'
<1>0. /\ TypeOK /\ ResizingType /\ Ordered(List, offered) /\ KeptOrdered /\ Raced
      /\ offered \in Nat /\ size \in Nat /\ Cap \in Nat
      /\ List \in Seq(0 .. MaxSamples) /\ Len(List) = size
  BY ListFacts DEF IInv, TypeOK
<1> DEFINE n == size'
<1>1. offered' = offered + 1 /\ resizing' = resizing
  BY DEF TryInsert
<1>2. n \in Nat /\ n >= 1 /\ n <= size + 1
  BY <1>0, InsertList DEF n
<1>3. /\ List' = [i \in 1 .. n |-> IF i = 1 THEN offered + 1 ELSE List[i - 1]]
      /\ Len(List') = n
  BY <1>0, <1>2, InsertList DEF n
<1> HIDE DEF n
<1>4. /\ \A i \in 1 .. size : List[i] \in 1 .. offered
      /\ \A i \in 1 .. size - 1 : List[i] > List[i + 1]
  BY <1>0 DEF Ordered
<1>5. /\ List'[1] = offered + 1
      /\ \A i \in 2 .. n : List'[i] = List[i - 1] /\ i - 1 \in 1 .. size
  BY <1>0, <1>2, <1>3
<1>6. Ordered(List', offered')
  <2>1. ASSUME NEW i \in 1 .. n
        PROVE  List'[i] \in 1 .. offered + 1
    <3>1. CASE i = 1
      BY <1>0, <1>5, <3>1
    <3>2. CASE i # 1
      <4>1. i \in 2 .. n
        BY <1>2, <3>2
      <4>2. List'[i] \in 1 .. offered
        BY <1>4, <1>5, <4>1
      <4> QED
        BY <1>0, <4>2
    <3> QED
      BY <3>1, <3>2
  <2>2. ASSUME NEW i \in 1 .. n - 1
        PROVE  List'[i] > List'[i + 1]
    <3>1. i + 1 \in 2 .. n /\ (i + 1) - 1 = i
      BY <1>2
    <3>2. List'[i + 1] = List[i] /\ i \in 1 .. size /\ List[i] \in 1 .. offered
      <4>1. List'[i + 1] = List[(i + 1) - 1] /\ (i + 1) - 1 \in 1 .. size
        BY <1>5, <3>1
      <4> QED
        BY <1>4, <3>1, <4>1
    <3>3. CASE i = 1
      BY <1>0, <1>5, <3>2, <3>3
    <3>4. CASE i # 1
      <4>1. i \in 2 .. n /\ i - 1 \in 1 .. size - 1 /\ (i - 1) + 1 = i
        BY <1>0, <1>2, <3>2, <3>4
      <4>2. List[i - 1] > List[(i - 1) + 1]
        BY <1>4, <4>1
      <4> QED
        BY <1>5, <3>2, <4>1, <4>2
    <3> QED
      BY <3>3, <3>4
  <2> QED
    BY <1>1, <1>3, <2>1, <2>2 DEF Ordered
<1>7. KeptOrdered'
  <2>1. resizing # << >> =>
          resizing[1].keep \in Seq(0 .. MaxSamples) /\ Ordered(resizing[1].keep, offered)
    BY <1>0 DEF KeptOrdered, ResizingType
  <2>2. resizing # << >> => Ordered(resizing[1].keep, offered + 1)
    BY <1>0, <2>1, OrderedGrows
  <2> QED
    BY <1>1, <2>2 DEF KeptOrdered
<1>8. Raced'
  <2> SUFFICES ASSUME resizing # << >>, NEW i \in 1 .. n
               PROVE  LET keep == resizing[1].keep
                      IN  \/ \A j \in 1 .. Len(keep) : keep[j] < List'[i]
                          \/ \E j \in 1 .. Len(keep) : j <= i /\ keep[j] = List'[i]
    BY <1>1 DEF Raced, n
  <2> DEFINE keep == resizing[1].keep
  <2>1. keep \in Seq(0 .. MaxSamples) /\ \A j \in 1 .. Len(keep) : keep[j] \in 1 .. offered
    BY <1>0 DEF KeptOrdered, ResizingType, Ordered
  <2>2. \A k \in 1 .. size : \/ \A j \in 1 .. Len(keep) : keep[j] < List[k]
                             \/ \E j \in 1 .. Len(keep) : j <= k /\ keep[j] = List[k]
    BY <1>0 DEF Raced
  <2> HIDE DEF keep
  <2>3. CASE i = 1
    <3>1. \A j \in 1 .. Len(keep) : keep[j] < List'[i]
      BY <1>0, <1>5, <2>1, <2>3
    <3> QED
      BY <3>1 DEF keep
  <2>4. CASE i # 1
    <3>1. i - 1 \in 1 .. size /\ List'[i] = List[i - 1]
      BY <1>2, <1>5, <2>4
    <3>2. \/ \A j \in 1 .. Len(keep) : keep[j] < List'[i]
          \/ \E j \in 1 .. Len(keep) : j <= i - 1 /\ keep[j] = List'[i]
      BY <2>2, <3>1
    <3>3. \A j \in 1 .. Len(keep) : j <= i - 1 => j <= i
      BY <1>2, <2>1
    <3> QED
      BY <3>2, <3>3 DEF keep
  <2> QED
    BY <2>3, <2>4
<1> QED
  BY <1>6, <1>7, <1>8

\* ResizeInstall shows a prefix of the copy.
LEMMA InstallStep ==
  ASSUME IInv, ResizeInstall
  PROVE  Ordered(List', offered') /\ KeptOrdered' /\ Raced'
<1> DEFINE keep == resizing[1].keep
           to == resizing[1].to
           n == size'
<1>1. /\ keep \in Seq(0 .. MaxSamples) /\ to \in Nat /\ Len(keep) \in Nat
      /\ n \in 0 .. to /\ n <= Len(keep)
      /\ resizing' = << >>
  BY InstallList, SizesAssumption DEF IInv
<1>2. List' = [i \in 1 .. n |-> keep[i]] /\ Ordered(keep, offered)
  BY InstallList DEF IInv, KeptOrdered, ResizeInstall
<1>3. offered' = offered
  BY DEF ResizeInstall
<1> HIDE DEF keep, to, n
<1>4. Len(List') = n /\ \A i \in 1 .. n : List'[i] = keep[i] /\ i \in 1 .. Len(keep)
  BY <1>1, <1>2
<1>5. \A i \in 1 .. n - 1 :
        /\ i \in 1 .. n /\ i + 1 \in 1 .. n /\ i \in 1 .. Len(keep) - 1
  <2>1. n \in Nat
    BY <1>1
  <2> QED
    BY <1>1, <2>1
<1>6. Ordered(List', offered)
  BY <1>2, <1>4, <1>5 DEF Ordered
<1> QED
  BY <1>1, <1>3, <1>6 DEF KeptOrdered, Raced

\* Every step keeps the inductive invariant.
LEMMA IInvStep ==
  ASSUME IInv, [Next]_vars
  PROVE  IInv'
<1>0. TypeOK' /\ ResizingType'
  BY TypeStep DEF IInv
<1>1. CASE TryInsert
  BY <1>0, <1>1, InsertStep DEF IInv
<1>2. CASE TryInsertGivesUp
  <2>1. /\ UNCHANGED <<items, next, size, resizing>> /\ offered' = offered + 1
        /\ offered \in Nat
    BY <1>2 DEF TryInsertGivesUp, IInv, TypeOK
  <2>2. List' = List /\ List \in Seq(0 .. MaxSamples)
    BY <2>1, SameList, ListFacts DEF IInv
  <2>3. Ordered(List, offered') /\ (resizing # << >> => Ordered(resizing[1].keep, offered'))
    <3>1. resizing # << >> => resizing[1].keep \in Seq(0 .. MaxSamples)
      BY DEF IInv, ResizingType
    <3> QED
      BY <2>1, <2>2, <3>1, OrderedGrows DEF IInv, KeptOrdered
  <2> QED
    BY <1>0, <2>1, <2>2, <2>3 DEF IInv, KeptOrdered, Raced
<1>3. CASE Reset
  <2>1. resizing' = << >> /\ offered' = offered
    BY <1>3 DEF Reset
  <2>2. Ordered(List', offered')
    BY <1>3, ResetList DEF IInv, Ordered
  <2> QED
    BY <1>0, <2>1, <2>2 DEF IInv, KeptOrdered, Raced
<1>4. ASSUME NEW n \in Sizes, ResizeCopy(n)
      PROVE  IInv'
  <2>1. /\ UNCHANGED <<items, next, size, offered>>
        /\ resizing' = <<[to |-> Clamp(n), keep |-> List]>>
    BY <1>4 DEF ResizeCopy
  <2>2. List' = List /\ Len(List) = size /\ size \in Nat
    BY <2>1, SameList, ListFacts DEF IInv
  <2>3. resizing'[1].keep = List
    BY <2>1
  <2>4. Ordered(List', offered') /\ KeptOrdered'
    BY <2>1, <2>2, <2>3 DEF IInv, KeptOrdered
  <2>5. Raced'
    BY <2>1, <2>2, <2>3 DEF Raced
  <2> QED
    BY <1>0, <2>4, <2>5 DEF IInv
<1>5. CASE ResizeInstall
  BY <1>0, <1>5, InstallStep DEF IInv
<1>6. CASE UNCHANGED vars
  <2>1. UNCHANGED <<items, next, size, resizing, offered>>
    BY <1>6 DEF vars
  <2>2. List' = List
    BY <2>1, SameList
  <2> QED
    BY <1>0, <2>1, <2>2 DEF IInv, KeptOrdered, Raced
<1> QED
  BY <1>1, <1>2, <1>3, <1>4, <1>5, <1>6 DEF Next

\* The inductive invariant holds throughout.
LEMMA Inductive == Spec => []IInv
<1>1. Init => IInv
  <2>1. Init => TypeOK /\ Ordered(List, offered)
    BY RingInit DEF Ordered
  <2> QED
    BY <2>1, RingInit DEF IInv, ResizingType, KeptOrdered, Raced
<1> QED
  BY <1>1, IInvStep, PTL DEF Spec

\* The ring's fields stay in range: size never exceeds the slice or next.
THEOREM TypeCorrect == Spec => []TypeOK
  BY Inductive, PTL DEF IInv

\* List shows real samples, strictly newest first, whatever inserts, skipped
\* inserts, wipes and resizes come in whatever order (ring.go:41-145).
THEOREM ListIsNewestFirst == Spec => []NewestFirst
<1>1. ASSUME IInv
      PROVE  NewestFirst
  <2>1. Len(List) = size /\ offered \in Nat
    BY <1>1, ListFacts DEF IInv, TypeOK
  <2>2. \A i \in 1 .. size : List[i] \in 1 .. offered
    BY <1>1, <2>1 DEF IInv, Ordered
  <2>3. \A i \in 1 .. size : List[i] # Empty
    BY <2>1, <2>2 DEF Empty
  <2>4. \A i \in 1 .. size - 1 : List[i] > List[i + 1]
    BY <1>1, <2>1 DEF IInv, Ordered
  <2> QED
    BY <2>3, <2>4 DEF NewestFirst
<1> QED
  BY <1>1, Inductive, PTL

\* A resize loses a sample that still fits only when the sample came between its
\* two critical sections: what is in the copy keeps its place or moves up.
THEOREM OnlyRacingSamplesAreLost == Spec => ResizeLosesOnlyRacing
<1>1. ASSUME IInv, Next, resizing # << >>, resizing' = << >>, NEW i \in 1 .. size, i <= Cap'
      PROVE  \/ \E j \in 1 .. size' : List'[j] = List[i]
             \/ \A j \in DOMAIN resizing[1].keep : resizing[1].keep[j] < List[i]
  <2> DEFINE keep == resizing[1].keep
             to == resizing[1].to
  <2>1. ResizeInstall
    BY <1>1 DEF Next, TryInsert, TryInsertGivesUp, Reset, ResizeCopy
  <2>2. /\ keep \in Seq(0 .. MaxSamples) /\ to \in Nat /\ Cap' = to
        /\ size' = IF Len(keep) > to THEN to ELSE Len(keep)
        /\ List' = [j \in 1 .. size' |-> keep[j]]
    BY <1>1, <2>1, InstallList, SizesAssumption DEF IInv
  <2>3. \/ \A j \in 1 .. Len(keep) : keep[j] < List[i]
        \/ \E j \in 1 .. Len(keep) : j <= i /\ keep[j] = List[i]
    BY <1>1 DEF IInv, Raced
  <2>4. size \in Nat
    BY <1>1, ListFacts DEF IInv
  <2> HIDE DEF keep, to
  <2>5. CASE \A j \in 1 .. Len(keep) : keep[j] < List[i]
    <3>1. DOMAIN keep = 1 .. Len(keep)
      BY <2>2
    <3> QED
      BY <2>5, <3>1 DEF keep
  <2>6. ASSUME NEW j \in 1 .. Len(keep), j <= i, keep[j] = List[i]
        PROVE  \E k \in 1 .. size' : List'[k] = List[i]
    <3>1. j \in 1 .. size'
      BY <1>1, <2>2, <2>4, <2>6
    <3> QED
      BY <2>2, <2>6, <3>1
  <2> QED
    BY <2>3, <2>5, <2>6
<1>2. IInv /\ [Next]_vars =>
        [\A i \in 1 .. size :
           resizing # << >> /\ resizing' = << >> /\ i <= Cap' =>
             \/ \E j \in 1 .. size' : List'[j] = List[i]
             \/ \A j \in DOMAIN resizing[1].keep : resizing[1].keep[j] < List[i]]_vars
  BY <1>1
<1> QED
  BY <1>2, Inductive, PTL DEF Spec, ResizeLosesOnlyRacing

-------------------------------------------------------------------------------
\* A reversed sequence, by its elements.
LEMMA ReverseFacts ==
  ASSUME NEW S, NEW s \in Seq(S)
  PROVE  /\ Reverse(s) \in Seq(S) /\ Len(Reverse(s)) = Len(s)
         /\ \A i \in 1 .. Len(s) : Reverse(s)[i] = s[Len(s) - i + 1]
<1>1. \A i \in 1 .. Len(s) : Len(s) - i + 1 \in 1 .. Len(s)
  OBVIOUS
<1> QED
  BY <1>1 DEF Reverse

\* The newest n of a log, by its elements.
LEMMA LastFacts ==
  ASSUME NEW S, NEW s \in Seq(S), NEW n \in Nat
  PROVE  LET l == Log!Last(s, n)
         IN  /\ l \in Seq(S)
             /\ Len(l) = IF Len(s) <= n THEN Len(s) ELSE n
             /\ \A i \in 1 .. Len(l) : l[i] = s[(Len(s) - Len(l)) + i]
<1> DEFINE from == IF Len(s) <= n THEN 1 ELSE Len(s) - n + 1
           l == SubSeq(s, from, Len(s))
<1>1. Len(s) \in Nat /\ from \in 1 .. Len(s) + 1
  OBVIOUS
<1>2. /\ l \in Seq(S)
      /\ Len(l) = IF from <= Len(s) THEN Len(s) - from + 1 ELSE 0
      /\ \A i \in 1 .. (Len(s) - from) + 1 : l[i] = s[from + i - 1]
  <2> HIDE DEF from
  <2>1. \A i \in from .. Len(s) : s[i] \in S
    BY <1>1
  <2> QED
    BY <1>1, <2>1, SubSeqProperties
<1> HIDE DEF l
<1>3. Len(l) = IF Len(s) <= n THEN Len(s) ELSE n
  <2>1. CASE Len(s) <= n
    <3>1. from = 1 /\ Len(l) = IF 1 <= Len(s) THEN Len(s) - 1 + 1 ELSE 0
      BY <1>2, <2>1
    <3> QED
      BY <1>1, <2>1, <3>1
  <2>2. CASE ~(Len(s) <= n)
    <3> DEFINE f == Len(s) - n + 1
    <3>1. Len(l) = IF f <= Len(s) THEN Len(s) - f + 1 ELSE 0
      BY <1>2, <2>2
    <3>2. f <= Len(s) \/ n = 0
      BY <1>1, <2>2
    <3>3. f <= Len(s) => Len(s) - f + 1 = n
      BY <1>1, <2>2
    <3>4. n = 0 => ~(f <= Len(s))
      BY <1>1, <2>2
    <3> HIDE DEF f
    <3> QED
      BY <2>2, <3>1, <3>2, <3>3, <3>4
  <2> QED
    BY <2>1, <2>2
<1>4. ASSUME NEW i \in 1 .. Len(l)
      PROVE  l[i] = s[(Len(s) - Len(l)) + i]
  <2>1. i \in 1 .. (Len(s) - from) + 1 /\ (from + i) - 1 = (Len(s) - Len(l)) + i
    BY <1>1, <1>3, <1>4
  <2>2. from + i - 1 = (Len(s) - Len(l)) + i
    BY <1>1, <1>3, <1>4
  <2> QED
    BY <1>2, <2>1, <2>2
<1> QED
  BY <1>2, <1>3, <1>4 DEF Log!Last, l

\* Two sequences are the same when their elements are.
LEMMA SameSeq ==
  ASSUME NEW S, NEW s \in Seq(S), NEW t \in Seq(S), Len(s) = Len(t),
         \A i \in 1 .. Len(s) : s[i] = t[i]
  PROVE  s = t
  BY SeqEqual

\* TryInsert is an insert of the log.
LEMMA InsertRefines ==
  ASSUME IInv, TryInsert
  PROVE  Log!Insert(offered + 1) /\ offered + 1 \in 1 .. MaxSamples
<1> DEFINE S == 0 .. MaxSamples
           e == offered + 1
           n == size'
           old == Reverse(List)
           all == Append(old, e)
           new == Reverse(List')
<1>1. /\ size \in Nat /\ Cap \in Nat /\ size <= Cap /\ offered \in Nat
      /\ offered < MaxSamples /\ List \in Seq(S) /\ Len(List) = size
  BY ListFacts DEF IInv, TypeOK, TryInsert
<1>2. /\ Cap' = Cap
      /\ n = IF size < Cap THEN size + 1 ELSE size
      /\ n \in 1 .. Cap
      /\ List' = [i \in 1 .. n |-> IF i = 1 THEN e ELSE List[i - 1]]
  BY InsertList DEF IInv
<1>3. e \in S /\ e \in 1 .. MaxSamples
  BY <1>1, MaxSamplesAssumption
<1> HIDE DEF S, e, n
<1>4. n \in Nat /\ n >= 1 /\ n <= size + 1 /\ (n = IF size + 1 <= Cap THEN size + 1 ELSE Cap)
  BY <1>1, <1>2
<1>5. \A i \in 2 .. n : i - 1 \in 1 .. size
  BY <1>1, <1>4
<1>6. List' \in Seq(S) /\ Len(List') = n
  <2>1. \A i \in 1 .. n : (IF i = 1 THEN e ELSE List[i - 1]) \in S
    <3> TAKE i \in 1 .. n
    <3>1. i # 1 => i \in 2 .. n
      BY <1>4
    <3> QED
      BY <1>1, <1>3, <1>5, <3>1
  <2> QED
    BY <1>2, <1>4, <2>1
<1>7. /\ old \in Seq(S) /\ Len(old) = size
      /\ \A i \in 1 .. size : old[i] = List[size - i + 1]
  BY <1>1, ReverseFacts
<1>8. /\ new \in Seq(S) /\ Len(new) = n
      /\ \A i \in 1 .. n : new[i] = List'[n - i + 1]
  BY <1>6, ReverseFacts
<1> HIDE DEF old, new
<1>9. /\ all \in Seq(S) /\ Len(all) = size + 1 /\ all[size + 1] = e
      /\ \A i \in 1 .. size : all[i] = old[i]
  BY <1>1, <1>3, <1>7
<1> HIDE DEF all
<1> DEFINE last == Log!Last(all, Cap)
<1>10. /\ last \in Seq(S) /\ Len(last) = n
       /\ \A i \in 1 .. n : last[i] = all[((size + 1) - n) + i]
  BY <1>1, <1>4, <1>9, LastFacts
<1> HIDE DEF last
<1>11. ASSUME NEW i \in 1 .. n
       PROVE  new[i] = last[i]
  <2>1. CASE i = n
    <3>1. n - i + 1 = 1 /\ ((size + 1) - n) + i = size + 1 /\ 1 \in 1 .. n
      BY <1>1, <1>4, <2>1
    <3>2. List'[1] = e
      BY <1>2, <3>1
    <3> QED
      BY <1>8, <1>9, <1>10, <3>1, <3>2
  <2>2. CASE i # n
    <3> DEFINE j == n - i + 1
               k == ((size + 1) - n) + i
    <3>1. j \in 2 .. n /\ k \in 1 .. size /\ size - k + 1 = j - 1
      BY <1>1, <1>4, <2>2
    <3>2. new[i] = List'[j] /\ last[i] = all[k]
      BY <1>8, <1>10
    <3> HIDE DEF j, k
    <3>3. j \in 1 .. n /\ j # 1
      BY <1>4, <3>1
    <3>4. List'[j] = List[j - 1]
      BY <1>2, <3>3
    <3>5. all[k] = List[size - k + 1]
      BY <1>7, <1>9, <3>1
    <3> QED
      BY <3>1, <3>2, <3>4, <3>5
  <2> QED
    BY <2>1, <2>2
<1>12. new = last
  BY <1>8, <1>10, <1>11, SameSeq
<1>13. resizing' = resizing
  BY DEF TryInsert
<1> QED
  BY <1>2, <1>3, <1>12, <1>13 DEF Log!Insert, last, all, new, old, e

\* ResizeInstall installs the newest of the copy.
LEMMA InstallRefines ==
  ASSUME IInv, ResizeInstall
  PROVE  \E n \in MinCap .. MaxCap : Log!Install(n)
<1> DEFINE S == 0 .. MaxSamples
           keep == resizing[1].keep
           to == resizing[1].to
           n == size'
           old == Reverse(keep)
           new == Reverse(List')
<1>1. /\ keep \in Seq(S) /\ to \in MinCap .. MaxCap /\ to \in Nat /\ Len(keep) \in Nat
      /\ Cap' = to /\ resizing # << >> /\ resizing' = << >>
  BY InstallList, SizesAssumption DEF IInv, ResizeInstall
<1>2. n = (IF Len(keep) <= to THEN Len(keep) ELSE to) /\ List' = [i \in 1 .. n |-> keep[i]]
  <2>1. n = IF Len(keep) > to THEN to ELSE Len(keep)
    BY InstallList DEF IInv
  <2> QED
    BY <1>1, <2>1, InstallList DEF IInv
<1> HIDE DEF S, keep, to, n
<1>3. n \in Nat /\ n <= Len(keep)
  BY <1>1, <1>2
<1>4. List' \in Seq(S) /\ Len(List') = n
  <2>1. \A i \in 1 .. n : i \in 1 .. Len(keep)
    BY <1>1, <1>3
  <2>2. \A i \in 1 .. n : keep[i] \in S
    BY <1>1, <2>1
  <2> QED
    BY <1>2, <1>3, <2>2
<1>5. /\ old \in Seq(S) /\ Len(old) = Len(keep)
      /\ \A i \in 1 .. Len(keep) : old[i] = keep[Len(keep) - i + 1]
  BY <1>1, ReverseFacts
<1>6. /\ new \in Seq(S) /\ Len(new) = n
      /\ \A i \in 1 .. n : new[i] = List'[n - i + 1]
  BY <1>4, ReverseFacts
<1> HIDE DEF old, new
<1> DEFINE last == Log!Last(old, to)
<1>7. /\ last \in Seq(S) /\ Len(last) = n
      /\ \A i \in 1 .. n : last[i] = old[(Len(keep) - n) + i]
  <2>1. /\ last \in Seq(S)
        /\ Len(last) = IF Len(old) <= to THEN Len(old) ELSE to
        /\ \A i \in 1 .. Len(last) : last[i] = old[(Len(old) - Len(last)) + i]
    BY <1>1, <1>5, LastFacts
  <2> HIDE DEF last
  <2>2. Len(last) = n
    BY <1>2, <1>5, <2>1
  <2> QED
    BY <1>5, <2>1, <2>2
<1> HIDE DEF last
<1>8. ASSUME NEW i \in 1 .. n
      PROVE  new[i] = last[i]
  <2> DEFINE j == n - i + 1
             k == (Len(keep) - n) + i
  <2>1. j \in 1 .. n /\ k \in 1 .. Len(keep) /\ Len(keep) - k + 1 = j
    BY <1>1, <1>3
  <2>2. new[i] = List'[j] /\ last[i] = old[k]
    BY <1>6, <1>7
  <2> HIDE DEF j, k
  <2>3. List'[j] = keep[j] /\ old[k] = keep[Len(keep) - k + 1]
    BY <1>2, <1>5, <2>1
  <2> QED
    BY <2>1, <2>2, <2>3
<1>9. new = last
  BY <1>6, <1>7, <1>8, SameSeq
<1>10. Log!Install(to)
  BY <1>1, <1>9 DEF Log!Install, last, old, new, keep
<1> QED
  BY <1>1, <1>10

\* A wipe is a wipe, a copy is a copy, and a skipped insert is nothing.
LEMMA OthersRefine ==
  ASSUME IInv
  PROVE  /\ Reset => Log!Reset
         /\ \A n \in Sizes : ResizeCopy(n) => Log!Copy
         /\ TryInsertGivesUp \/ UNCHANGED vars => UNCHANGED Log!vars
<1>1. ASSUME Reset
      PROVE  Log!Reset
  <2>1. List' = << >> /\ Cap' = Cap /\ resizing' = resizing
    BY <1>1, ResetList DEF IInv, Reset
  <2>2. Reverse(<< >>) = << >>
    BY DEF Reverse
  <2> QED
    BY <2>1, <2>2 DEF Log!Reset
<1>2. ASSUME NEW n \in Sizes, ResizeCopy(n)
      PROVE  Log!Copy
  <2>1. /\ List' = List /\ Cap' = Cap /\ resizing = << >> /\ resizing' # << >>
        /\ resizing'[1].keep = List
    BY <1>2, SameList DEF ResizeCopy
  <2> QED
    BY <2>1 DEF Log!Copy
<1>3. ASSUME TryInsertGivesUp \/ UNCHANGED vars
      PROVE  UNCHANGED Log!vars
  <2>1. UNCHANGED <<items, next, size, resizing>>
    BY <1>3 DEF TryInsertGivesUp, vars
  <2>2. List' = List /\ Cap' = Cap
    BY <2>1, SameList
  <2> QED
    BY <2>1, <2>2 DEF Log!vars
<1> QED
  BY <1>1, <1>2, <1>3

\* The ring implements the plain log: its slice, its wrapping index and the two
\* critical sections of a resize show what SampleLog's sequence would
\* (ring.go:22-145).
THEOREM RingImplementsLog == Spec => ImplementsSampleLog
<1>1. Init => Log!Init
  <2> SUFFICES ASSUME Init PROVE Log!Init
    OBVIOUS
  <2>1. Reverse(<< >>) = << >>
    BY DEF Reverse
  <2> QED
    BY <2>1, RingInit DEF Log!Init
<1>2. IInv /\ [Next]_vars => [Log!Next]_(Log!vars)
  BY InsertRefines, InstallRefines, OthersRefine DEF Next, Log!Next
<1> QED
  BY <1>1, <1>2, Inductive, PTL DEF Spec, ImplementsSampleLog, Log!Spec
=================================================================================
