----------------------------- MODULE QueryLogRing -----------------------------
(***************************************************************************)
(* internal/querylog/ring.go: a slice used as a ring, under one mutex.     *)
(* Packet handlers call TryInsert, readers call List, and apply and reset  *)
(* call Resize and Reset with App.mu held, so that at most one of those    *)
(* two runs. Resize takes the mutex twice: List copies the samples, then   *)
(* the copy is put into a new slice.                                       *)
(***************************************************************************)
EXTENDS Naturals, Sequences, SequencesExt

CONSTANTS
  Sizes,       \* capacities the configuration asks for
  MinCap,      \* the lower clamp (1)
  MaxCap,      \* the upper clamp (4096)
  MaxSamples   \* bound: samples offered to the ring

ASSUME SizesAssumption ==
  /\ Sizes \subseteq Nat
  /\ MinCap \in Nat \ {0}
  /\ MaxCap \in Nat
  /\ MinCap <= MaxCap

ASSUME MaxSamplesAssumption == MaxSamples \in Nat

VARIABLES
  items,     \* Ring.items, indexed from 0
  next,      \* Ring.next
  size,      \* Ring.size
  dropped,   \* Ring.dropped
  resizing,  \* << >>, or <<[to, keep]>> between Resize's two critical sections
  offered    \* number of TryInsert calls; the call's number is its sample

vars == <<items, next, size, dropped, resizing, offered>>

Empty == 0

Cap == Len(items)

\* New and Resize clamp the capacity.
Clamp(n) == IF n < MinCap THEN MinCap ELSE IF n > MaxCap THEN MaxCap ELSE n

\* items[i % len(items)], with the slice as a sequence from 1.
Slot(i) == (i % Cap) + 1

\* (Mutant) off by one.
MutList == [i \in 1 .. size |-> items[Slot(next - i + 1)]]

\* List: newest first.
List == [i \in 1 .. size |-> items[Slot(next - i)]]

Blank(n) == [i \in 1 .. n |-> Empty]

\* (Mutant) the oldest of the copy are kept.
MutRebuilt(keep, n) ==
  LET m == IF Len(keep) > n THEN n ELSE Len(keep)
  IN  [i \in 1 .. n |-> IF i <= m THEN keep[Len(keep) - i + 1] ELSE Empty]

\* Resize's rebuild: the newest of the copy, oldest of them first, from slot 0.
Rebuilt(keep, n) ==
  LET m == IF Len(keep) > n THEN n ELSE Len(keep)
  IN  [i \in 1 .. n |-> IF i <= m THEN keep[m - i + 1] ELSE Empty]

-------------------------------------------------------------------------------
\* TryInsert gets the lock in time.
TryInsert ==
  /\ offered < MaxSamples
  /\ offered' = offered + 1
  /\ items' = [items EXCEPT ![Slot(next)] = offered + 1]
  /\ next' = next + 1
  /\ size' = IF size < Cap THEN size + 1 ELSE size
  /\ UNCHANGED <<dropped, resizing>>

\* TryInsert gives up after 100 microseconds. The skip is counted only if the
\* lock is free at that moment.
TryInsertGivesUp ==
  /\ offered < MaxSamples
  /\ offered' = offered + 1
  /\ dropped' \in {dropped, dropped + 1}
  /\ UNCHANGED <<items, next, size, resizing>>

Reset ==
  /\ resizing = << >>
  /\ next' = 0
  /\ size' = 0
  /\ items' = Blank(Cap)
  /\ UNCHANGED <<dropped, resizing, offered>>

ResizeCopy(n) ==
  /\ resizing = << >>
  /\ resizing' = <<[to |-> Clamp(n), keep |-> List]>>
  /\ UNCHANGED <<items, next, size, dropped, offered>>

\* (Mutant) after the rebuild the next sample goes to slot 0.
MutResizeInstall ==
  LET r == resizing[1]
      m == IF Len(r.keep) > r.to THEN r.to ELSE Len(r.keep)
  IN  /\ resizing # << >>
      /\ items' = Rebuilt(r.keep, r.to)
      /\ next' = 0
      /\ size' = m
      /\ resizing' = << >>
      /\ UNCHANGED <<dropped, offered>>

ResizeInstall ==
  LET r == resizing[1]
      m == IF Len(r.keep) > r.to THEN r.to ELSE Len(r.keep)
  IN  /\ resizing # << >>
      /\ items' = Rebuilt(r.keep, r.to)
      /\ next' = m
      /\ size' = m
      /\ resizing' = << >>
      /\ UNCHANGED <<dropped, offered>>

Init ==
  /\ \E n \in Sizes : items = Blank(Clamp(n))
  /\ next = 0
  /\ size = 0
  /\ dropped = 0
  /\ resizing = << >>
  /\ offered = 0

Next ==
  \/ TryInsert
  \/ TryInsertGivesUp
  \/ Reset
  \/ \E n \in Sizes : ResizeCopy(n)
  \/ ResizeInstall

Spec == Init /\ [][Next]_vars

-------------------------------------------------------------------------------
\* The ring's fields stay in range: size never exceeds the slice or next.
TypeOK ==
  /\ items \in Seq(0 .. MaxSamples)
  /\ Cap \in MinCap .. MaxCap
  /\ next \in Nat
  /\ size \in 0 .. Cap
  /\ size <= next
  /\ dropped \in 0 .. offered
  /\ offered \in 0 .. MaxSamples

\* List shows real samples, strictly newest first: wrapping around, resizing
\* and resetting never repeat a sample, reorder two, or show an empty slot.
NewestFirst ==
  /\ \A i \in 1 .. size : List[i] # Empty
  /\ \A i \in 1 .. size - 1 : List[i] > List[i + 1]

\* The ring implements the plain log, index arithmetic and all.
Log == INSTANCE SampleLog WITH
         log <- Reverse(List),
         capacity <- Cap,
         copied <- IF resizing = << >> THEN << >> ELSE <<Reverse(resizing[1].keep)>>,
         Samples <- 1 .. MaxSamples,
         Sizes <- MinCap .. MaxCap

ImplementsSampleLog == Log!Spec

\* A resize loses a sample that still fits only if that sample was inserted
\* between the resize's two critical sections.
ResizeLosesOnlyRacing ==
  [][\A i \in 1 .. size :
       resizing # << >> /\ resizing' = << >> /\ i <= Cap' =>
         \/ \E j \in 1 .. size' : List'[j] = List[i]
         \/ \A j \in DOMAIN resizing[1].keep : resizing[1].keep[j] < List[i]]_vars

\* (Refuted) Resize keeps the newest samples (the comment of Ring.Resize); what
\* does hold is ResizeLosesOnlyRacing.
ResizeKeepsNewest ==
  [][resizing # << >> /\ resizing' = << >> =>
       \A i \in 1 .. (IF size < Cap' THEN size ELSE Cap') :
         \E j \in 1 .. size' : List'[j] = List[i]]_vars
===============================================================================
