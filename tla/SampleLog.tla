------------------------------- MODULE SampleLog -------------------------------
(***************************************************************************)
(* What internal/querylog promises, without the ring: a sequence of the    *)
(* newest samples, oldest first, with a capacity. A resize copies the log  *)
(* and installs the copy in a later step; inserts may come in between.     *)
(***************************************************************************)
EXTENDS Naturals, Sequences

CONSTANTS Samples, Sizes

VARIABLES
  log,       \* retained samples, oldest first
  capacity,  \* how many are retained
  copied     \* << >> or <<the log as a resize copied it>>

vars == <<log, capacity, copied>>

\* The last n elements of s, all of s when it is no longer.
Last(s, n) == SubSeq(s, IF Len(s) <= n THEN 1 ELSE Len(s) - n + 1, Len(s))

Insert(e) ==
  /\ log' = Last(Append(log, e), capacity)
  /\ UNCHANGED <<capacity, copied>>

Reset ==
  /\ log' = << >>
  /\ UNCHANGED <<capacity, copied>>

Copy ==
  /\ copied = << >>
  /\ copied' = <<log>>
  /\ UNCHANGED <<log, capacity>>

Install(n) ==
  /\ copied # << >>
  /\ log' = Last(copied[1], n)
  /\ capacity' = n
  /\ copied' = << >>

Init ==
  /\ log = << >>
  /\ capacity \in Sizes
  /\ copied = << >>

Next ==
  \/ \E e \in Samples : Insert(e)
  \/ Reset
  \/ Copy
  \/ \E n \in Sizes : Install(n)

Spec == Init /\ [][Next]_vars
===============================================================================
