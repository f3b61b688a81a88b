----------------------------- MODULE VirtualClock -----------------------------
(***************************************************************************)
(* What mode rate promises its clients (docs/implementation-design.md,     *)
(* D19): a clock that runs at the rate asked for, is moved by nothing but  *)
(* a request to move it, and goes on from where it is when only the rate   *)
(* is changed. Written without the code's formula: there is no anchor, the *)
(* clock is pushed along tick by tick.                                     *)
(***************************************************************************)
EXTENDS Integers

CONSTANTS Floor, Ceil, MaxLag

VARIABLES
  asked,  \* the rate, the epoch and the boot asked for; or Nothing
  hand,   \* the virtual instant, without bounds
  shown   \* what clients see
vars == <<asked, hand, shown>>

Nothing == [rate |-> 0, epoch |-> <<>>, boot |-> -1]
Running(a) == a # Nothing

Clamp(t) == IF t < Floor THEN Floor ELSE IF t > Ceil THEN Ceil ELSE t
Shows    == shown' = IF Running(asked') THEN Clamp(hand') ELSE 0

Init == /\ shown = IF Running(asked) THEN Clamp(hand) ELSE 0
        /\ ~Running(asked) => hand = 0

Tick == /\ Running(asked) /\ hand' = hand + asked.rate
        /\ UNCHANGED asked /\ Shows

(* A change takes effect up to MaxLag before clients see it: the new clock *)
(* starts when it is compiled and shows when it is installed.              *)
Started(from, lag) == hand' = from + asked'.rate * lag

(* The epoch asked for is where the clock starts; without one, any instant.*)
Set == /\ Running(asked') /\ asked' # asked
       /\ asked'.epoch # <<>> => \E lag \in 0 .. MaxLag : Started(asked'.epoch[2], lag)
       /\ Running(asked) /\ asked.boot = asked'.boot
            => asked'.epoch # asked.epoch \/ asked'.epoch # <<>>
       /\ Shows

(* Only the rate is changed: no jump.                                      *)
ChangeRate ==
  /\ Running(asked) /\ Running(asked')
  /\ asked'.rate # asked.rate /\ asked'.epoch = <<>> /\ asked'.boot = asked.boot
  /\ \E lag \in 0 .. MaxLag : Started(Clamp(hand - asked.rate * lag), lag)
  /\ Shows

Stop == Running(asked) /\ ~Running(asked') /\ hand' = 0 /\ Shows

Next == Tick \/ Set \/ ChangeRate \/ Stop

Spec == Init /\ [][Next]_vars
=============================================================================
