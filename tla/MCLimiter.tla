------------------------------- MODULE MCLimiter -------------------------------
(***************************************************************************)
(* An instance of Limiter for TLC. No client and no handler is treated     *)
(* differently from another.                                               *)
(***************************************************************************)
EXTENDS Limiter, TLC

MCSymmetry == Permutations(Clients) \cup Permutations(Callers)
===============================================================================
