------------------------------- MODULE MCLogs -------------------------------
(***************************************************************************)
(* Goroutines of Logs are alike, and its properties are invariants.         *)
(***************************************************************************)
EXTENDS Logs, TLC

GoroutineSymmetry == Permutations(Goroutine)
=============================================================================
