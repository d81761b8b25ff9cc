---------------------------- MODULE MCPublisher ----------------------------
(* The instance of Publisher that TLC checks: a resource with the default   *)
(* window and one with a longer floor.                                     *)
EXTENDS Publisher, TLC
TwoWindows == "snapshots" :> 1 @@ "logs" :> 2
=============================================================================
