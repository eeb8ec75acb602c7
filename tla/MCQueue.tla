------------------------------ MODULE MCQueue -------------------------------
(* Values of the Queue constants for TLC. *)
EXTENDS Queue

BothPolicies == {"RejectNewest", "DropOldest"}
=============================================================================
