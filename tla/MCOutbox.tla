------------------------------ MODULE MCOutbox ------------------------------
(* Values of the Outbox constants for TLC. *)
EXTENDS Outbox

BothPolicies == {"RejectNewest", "DropOldest"}
\* No hint, one within the maximum, and one beyond it.
SmallHints   == {0, 1, 3}
AllFaults    == {"stats", "peek", "pop", "enqueue", "power", "flash"}
=============================================================================
