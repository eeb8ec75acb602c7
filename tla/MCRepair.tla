------------------------------ MODULE MCRepair ------------------------------
(* Repair is instantiated by its configurations alone. *)
EXTENDS Repair
=============================================================================
