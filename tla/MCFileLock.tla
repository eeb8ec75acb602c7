----------------------------- MODULE MCFileLock -----------------------------
(* Two processes for TLC. *)
EXTENDS FileLock
CONSTANTS c1, c2
Clients == {c1, c2}
=============================================================================
