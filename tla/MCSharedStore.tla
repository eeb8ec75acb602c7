--------------------------- MODULE MCSharedStore ---------------------------
(* Two Queue objects for TLC. *)
EXTENDS SharedStore
CONSTANTS c1, c2
Clients == {c1, c2}
=============================================================================
