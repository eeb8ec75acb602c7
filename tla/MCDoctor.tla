------------------------------ MODULE MCDoctor ------------------------------
(* Values of the Doctor constants for TLC. *)
EXTENDS Doctor

CONSTANTS a, b

Names     == {a, b}
OneOrBoth == {<<a>>, <<b>>, <<a, b>>}
Commands  == {<<"VALIDATE">>, <<"VALIDATE", "FORMAT">>, <<"DUMP_FILE">>, <<"DUMP_ALL">>}
Refused   == {b}
=============================================================================
