---------------------------- MODULE MCConfigWatch ----------------------------
(* Values of the constants of ConfigWatch for TLC.                         *)
EXTENDS ConfigWatch

CONSTANTS a, b

AnySet == {{}, {a}, {b}, {a, b}}
=============================================================================
