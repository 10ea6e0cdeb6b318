---------------------------- MODULE MCEchoFanout -----------------------------
(* Values of the constants of EchoFanout for TLC.                           *)
EXTENDS EchoFanout

CONSTANTS b1, b2, b3
ThreeBackends == {b1, b2, b3}
=============================================================================
