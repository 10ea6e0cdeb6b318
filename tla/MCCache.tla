------------------------------ MODULE MCCache -------------------------------
(* Values of the constants of Cache for TLC.                               *)
EXTENDS Cache, TLC

CONSTANTS k, host, v, v1, r1, r2

(* Requests differ by nothing but what they ask, and every property of the *)
(* run is one of states or of steps.                                       *)
Symmetry == Permutations(Calls)
=============================================================================
