------------------------------- MODULE Gather --------------------------------
(* What /api/echo promises a caller when backends are configured: one       *)
(* answer, after every backend's call has been decided, with one entry for  *)
(* each backend, which says what became of that backend's call.             *)
EXTENDS Naturals

CONSTANTS Backends,
          Outcomes(_)   \* the entries that may stand for a backend

VARIABLES entry,    \* the outcome of each backend's call, "none" until it is decided
          answer    \* the answer, "none" until it is given

Init == entry = [b \in Backends |-> "none"] /\ answer = "none"

Decide(b) ==
  /\ entry[b] = "none" /\ answer = "none"
  /\ \E o \in Outcomes(b) : entry' = [entry EXCEPT ![b] = o]
  /\ UNCHANGED answer

Answer ==
  /\ answer = "none"
  /\ \A b \in Backends : entry[b] # "none"
  /\ answer' = "given"
  /\ UNCHANGED entry

(* The body of the call could not be read: the answer is an error.         *)
Refuse ==
  /\ answer = "none"
  /\ \A b \in Backends : entry[b] = "none"
  /\ answer' = "error"
  /\ UNCHANGED entry

Next == (\E b \in Backends : Decide(b)) \/ Answer \/ Refuse

Spec == Init /\ [][Next]_<<entry, answer>>
=============================================================================
