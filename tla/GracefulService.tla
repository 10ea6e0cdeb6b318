--------------------------- MODULE GracefulService ---------------------------
(* What a service that is stopped gracefully promises its callers: it gives *)
(* notice before it closes a listener; a listener that closes takes no more *)
(* requests and answers those it took, until the deadline if it has one;    *)
(* and the service ends when every listener has, or abruptly.               *)
CONSTANTS Requests, Listeners,
          Unbounded   \* the listeners whose requests the deadline does not cut

VARIABLES notice,    \* it has told that it will stop
          overdue,   \* the deadline has passed
          door,      \* of each listener: "down", "open", "closing", "closed"
          status,    \* of each request: "new", "active", "done", "lost"
          at,        \* the listener that took it, or "none"
          end        \* "none" while the service runs, "clean", "abrupt"

vars == <<notice, overdue, door, status, at, end>>

Init ==
  /\ notice = FALSE /\ overdue = FALSE
  /\ door = [s \in Listeners |-> "down"]
  /\ status = [r \in Requests |-> "new"] /\ at = [r \in Requests |-> "none"]
  /\ end = "none"

(* Nobody waits at s, or nobody may any longer.                            *)
Released(s) ==
  \/ \A r \in Requests : ~(status[r] = "active" /\ at[r] = s)
  \/ overdue /\ s \notin Unbounded

(* The deadline may be at once.                                            *)
GiveNotice ==
  /\ end = "none" /\ ~notice
  /\ notice' = TRUE /\ overdue' \in BOOLEAN
  /\ UNCHANGED <<door, status, at, end>>

Expire ==
  /\ end = "none" /\ notice
  /\ overdue' = TRUE
  /\ UNCHANGED <<notice, door, status, at, end>>

Open(s) ==
  /\ end = "none" /\ door[s] = "down"
  /\ door' = [door EXCEPT ![s] = "open"]
  /\ UNCHANGED <<notice, overdue, status, at, end>>

Accept(r, s) ==
  /\ end = "none" /\ door[s] = "open" /\ status[r] = "new"
  /\ status' = [status EXCEPT ![r] = "active"]
  /\ at' = [at EXCEPT ![r] = s]
  /\ UNCHANGED <<notice, overdue, door, end>>

Answer(r) ==
  /\ end = "none" /\ status[r] = "active"
  /\ status' = [status EXCEPT ![r] = "done"]
  /\ UNCHANGED <<notice, overdue, door, at, end>>

Close(s) ==
  /\ end = "none" /\ notice
  /\ \/ door[s] = "open" /\ door' = [door EXCEPT ![s] = "closing"]
     \/ door[s] = "down" /\ door' = [door EXCEPT ![s] = "closed"]
  /\ UNCHANGED <<notice, overdue, status, at, end>>

Leave(s) ==
  /\ end = "none" /\ door[s] = "closing" /\ Released(s)
  /\ door' = [door EXCEPT ![s] = "closed"]
  /\ UNCHANGED <<notice, overdue, status, at, end>>

EndAs(how) ==
  /\ end = "none" /\ end' = how
  /\ status' = [r \in Requests |-> IF status[r] = "active" THEN "lost" ELSE status[r]]
  /\ UNCHANGED <<notice, overdue, at>>

Finish ==
  /\ notice
  /\ \A s \in Listeners : door[s] # "open" /\ Released(s)
  /\ door' = [s \in Listeners |-> IF door[s] = "closing" THEN "closed" ELSE door[s]]
  /\ EndAs("clean")

Abort == EndAs("abrupt") /\ UNCHANGED door

Next ==
  \/ GiveNotice \/ Expire
  \/ \E s \in Listeners : Open(s) \/ Close(s) \/ Leave(s)
  \/ \E r \in Requests : Answer(r) \/ \E s \in Listeners : Accept(r, s)
  \/ Finish \/ Abort

Spec == Init /\ [][Next]_vars
=============================================================================
