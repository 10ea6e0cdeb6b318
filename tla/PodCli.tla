------------------------------- MODULE PodCli --------------------------------
(***************************************************************************)
(* One run of podcli, of cmd/podcli/main.go, against a podinfo: a command  *)
(* of check or the websocket client, with the requests it has open at the  *)
(* service, some of which outlive it.                                      *)
(***************************************************************************)
EXTENDS PodCheck, WsClient

CONSTANTS Commands,     \* subset of Retrying \cup {"cert", "ws"}
          DelayBounds   \* --random-delay-min and --random-delay-max

ASSUME PodCliAssumption ==
  /\ Commands \subseteq Retrying \cup {"cert", "ws"}
  /\ DelayBounds \subseteq Nat \X Nat
  /\ Requests = 0..RetryCount

vars == <<serviceVars, checkVars, wsVars>>

(* podinfo's main panics on other bounds.                                  *)
Validated == {b \in DelayBounds : b[2] >= b[1]}

Init ==
  /\ ServiceInit(Validated)
  /\ CheckInit(Commands)
  /\ WsInit(command = "ws")
  /\ command = "ws" => target.route = "ws"

Serve == (\E r \in Requests : ServiceStep(r)) /\ UNCHANGED <<checkVars, wsVars>>

Next ==
  \/ CheckStep /\ UNCHANGED wsVars
  \/ WsStep /\ UNCHANGED checkVars
  \/ Serve
  \/ Elapse /\ UNCHANGED wsVars

(* Goroutines that can run do, and time passes.  The server echoes, see    *)
(* EveryMessageEchoed of WsEcho; what a user types, and when the           *)
(* connection is cut, is not known.                                        *)
Fairness ==
  /\ WF_vars(Main /\ UNCHANGED checkVars) /\ WF_vars(WriteMessage /\ UNCHANGED checkVars)
  /\ WF_vars(ReadReply /\ UNCHANGED checkVars) /\ WF_vars(ReadFails /\ UNCHANGED checkVars)
  /\ WF_vars(ServerEchoes /\ UNCHANGED checkVars)
  /\ WF_vars(Serve) /\ WF_vars(Elapse /\ UNCHANGED wsVars)

Spec == Init /\ [][Next]_vars /\ Fairness

Stages == {"none", "running", "returned", "panicked"}

(* Every variable has its type; in particular what a metric's label can be *)
(* is a status.                                                            *)
TypeOK ==
  /\ bounds \in DelayBounds
  /\ \A r \in Requests :
       /\ req[r].stage \in Stages /\ req[r].asleep \in Nat /\ req[r].age \in Nat
       /\ req[r].header \in {0} \cup 100..999 /\ req[r].counted \in {0} \cup 100..999
       /\ req[r].wire \in -1..req[r].age
       /\ req[r].hijacked \in BOOLEAN /\ req[r].recorded \in BOOLEAN
  /\ command \in Commands /\ target \in Targets
  /\ at \in {"loop", "sleep", "attempt", "await", "handshake", "over"}
  /\ disturbed \subseteq Requests
  /\ n \in 0..RetryCount + 1 /\ timer \in Nat /\ spent \in Nat /\ exit \in {-1, 0, 1}
  /\ main \in {"idle", "dial", "upgrade", "await", "over"}
  /\ console \in {"none", "read", "write", "offer"} /\ reader \in {"none", "read"}
  /\ link \in {"none", "up", "cut", "closed"}
  /\ typed \in 0..MaxLines /\ sent \in 0..typed /\ wsExit \in {-1, 0, 1}
  /\ Len(printed) <= Len(echoes)
=============================================================================
