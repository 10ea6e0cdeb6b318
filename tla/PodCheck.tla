------------------------------ MODULE PodCheck -------------------------------
(***************************************************************************)
(* podcli check: the command retries an attempt up to RetryCount times and *)
(* exits with 0 at the first that succeeds, with 1 when none did.  The     *)
(* requests of check http are answered by HttpService, request n by that   *)
(* of attempt n; what check tcp, grpc and cert find is up to their target. *)
(* The network serves some attempts at once; of others the connection is   *)
(* refused, slow or lost, on the way to the service or back.  Retries that *)
(* net/http's transport makes on its own are left out.                     *)
(***************************************************************************)
EXTENDS HttpService

CONSTANTS
  RetryCount, RetryDelay, Timeout,  \* --retry, --delay, --timeout
  Targets                           \* addresses to check

ASSUME CheckAssumption ==
  /\ RetryCount \in Nat /\ RetryDelay \in Nat /\ Timeout \in Nat \ {0}
  /\ Targets \subseteq [route : Routes \cup {"malformed"}, arg : Nat]

VARIABLES
  command,  \* "http", "tcp", "grpc", "cert", or another command
  target,   \* what is checked
  at,       \* "loop", "sleep", "attempt", "await"; check cert "handshake"; "over"
  n,        \* the attempt
  timer,    \* the time left of a sleep or a timeout
  exit,     \* the exit code, -1 while the command runs
  spent,    \* the time it has run
  disturbed \* the attempts that the network does not serve at once, if at all

checkVars == <<command, target, at, n, timer, exit, spent, disturbed>>

Retrying == {"http", "tcp", "grpc"}

CheckInit(commands) ==
  /\ command \in commands /\ target \in Targets
  /\ at = IF command \in Retrying THEN "loop" ELSE IF command = "cert" THEN "attempt" ELSE "over"
  /\ n = 0 /\ timer = 0 /\ exit = -1 /\ spent = 0 /\ disturbed = {}

Exit(code) ==
  /\ exit' = code /\ at' = "over" /\ timer' = 0
  /\ UNCHANGED <<command, target, n, spent, disturbed>>

(* continue: to the next iteration.                                        *)
Continue ==
  /\ n' = n + 1 /\ at' = "loop" /\ timer' = 0
  /\ UNCHANGED <<command, target, exit, spent, disturbed>>

Move(place, time) ==
  /\ at' = place /\ timer' = time
  /\ UNCHANGED <<command, target, n, exit, spent, disturbed>>

-----------------------------------------------------------------------------
(* Mutants: one attempt too few, one too many, and a wait before each.     *)
LoopOneShort ==
  /\ at = "loop"
  /\ IF n >= RetryCount THEN Exit(1)
     ELSE IF n # 1 THEN Move("sleep", RetryDelay) ELSE Move("attempt", 0)
  /\ UNCHANGED serviceVars

LoopOneMore ==
  /\ at = "loop"
  /\ IF n > RetryCount + 1 THEN Exit(1)
     ELSE IF n # 1 THEN Move("sleep", RetryDelay) ELSE Move("attempt", 0)
  /\ UNCHANGED serviceVars

LoopAlwaysSleeps ==
  /\ at = "loop"
  /\ IF n > RetryCount THEN Exit(1) ELSE Move("sleep", RetryDelay)
  /\ UNCHANGED serviceVars

(* The loop: it sleeps before every attempt but that with n = 1.           *)

Loop ==
  /\ at = "loop"
  /\ IF n > RetryCount THEN Exit(1)
     ELSE IF n # 1 THEN Move("sleep", RetryDelay) ELSE Move("attempt", 0)
  /\ UNCHANGED serviceVars

Wake == at = "sleep" /\ timer = 0 /\ Move("attempt", 0) /\ UNCHANGED serviceVars

-----------------------------------------------------------------------------
(* check http.                                                             *)

Success(code) == code \in 200..399

(* http.NewRequest rejects a malformed address, which ends the command;    *)
(* client.Do connects and sends the request.                               *)
DoRequest ==
  /\ command = "http" /\ at = "attempt"
  /\ UNCHANGED serviceVars
  /\ \/ target.route = "malformed" /\ Exit(1)
     \/ /\ target.route # "malformed"
        /\ at' = "await" /\ timer' = Timeout
        /\ disturbed' \in {disturbed, disturbed \cup {n}}
        /\ UNCHANGED <<command, target, n, exit, spent>>

Awaiting == command = "http" /\ at = "await"

(* The request reaches the service.                                        *)
Arrive ==
  /\ Awaiting /\ req[n].stage = "none"
  /\ \E proto \in {"h1", "h2"} : \E p \in Programs(target, FALSE, proto) : Accept(n, p)
  /\ UNCHANGED checkVars

Response ==
  /\ Awaiting /\ req[n].wire >= 0
  /\ IF Success(req[n].header) THEN Exit(0) ELSE Continue
  /\ UNCHANGED serviceVars

(* The connection closes without a response, or the context expires, or    *)
(* there is no connection any more: a handler goes on without a client.    *)
Unanswered(q) == q.stage \in {"returned", "panicked"} /\ q.wire < 0

NoResponse ==
  /\ Awaiting
  /\ Unanswered(req[n]) \/ timer = 0 \/ n \in disturbed
  /\ Continue
  /\ UNCHANGED serviceVars

RunCheck == DoRequest \/ Arrive \/ Response \/ NoResponse

-----------------------------------------------------------------------------
(* check tcp and check grpc: the target answers, refuses or does not       *)
(* answer; a health answer counts whatever status it holds.                *)

RunCheckTCP ==
  /\ command = "tcp" /\ UNCHANGED serviceVars
  /\ \/ at = "attempt" /\ Move("await", Timeout)
     \/ at = "await" /\ (Exit(0) \/ Continue)

HealthAnswers == {"SERVING", "NOT_SERVING", "unimplemented", "error"}

RunCheckgPRC ==
  /\ command = "grpc" /\ UNCHANGED serviceVars
  /\ \/ at = "attempt" /\ Move("await", Timeout)
     \/ /\ at = "await"
        /\ \E answer \in HealthAnswers :
             CASE answer = "unimplemented" -> Exit(1)
               [] answer = "error" -> Continue
               [] OTHER -> Exit(0)

(* check cert tries once.  Its dial has a timeout of 5 s, its handshake has*)
(* none; a certificate that has expired is an error.                       *)
RunCheckCert ==
  /\ command = "cert" /\ UNCHANGED serviceVars
  /\ \/ at = "attempt" /\ Move("await", 5)
     \/ at = "await" /\ (Move("handshake", 0) \/ Exit(1))
     \/ at = "handshake" /\ \E expired \in BOOLEAN : Exit(IF expired THEN 1 ELSE 0)
     \/ at = "handshake" /\ Exit(1)

CheckStep == Loop \/ Wake \/ RunCheck \/ RunCheckTCP \/ RunCheckgPRC \/ RunCheckCert

-----------------------------------------------------------------------------
(* Time.                                                                   *)

(* Nothing can happen before some timer runs out, except that a target     *)
(* answers, or that a disturbed network delivers.                          *)
InTransit(q) == q.stage # "running" \/ q.wire >= 0

Waiting ==
  /\ \A r \in Requests : ~Ready(r)
  /\ \/ at = "over"
     \/ at = "handshake"
     \/ at \in {"sleep", "await"} /\ timer > 0
  /\ Awaiting /\ InTransit(req[n]) => n \in disturbed

Timers == ServiceTimers \cup (IF timer > 0 THEN {timer} ELSE {})
Delays == IF Awaiting /\ n \in disturbed THEN 1..timer ELSE {}

Elapse ==
  /\ Waiting
  /\ \E d \in Timers \cup Delays :
       /\ \A t \in Timers : d <= t
       /\ Aged(d)
       /\ timer' = Dropped(timer, d)
       /\ spent' = IF at = "over" THEN spent ELSE spent + d
  /\ UNCHANGED <<bounds, command, target, at, n, exit, disturbed>>

-----------------------------------------------------------------------------
(* Properties.                                                             *)

Uncounted == {"unmatched", "metrics/healthz"}

(* Prometheus counts a request under the status that its client was sent.  *)
(* The label is another one only where the handler took the connection     *)
(* over (200 for 101), where nothing could be sent any more (the status    *)
(* that was meant to be), and in /status of an informational code; only a  *)
(* request that panicked is missing.                                       *)
CountedAsAnswered ==
  \A r \in Requests :
    LET q == req[r]
    IN /\ q.stage = "panicked" => q.counted = 0
       /\ q.stage = "returned" /\ target.route \notin Uncounted =>
            \/ q.hijacked /\ q.counted = 200
            \/ ~q.hijacked /\ q.counted = q.header /\ (q.wire >= 0 \/ Late(q))
            \/ /\ target.route = "status" /\ target.arg \in 100..199 \ {101}
               /\ q.counted = target.arg

(* A request gets a response unless its handler ran into the write         *)
(* deadline or panicked, and it panics only over a number: equal bounds of *)
(* the random delay, the product in /chunked, a status HTTP has not.       *)
AnsweredUnlessLate ==
  \A r \in Requests : Unanswered(req[r]) =>
    \/ Late(req[r])
    \/ /\ req[r].stage = "panicked"
       /\ \/ RandomDelay /\ bounds[1] = bounds[2]
          \/ target.route = "chunked" /\ target.arg > MaxInt /\ ChunkedBound <= 0
          \/ target.route = "status" /\ target.arg \notin 100..999

(* 0 means that the last attempt was sent a good answer within the timeout *)
(* of its command; 1 that RetryCount + 1 attempts were made and none that  *)
(* the network served was sent one in time, or that the address is         *)
(* malformed and no attempt was made.                                      *)
ExitTellsTheTruth ==
  command = "http" =>
    /\ exit = 0 => Success(req[n].header) /\ req[n].wire \in 0..Timeout
    /\ exit = 1 =>
         \/ target.route = "malformed" /\ \A r \in Requests : req[r].stage = "none"
         \/ /\ n = RetryCount + 1
            /\ \A r \in (0..RetryCount) \ disturbed :
                 req[r].wire >= 0 /\ Success(req[r].header) => req[r].wire >= Timeout

(* Retries wait RetryDelay and attempts at most Timeout; without a retry   *)
(* there is a wait too.                                                    *)
ExitsInTime ==
  command \in Retrying =>
    spent <= (RetryCount + 1) * Timeout + (IF RetryCount = 0 THEN 1 ELSE RetryCount) * RetryDelay
=============================================================================
