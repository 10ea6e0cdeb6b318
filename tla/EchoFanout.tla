----------------------------- MODULE EchoFanout ------------------------------
(***************************************************************************)
(* One call of echoHandler of pkg/api/echo.go: the body is read, then one  *)
(* goroutine for each configured backend posts it there and writes what    *)
(* came back into its slot of result, and the handler answers when the     *)
(* wait group is at zero.                                                  *)
(*                                                                         *)
(* The goroutines assign the captured variable ctx.  Each reads it twice   *)
(* around its own assignment, so that a goroutine may go on with a context *)
(* that another has stored; a context is modelled by the goroutines whose  *)
(* traces and whose time limits it carries.  Every value ctx can have is a *)
(* *valueCtx, so a torn read of it is one of the values stored.            *)
(*                                                                         *)
(* Time goes from one deadline to the next; the program's own steps take   *)
(* none.  Backends and the caller act whenever they like.                  *)
(***************************************************************************)
EXTENDS Integers, FiniteSets

CONSTANTS
  Backends,        \* --backend-url
  Malformed,       \* those http.NewRequest rejects
  ClientTimeout,   \* --http-client-timeout
  ServerTimeout    \* --http-server-timeout, which is the write timeout

ASSUME FanoutAssumption ==
  /\ IsFiniteSet(Backends) /\ Malformed \subseteq Backends
  /\ ClientTimeout \in Nat \ {0} /\ ServerTimeout \in Nat

VARIABLES
  handler,   \* echoHandler: "read", "wait" for the group, "done"
  goroutine, \* of each backend: where it is
  ctx,       \* the shared variable
  call,      \* the context of each backend's call
  left,      \* the time left in a goroutine's own limit
  ended,     \* the goroutines whose limit was cancelled
  wg,        \* the wait group's counter
  result,    \* the slots
  client,    \* the caller: "there" or "gone", which cancels the request's context
  reply,     \* "none"; "sent" or "lost", in time for the write deadline or not; "refused"
  budget,    \* the time left of the write timeout when the body was read
  now        \* the time since then

vars == <<handler, goroutine, ctx, call, left, ended, wg, result, client, reply, budget, now>>

Contexts == [traces : SUBSET Backends, limits : SUBSET Backends]
RequestContext == [traces |-> {}, limits |-> {}]

Init ==
  /\ handler = "read"
  /\ goroutine = [b \in Backends |-> "none"]
  /\ ctx = RequestContext
  /\ call = [b \in Backends |-> RequestContext]
  /\ left = [b \in Backends |-> ClientTimeout]
  /\ ended = {}
  /\ wg = 0
  /\ result = [b \in Backends |-> "empty"]
  /\ client = "there" /\ reply = "none"
  /\ budget = ServerTimeout /\ now = 0

At(b, stage) == goroutine[b] = stage
GoTo(b, stage) == goroutine' = [goroutine EXCEPT ![b] = stage]

-----------------------------------------------------------------------------
(* The handler.                                                            *)

(* Mutant: each goroutine adds itself to the group.                        *)
AddInGoroutine ==
  /\ handler = "read"
  /\ \E b \in 0..ServerTimeout : budget' = b
  /\ goroutine' = [b \in Backends |-> "new"]
  /\ handler' = "wait"
  /\ UNCHANGED <<ctx, call, left, ended, wg, result, client, reply, now>>

(* A slow upload uses up some of the write timeout.                        *)
ReadBody ==
  /\ handler = "read"
  /\ \E b \in 0..ServerTimeout : budget' = b
  /\ wg' = Cardinality(Backends)
  /\ goroutine' = [b \in Backends |-> "new"]
  /\ handler' = "wait"
  /\ UNCHANGED <<ctx, call, left, ended, result, client, reply, now>>

ReadFails ==
  /\ handler = "read"
  /\ reply' = "refused"
  /\ handler' = "done"
  /\ UNCHANGED <<goroutine, ctx, call, left, ended, wg, result, client, budget, now>>

(* wg.Wait returns and the slots are written as the response, which is     *)
(* lost when the caller left or the write deadline has passed.             *)
Answer ==
  /\ handler = "wait" /\ wg = 0
  /\ reply' = IF client = "there" /\ now < budget THEN "sent" ELSE "lost"
  /\ handler' = "done"
  /\ UNCHANGED <<goroutine, ctx, call, left, ended, wg, result, client, budget, now>>

-----------------------------------------------------------------------------
(* The goroutine of backend b.                                             *)

(* ctx = httptrace.WithClientTrace(ctx, ...) reads ctx, then writes it.    *)
ReadCtx(b) ==
  /\ At(b, "new")
  /\ call' = [call EXCEPT ![b] = [ctx EXCEPT !.traces = @ \cup {b}]]
  /\ GoTo(b, "traced")
  /\ UNCHANGED <<handler, ctx, left, ended, wg, result, client, reply, budget, now>>

WriteCtx(b) ==
  /\ At(b, "traced")
  /\ ctx' = call[b]
  /\ GoTo(b, "stored")
  /\ UNCHANGED <<handler, call, left, ended, wg, result, client, reply, budget, now>>

(* Mutant: the timeout is assigned to the captured ctx as well.            *)
LimitShared(b) ==
  /\ At(b, "stored")
  /\ call' = [call EXCEPT ![b] = [ctx EXCEPT !.limits = @ \cup {b}]]
  /\ ctx' = [ctx EXCEPT !.limits = @ \cup {b}]
  /\ GoTo(b, "limited")
  /\ UNCHANGED <<handler, left, ended, wg, result, client, reply, budget, now>>

(* ctx, cancel := context.WithTimeout(ctx, ...) reads ctx once more and    *)
(* declares a variable of the goroutine's own.                             *)
LimitCall(b) ==
  /\ At(b, "stored")
  /\ call' = [call EXCEPT ![b] = [ctx EXCEPT !.limits = @ \cup {b}]]
  /\ GoTo(b, "limited")
  /\ UNCHANGED <<handler, ctx, left, ended, wg, result, client, reply, budget, now>>

(* Mutant: the call is made without the context.                           *)
CallUnlimited(b) ==
  /\ At(b, "limited")
  /\ GoTo(b, IF b \in Malformed THEN "leaving" ELSE "calling")
  /\ call' = [call EXCEPT ![b] = RequestContext]
  /\ UNCHANGED <<handler, ctx, left, ended, wg, result, client, reply, budget, now>>

(* A request that cannot be made leaves the slot empty.                    *)
NewRequest(b) ==
  /\ At(b, "limited")
  /\ GoTo(b, IF b \in Malformed THEN "leaving" ELSE "calling")
  /\ UNCHANGED <<handler, ctx, call, left, ended, wg, result, client, reply, budget, now>>

(* Mutant: index is the captured loop variable, which ends at the last.    *)
RecordAtLast(b, outcome) ==
  /\ result' = [result EXCEPT ![CHOOSE last \in Backends : TRUE] = outcome]
  /\ GoTo(b, "leaving")
  /\ UNCHANGED <<handler, ctx, call, left, ended, wg, client, reply, budget, now>>

(* The goroutine writes its slot and returns.                              *)
Record(b, outcome) ==
  /\ result' = [result EXCEPT ![b] = outcome]
  /\ GoTo(b, "leaving")
  /\ UNCHANGED <<handler, ctx, call, left, ended, wg, client, reply, budget, now>>

Expired(l) == left[l] = 0 \/ l \in ended
Over(b) == client = "gone" \/ \E l \in call[b].limits : Expired(l)

(* client.Do returns an error: the backend refused, the connection broke,  *)
(* or the context of the call is over.                                     *)
BackendBreaks(b) == At(b, "calling") /\ Record(b, "failed")
CallEnds(b) == At(b, "calling") /\ Over(b) /\ Record(b, "cut")

BackendRejects(b) == At(b, "calling") /\ Record(b, "status")

BackendResponds(b) ==
  /\ At(b, "calling")
  /\ GoTo(b, "reading")
  /\ UNCHANGED <<handler, ctx, call, left, ended, wg, result, client, reply, budget, now>>

(* io.ReadAll(resp.Body).                                                  *)
ReadResponse(b) == At(b, "reading") /\ Record(b, "body")
BodyBreaks(b) == At(b, "reading") /\ Record(b, "failed")
ReadingEnds(b) == At(b, "reading") /\ Over(b) /\ Record(b, "cut")

(* The deferred calls: cancel, then wg.Done.                               *)
Leave(b) ==
  /\ At(b, "leaving")
  /\ ended' = ended \cup {b}
  /\ wg' = wg - 1
  /\ GoTo(b, "gone")
  /\ UNCHANGED <<handler, ctx, call, left, result, client, reply, budget, now>>

Prepare(b) == ReadCtx(b) \/ WriteCtx(b) \/ LimitCall(b) \/ NewRequest(b)
Program(b) == Prepare(b) \/ CallEnds(b) \/ ReadingEnds(b) \/ Leave(b)
Backend(b) ==
  BackendBreaks(b) \/ BackendRejects(b) \/ BackendResponds(b) \/ ReadResponse(b) \/ BodyBreaks(b)

-----------------------------------------------------------------------------
(* The caller and the clock.                                               *)

ClientLeaves ==
  /\ client = "there" /\ handler = "wait"
  /\ client' = "gone"
  /\ UNCHANGED <<handler, goroutine, ctx, call, left, ended, wg, result, reply, budget, now>>

InCall(b) == goroutine[b] \in {"calling", "reading"}

(* Nothing is left to do but to wait for a backend.                        *)
Quiet ==
  /\ handler = "wait" /\ wg # 0
  /\ \A b \in Backends : goroutine[b] = "gone" \/ (InCall(b) /\ ~Over(b))

Less(x, d) == IF x > d THEN x - d ELSE 0

Timers == {left[b] : b \in {c \in Backends : InCall(c) /\ left[c] > 0}}
          \cup (IF now < budget THEN {budget - now} ELSE {})

Elapse ==
  /\ Quiet
  /\ \E d \in Timers :
       /\ \A t \in Timers : d <= t
       /\ left' = [b \in Backends |-> IF InCall(b) THEN Less(left[b], d) ELSE left[b]]
       /\ now' = now + d
  /\ UNCHANGED <<handler, goroutine, ctx, call, ended, wg, result, client, reply, budget>>

Next ==
  \/ ReadBody \/ ReadFails \/ Answer
  \/ \E b \in Backends : Program(b) \/ Backend(b)
  \/ ClientLeaves \/ Elapse

(* Goroutines that can run do, and time passes; nothing is assumed of the  *)
(* backends and the caller.                                                *)
Fairness ==
  /\ WF_vars(Answer) /\ WF_vars(Elapse)
  /\ \A b \in Backends : WF_vars(Program(b))

Spec == Init /\ [][Next]_vars /\ Fairness

-----------------------------------------------------------------------------
(* Properties.                                                             *)

Stages == {"none", "new", "traced", "stored", "limited", "calling", "reading", "leaving", "gone"}

(* Every variable has its type.                                            *)
TypeOK ==
  /\ handler \in {"read", "wait", "done"}
  /\ goroutine \in [Backends -> Stages]
  /\ ctx \in Contexts /\ call \in [Backends -> Contexts]
  /\ left \in [Backends -> 0..ClientTimeout]
  /\ ended \subseteq Backends
  /\ wg \in 0..Cardinality(Backends)
  /\ result \in [Backends -> {"empty", "body", "status", "failed", "cut"}]
  /\ client \in {"there", "gone"} /\ reply \in {"none", "sent", "lost", "refused"}
  /\ budget \in 0..ServerTimeout /\ now \in Nat

(* The handler answers once, after every goroutine has left, and what a    *)
(* slot holds by then is what became of that slot's own backend.           *)
OutcomesOf(b) == IF b \in Malformed THEN {"empty"} ELSE {"body", "status", "failed", "cut"}
Fanout == INSTANCE Gather WITH
  Outcomes <- OutcomesOf,
  entry <- [b \in Backends |-> IF goroutine[b] \in {"leaving", "gone"} THEN result[b] ELSE "none"],
  answer <- IF handler # "done" THEN "none" ELSE IF reply = "refused" THEN "error" ELSE "given"
ImplementsGather == Fanout!Spec

(* Although they share ctx, one call never ends another: the program gives *)
(* up on a backend only when the caller left or that call had its whole    *)
(* ClientTimeout.                                                          *)
CallsAreIndependent ==
  \A b \in Backends : result[b] = "cut" => client = "gone" \/ left[b] = 0

(* No backend holds the handler longer than the client timeout, and a      *)
(* caller that stays gets its answer whenever the write deadline was       *)
(* farther away than that.                                                 *)
AnswerInTime ==
  /\ handler = "wait" => now <= ClientTimeout
  /\ reply = "lost" => client = "gone" \/ budget <= ClientTimeout

(* Whatever the backends do, the call ends.                                *)
CallEnded == handler = "wait" ~> handler = "done"
=============================================================================
