-------------------------- MODULE EchoFanoutProofs ---------------------------
(***************************************************************************)
(* What is proved of EchoFanout for any set of backends and any timeouts:  *)
(* although the goroutines share ctx, calls do not end one another; the    *)
(* answer comes within the client timeout; and the handler implements      *)
(* Gather.                                                                 *)
(***************************************************************************)
EXTENDS EchoFanout, FiniteSetTheorems, TLAPS

Before == {"none", "new", "traced", "stored"}
Preparing == {"new", "traced", "stored", "limited"}
Remaining == {b \in Backends : goroutine[b] # "gone"}

(* Types, but for the bound of wg, which follows from the invariant.       *)
Typed ==
  /\ handler \in {"read", "wait", "done"}
  /\ goroutine \in [Backends -> Stages]
  /\ ctx \in Contexts /\ call \in [Backends -> Contexts]
  /\ left \in [Backends -> 0..ClientTimeout]
  /\ ended \subseteq Backends
  /\ wg \in Nat
  /\ result \in [Backends -> {"empty", "body", "status", "failed", "cut"}]
  /\ client \in {"there", "gone"} /\ reply \in {"none", "sent", "lost", "refused"}
  /\ budget \in 0..ServerTimeout /\ now \in Nat

(* A limit is in no context but that of its own goroutine's call.          *)
Private ==
  /\ ctx.limits = {}
  /\ \A b \in Backends : call[b].limits = IF goroutine[b] \in Before THEN {} ELSE {b}

(* A limit is cancelled when its goroutine leaves.                         *)
Cancelled == \A b \in ended : goroutine[b] = "gone"

(* A slot is written when the goroutine is about to leave.                 *)
Slots ==
  \A b \in Backends :
    /\ goroutine[b] \notin {"leaving", "gone"} => result[b] = "empty"
    /\ goroutine[b] \in {"leaving", "gone"} => result[b] \in OutcomesOf(b)
    /\ goroutine[b] \in {"calling", "reading"} => b \notin Malformed

(* The handler waits while goroutines remain.                              *)
Group ==
  /\ handler = "read" => /\ \A b \in Backends : goroutine[b] = "none"
                         /\ reply = "none" /\ wg = 0
  /\ handler = "wait" => /\ \A b \in Backends : goroutine[b] # "none"
                         /\ reply = "none" /\ wg = Cardinality(Remaining)
  /\ handler = "done" => /\ reply # "none" /\ wg = 0
                         /\ \A b \in Backends : goroutine[b] \in {"none", "gone"}

(* All calls begin before time passes, and their limits run together.      *)
Clock ==
  /\ handler = "read" => now = 0
  /\ now <= ClientTimeout
  /\ \A b \in Backends :
       /\ goroutine[b] \in Preparing \cup {"none"} => left[b] = ClientTimeout
       /\ goroutine[b] \in Preparing => now = 0
       /\ InCall(b) => left[b] + now = ClientTimeout

(* An answer is lost to the caller's departure or to a write deadline that *)
(* was no farther away than the client timeout.                            *)
Lost == reply = "lost" => client = "gone" \/ budget <= ClientTimeout

Inv == Typed /\ Private /\ Cancelled /\ Slots /\ Group /\ Clock /\ CallsAreIndependent /\ Lost

-----------------------------------------------------------------------------

(* In a call, only the caller's departure or the call's own limit is over. *)
LEMMA OverMeans ==
  ASSUME Inv, NEW b \in Backends, InCall(b), Over(b)
  PROVE  client = "gone" \/ left[b] = 0
<1>1. call[b].limits = {b}
  BY DEF Inv, Private, Typed, InCall, Before
<1>2. b \notin ended
  BY DEF Inv, Cancelled, InCall
<1> QED
  BY <1>1, <1>2 DEF Over, Expired

(* As long as the group is not empty a goroutine remains.                  *)
LEMMA SomeRemain ==
  ASSUME Inv, handler = "wait"
  PROVE  wg = 0 <=> \A b \in Backends : goroutine[b] = "gone"
<1>1. IsFiniteSet(Remaining)
  BY FanoutAssumption, FS_Subset DEF Remaining
<1>2. Cardinality(Remaining) = 0 <=> Remaining = {}
  BY <1>1, FS_EmptySet
<1> QED
  BY <1>2 DEF Inv, Group, Remaining

(* Time does not pass beyond a limit.                                      *)
LEMMA ElapseBounded ==
  ASSUME Inv, Quiet, NEW d \in Timers, \A t \in Timers : d <= t
  PROVE  /\ d \in Nat /\ now + d <= ClientTimeout
         /\ \A b \in Backends : InCall(b) => left[b] > 0 /\ d <= left[b]
<1>1. \A b \in Backends : InCall(b) => left[b] > 0
  <2> SUFFICES ASSUME NEW b \in Backends, InCall(b)
               PROVE  left[b] > 0
    OBVIOUS
  <2>1. ~Over(b)
    BY DEF Quiet, InCall
  <2>2. call[b].limits = {b}
    BY DEF Inv, Private, Typed, InCall, Before
  <2>3. left[b] # 0
    BY <2>1, <2>2 DEF Over, Expired
  <2> QED
    BY <2>3, FanoutAssumption DEF Inv, Typed
<1>2. \A b \in Backends : InCall(b) => left[b] \in Timers
  BY <1>1 DEF Timers
<1>3. \A b \in Backends : InCall(b) => d <= left[b]
  BY <1>2
<1>4. d \in Nat
  BY FanoutAssumption DEF Timers, Inv, Typed
<1>5. PICK b \in Backends : goroutine[b] # "gone"
  BY SomeRemain DEF Quiet
<1>6. InCall(b)
  BY <1>5 DEF Quiet
<1>7. left[b] + now = ClientTimeout
  BY <1>6 DEF Inv, Clock
<1> QED
  BY <1>1, <1>3, <1>4, <1>6, <1>7, FanoutAssumption DEF Inv, Typed

(* The invariant holds at first and after every step.                      *)
LEMMA InvInit == Init => Inv
<1> SUFFICES ASSUME Init
             PROVE  Inv
  OBVIOUS
<1>1. Typed
  BY FanoutAssumption DEF Init, Typed, Contexts, RequestContext, Stages
<1>2. Private /\ Cancelled /\ Slots /\ Group
  BY DEF Init, Private, Cancelled, Slots, Group, RequestContext, Before
<1>3. Clock /\ CallsAreIndependent /\ Lost
  BY FanoutAssumption DEF Init, Clock, InCall, Preparing, CallsAreIndependent, Lost
<1> QED
  BY <1>1, <1>2, <1>3 DEF Inv

(* One step per action of the handler and its goroutines.                  *)
LEMMA InvNext == Inv /\ [Next]_vars => Inv'
<1> SUFFICES ASSUME Inv, [Next]_vars
             PROVE  Inv'
  OBVIOUS
<1> USE FanoutAssumption DEF At, GoTo

<1>1. CASE ReadBody
  <2>shape. Remaining' = Backends
    BY <1>1 DEF ReadBody, Remaining
  <2>size. Cardinality(Backends) \in Nat
    BY FS_CardinalityType
  <2>fewer. \A b \in Backends : goroutine[b] = "none"
    BY <1>1 DEF ReadBody, Inv, Group
  <2>1. Typed'
    BY <1>1, <2>size DEF ReadBody, Inv, Typed, Contexts, RequestContext, Stages
  <2>2. Private'
    BY <1>1, <2>fewer DEF ReadBody, Inv, Private, Before, Typed, Contexts
  <2>3. Cancelled'
    BY <1>1, <2>fewer DEF ReadBody, Inv, Cancelled, Typed
  <2>4. Slots'
    BY <1>1, <2>fewer DEF ReadBody, Inv, Slots, Typed, OutcomesOf
  <2>5. Group'
    BY <1>1, <2>shape DEF ReadBody, Inv, Group, Typed, Remaining
  <2>6. Clock'
    BY <1>1, <2>fewer DEF ReadBody, Inv, Clock, Typed, Preparing, InCall
  <2>7. CallsAreIndependent'
    BY <1>1 DEF ReadBody, Inv, CallsAreIndependent, Typed, Slots
  <2>8. Lost'
    BY <1>1 DEF ReadBody, Inv, Lost, Group, Clock, Typed
  <2> QED
    BY <2>1, <2>2, <2>3, <2>4, <2>5, <2>6, <2>7, <2>8 DEF Inv
<1>2. CASE ReadFails
  <2>1. Typed'
    BY <1>2 DEF ReadFails, Inv, Typed, Contexts, RequestContext, Stages
  <2>2. Private'
    BY <1>2 DEF ReadFails, Inv, Private, Before, Typed, Contexts
  <2>3. Cancelled'
    BY <1>2 DEF ReadFails, Inv, Cancelled, Typed
  <2>4. Slots'
    BY <1>2 DEF ReadFails, Inv, Slots, Typed, OutcomesOf
  <2>5. Group'
    BY <1>2 DEF ReadFails, Inv, Group, Typed, Remaining
  <2>6. Clock'
    BY <1>2 DEF ReadFails, Inv, Clock, Typed, Preparing, InCall
  <2>7. CallsAreIndependent'
    BY <1>2 DEF ReadFails, Inv, CallsAreIndependent, Typed, Slots
  <2>8. Lost'
    BY <1>2 DEF ReadFails, Inv, Lost, Group, Clock, Typed
  <2> QED
    BY <2>1, <2>2, <2>3, <2>4, <2>5, <2>6, <2>7, <2>8 DEF Inv
<1>3. CASE Answer
  <2>1. Typed'
    BY <1>3 DEF Answer, Inv, Typed, Contexts, RequestContext, Stages
  <2>2. Private'
    BY <1>3 DEF Answer, Inv, Private, Before, Typed, Contexts
  <2>3. Cancelled'
    BY <1>3 DEF Answer, Inv, Cancelled, Typed
  <2>4. Slots'
    BY <1>3 DEF Answer, Inv, Slots, Typed, OutcomesOf
  <2>5. Group'
    BY <1>3, SomeRemain DEF Answer, Inv, Group, Typed, Remaining
  <2>6. Clock'
    BY <1>3 DEF Answer, Inv, Clock, Typed, Preparing, InCall
  <2>7. CallsAreIndependent'
    BY <1>3 DEF Answer, Inv, CallsAreIndependent, Typed, Slots
  <2>8. Lost'
    BY <1>3 DEF Answer, Inv, Lost, Group, Clock, Typed
  <2> QED
    BY <2>1, <2>2, <2>3, <2>4, <2>5, <2>6, <2>7, <2>8 DEF Inv
<1>4. ASSUME NEW b \in Backends, ReadCtx(b)
       PROVE  Inv'
  <2>shape. Remaining' = Remaining
    BY <1>4 DEF ReadCtx, Inv, Typed, Remaining
  <2>1. Typed'
    BY <1>4 DEF ReadCtx, Inv, Typed, Contexts, RequestContext, Stages
  <2>2. Private'
    BY <1>4 DEF ReadCtx, Inv, Private, Before, Typed, Contexts
  <2>3. Cancelled'
    BY <1>4 DEF ReadCtx, Inv, Cancelled, Typed
  <2>4. Slots'
    BY <1>4 DEF ReadCtx, Inv, Slots, Typed, OutcomesOf
  <2>5. Group'
    BY <1>4, <2>shape DEF ReadCtx, Inv, Group, Typed, Remaining
  <2>6. Clock'
    BY <1>4 DEF ReadCtx, Inv, Clock, Typed, Preparing, InCall
  <2>7. CallsAreIndependent'
    BY <1>4 DEF ReadCtx, Inv, CallsAreIndependent, Typed, Slots
  <2>8. Lost'
    BY <1>4 DEF ReadCtx, Inv, Lost, Group, Clock, Typed
  <2> QED
    BY <2>1, <2>2, <2>3, <2>4, <2>5, <2>6, <2>7, <2>8 DEF Inv
<1>5. ASSUME NEW b \in Backends, WriteCtx(b)
       PROVE  Inv'
  <2>shape. Remaining' = Remaining
    BY <1>5 DEF WriteCtx, Inv, Typed, Remaining
  <2>1. Typed'
    BY <1>5 DEF WriteCtx, Inv, Typed, Contexts, RequestContext, Stages
  <2>2. Private'
    BY <1>5 DEF WriteCtx, Inv, Private, Before, Typed, Contexts
  <2>3. Cancelled'
    BY <1>5 DEF WriteCtx, Inv, Cancelled, Typed
  <2>4. Slots'
    BY <1>5 DEF WriteCtx, Inv, Slots, Typed, OutcomesOf
  <2>5. Group'
    BY <1>5, <2>shape DEF WriteCtx, Inv, Group, Typed, Remaining
  <2>6. Clock'
    BY <1>5 DEF WriteCtx, Inv, Clock, Typed, Preparing, InCall
  <2>7. CallsAreIndependent'
    BY <1>5 DEF WriteCtx, Inv, CallsAreIndependent, Typed, Slots
  <2>8. Lost'
    BY <1>5 DEF WriteCtx, Inv, Lost, Group, Clock, Typed
  <2> QED
    BY <2>1, <2>2, <2>3, <2>4, <2>5, <2>6, <2>7, <2>8 DEF Inv
<1>6. ASSUME NEW b \in Backends, LimitCall(b)
       PROVE  Inv'
  <2>shape. Remaining' = Remaining
    BY <1>6 DEF LimitCall, Inv, Typed, Remaining
  <2>1. Typed'
    BY <1>6 DEF LimitCall, Inv, Typed, Contexts, RequestContext, Stages
  <2>2. Private'
    BY <1>6 DEF LimitCall, Inv, Private, Before, Typed, Contexts
  <2>3. Cancelled'
    BY <1>6 DEF LimitCall, Inv, Cancelled, Typed
  <2>4. Slots'
    BY <1>6 DEF LimitCall, Inv, Slots, Typed, OutcomesOf
  <2>5. Group'
    BY <1>6, <2>shape DEF LimitCall, Inv, Group, Typed, Remaining
  <2>6. Clock'
    BY <1>6 DEF LimitCall, Inv, Clock, Typed, Preparing, InCall
  <2>7. CallsAreIndependent'
    BY <1>6 DEF LimitCall, Inv, CallsAreIndependent, Typed, Slots
  <2>8. Lost'
    BY <1>6 DEF LimitCall, Inv, Lost, Group, Clock, Typed
  <2> QED
    BY <2>1, <2>2, <2>3, <2>4, <2>5, <2>6, <2>7, <2>8 DEF Inv
<1>7. ASSUME NEW b \in Backends, NewRequest(b)
       PROVE  Inv'
  <2>shape. Remaining' = Remaining
    BY <1>7 DEF NewRequest, Inv, Typed, Remaining
  <2>1. Typed'
    BY <1>7 DEF NewRequest, Inv, Typed, Contexts, RequestContext, Stages
  <2>2. Private'
    BY <1>7 DEF NewRequest, Inv, Private, Before, Typed, Contexts
  <2>3. Cancelled'
    BY <1>7 DEF NewRequest, Inv, Cancelled, Typed
  <2>4. Slots'
    BY <1>7 DEF NewRequest, Inv, Slots, Typed, OutcomesOf
  <2>5. Group'
    BY <1>7, <2>shape DEF NewRequest, Inv, Group, Typed, Remaining
  <2>6. Clock'
    BY <1>7 DEF NewRequest, Inv, Clock, Typed, Preparing, InCall
  <2>7. CallsAreIndependent'
    BY <1>7 DEF NewRequest, Inv, CallsAreIndependent, Typed, Slots
  <2>8. Lost'
    BY <1>7 DEF NewRequest, Inv, Lost, Group, Clock, Typed
  <2> QED
    BY <2>1, <2>2, <2>3, <2>4, <2>5, <2>6, <2>7, <2>8 DEF Inv
<1>8. ASSUME NEW b \in Backends, BackendResponds(b)
       PROVE  Inv'
  <2>shape. Remaining' = Remaining
    BY <1>8 DEF BackendResponds, Inv, Typed, Remaining
  <2>1. Typed'
    BY <1>8 DEF BackendResponds, Inv, Typed, Contexts, RequestContext, Stages
  <2>2. Private'
    BY <1>8 DEF BackendResponds, Inv, Private, Before, Typed, Contexts
  <2>3. Cancelled'
    BY <1>8 DEF BackendResponds, Inv, Cancelled, Typed
  <2>4. Slots'
    BY <1>8 DEF BackendResponds, Inv, Slots, Typed, OutcomesOf
  <2>5. Group'
    BY <1>8, <2>shape DEF BackendResponds, Inv, Group, Typed, Remaining
  <2>6. Clock'
    BY <1>8 DEF BackendResponds, Inv, Clock, Typed, Preparing, InCall
  <2>7. CallsAreIndependent'
    BY <1>8 DEF BackendResponds, Inv, CallsAreIndependent, Typed, Slots
  <2>8. Lost'
    BY <1>8 DEF BackendResponds, Inv, Lost, Group, Clock, Typed
  <2> QED
    BY <2>1, <2>2, <2>3, <2>4, <2>5, <2>6, <2>7, <2>8 DEF Inv
<1>9. ASSUME NEW b \in Backends, InCall(b),
              NEW o \in {"body", "status", "failed", "cut"}, Record(b, o),
              o = "cut" => client = "gone" \/ left[b] = 0
       PROVE  Inv'
  <2>shape. Remaining' = Remaining
    BY <1>9 DEF InCall, Record, Inv, Typed, Remaining
  <2>1. Typed'
    BY <1>9 DEF InCall, Record, Inv, Typed, Contexts, RequestContext, Stages
  <2>2. Private'
    BY <1>9 DEF InCall, Record, Inv, Private, Before, Typed, Contexts
  <2>3. Cancelled'
    BY <1>9 DEF InCall, Record, Inv, Cancelled, Typed
  <2>4. Slots'
    BY <1>9 DEF InCall, Record, Inv, Slots, Typed, OutcomesOf
  <2>5. Group'
    BY <1>9, <2>shape DEF InCall, Record, Inv, Group, Typed, Remaining
  <2>6. Clock'
    BY <1>9 DEF InCall, Record, Inv, Clock, Typed, Preparing, InCall
  <2>7. CallsAreIndependent'
    BY <1>9 DEF InCall, Record, Inv, CallsAreIndependent, Typed, Slots
  <2>8. Lost'
    BY <1>9 DEF InCall, Record, Inv, Lost, Group, Clock, Typed
  <2> QED
    BY <2>1, <2>2, <2>3, <2>4, <2>5, <2>6, <2>7, <2>8 DEF Inv
<1>10. ASSUME NEW b \in Backends, Leave(b)
       PROVE  Inv'
  <2>shape. Remaining' = Remaining \ {b} /\ b \in Remaining
    BY <1>10 DEF Leave, Inv, Typed, Remaining
  <2>size. IsFiniteSet(Remaining)
    BY FS_Subset DEF Remaining
  <2>fewer. /\ Cardinality(Remaining') = Cardinality(Remaining) - 1
            /\ Cardinality(Remaining) \in Nat /\ Cardinality(Remaining') \in Nat
    BY <1>10, <2>shape, <2>size, FS_RemoveElement, FS_CardinalityType
  <2>waiting. handler = "wait"
    BY <1>10 DEF Leave, Inv, Typed, Group
  <2>counted. wg = Cardinality(Remaining)
    BY <2>waiting DEF Inv, Group
  <2>typed. wg - 1 \in Nat
    BY <2>fewer, <2>counted
  <2>1. Typed'
    BY <1>10, <2>typed DEF Leave, Inv, Typed, Contexts, RequestContext, Stages
  <2>2. Private'
    BY <1>10 DEF Leave, Inv, Private, Before, Typed, Contexts
  <2>3. Cancelled'
    BY <1>10 DEF Leave, Inv, Cancelled, Typed
  <2>4. Slots'
    BY <1>10 DEF Leave, Inv, Slots, Typed, OutcomesOf
  <2>5. Group'
    BY <1>10, <2>fewer, <2>waiting, <2>counted DEF Leave, Inv, Group, Typed, Remaining
  <2>6. Clock'
    BY <1>10 DEF Leave, Inv, Clock, Typed, Preparing, InCall
  <2>7. CallsAreIndependent'
    BY <1>10 DEF Leave, Inv, CallsAreIndependent, Typed, Slots
  <2>8. Lost'
    BY <1>10 DEF Leave, Inv, Lost, Group, Clock, Typed
  <2> QED
    BY <2>1, <2>2, <2>3, <2>4, <2>5, <2>6, <2>7, <2>8 DEF Inv
<1>11. CASE ClientLeaves
  <2>shape. Remaining' = Remaining
    BY <1>11 DEF ClientLeaves, Remaining
  <2>1. Typed'
    BY <1>11 DEF ClientLeaves, Inv, Typed, Contexts, RequestContext, Stages
  <2>2. Private'
    BY <1>11 DEF ClientLeaves, Inv, Private, Before, Typed, Contexts
  <2>3. Cancelled'
    BY <1>11 DEF ClientLeaves, Inv, Cancelled, Typed
  <2>4. Slots'
    BY <1>11 DEF ClientLeaves, Inv, Slots, Typed, OutcomesOf
  <2>5. Group'
    BY <1>11, <2>shape DEF ClientLeaves, Inv, Group, Typed, Remaining
  <2>6. Clock'
    BY <1>11 DEF ClientLeaves, Inv, Clock, Typed, Preparing, InCall
  <2>7. CallsAreIndependent'
    BY <1>11 DEF ClientLeaves, Inv, CallsAreIndependent, Typed, Slots
  <2>8. Lost'
    BY <1>11 DEF ClientLeaves, Inv, Lost, Group, Clock, Typed
  <2> QED
    BY <2>1, <2>2, <2>3, <2>4, <2>5, <2>6, <2>7, <2>8 DEF Inv
<1>12. CASE Elapse
  <2> PICK d \in Timers :
           /\ \A t \in Timers : d <= t
           /\ left' = [b \in Backends |-> IF InCall(b) THEN Less(left[b], d) ELSE left[b]]
           /\ now' = now + d
    BY <1>12 DEF Elapse
  <2>shape. /\ d \in Nat /\ now + d <= ClientTimeout
            /\ \A b \in Backends : InCall(b) => left[b] > 0 /\ d <= left[b]
    BY <1>12, ElapseBounded DEF Elapse
  <2>size. Remaining' = Remaining
    BY <1>12 DEF Elapse, Remaining
  <2>fewer. \A b \in Backends : left'[b] = IF InCall(b) THEN left[b] - d ELSE left[b]
    BY <2>shape DEF Less, Inv, Typed
  <2>1. Typed'
    BY <1>12, <2>shape, <2>fewer DEF Elapse, Quiet, Inv, Typed, Contexts, RequestContext, Stages
  <2>2. Private'
    BY <1>12 DEF Elapse, Quiet, Inv, Private, Before, Typed, Contexts
  <2>3. Cancelled'
    BY <1>12 DEF Elapse, Quiet, Inv, Cancelled, Typed
  <2>4. Slots'
    BY <1>12, <2>shape DEF Elapse, Quiet, Inv, Slots, Typed, OutcomesOf
  <2>5. Group'
    BY <1>12, <2>size DEF Elapse, Quiet, Inv, Group, Typed, Remaining
  <2>6. Clock'
    BY <1>12, <2>shape, <2>fewer DEF Elapse, Quiet, Inv, Clock, Typed, Preparing, InCall
  <2>7. CallsAreIndependent'
    BY <1>12, <2>shape, <2>fewer DEF Elapse, Quiet, Inv, CallsAreIndependent, Typed, Slots
  <2>8. Lost'
    BY <1>12 DEF Elapse, Quiet, Inv, Lost, Group, Clock, Typed
  <2> QED
    BY <2>1, <2>2, <2>3, <2>4, <2>5, <2>6, <2>7, <2>8 DEF Inv
<1>13. CASE UNCHANGED vars
  <2>shape. Remaining' = Remaining
    BY <1>13 DEF vars, Remaining
  <2>1. Typed'
    BY <1>13 DEF vars, Inv, Typed, Contexts, RequestContext, Stages
  <2>2. Private'
    BY <1>13 DEF vars, Inv, Private, Before, Typed, Contexts
  <2>3. Cancelled'
    BY <1>13 DEF vars, Inv, Cancelled, Typed
  <2>4. Slots'
    BY <1>13 DEF vars, Inv, Slots, Typed, OutcomesOf
  <2>5. Group'
    BY <1>13, <2>shape DEF vars, Inv, Group, Typed, Remaining
  <2>6. Clock'
    BY <1>13 DEF vars, Inv, Clock, Typed, Preparing, InCall
  <2>7. CallsAreIndependent'
    BY <1>13 DEF vars, Inv, CallsAreIndependent, Typed, Slots
  <2>8. Lost'
    BY <1>13 DEF vars, Inv, Lost, Group, Clock, Typed
  <2> QED
    BY <2>1, <2>2, <2>3, <2>4, <2>5, <2>6, <2>7, <2>8 DEF Inv
<1>14. ASSUME NEW b \in Backends, CallEnds(b) \/ ReadingEnds(b)
       PROVE  Inv'
  BY <1>14, <1>9, OverMeans DEF CallEnds, ReadingEnds, InCall
<1>15. ASSUME NEW b \in Backends, BackendBreaks(b) \/ BackendRejects(b) \/ ReadResponse(b) \/ BodyBreaks(b)
       PROVE  Inv'
  BY <1>15, <1>9 DEF BackendBreaks, BackendRejects, ReadResponse, BodyBreaks, InCall
<1> QED
  BY <1>1, <1>2, <1>3, <1>4, <1>5, <1>6, <1>7, <1>8, <1>10, <1>11, <1>12, <1>13, <1>14, <1>15
  DEF Next, Program, Prepare, Backend

(* Inv is an invariant of the handler.                                      *)
THEOREM Invariant == Spec => []Inv
BY InvInit, InvNext, PTL DEF Spec

-----------------------------------------------------------------------------

(* Every variable has its type; in particular the group's counter never    *)
(* exceeds the number of backends.                                         *)
THEOREM TypeCorrect == Spec => []TypeOK
<1>1. Inv => TypeOK
  <2> SUFFICES ASSUME Inv
               PROVE  TypeOK
    OBVIOUS
  <2>1. Remaining \subseteq Backends
    BY DEF Remaining
  <2>2. Cardinality(Remaining) <= Cardinality(Backends) /\ Cardinality(Backends) \in Nat
    BY <2>1, FS_Subset, FS_CardinalityType, FanoutAssumption
  <2>3. wg \in 0..Cardinality(Backends)
    BY <2>2 DEF Inv, Typed, Group
  <2> QED
    BY <2>3 DEF Inv, Typed, TypeOK
<1> QED
  BY <1>1, Invariant, PTL

(* echo.go:48 races, but a call ends only with the caller or at the end of *)
(* the limit it was given itself.                                          *)
THEOREM Independent == Spec => []CallsAreIndependent
<1>1. Inv => CallsAreIndependent
  BY DEF Inv
<1> QED
  BY <1>1, Invariant, PTL

(* However many backends hang, the answer is there within the client       *)
(* timeout, and is lost only if the write deadline or the caller was gone. *)
THEOREM InTime == Spec => []AnswerInTime
<1>1. Inv => AnswerInTime
  BY DEF Inv, AnswerInTime, Clock, Lost
<1> QED
  BY <1>1, Invariant, PTL

-----------------------------------------------------------------------------
(* The refinement.                                                         *)

Leaving(b) == goroutine[b] \in {"leaving", "gone"}
Entry == [b \in Backends |-> IF Leaving(b) THEN result[b] ELSE "none"]
Reply == IF handler # "done" THEN "none" ELSE IF reply = "refused" THEN "error" ELSE "given"

(* Every step of a goroutine decides its backend's entry or none.          *)
LEMMA StepDecides ==
  ASSUME Inv, [Next]_vars
  PROVE  \/ UNCHANGED <<Entry, Reply>>
         \/ Fanout!Answer
         \/ Fanout!Refuse
         \/ \E b \in Backends : Fanout!Decide(b)
<1> USE DEF At, GoTo, Leaving, Entry, Reply
<1>1. CASE ReadBody
  BY <1>1 DEF ReadBody, Inv, Group, Typed
<1>2. CASE ReadFails
  <2>1. \A b \in Backends : goroutine[b] = "none"
    BY <1>2 DEF ReadFails, Inv, Group
  <2> QED
    BY <1>2, <2>1 DEF ReadFails, Fanout!Refuse, Inv, Typed
<1>3. CASE Answer
  <2>1. \A b \in Backends : goroutine[b] = "gone"
    BY <1>3, SomeRemain DEF Answer
  <2>2. \A b \in Backends : result[b] # "none"
    BY DEF Inv, Typed
  <2> QED
    BY <1>3, <2>1, <2>2 DEF Answer, Fanout!Answer, Inv, Typed
<1>4. ASSUME NEW b \in Backends, ReadCtx(b) \/ WriteCtx(b) \/ LimitCall(b) \/ BackendResponds(b)
      PROVE  UNCHANGED <<Entry, Reply>>
  BY <1>4 DEF ReadCtx, WriteCtx, LimitCall, BackendResponds, Inv, Typed
<1>5. ASSUME NEW b \in Backends, Leave(b)
      PROVE  UNCHANGED <<Entry, Reply>>
  BY <1>5 DEF Leave, Inv, Typed
<1>6. ASSUME NEW b \in Backends, NewRequest(b)
      PROVE  UNCHANGED <<Entry, Reply>> \/ Fanout!Decide(b)
  <2>1. handler = "wait"
    BY <1>6 DEF NewRequest, Inv, Typed, Group
  <2>2. CASE b \in Malformed
    <3>1. result[b] = "empty" /\ "empty" \in OutcomesOf(b)
      BY <1>6, <2>2 DEF NewRequest, Inv, Slots, OutcomesOf
    <3>2. Entry' = [Entry EXCEPT ![b] = "empty"]
      BY <1>6, <2>2, <3>1 DEF NewRequest, Inv, Typed
    <3> QED
      BY <1>6, <2>1, <3>1, <3>2 DEF NewRequest, Fanout!Decide
  <2>3. CASE b \notin Malformed
    BY <1>6, <2>3 DEF NewRequest, Inv, Typed
  <2> QED
    BY <2>2, <2>3
<1>7. ASSUME NEW b \in Backends, InCall(b),
             NEW o \in {"body", "status", "failed", "cut"}, Record(b, o)
      PROVE  Fanout!Decide(b)
  <2>1. handler = "wait"
    BY <1>7 DEF InCall, Inv, Typed, Group
  <2>2. o \in OutcomesOf(b)
    BY <1>7 DEF InCall, Inv, Slots, OutcomesOf
  <2>3. Entry' = [Entry EXCEPT ![b] = o]
    BY <1>7 DEF Record, Inv, Typed
  <2> QED
    BY <1>7, <2>1, <2>2, <2>3 DEF Record, InCall, Fanout!Decide
<1>8. CASE ClientLeaves \/ Elapse
  BY <1>8 DEF ClientLeaves, Elapse
<1>9. CASE UNCHANGED vars
  BY <1>9 DEF vars
<1>10. ASSUME NEW b \in Backends,
              \/ CallEnds(b) \/ ReadingEnds(b) \/ BackendBreaks(b)
              \/ BackendRejects(b) \/ ReadResponse(b) \/ BodyBreaks(b)
       PROVE  Fanout!Decide(b)
  BY <1>10, <1>7 DEF CallEnds, ReadingEnds, BackendBreaks, BackendRejects, ReadResponse,
     BodyBreaks, InCall
<1> QED
  BY <1>1, <1>2, <1>3, <1>4, <1>5, <1>6, <1>8, <1>9, <1>10
  DEF Next, Program, Prepare, Backend

(* The handler answers once, when every backend's call is decided, and     *)
(* every slot holds what became of its own backend's.                      *)
THEOREM Refinement == Spec => ImplementsGather
<1>1. Init => Fanout!Init
  BY DEF Init, Fanout!Init
<1>2. Inv /\ [Next]_vars => [Fanout!Next]_<<Entry, Reply>>
  BY StepDecides DEF Fanout!Next
<1> QED
  BY <1>1, <1>2, Invariant, PTL DEF Spec, ImplementsGather, Fanout!Spec, Entry, Reply, Leaving
=============================================================================
