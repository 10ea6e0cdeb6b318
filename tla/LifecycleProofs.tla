--------------------------- MODULE LifecycleProofs ---------------------------
(***************************************************************************)
(* What is proved of Lifecycle for every value of its constants: its types *)
(* and, from one invariant on time, one on the order of the shutdown and   *)
(* one on the requests, the safety properties the runs check, and that it  *)
(* implements GracefulService.                                             *)
(***************************************************************************)
EXTENDS Lifecycle, TLAPS

(* Every variable has its type in every state of every process.            *)
THEOREM TypeCorrect == Spec => []TypeOK
<1>1. Init => TypeOK
  <2> SUFFICES ASSUME Init
               PROVE  TypeOK
    OBVIOUS
  <2>1. stopped \in BOOLEAN /\ endpoint \in BOOLEAN /\ debug \in BOOLEAN
    BY Zenon DEF Init
  <2>2. /\ srv \in [ServerNames -> {"off", "starting", "listening", "halted", "draining",
                                    "closed"}]
        /\ status \in [Requests -> {"new", "active", "done", "lost"}]
        /\ at \in [Requests -> Servers \cup {"none"}]
        /\ asks \in [Requests -> Kinds \cup {"none"}]
    BY DEF Init
  <2>3. /\ pc \in MainLabels /\ turn \in ServerNames /\ exit \in Causes \cup {"none"}
        /\ wake \in Nat /\ deadline \in Nat /\ healthy \in {0, 1} /\ ready \in {0, 1}
        /\ sig \in {"off", "first", "second", "done"}
    BY DEF Init, MainLabels, ServerNames, Causes
  <2>4. /\ sigs \in 0..2 /\ sent \in 0..MaxSignals
        /\ now \in 0..GracePeriod /\ probeIn \in 0..ProbePeriod /\ failures \in 0..FailureThreshold
    BY LifecycleAssumption DEF Init
  <2> QED
    BY <2>1, <2>2, <2>3, <2>4 DEF TypeOK
<1>2. TypeOK /\ [Next]_vars => TypeOK'
  <2> SUFFICES ASSUME TypeOK, [Next]_vars
               PROVE  TypeOK'
    OBVIOUS
  <2> USE LifecycleAssumption DEF TypeOK, MainLabels, ServerNames, Causes, ExitWith,
          Running, Goto, mainVars, flagVars, signalVars, reqVars, kubeVars, BriefWait
  <2>1. CASE StartGrpc
    BY <2>1 DEF StartGrpc
  <2>2. CASE StartServer
    BY <2>2 DEF StartServer, Launch
  <2>3. CASE StartSecureServer
    BY <2>3 DEF StartSecureServer, Launch
  <2>4. CASE RaiseHealthy
    BY <2>4 DEF RaiseHealthy
  <2>5. CASE RaiseReady
    BY <2>5 DEF RaiseReady
  <2>6. CASE SetupSignalHandler
    BY <2>6 DEF SetupSignalHandler
  <2>7. CASE AwaitStop
    BY <2>7 DEF AwaitStop
  <2>8. CASE LowerHealthy
    BY <2>8 DEF LowerHealthy
  <2>9. CASE LowerReady
    BY <2>9 DEF LowerReady
  <2>10. CASE WakeUp
    BY <2>10 DEF WakeUp
  <2>11. CASE StopServer
    BY <2>11 DEF StopServer
  <2>12. CASE ServerStopped
    BY <2>12 DEF ServerStopped, NextTurn
  <2>13. CASE MainReturns
    BY <2>13 DEF MainReturns
  <2>14. ASSUME NEW s \in Servers, Serve(s)
         PROVE  TypeOK'
    BY <2>14 DEF Serve
  <2>15. CASE CatchFirst
    BY <2>15 DEF CatchFirst
  <2>16. CASE CatchSecond
    BY <2>16 DEF CatchSecond
  <2>17. ASSUME NEW r \in Requests, Handle(r)
         PROVE  TypeOK'
    BY <2>17 DEF Handle
  <2>18. ASSUME NEW r \in Requests, NEW s \in Servers, NEW k \in Kinds, Accept(r, s, k)
         PROVE  TypeOK'
    BY <2>18 DEF Accept
  <2>19. CASE SendSignal
    BY <2>19 DEF SendSignal
  <2>20. CASE Probe
    BY <2>20 DEF Probe
  <2>21. CASE Kill
    BY <2>21 DEF Kill
  <2>22. CASE Tick
    BY <2>22 DEF Tick, Quiet
  <2>23. CASE UNCHANGED vars
    BY <2>23 DEF vars
  <2> QED
    BY <2>1, <2>2, <2>3, <2>4, <2>5, <2>6, <2>7, <2>8, <2>9, <2>10, <2>11, <2>12, <2>13,
       <2>14, <2>15, <2>16, <2>17, <2>18, <2>19, <2>20, <2>21, <2>22, <2>23
       DEF Next, Main, SignalGoroutine
<1> QED
  BY <1>1, <1>2, PTL DEF Spec

-----------------------------------------------------------------------------
(* The invariants.                                                         *)

(* Time passes after start-up only: everything main does before the brief  *)
(* wait happens in second 0, so the wait and the context start there, and  *)
(* no server is still starting once a second has passed.                   *)
Timing ==
  /\ now > 0 => Stopping /\ \A s \in ServerNames : srv[s] # "starting"
  /\ pc \in {"lowerHealthy", "lowerReady"} \/ Stopping => deadline = ShutdownTimeout
  /\ Stopping => wake = BriefWait
  /\ pc \in {"stop", "drain", "returned"} => now >= wake
  /\ pc = "lowerReady" \/ Stopping => healthy = 0

(* A server is shut down only in its turn, after the brief wait; with a    *)
(* brief wait none is caught before its Serve goroutine has run.           *)
Order ==
  /\ pc \notin {"stop", "drain", "returned"} =>
       turn = "grpc" /\ \A s \in ServerNames : srv[s] \in {"off", "starting", "listening"}
  /\ ~debug => exit # "serve" /\ \A s \in ServerNames : srv[s] # "halted"

(* The servers Graceful has finished with, whose turn is over.             *)
Passed == {s \in ServerNames : \/ s = "grpc" /\ turn # "grpc"
                               \/ s = "http" /\ turn = "https"}

(* A server that was stopped accepts nothing any more, and one whose turn  *)
(* is over has no request left unless the deadline has passed.             *)
Kept ==
  /\ Running => \A r \in Requests : status[r] # "lost"
  /\ \A r \in Requests : status[r] = "active" => at[r] \in ServerNames
  /\ \A s \in Passed : srv[s] \notin {"starting", "listening"}
  /\ pc \in {"drain", "returned"} => srv[turn] \notin {"starting", "listening"}
  /\ now < deadline => \A s \in Passed : ActiveAt(s) = {}
  /\ exit = "clean" /\ now < deadline => \A r \in Requests : status[r] # "lost"
  /\ exit = "clean" => pc = "returned"

(* No step of the process, its clients or the kubelet breaks Timing.       *)
LEMMA TimingStep ==
  ASSUME TypeOK, TypeOK', Timing, [Next]_vars
  PROVE  Timing'
<1> USE LifecycleAssumption DEF TypeOK, ServerNames, Running, Goto, ExitWith, Timing, Stopping, BriefWait,
        mainVars, flagVars, signalVars, reqVars, kubeVars
<1>1. CASE StartGrpc
  BY <1>1 DEF StartGrpc
<1>2. CASE StartServer
  BY <1>2 DEF StartServer, Launch
<1>3. CASE StartSecureServer
  BY <1>3 DEF StartSecureServer, Launch
<1>4. CASE RaiseHealthy
  BY <1>4 DEF RaiseHealthy
<1>5. CASE RaiseReady
  BY <1>5 DEF RaiseReady
<1>6. CASE SetupSignalHandler
  BY <1>6 DEF SetupSignalHandler
<1>7. CASE AwaitStop
  BY <1>7 DEF AwaitStop
<1>8. CASE LowerHealthy
  BY <1>8 DEF LowerHealthy
<1>9. CASE LowerReady
  BY <1>9 DEF LowerReady
<1>10. CASE WakeUp
  BY <1>10 DEF WakeUp
<1>11. CASE StopServer
  BY <1>11 DEF StopServer
<1>12. CASE ServerStopped
  BY <1>12 DEF ServerStopped, NextTurn, Drained
<1>13. CASE MainReturns
  BY <1>13 DEF MainReturns, Drained
<1>14. ASSUME NEW s \in Servers, Serve(s)
       PROVE  Timing'
  BY <1>14 DEF Serve
<1>15. CASE CatchFirst
  BY <1>15 DEF CatchFirst
<1>16. CASE CatchSecond
  BY <1>16 DEF CatchSecond
<1>17. ASSUME NEW r \in Requests, Handle(r)
       PROVE  Timing'
  BY <1>17 DEF Handle
<1>18. ASSUME NEW r \in Requests, NEW s \in Servers, NEW k \in Kinds, Accept(r, s, k)
       PROVE  Timing'
  BY <1>18 DEF Accept
<1>19. CASE SendSignal
  BY <1>19 DEF SendSignal
<1>20. CASE Probe
  BY <1>20 DEF Probe
<1>21. CASE Kill
  BY <1>21 DEF Kill
<1>22. CASE Tick
  BY <1>22 DEF Tick, Quiet, MainWaits
<1>23. CASE UNCHANGED vars
  BY <1>23 DEF vars
<1> QED
  BY <1>1, <1>2, <1>3, <1>4, <1>5, <1>6, <1>7, <1>8, <1>9, <1>10, <1>11, <1>12, <1>13,
       <1>14, <1>15, <1>16, <1>17, <1>18, <1>19, <1>20, <1>21, <1>22, <1>23
       DEF Next, Main, SignalGoroutine

(* No step breaks Order: without --level=debug the wait comes first.       *)
LEMMA OrderStep ==
  ASSUME TypeOK, TypeOK', Order, Timing, [Next]_vars
  PROVE  Order'
<1> USE LifecycleAssumption DEF TypeOK, ServerNames, Running, Goto, ExitWith, Timing, Order, Stopping, BriefWait,
        mainVars, flagVars, signalVars, reqVars, kubeVars
<1>1. CASE StartGrpc
  BY <1>1 DEF StartGrpc
<1>2. CASE StartServer
  BY <1>2 DEF StartServer, Launch
<1>3. CASE StartSecureServer
  BY <1>3 DEF StartSecureServer, Launch
<1>4. CASE RaiseHealthy
  BY <1>4 DEF RaiseHealthy
<1>5. CASE RaiseReady
  BY <1>5 DEF RaiseReady
<1>6. CASE SetupSignalHandler
  BY <1>6 DEF SetupSignalHandler
<1>7. CASE AwaitStop
  BY <1>7 DEF AwaitStop
<1>8. CASE LowerHealthy
  BY <1>8 DEF LowerHealthy
<1>9. CASE LowerReady
  BY <1>9 DEF LowerReady
<1>10. CASE WakeUp
  BY <1>10 DEF WakeUp
<1>11. CASE StopServer
  BY <1>11 DEF StopServer
<1>12. CASE ServerStopped
  BY <1>12 DEF ServerStopped, NextTurn, Drained
<1>13. CASE MainReturns
  BY <1>13 DEF MainReturns, Drained
<1>14. ASSUME NEW s \in Servers, Serve(s)
       PROVE  Order'
  BY <1>14 DEF Serve
<1>15. CASE CatchFirst
  BY <1>15 DEF CatchFirst
<1>16. CASE CatchSecond
  BY <1>16 DEF CatchSecond
<1>17. ASSUME NEW r \in Requests, Handle(r)
       PROVE  Order'
  BY <1>17 DEF Handle
<1>18. ASSUME NEW r \in Requests, NEW s \in Servers, NEW k \in Kinds, Accept(r, s, k)
       PROVE  Order'
  BY <1>18 DEF Accept
<1>19. CASE SendSignal
  BY <1>19 DEF SendSignal
<1>20. CASE Probe
  BY <1>20 DEF Probe
<1>21. CASE Kill
  BY <1>21 DEF Kill
<1>22. CASE Tick
  BY <1>22 DEF Tick, Quiet, MainWaits
<1>23. CASE UNCHANGED vars
  BY <1>23 DEF vars
<1> QED
  BY <1>1, <1>2, <1>3, <1>4, <1>5, <1>6, <1>7, <1>8, <1>9, <1>10, <1>11, <1>12, <1>13,
       <1>14, <1>15, <1>16, <1>17, <1>18, <1>19, <1>20, <1>21, <1>22, <1>23
       DEF Next, Main, SignalGoroutine

(* No step breaks Kept: what has been drained stays empty.                 *)
LEMMA KeptStep ==
  ASSUME TypeOK, TypeOK', Kept, Order, [Next]_vars
  PROVE  Kept'
<1> USE LifecycleAssumption DEF TypeOK, ServerNames, Running, Goto, ExitWith, Order, Kept, Passed, ActiveAt,
        mainVars, flagVars, signalVars, reqVars, kubeVars
<1>1. CASE StartGrpc
  BY <1>1 DEF StartGrpc
<1>2. CASE StartServer
  BY <1>2 DEF StartServer, Launch
<1>3. CASE StartSecureServer
  BY <1>3 DEF StartSecureServer, Launch
<1>4. CASE RaiseHealthy
  BY <1>4 DEF RaiseHealthy
<1>5. CASE RaiseReady
  BY <1>5 DEF RaiseReady
<1>6. CASE SetupSignalHandler
  BY <1>6 DEF SetupSignalHandler
<1>7. CASE AwaitStop
  BY <1>7 DEF AwaitStop
<1>8. CASE LowerHealthy
  BY <1>8 DEF LowerHealthy
<1>9. CASE LowerReady
  BY <1>9 DEF LowerReady
<1>10. CASE WakeUp
  BY <1>10 DEF WakeUp
<1>11. CASE StopServer
  BY <1>11 DEF StopServer
<1>12. CASE ServerStopped
  BY <1>12 DEF ServerStopped, NextTurn, Drained
<1>13. CASE MainReturns
  BY <1>13 DEF MainReturns, Drained
<1>14. ASSUME NEW s \in Servers, Serve(s)
       PROVE  Kept'
  BY <1>14 DEF Serve
<1>15. CASE CatchFirst
  BY <1>15 DEF CatchFirst
<1>16. CASE CatchSecond
  BY <1>16 DEF CatchSecond
<1>17. ASSUME NEW r \in Requests, Handle(r)
       PROVE  Kept'
  BY <1>17 DEF Handle
<1>18. ASSUME NEW r \in Requests, NEW s \in Servers, NEW k \in Kinds, Accept(r, s, k)
       PROVE  Kept'
  BY <1>18 DEF Accept
<1>19. CASE SendSignal
  BY <1>19 DEF SendSignal
<1>20. CASE Probe
  BY <1>20 DEF Probe
<1>21. CASE Kill
  BY <1>21 DEF Kill
<1>22. CASE Tick
  BY <1>22 DEF Tick, Quiet, MainWaits
<1>23. CASE UNCHANGED vars
  BY <1>23 DEF vars
<1> QED
  BY <1>1, <1>2, <1>3, <1>4, <1>5, <1>6, <1>7, <1>8, <1>9, <1>10, <1>11, <1>12, <1>13,
       <1>14, <1>15, <1>16, <1>17, <1>18, <1>19, <1>20, <1>21, <1>22, <1>23
       DEF Next, Main, SignalGoroutine

(* The three invariants hold in every state of every process.              *)
THEOREM ShutdownInvariant == Spec => [](TypeOK /\ Timing /\ Order /\ Kept)
<1>1. Init => Timing /\ Order /\ Kept
  BY DEF Init, Timing, Order, Kept, Stopping, Passed, ActiveAt, ServerNames, Running
<1>2. TypeOK /\ TypeOK' /\ Timing /\ Order /\ Kept /\ [Next]_vars => (Timing /\ Order /\ Kept)'
  BY TimingStep, OrderStep, KeptStep
<1> QED
  BY <1>1, <1>2, TypeCorrect, PTL DEF Spec

-----------------------------------------------------------------------------
(* The theorems.                                                           *)

(* A process that returns from Graceful before the deadline has answered   *)
(* all it had accepted, on every server and with any number of requests.   *)
THEOREM CleanExit == Spec => []CleanExitKeepsRequests
<1>1. Kept => CleanExitKeepsRequests
  BY DEF Kept, CleanExitKeepsRequests
<1> QED
  BY <1>1, ShutdownInvariant, PTL

(* Unless --level=debug skips the wait, no listener closes before three    *)
(* seconds of failing /healthz.                                            *)
THEOREM Warning == Spec => []ListenersOutliveTheWarning
<1>1. TypeOK /\ Timing /\ Order => ListenersOutliveTheWarning
  BY DEF TypeOK, Timing, Order, ListenersOutliveTheWarning, Stopping, BriefWait, ServerNames
<1> QED
  BY <1>1, ShutdownInvariant, PTL

(* Unless --level=debug skips the wait, no shutdown crashes gRPC's Serve.  *)
THEOREM NoCrash == Spec => []NoCrashOnShutdown
<1>1. Order => NoCrashOnShutdown
  BY DEF Order, NoCrashOnShutdown
<1> QED
  BY <1>1, ShutdownInvariant, PTL

(* Without a gRPC server the shutdown takes at most the timeout, or the    *)
(* three seconds of the wait, for any behaviour of the handlers.           *)
THEOREM Bounded == ASSUME "grpc" \notin Servers PROVE Spec => []ShutdownWithinTimeout
<1>1. Init => ShutdownWithinTimeout
  BY LifecycleAssumption DEF Init, ShutdownWithinTimeout
<1>2. TypeOK /\ Timing /\ Order /\ ShutdownWithinTimeout /\ [Next]_vars => ShutdownWithinTimeout'
  <2> SUFFICES ASSUME TypeOK, Timing, Order, ShutdownWithinTimeout, Next, now' # now
               PROVE  ShutdownWithinTimeout'
    BY DEF ShutdownWithinTimeout, vars
  <2>1. Tick
    BY DEF Next, Main, StartGrpc, StartServer, StartSecureServer, Launch, RaiseHealthy,
           RaiseReady, SetupSignalHandler, AwaitStop, LowerHealthy, LowerReady, WakeUp,
           StopServer, ServerStopped, MainReturns, Serve, SignalGoroutine, CatchFirst,
           CatchSecond, Handle, Accept, SendSignal, Probe, Kill
  <2>2. now \in Nat /\ now' = now + 1 /\ stopped /\ MainWaits
    BY <2>1 DEF Tick, Quiet, TypeOK
  <2>3. CASE pc = "sleep"
    BY <2>2, <2>3, LifecycleAssumption
       DEF MainWaits, Timing, Stopping, BriefWait, ShutdownWithinTimeout
  <2>4. CASE pc = "drain"
    <3>1. ActiveAt("grpc") = {}
      BY DEF ActiveAt, TypeOK
    <3>2. now < deadline /\ deadline = ShutdownTimeout
      BY <2>2, <2>4, <3>1, LifecycleAssumption
         DEF MainWaits, Drained, Timing, Stopping, TypeOK
    <3> QED
      BY <2>2, <3>2, LifecycleAssumption DEF ShutdownWithinTimeout
  <2> QED
    BY <2>2, <2>3, <2>4 DEF MainWaits
<1> QED
  BY <1>1, <1>2, ShutdownInvariant, PTL DEF Spec

-----------------------------------------------------------------------------
(* RPCs, the kubelet's patience, and the pod's place in rotation.          *)

(* What each variable that the invariants below speak of is changed by.    *)
LEMMA Frames ==
  ASSUME [Next]_vars
  PROVE  /\ srv' = srv \/ StartGrpc \/ StartServer \/ StartSecureServer \/ StopServer
              \/ ServerStopped \/ MainReturns \/ \E s \in Servers : Serve(s)
         /\ at' = at \/ \E r \in Requests, s \in Servers, k \in Kinds : Accept(r, s, k)
         /\ exit' = exit \/ (exit = "none" /\ exit' # "kill" /\ now' = now)
              \/ (Kill /\ exit' = "kill" /\ now' = now)
         /\ exit' = exit \/ exit' # "serve" \/ (srv["grpc"] = "halted" /\ srv' = srv /\ at' = at)
         /\ ready' = ready \/ RaiseReady \/ ready' = 0
              \/ \E r \in Requests : Handle(r) /\ asks[r] = "enable"
         /\ now' = now \/ Tick
         /\ probeIn' = probeIn \/ Tick \/ Probe
         /\ (endpoint' = endpoint /\ failures' = failures) \/ Probe
         /\ pc' = pc \/ Main
<1> USE DEF Running, Goto, ExitWith, Launch, mainVars, flagVars, signalVars, reqVars, kubeVars
<1>1. CASE Main
  BY <1>1 DEF Main, StartGrpc, StartServer, StartSecureServer, RaiseHealthy, RaiseReady,
     SetupSignalHandler, AwaitStop, LowerHealthy, LowerReady, WakeUp, StopServer, ServerStopped,
     MainReturns
<1>2. ASSUME NEW s \in Servers, Serve(s)
      PROVE  /\ at' = at /\ ready' = ready /\ now' = now /\ probeIn' = probeIn /\ pc' = pc
             /\ endpoint' = endpoint /\ failures' = failures
             /\ exit' = exit \/ (exit = "none" /\ exit' = "bind")
                  \/ (exit = "none" /\ exit' = "serve" /\ srv["grpc"] = "halted" /\ srv' = srv)
  BY <1>2 DEF Serve
<1>3. CASE SignalGoroutine
  BY <1>3 DEF SignalGoroutine, CatchFirst, CatchSecond
<1>4. ASSUME NEW r \in Requests, Handle(r)
      PROVE  /\ at' = at /\ srv' = srv /\ now' = now /\ probeIn' = probeIn /\ pc' = pc
             /\ endpoint' = endpoint /\ failures' = failures
             /\ ready' = ready \/ ready' = 0 \/ asks[r] = "enable"
             /\ exit' = exit \/ (exit = "none" /\ exit' = "panic")
  BY <1>4 DEF Handle
<1>5. ASSUME NEW r \in Requests, NEW s \in Servers, NEW k \in Kinds, Accept(r, s, k)
      PROVE  /\ srv' = srv /\ ready' = ready /\ now' = now /\ probeIn' = probeIn /\ pc' = pc
             /\ endpoint' = endpoint /\ failures' = failures /\ exit' = exit
  BY <1>5 DEF Accept
<1>6. CASE SendSignal
  BY <1>6 DEF SendSignal
<1>7. CASE Probe
  BY <1>7 DEF Probe
<1>8. CASE Kill
  BY <1>8 DEF Kill
<1>9. CASE Tick
  BY <1>9 DEF Tick
<1>10. CASE UNCHANGED vars
  BY <1>10 DEF vars
<1> QED
  BY <1>1, <1>2, <1>3, <1>4, <1>5, <1>6, <1>7, <1>8, <1>9, <1>10 DEF Next

(* A gRPC server that does not serve yet, or was stopped before it did,    *)
(* has accepted nothing; Serve fails only where the server was stopped.    *)
RpcsServed ==
  /\ pc = "startGrpc" => srv["grpc"] = "off"
  /\ srv["grpc"] \in {"off", "starting", "halted"} => \A r \in Requests : at[r] # "grpc"
  /\ exit = "serve" => srv["grpc"] = "halted"

(* Time goes on beyond the wait and the deadline only for an open RPC, and *)
(* where a request was accepted does not change.                           *)
Patience ==
  /\ \A r \in Requests : status[r] = "new" => at[r] = "none" /\ asks[r] = "none"
  /\ now > 3 /\ now > ShutdownTimeout => \E r \in Requests : at[r] = "grpc"
  /\ exit = "kill" => now >= GracePeriod

(* Only a server that listens accepts an RPC, and it never goes back.      *)
LEMMA RpcsStep ==
  ASSUME TypeOK, TypeOK', RpcsServed, [Next]_vars
  PROVE  RpcsServed'
<1> USE DEF RpcsServed, TypeOK, ServerNames, Running, Goto, Launch
<1>1. ASSUME NEW r \in Requests, NEW s \in Servers, NEW k \in Kinds, Accept(r, s, k)
      PROVE  RpcsServed'
  BY <1>1, LifecycleAssumption DEF Accept, mainVars
<1>2. CASE srv' # srv
  <2>1. at' = at /\ exit' # "serve"
    BY <1>2, Frames DEF StartGrpc, StartServer, StartSecureServer, StopServer, ServerStopped,
       MainReturns, Serve, Accept, reqVars, ExitWith
  <2>2. CASE StartGrpc
    BY <2>1, <2>2 DEF StartGrpc
  <2>3. CASE StartServer \/ StartSecureServer
    BY <2>1, <2>3 DEF StartServer, StartSecureServer
  <2>4. CASE StopServer \/ ServerStopped \/ MainReturns
    BY <2>1, <2>4 DEF StopServer, ServerStopped, MainReturns
  <2>5. ASSUME NEW s \in Servers, Serve(s)
        PROVE  RpcsServed'
    BY <1>2, <2>1, <2>5 DEF Serve, mainVars
  <2> QED
    BY <1>2, <2>2, <2>3, <2>4, <2>5, Frames
<1>3. CASE srv' = srv /\ at' = at
  <2>1. pc' = "startGrpc" => pc = "startGrpc"
    BY <1>3, Frames DEF Main, StartGrpc, StartServer, StartSecureServer, RaiseHealthy, RaiseReady,
       SetupSignalHandler, AwaitStop, LowerHealthy, LowerReady, WakeUp, StopServer,
       ServerStopped, MainReturns
  <2>2. exit' = "serve" => srv["grpc"] = "halted"
    BY Frames
  <2> QED
    BY <1>3, <2>1, <2>2
<1> QED
  BY <1>1, <1>2, <1>3, Frames

(* Time passes after the wait and the deadline for an open RPC only.       *)
LEMMA PatienceStep ==
  ASSUME TypeOK, TypeOK', Timing, Patience, [Next]_vars
  PROVE  Patience'
<1> USE LifecycleAssumption DEF TypeOK, Patience
<1>fresh. \A r \in Requests : status'[r] = "new" => at'[r] = "none" /\ asks'[r] = "none"
  <2>1. ASSUME NEW r \in Requests
        PROVE  status'[r] = "new" => status[r] = "new" /\ at'[r] = at[r] /\ asks'[r] = asks[r]
    BY DEF Next, vars, Main, StartGrpc, StartServer, StartSecureServer, Launch, RaiseHealthy,
       RaiseReady, SetupSignalHandler, AwaitStop, LowerHealthy, LowerReady, WakeUp, StopServer,
       ServerStopped, MainReturns, Serve, SignalGoroutine, CatchFirst, CatchSecond, Handle,
       Accept, SendSignal, Probe, Kill, Tick, ExitWith, reqVars
  <2> QED
    BY <2>1
<1>1. ASSUME NEW r \in Requests, at[r] = "grpc"
      PROVE  at'[r] = "grpc"
  <2>1. at' = at \/ \E q \in Requests, s \in Servers, k \in Kinds : Accept(q, s, k)
    BY Frames
  <2> QED
    BY <1>1, <2>1 DEF Accept
<1>2. now' > 3 /\ now' > ShutdownTimeout => \E r \in Requests : at'[r] = "grpc"
  <2>1. CASE now' = now
    BY <1>1, <2>1
  <2>2. CASE Tick /\ stopped
    <3>1. now' = now + 1 /\ ((pc = "sleep" /\ now < wake) \/ (pc = "drain" /\ ~Drained))
      BY <2>2 DEF Tick, Quiet, MainWaits
    <3>2. pc = "sleep" => now < 3
      BY <3>1 DEF Timing, Stopping, BriefWait
    <3>3. pc = "drain" /\ turn # "grpc" => now < ShutdownTimeout
      BY <3>1 DEF Timing, Stopping, Drained
    <3>4. pc = "drain" /\ turn = "grpc" => \E r \in Requests : at[r] = "grpc"
      BY <3>1 DEF Drained, ActiveAt
    <3> QED
      BY <1>1, <3>1, <3>2, <3>3, <3>4
  <2> QED
    BY <2>1, <2>2, Frames DEF Tick
<1>3. exit' = "kill" => now' >= GracePeriod
  <2>1. exit' = exit \/ exit' # "kill" \/ (Kill /\ now' = now)
    BY Frames
  <2>2. now' >= now
    BY Frames DEF Tick
  <2> QED
    BY <2>1, <2>2 DEF Kill
<1> QED
  BY <1>fresh, <1>2, <1>3

(* Both hold in every state of every process.                              *)
THEOREM RpcInvariant == Spec => [](RpcsServed /\ Patience)
<1>1. Init => RpcsServed /\ Patience
  BY DEF Init, RpcsServed, Patience, ServerNames
<1>2. TypeOK /\ TypeOK' /\ Timing /\ RpcsServed /\ Patience /\ [Next]_vars
        => (RpcsServed /\ Patience)'
  BY RpcsStep, PatienceStep
<1> QED
  BY <1>1, <1>2, ShutdownInvariant, PTL DEF Spec

(* With or without the brief wait, Serve of gRPC fails only in a process   *)
(* that accepted no RPC.                                                   *)
THEOREM CrashTheorem == Spec => []CrashLosesNoRpc
<1>1. RpcsServed => CrashLosesNoRpc
  BY DEF RpcsServed, CrashLosesNoRpc
<1> QED
  BY <1>1, RpcInvariant, PTL

(* The kubelet kills only a process that accepted an RPC, whatever the     *)
(* handlers of HTTP requests do.                                           *)
THEOREM KillTheorem == Spec => []KilledOnlyByOpenRpc
<1>1. TypeOK /\ Patience => KilledOnlyByOpenRpc
  BY LifecycleAssumption DEF TypeOK, Patience, KilledOnlyByOpenRpc
<1> QED
  BY <1>1, RpcInvariant, TypeCorrect, PTL

(* Nobody has asked to be enabled.                                         *)
NotEnabled == \A r \in Requests : asks[r] # "enable"

(* Unless someone asks to be enabled readiness stays lowered.              *)
Lowered == NotEnabled /\ Stopping => ready = 0

(* What a request asked for does not change.                               *)
LEMMA AsksStay ==
  ASSUME TypeOK, Patience, [Next]_vars, NotEnabled'
  PROVE  NotEnabled
<1> SUFFICES ASSUME NEW r \in Requests, asks[r] = "enable"
             PROVE  asks'[r] = "enable"
  BY DEF NotEnabled
<1>1. asks' = asks \/ \E q \in Requests, s \in Servers, k \in Kinds : Accept(q, s, k)
  BY DEF Next, vars, Main, StartGrpc, StartServer, StartSecureServer, Launch, RaiseHealthy,
     RaiseReady, SetupSignalHandler, AwaitStop, LowerHealthy, LowerReady, WakeUp, StopServer,
     ServerStopped, MainReturns, Serve, SignalGoroutine, CatchFirst, CatchSecond, Handle,
     Accept, SendSignal, Probe, Kill, Tick, ExitWith, reqVars
<1>2. ASSUME NEW q \in Requests, NEW s \in Servers, NEW k \in Kinds, Accept(q, s, k)
      PROVE  asks'[r] = "enable"
  <2>1. CASE q # r
    BY <1>2, <2>1 DEF Accept, TypeOK
  <2>2. CASE q = r
    BY <1>2, <2>2 DEF Accept, Patience
  <2> QED
    BY <2>1, <2>2
<1> QED
  BY <1>1, <1>2

(* Of the endpoints only enable can raise a flag that Graceful lowered.    *)
THEOREM OnlyEnableRaises == Spec => [](NotEnabled => ProbesFailOnceStopping)
<1>1. Init => Lowered
  BY DEF Init, Stopping, Lowered
<1>2. TypeOK /\ Timing /\ Patience /\ Lowered /\ [Next]_vars => Lowered'
  <2> SUFFICES ASSUME TypeOK, Patience, Lowered, [Next]_vars, Stopping', NotEnabled'
               PROVE  ready' = 0
    BY DEF Lowered
  <2>0. NotEnabled
    BY AsksStay
  <2>1. CASE ready' # ready
    <3>2. ~RaiseReady
      BY <2>1 DEF RaiseReady, Goto, Stopping
    <3> QED
      BY <2>0, <2>1, <3>2, Frames DEF NotEnabled
  <2>2. CASE ready' = ready /\ ~Stopping
    <3>1. LowerReady
      BY <2>2, Frames DEF Stopping, Goto, Main, StartGrpc, StartServer, StartSecureServer, Launch,
         RaiseHealthy, RaiseReady, SetupSignalHandler, AwaitStop, LowerHealthy, LowerReady, WakeUp,
         StopServer, ServerStopped, MainReturns
    <3> QED
      BY <3>1 DEF LowerReady
  <2>3. CASE ready' = ready /\ Stopping
    BY <2>0, <2>3 DEF Lowered
  <2> QED
    BY <2>1, <2>2, <2>3
<1>3. Timing /\ Lowered => (NotEnabled => ProbesFailOnceStopping)
  BY DEF Timing, Lowered, ProbesFailOnceStopping
<1> QED
  BY <1>1, <1>2, <1>3, ShutdownInvariant, RpcInvariant, PTL DEF Spec

(* The probes that failed, and the next one, came one period after the     *)
(* other, the first of them at most a period after the flags were lowered. *)
Rotation ==
  NotEnabled /\ endpoint =>
    failures < FailureThreshold /\ now + probeIn <= (failures + 1) * ProbePeriod

(* More periods take more time.                                            *)
LEMMA MorePeriods ==
  ASSUME NEW p \in Nat, NEW n \in Nat, NEW m \in Nat
  PROVE  /\ n <= m => n * p <= m * p
         /\ (n + 1) * p = n * p + p
         /\ n * p \in Nat
OBVIOUS

LEMMA NoLater ==
  ASSUME NEW a \in Int, NEW b \in Int, NEW c \in Int, a <= b, b <= c
  PROVE  a <= c
OBVIOUS

(* A probe fails once the flags are lowered, so it takes the pod out of    *)
(* rotation or leaves one less to do so.                                   *)
LEMMA RotationStep ==
  ASSUME TypeOK, TypeOK', Timing, Patience, NotEnabled => ProbesFailOnceStopping, Rotation,
         [Next]_vars
  PROVE  Rotation'
<1> SUFFICES ASSUME NotEnabled', endpoint'
             PROVE  failures' < FailureThreshold
                    /\ now' + probeIn' <= (failures' + 1) * ProbePeriod
  BY DEF Rotation
<1>1. NotEnabled /\ ProbesFailOnceStopping
  BY AsksStay
<1>2. /\ ProbePeriod \in Nat \ {0} /\ FailureThreshold \in Nat \ {0}
      /\ failures \in Nat /\ now \in Nat /\ probeIn \in Nat /\ stopped \in BOOLEAN
  BY LifecycleAssumption DEF TypeOK
<1>3. CASE Probe
  <2>1. /\ probeIn = 0 /\ probeIn' = ProbePeriod /\ now' = now
    BY <1>3 DEF Probe
  <2>2. CASE srv["http"] = "listening" /\ ready = 1
    <3>1. now = 0
      BY <1>1, <1>2, <2>2 DEF Timing, ProbesFailOnceStopping
    <3>2. failures' = 0
      BY <1>3, <2>2 DEF Probe
    <3>3. (0 + 1) * ProbePeriod = ProbePeriod
      BY <1>2
    <3> QED
      BY <1>2, <2>1, <3>1, <3>2, <3>3
  <2>3. CASE ~(srv["http"] = "listening" /\ ready = 1)
    <3>1. endpoint /\ failures' < FailureThreshold
      BY <1>3, <2>3 DEF Probe
    <3>2. failures < FailureThreshold /\ now + probeIn <= (failures + 1) * ProbePeriod
      BY <1>1, <3>1 DEF Rotation
    <3>3. failures' = failures + 1
      BY <1>3, <2>3, <3>2 DEF Probe
    <3>4. (failures + 1 + 1) * ProbePeriod = (failures + 1) * ProbePeriod + ProbePeriod
      BY <1>2, MorePeriods
    <3> QED
      BY <1>2, <2>1, <3>1, <3>2, <3>3, <3>4, MorePeriods
  <2> QED
    BY <2>2, <2>3
<1>4. CASE endpoint' = endpoint /\ failures' = failures /\ now' + probeIn' <= now + probeIn
  <2>1. failures < FailureThreshold /\ now + probeIn <= (failures + 1) * ProbePeriod
    BY <1>1, <1>4 DEF Rotation
  <2>2. (failures + 1) * ProbePeriod \in Nat /\ now' \in Nat /\ probeIn' \in Nat
    BY <1>2, MorePeriods, LifecycleAssumption DEF TypeOK
  <2>3. now' + probeIn' <= (failures + 1) * ProbePeriod
    <3>1. now + probeIn \in Int /\ now' + probeIn' \in Int
      BY <1>2, <2>2
    <3>2. (failures + 1) * ProbePeriod \in Int
      BY <2>2
    <3>3. now' + probeIn' <= now + probeIn
      BY <1>4
    <3> QED
      BY <2>1, <3>1, <3>2, <3>3, NoLater
  <2> QED
    BY <1>4, <2>1, <2>3
<1>5. Probe \/ (endpoint' = endpoint /\ failures' = failures /\ now' + probeIn' <= now + probeIn)
  <2>1. CASE Tick
    <3>1. endpoint' = endpoint /\ failures' = failures /\ probeIn' = probeIn - 1
      BY <2>1 DEF Tick
    <3>2. now' = now + 1 \/ now' = now
      BY <2>1 DEF Tick
    <3>3. now' + probeIn' <= now + probeIn
      BY <1>2, <3>1, <3>2
    <3> QED
      BY <3>1, <3>3
  <2>2. CASE ~Tick /\ ~Probe
    <3>1. endpoint' = endpoint /\ failures' = failures /\ probeIn' = probeIn /\ now' = now
      BY <2>2, Frames
    <3>2. now' + probeIn' <= now + probeIn
      BY <1>2, <3>1
    <3> QED
      BY <3>1, <3>2
  <2> QED
    BY <2>1, <2>2
<1> QED
  BY <1>3, <1>4, <1>5

(* Unless someone raises readiness again the pod is out of rotation when   *)
(* as many probes as the threshold asks for had the time to fail.          *)
THEOREM RotationTheorem == Spec => []LeavesRotation
<1>1. Init => Rotation
  BY DEF Init, Rotation
<1>2. TypeOK /\ TypeOK' /\ Timing /\ Patience /\ (NotEnabled => ProbesFailOnceStopping) /\ Rotation
        /\ [Next]_vars => Rotation'
  BY RotationStep
<1>3. TypeOK /\ Rotation => LeavesRotation
  <2> SUFFICES ASSUME TypeOK, Rotation, NotEnabled, endpoint
               PROVE  now <= FailureThreshold * ProbePeriod
    BY DEF LeavesRotation, NotEnabled
  <2>1. /\ ProbePeriod \in Nat /\ FailureThreshold \in Nat
        /\ failures \in Nat /\ now \in Nat /\ probeIn \in Nat
    BY LifecycleAssumption DEF TypeOK
  <2>2. failures + 1 <= FailureThreshold /\ now + probeIn <= (failures + 1) * ProbePeriod
    BY <2>1 DEF Rotation
  <2>3. (failures + 1) * ProbePeriod <= FailureThreshold * ProbePeriod
        /\ (failures + 1) * ProbePeriod \in Nat /\ FailureThreshold * ProbePeriod \in Nat
    BY <2>1, <2>2, MorePeriods
  <2> QED
    BY <2>1, <2>2, <2>3
<1> QED
  BY <1>1, <1>2, <1>3, ShutdownInvariant, RpcInvariant, OnlyEnableRaises, PTL DEF Spec
-----------------------------------------------------------------------------
(* The shutdown implements GracefulService.                                *)

(* A server is off until main launches it.  Between turns nothing drains,  *)
(* and no RPC is left after gRPC's turn, which ends for want of RPCs only: *)
(* GracefulStop knows no deadline.                                         *)
InTurn ==
  /\ pc = "startGrpc" => srv["grpc"] = "off"
  /\ pc \in {"startGrpc", "startHttp"} => srv["http"] = "off"
  /\ pc \in {"startGrpc", "startHttp", "startHttps"} => srv["https"] = "off"
  /\ \A s \in ServerNames : srv[s] = "draining" => pc = "drain" /\ s = turn
  /\ turn # "grpc" => srv["grpc"] # "listening" /\ ActiveAt("grpc") = {}

(* A server in turn has been stopped and what drains is what main waits    *)
(* for; the turn leaves gRPC when its last RPC is gone.                    *)
LEMMA InTurnStep ==
  ASSUME TypeOK, TypeOK', Order, Kept, InTurn, [Next]_vars
  PROVE  InTurn'
<1> USE DEF TypeOK, ServerNames, InTurn, ActiveAt, Running, Goto, ExitWith, Launch,
        mainVars, flagVars, signalVars, reqVars, kubeVars
<1>1. CASE Main
  <2>1. CASE pc \notin {"stop", "drain"}
    BY <1>1, <2>1 DEF Order, Main, StartGrpc, StartServer, StartSecureServer, RaiseHealthy,
       RaiseReady, SetupSignalHandler, AwaitStop, LowerHealthy, LowerReady, WakeUp,
       StopServer, ServerStopped, MainReturns
  <2>2. CASE StopServer
    BY <2>2 DEF StopServer
  <2>3. CASE ServerStopped
    BY <2>3 DEF ServerStopped, Drained, NextTurn, Kept
  <2>4. CASE MainReturns
    BY <2>4 DEF MainReturns
  <2> QED
    BY <1>1, <2>1, <2>2, <2>3, <2>4 DEF Main, StartGrpc, StartServer, StartSecureServer,
       RaiseHealthy, RaiseReady, SetupSignalHandler, AwaitStop, LowerHealthy, LowerReady, WakeUp
<1>2. ASSUME NEW s \in Servers, Serve(s)
      PROVE  InTurn'
  <2>1. s \in ServerNames
    BY LifecycleAssumption
  <2>2. s = "grpc" /\ srv[s] = "starting" => turn = "grpc"
    BY DEF Kept, Passed
  <2> QED
    BY <1>2, <2>1, <2>2 DEF Serve
<1>3. CASE SignalGoroutine
  BY <1>3 DEF SignalGoroutine, CatchFirst, CatchSecond
<1>4. ASSUME NEW r \in Requests, Handle(r)
      PROVE  InTurn'
  BY <1>4 DEF Handle
<1>5. ASSUME NEW r \in Requests, NEW s \in Servers, NEW k \in Kinds, Accept(r, s, k)
      PROVE  InTurn'
  BY <1>5 DEF Accept
<1>6. CASE SendSignal
  BY <1>6 DEF SendSignal
<1>7. CASE Probe
  BY <1>7 DEF Probe
<1>8. CASE Kill
  BY <1>8 DEF Kill
<1>9. CASE Tick
  BY <1>9 DEF Tick
<1>10. CASE UNCHANGED vars
  BY <1>10 DEF vars
<1> QED
  BY <1>1, <1>2, <1>3, <1>4, <1>5, <1>6, <1>7, <1>8, <1>9, <1>10 DEF Next

(* A step that leaves what callers see alone is a stutter of the service.  *)
LEMMA Unseen ==
  ASSUME \A s \in ServerNames : Door(srv'[s]) = Door(srv[s]),
         status' = status, at' = at, exit' = exit,
         Stopping' = Stopping, Stopping => now' = now /\ deadline' = deadline
  PROVE  UNCHANGED Graceful!vars
<1>1. (Stopping /\ now >= deadline)' = (Stopping /\ now >= deadline)
  OBVIOUS
<1>2. [s \in ServerNames |-> Door(srv[s])]' = [s \in ServerNames |-> Door(srv[s])]
  OBVIOUS
<1> QED
  BY <1>1, <1>2 DEF Graceful!vars

(* Assigning one server its state assigns one listener its door.           *)
LEMMA OneDoor ==
  ASSUME TypeOK, NEW s \in ServerNames, NEW v, srv' = [srv EXCEPT ![s] = v]
  PROVE  [t \in ServerNames |-> Door(srv[t])]'
           = [[t \in ServerNames |-> Door(srv[t])] EXCEPT ![s] = Door(v)]
<1>1. \A t \in ServerNames : srv'[t] = IF t = s THEN v ELSE srv[t]
  BY DEF TypeOK
<1>2. [t \in ServerNames |-> Door(srv'[t])]
        = [t \in ServerNames |-> IF t = s THEN Door(v) ELSE Door(srv[t])]
  BY <1>1
<1> QED
  BY <1>2

(* Whatever ends the process otherwise than main's return is an abort.     *)
LEMMA Aborts ==
  ASSUME Running, NEW cause \in Causes \ {"clean"}, ExitWith(cause),
         srv' = srv, at' = at, pc' = pc, now' = now, deadline' = deadline
  PROVE  Graceful!Abort
<1>1. Stopping' = Stopping
  BY DEF Stopping
<1>2. [s \in ServerNames |-> Door(srv[s])]' = [s \in ServerNames |-> Door(srv[s])]
  BY DEF Door
<1> QED
  BY <1>1, <1>2 DEF Graceful!Abort, Graceful!EndAs, ExitWith, Running, Causes

(* What callers see of each state of a server.                             *)
LEMMA Doors ==
  /\ Door("off") = "down" /\ Door("starting") = "down" /\ Door("listening") = "open"
  /\ Door("draining") = "closing" /\ Door("halted") = "closed" /\ Door("closed") = "closed"
BY DEF Door

(* Main's steps: launching is not seen, lowering the flags is the notice,  *)
(* stopping a server closes its door, a turn's end is its leave.           *)
LEMMA MainServes ==
  ASSUME TypeOK, Order, Kept, InTurn, Main
  PROVE  [Graceful!Next]_Graceful!vars
<1> DEFINE Seen == [s \in ServerNames |-> Door(srv[s])]
<1> USE DEF Goto, Launch, mainVars, flagVars, signalVars, reqVars, kubeVars
<1>1. CASE StartGrpc
  <2>1. CASE exit' = exit
    <3>1. srv' = srv \/ srv' = [srv EXCEPT !["grpc"] = "starting"]
      BY <1>1, <2>1 DEF StartGrpc, ExitWith, Running
    <3>2. \A s \in ServerNames : Door(srv'[s]) = Door(srv[s])
      BY <1>1, <3>1, Doors DEF StartGrpc, InTurn, TypeOK, ServerNames
    <3>3. /\ status' = status /\ at' = at /\ Stopping' = Stopping
          /\ now' = now /\ deadline' = deadline
      BY <1>1, <2>1 DEF StartGrpc, ExitWith, Running, Stopping
    <3> QED
      BY <2>1, <3>2, <3>3, Unseen
  <2>2. CASE exit' # exit
    BY <1>1, <2>2, Aborts DEF StartGrpc, Causes, Graceful!Next
  <2> QED
    BY <2>1, <2>2
<1>2. CASE StartServer \/ StartSecureServer
  <2>1. \A s \in ServerNames : Door(srv'[s]) = Door(srv[s])
    BY <1>2, Doors DEF StartServer, StartSecureServer, InTurn, TypeOK, ServerNames
  <2>2. /\ status' = status /\ at' = at /\ Stopping' = Stopping /\ exit' = exit
        /\ now' = now /\ deadline' = deadline
    BY <1>2 DEF StartServer, StartSecureServer, Stopping
  <2> QED
    BY <2>1, <2>2, Unseen
<1>3. CASE \/ RaiseHealthy \/ RaiseReady \/ SetupSignalHandler
           \/ AwaitStop \/ LowerHealthy \/ WakeUp
  <2>1. /\ srv' = srv /\ status' = status /\ at' = at /\ exit' = exit /\ Stopping' = Stopping
        /\ (Stopping => now' = now /\ deadline' = deadline)
    BY <1>3 DEF RaiseHealthy, RaiseReady, SetupSignalHandler, AwaitStop, LowerHealthy,
       WakeUp, Stopping
  <2> QED
    BY <2>1, Unseen
<1>4. CASE LowerReady
  <2>1. /\ ~Stopping /\ Stopping' /\ srv' = srv /\ status' = status /\ at' = at
        /\ exit' = exit /\ Running
    BY <1>4 DEF LowerReady, Stopping
  <2>2. Seen' = Seen
    BY <2>1
  <2>3. (Stopping /\ now >= deadline)' \in BOOLEAN
    OBVIOUS
  <2>4. Graceful!GiveNotice
    BY <2>1, <2>2, <2>3 DEF Graceful!GiveNotice, Running
  <2> QED
    BY <2>4 DEF Graceful!Next
<1>5. CASE StopServer
  <2>1. /\ Running /\ Stopping /\ Stopping' /\ turn \in ServerNames
        /\ status' = status /\ at' = at /\ exit' = exit /\ now' = now /\ deadline' = deadline
    BY <1>5 DEF StopServer, Stopping, TypeOK
  <2>2. CASE srv' = srv
    BY <2>1, <2>2, Unseen
  <2>3. ASSUME NEW v, srv' = [srv EXCEPT ![turn] = v],
               \/ srv[turn] = "listening" /\ v = "draining"
               \/ srv[turn] = "starting" /\ v = "halted"
        PROVE  Graceful!Close(turn)
    <3>1. Seen' = [Seen EXCEPT ![turn] = Door(v)]
      BY <2>1, <2>3, OneDoor
    <3>2. Seen[turn] = Door(srv[turn])
      BY <2>1
    <3> QED
      BY <2>1, <2>3, <3>1, <3>2, Doors DEF Graceful!Close, Running
  <2> QED
    BY <1>5, <2>1, <2>2, <2>3 DEF StopServer, Graceful!Next
<1>6. CASE ServerStopped
  <2>1. /\ Running /\ Stopping /\ Stopping' /\ turn \in ServerNames /\ Drained
        /\ status' = status /\ at' = at /\ exit' = exit /\ now' = now /\ deadline' = deadline
    BY <1>6 DEF ServerStopped, Stopping, TypeOK
  <2>2. CASE srv[turn] # "draining"
    <3>1. srv' = srv
      BY <1>6, <2>1, <2>2 DEF ServerStopped, TypeOK
    <3> QED
      BY <2>1, <3>1, Unseen
  <2>3. CASE srv[turn] = "draining"
    <3>1. srv' = [srv EXCEPT ![turn] = "closed"]
      BY <1>6, <2>1, <2>3 DEF ServerStopped
    <3>2. Seen' = [Seen EXCEPT ![turn] = "closed"]
      <4>1. Seen' = [Seen EXCEPT ![turn] = Door("closed")]
        BY <2>1, <3>1, OneDoor
      <4> QED
        BY <4>1, Doors
    <3>3. Seen[turn] = "closing"
      BY <2>1, <2>3, Doors
    <3>4. Graceful!Released(turn)
      BY <2>1 DEF Graceful!Released, Drained, ActiveAt
    <3>5. Graceful!Leave(turn)
      BY <2>1, <3>2, <3>3, <3>4 DEF Graceful!Leave, Running
    <3> QED
      BY <2>1, <3>5 DEF Graceful!Next
  <2> QED
    BY <2>2, <2>3
<1>7. CASE MainReturns
  <2>1. /\ Running /\ Stopping /\ Stopping' /\ turn = "https" /\ pc = "drain" /\ Drained
        /\ exit' = "clean" /\ at' = at /\ now' = now /\ deadline' = deadline
        /\ status' = [r \in Requests |-> IF status[r] = "active" THEN "lost" ELSE status[r]]
    BY <1>7 DEF MainReturns, Stopping, ExitWith
  <2>2. ASSUME NEW s \in ServerNames
        PROVE  Graceful!Released(s)
    <3>1. CASE s = "https"
      BY <2>1, <3>1 DEF Graceful!Released, Drained, ActiveAt
    <3>2. CASE s = "grpc"
      BY <2>1, <3>2 DEF Graceful!Released, InTurn, ActiveAt
    <3>3. CASE s = "http"
      <4>1. now < deadline => ActiveAt(s) = {}
        BY <2>1, <3>3 DEF Kept, Passed
      <4>2. now < deadline \/ now >= deadline
        BY DEF TypeOK
      <4> QED
        BY <2>1, <3>3, <4>1, <4>2 DEF Graceful!Released, ActiveAt
    <3> QED
      BY <3>1, <3>2, <3>3 DEF ServerNames
  <2>3. \A s \in ServerNames : Seen[s] # "open"
    <3>1. \A s \in ServerNames : srv[s] \notin {"starting", "listening"}
      BY <2>1 DEF Kept, Passed, ServerNames
    <3> QED
      BY <3>1, Doors DEF TypeOK
  <2>4. Seen' = [s \in ServerNames |-> IF Seen[s] = "closing" THEN "closed" ELSE Seen[s]]
    <3>1. srv' = [srv EXCEPT !["https"] = IF @ = "draining" THEN "closed" ELSE @]
      BY <1>7, <2>1 DEF MainReturns
    <3>2. \A s \in ServerNames : srv'[s] = IF srv[s] = "draining" THEN "closed" ELSE srv[s]
      BY <2>1, <3>1 DEF InTurn, TypeOK
    <3>3. \A s \in ServerNames :
            Door(srv'[s]) = IF Door(srv[s]) = "closing" THEN "closed" ELSE Door(srv[s])
      BY <3>2, Doors DEF TypeOK
    <3> QED
      BY <3>3
  <2>5. Graceful!Finish
    BY <2>1, <2>2, <2>3, <2>4 DEF Graceful!Finish, Graceful!EndAs, Running
  <2> QED
    BY <2>5 DEF Graceful!Next
<1> QED
  BY <1>1, <1>2, <1>3, <1>4, <1>5, <1>6, <1>7 DEF Main

(* Every step of the process is a step of the graceful service, or none.   *)
LEMMA ServiceStep ==
  ASSUME TypeOK, TypeOK', Order, Kept, InTurn, [Next]_vars
  PROVE  [Graceful!Next]_Graceful!vars
<1> DEFINE Seen == [s \in ServerNames |-> Door(srv[s])]
<1> USE DEF mainVars, flagVars, signalVars, reqVars, kubeVars
<1>1. CASE Main
  BY <1>1, MainServes
<1>2. ASSUME NEW s \in Servers, Serve(s)
      PROVE  [Graceful!Next]_Graceful!vars
  <2>1. /\ Running /\ s \in ServerNames /\ at' = at /\ now' = now /\ deadline' = deadline
        /\ pc' = pc /\ Stopping' = Stopping
    BY <1>2, LifecycleAssumption DEF Serve, Stopping
  <2>2. CASE /\ srv[s] = "starting" /\ srv' = [srv EXCEPT ![s] = "listening"]
             /\ UNCHANGED <<exit, status>>
    <3>1. Seen' = [Seen EXCEPT ![s] = "open"]
      <4>1. Seen' = [Seen EXCEPT ![s] = Door("listening")]
        BY <2>1, <2>2, OneDoor
      <4> QED
        BY <4>1, Doors
    <3>2. Seen[s] = "down"
      BY <2>1, <2>2, Doors
    <3>3. Graceful!Open(s)
      BY <2>1, <2>2, <3>1, <3>2 DEF Graceful!Open, Running
    <3> QED
      BY <2>1, <3>3 DEF Graceful!Next
  <2>3. CASE /\ srv[s] = "halted" /\ srv' = [srv EXCEPT ![s] = "closed"]
             /\ UNCHANGED <<exit, status>>
    <3>1. \A t \in ServerNames : Door(srv'[t]) = Door(srv[t])
      BY <2>1, <2>3, Doors DEF TypeOK
    <3> QED
      BY <2>1, <2>3, <3>1, Unseen
  <2>4. CASE (ExitWith("bind") \/ ExitWith("serve")) /\ srv' = srv
    BY <2>1, <2>4, Aborts DEF Causes, Graceful!Next
  <2> QED
    BY <1>2, <2>2, <2>3, <2>4 DEF Serve
<1>3. CASE SignalGoroutine
  <2>1. CASE CatchFirst
    <3>1. /\ srv' = srv /\ status' = status /\ at' = at /\ exit' = exit /\ now' = now
          /\ deadline' = deadline /\ Stopping' = Stopping
      BY <2>1 DEF CatchFirst, Stopping
    <3> QED
      BY <3>1, Unseen
  <2>2. CASE CatchSecond
    BY <2>2, Aborts DEF CatchSecond, Causes, Graceful!Next
  <2> QED
    BY <1>3, <2>1, <2>2 DEF SignalGoroutine
<1>4. ASSUME NEW r \in Requests, Handle(r)
      PROVE  [Graceful!Next]_Graceful!vars
  <2>1. /\ Running /\ status[r] = "active" /\ srv' = srv /\ at' = at /\ now' = now
        /\ deadline' = deadline /\ pc' = pc /\ Stopping' = Stopping
    BY <1>4 DEF Handle, Stopping
  <2>2. CASE status' = [status EXCEPT ![r] = "done"] /\ exit' = exit
    <3>1. Seen' = Seen
      BY <2>1
    <3>2. Graceful!Answer(r)
      BY <2>1, <2>2, <3>1 DEF Graceful!Answer, Running
    <3> QED
      BY <3>2 DEF Graceful!Next
  <2>3. CASE ExitWith("panic")
    BY <2>1, <2>3, Aborts DEF Causes, Graceful!Next
  <2> QED
    BY <1>4, <2>2, <2>3 DEF Handle
<1>5. ASSUME NEW r \in Requests, NEW s \in Servers, NEW k \in Kinds, Accept(r, s, k)
      PROVE  [Graceful!Next]_Graceful!vars
  <2>1. /\ Running /\ s \in ServerNames /\ status[r] = "new" /\ srv[s] = "listening"
        /\ status' = [status EXCEPT ![r] = "active"] /\ at' = [at EXCEPT ![r] = s]
        /\ srv' = srv /\ now' = now /\ deadline' = deadline /\ exit' = exit
        /\ Stopping' = Stopping
    BY <1>5, LifecycleAssumption DEF Accept, Stopping
  <2>2. Seen' = Seen /\ Seen[s] = "open"
    BY <2>1, Doors
  <2>3. Graceful!Accept(r, s)
    BY <2>1, <2>2 DEF Graceful!Accept, Running
  <2> QED
    BY <2>1, <2>3 DEF Graceful!Next
<1>6. CASE SendSignal
  <2>1. /\ Running /\ srv' = srv /\ at' = at /\ now' = now /\ deadline' = deadline /\ pc' = pc
        /\ Stopping' = Stopping
    BY <1>6 DEF SendSignal, Stopping
  <2>2. CASE ExitWith("signal")
    BY <2>1, <2>2, Aborts DEF Causes, Graceful!Next
  <2>3. CASE UNCHANGED <<exit, status>>
    BY <2>1, <2>3, Unseen
  <2> QED
    BY <1>6, <2>2, <2>3 DEF SendSignal
<1>7. CASE Probe \/ UNCHANGED vars
  <2>1. /\ srv' = srv /\ status' = status /\ at' = at /\ exit' = exit /\ now' = now
        /\ deadline' = deadline /\ Stopping' = Stopping
    BY <1>7 DEF Probe, vars, Stopping
  <2> QED
    BY <2>1, Unseen
<1>8. CASE Kill
  BY <1>8, Aborts DEF Kill, Causes, Graceful!Next
<1>9. CASE Tick
  <2>1. /\ Running /\ srv' = srv /\ status' = status /\ at' = at /\ exit' = exit
        /\ now' \in {now, now + 1} /\ now \in Nat /\ deadline \in Nat
        /\ deadline' = deadline /\ Stopping' = Stopping
    BY <1>9 DEF Tick, Stopping, TypeOK
  <2>2. CASE Stopping /\ now < deadline /\ now' >= deadline
    <3>1. Seen' = Seen
      BY <2>1
    <3>2. Graceful!Expire
      BY <2>1, <2>2, <3>1 DEF Graceful!Expire, Running
    <3> QED
      BY <3>2 DEF Graceful!Next
  <2>3. CASE ~(Stopping /\ now < deadline /\ now' >= deadline)
    <3>1. (Stopping /\ now >= deadline)' = (Stopping /\ now >= deadline)
      <4>1. Stopping => (now' >= deadline <=> now >= deadline)
        BY <2>1, <2>3
      <4> QED
        BY <2>1, <4>1
    <3>2. Seen' = Seen
      BY <2>1
    <3> QED
      BY <2>1, <3>1, <3>2 DEF Graceful!vars
  <2> QED
    BY <2>2, <2>3
<1> QED
  BY <1>1, <1>2, <1>3, <1>4, <1>5, <1>6, <1>7, <1>8, <1>9 DEF Next

(* Whatever its listeners, its requests and its timeout, the process stops *)
(* as a graceful service does: no listener closes without notice, a closed *)
(* one takes nothing, and a clean end cuts no RPC, and an HTTP request     *)
(* only when the context has expired.                                      *)
THEOREM Refinement == Spec => ImplementsGraceful
<1>1. Init => InTurn /\ Graceful!Init
  <2> SUFFICES ASSUME Init
               PROVE  InTurn /\ Graceful!Init
    OBVIOUS
  <2>1. InTurn
    BY DEF Init, InTurn, ServerNames
  <2>2. [s \in ServerNames |-> Door(srv[s])] = [s \in ServerNames |-> "down"]
    BY Doors DEF Init
  <2>3. ~Stopping
    BY DEF Init, Stopping
  <2> QED
    BY <2>1, <2>2, <2>3 DEF Init, Graceful!Init
<1>2. TypeOK /\ TypeOK' /\ Order /\ Kept /\ InTurn /\ [Next]_vars => InTurn'
  BY InTurnStep
<1>3. TypeOK /\ TypeOK' /\ Order /\ Kept /\ InTurn /\ [Next]_vars
        => [Graceful!Next]_Graceful!vars
  BY ServiceStep
<1> QED
  BY <1>1, <1>2, <1>3, ShutdownInvariant, PTL DEF Spec, ImplementsGraceful, Graceful!Spec

=============================================================================
