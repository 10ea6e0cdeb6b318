------------------------------ MODULE Lifecycle ------------------------------
(***************************************************************************)
(* The life of one podinfo process: cmd/podinfo/main.go starts the gRPC,   *)
(* HTTP and HTTPS servers (pkg/grpc, pkg/api/server.go), raises the health *)
(* and readiness flags, installs the signal handler (pkg/signals) and then *)
(* runs Shutdown.Graceful, while clients call the endpoints that touch the *)
(* flags (pkg/api/health.go) and the kubelet probes the pod.               *)
(*                                                                         *)
(* Goroutines: main, the signal goroutine, one Serve goroutine for each    *)
(* listener and one for each request.  Time is counted in whole seconds    *)
(* and passes only when no goroutine of the program can run by itself:     *)
(* the program's own steps take no time against a second.  A handler is    *)
(* the exception, it may take any time at all (GET /delay/{wait}).         *)
(***************************************************************************)
EXTENDS Integers

CONSTANTS
  Servers,          \* the listeners whose port is configured
  Requests,         \* the requests and RPCs clients may send, once each
  Kinds,            \* the endpoints HTTP clients call
  Unhealthy,        \* --unhealthy
  Unready,          \* --unready
  ShutdownTimeout,  \* --server-shutdown-timeout, in seconds
  ProbePeriod,      \* periodSeconds of the readiness probe
  FailureThreshold, \* its failureThreshold
  GracePeriod,      \* terminationGracePeriodSeconds of the pod
  MaxSignals        \* bound: how many SIGTERM/SIGINT the process is sent

ServerNames == {"grpc", "http", "https"}
AllKinds == {"work", "enable", "disable", "panic"}

ASSUME LifecycleAssumption ==
  /\ Servers \subseteq ServerNames
  /\ Kinds \subseteq AllKinds
  /\ {Unhealthy, Unready} \subseteq BOOLEAN
  /\ {ShutdownTimeout, GracePeriod, MaxSignals} \subseteq Nat
  /\ ProbePeriod \in Nat \ {0} /\ FailureThreshold \in Nat \ {0}
  /\ GracePeriod > 3 /\ GracePeriod > ShutdownTimeout

VARIABLES
  debug,      \* --level=debug, which skips the brief wait
  pc,         \* main: the statement it executes next
  turn,       \* main, in Graceful: the server it is stopping
  healthy,    \* the int32 behind /healthz
  ready,      \* the int32 behind /readyz
  srv,        \* the state of each server
  sig,        \* the signal goroutine
  sigs,       \* signals buffered in the channel c of SetupSignalHandler
  sent,       \* how many signals were sent to the process
  stopped,    \* channel stop is closed
  now,        \* seconds since stop was closed
  wake,       \* when main's time.Sleep ends
  deadline,   \* when the context of Graceful expires
  status,     \* of each request
  at,         \* the server a request was accepted by
  asks,       \* the endpoint a request calls
  probeIn,    \* seconds to the next readiness probe
  failures,   \* readiness probes that failed since one succeeded, up to the threshold
  endpoint,   \* the pod is in rotation
  exit        \* what ended the process, "none" while it runs

mainVars   == <<pc, turn, wake, deadline>>
flagVars   == <<healthy, ready>>
signalVars == <<sig, sigs, sent, stopped>>
reqVars    == <<status, at, asks>>
kubeVars   == <<probeIn, failures, endpoint>>
vars == <<debug, mainVars, flagVars, srv, signalVars, now, reqVars, kubeVars, exit>>

-----------------------------------------------------------------------------
(* The 3 seconds Graceful sleeps between lowering the flags and closing    *)
(* the listeners.                                                          *)
WaitInDebugOnly == IF debug THEN 3 ELSE 0 \* mutant: != became ==
BriefWait == IF debug THEN 0 ELSE 3

Running == exit = "none"

ActiveAt(s) == {r \in Requests : status[r] = "active" /\ at[r] = s}

(* The process ends, with the exit code that goes with the cause: 0 for    *)
(* "clean", 1 for "bind", "serve" and "second", 255 for "panic"; a signal  *)
(* or the kubelet's SIGKILL end it otherwise.  What is in flight is cut.   *)
Causes == {"clean", "bind", "serve", "second", "panic", "signal", "kill"}

ExitWith(cause) ==
  /\ exit' = cause
  /\ status' = [r \in Requests |-> IF status[r] = "active" THEN "lost" ELSE status[r]]

Goto(label) == pc' = label

Init ==
  /\ debug \in BOOLEAN
  /\ pc = "startGrpc" /\ turn = "grpc" /\ wake = 0 /\ deadline = 0
  /\ healthy = 0 /\ ready = 0
  /\ srv = [s \in ServerNames |-> "off"]
  /\ sig = "off" /\ sigs = 0 /\ sent = 0 /\ stopped = FALSE
  /\ now = 0
  /\ status = [r \in Requests |-> "new"]
  /\ at = [r \in Requests |-> "none"]
  /\ asks = [r \in Requests |-> "none"]
  /\ probeIn = ProbePeriod /\ failures = 0 /\ endpoint = FALSE
  /\ exit = "none"

-----------------------------------------------------------------------------
(* Start-up, in main.                                                      *)

(* The gRPC listener is bound in main, a failure is fatal; Serve runs in a *)
(* goroutine.                                                              *)
StartGrpc ==
  /\ Running /\ pc = "startGrpc"
  /\ \/ /\ "grpc" \in Servers
        /\ srv' = [srv EXCEPT !["grpc"] = "starting"]
        /\ Goto("startHttp")
        /\ UNCHANGED <<exit, status>>
     \/ /\ "grpc" \in Servers
        /\ ExitWith("bind")
        /\ UNCHANGED <<pc, srv>>
     \/ /\ "grpc" \notin Servers
        /\ Goto("startHttp")
        /\ UNCHANGED <<srv, exit, status>>
  /\ UNCHANGED <<debug, turn, wake, deadline, flagVars, signalVars, now, at, asks, kubeVars>>

(* startServer and startSecureServer only launch a goroutine, or nothing   *)
(* when the port is 0.                                                     *)
Launch(s, label, next) ==
  /\ Running /\ pc = label
  /\ srv' = IF s \in Servers THEN [srv EXCEPT ![s] = "starting"] ELSE srv
  /\ Goto(next)
  /\ UNCHANGED <<debug, turn, wake, deadline, flagVars, signalVars, now, reqVars, kubeVars, exit>>

StartServer == Launch("http", "startHttp", "startHttps")
StartSecureServer == Launch("https", "startHttps", "raiseHealthy")

RaiseHealthy ==
  /\ Running /\ pc = "raiseHealthy"
  /\ healthy' = IF Unhealthy THEN healthy ELSE 1
  /\ Goto("raiseReady")
  /\ UNCHANGED <<debug, turn, wake, deadline, ready, srv, signalVars, now, reqVars, kubeVars, exit>>

RaiseReady ==
  /\ Running /\ pc = "raiseReady"
  /\ ready' = IF Unready THEN ready ELSE 1
  /\ Goto("notify")
  /\ UNCHANGED <<debug, turn, wake, deadline, healthy, srv, signalVars, now, reqVars, kubeVars, exit>>

SetupSignalHandler ==
  /\ Running /\ pc = "notify"
  /\ sig' = "first"
  /\ Goto("await")
  /\ UNCHANGED <<debug, turn, wake, deadline, flagVars, srv, sigs, sent, stopped, now, reqVars,
                 kubeVars, exit>>

-----------------------------------------------------------------------------
(* Shutdown.Graceful, in main.                                             *)

(* Mutant: the context is created after the brief wait.                    *)
LateDeadline ==
  /\ Running /\ pc = "await" /\ stopped
  /\ deadline' = now + BriefWait + ShutdownTimeout
  /\ Goto("lowerHealthy")
  /\ UNCHANGED <<debug, turn, wake, flagVars, srv, signalVars, now, reqVars, kubeVars, exit>>

(* <-stopCh, then the context that bounds the HTTP and HTTPS shutdowns.    *)
AwaitStop ==
  /\ Running /\ pc = "await" /\ stopped
  /\ deadline' = now + ShutdownTimeout
  /\ Goto("lowerHealthy")
  /\ UNCHANGED <<debug, turn, wake, flagVars, srv, signalVars, now, reqVars, kubeVars, exit>>

LowerHealthy ==
  /\ Running /\ pc = "lowerHealthy"
  /\ healthy' = 0
  /\ Goto("lowerReady")
  /\ UNCHANGED <<debug, turn, wake, deadline, ready, srv, signalVars, now, reqVars, kubeVars, exit>>

(* Mutant: only /healthz is made to fail.                                  *)
LeaveReady ==
  /\ Running /\ pc = "lowerReady"
  /\ wake' = now + BriefWait
  /\ Goto("sleep")
  /\ UNCHANGED <<debug, turn, deadline, flagVars, srv, signalVars, now, reqVars, kubeVars, exit>>

(* The cache pool and the tracer provider of Shutdown are never set by     *)
(* main, so the next thing that happens is the brief wait.                 *)
LowerReady ==
  /\ Running /\ pc = "lowerReady"
  /\ ready' = 0
  /\ wake' = now + BriefWait
  /\ Goto("sleep")
  /\ UNCHANGED <<debug, turn, deadline, healthy, srv, signalVars, now, reqVars, kubeVars, exit>>

WakeUp ==
  /\ Running /\ pc = "sleep" /\ now >= wake
  /\ Goto("stop")
  /\ UNCHANGED <<debug, turn, wake, deadline, flagVars, srv, signalVars, now, reqVars, kubeVars, exit>>

(* Mutant: Serve of a server that was stopped returns an error.            *)
StopMakesServeFail ==
  /\ Running /\ pc = "stop"
  /\ srv' = [srv EXCEPT ![turn] = IF @ \in {"listening", "starting"} THEN "halted" ELSE @]
  /\ Goto("drain")
  /\ UNCHANGED <<debug, turn, wake, deadline, flagVars, signalVars, now, reqVars, kubeVars, exit>>

(* GracefulStop or Shutdown is called on the server whose turn it is: its  *)
(* listener is closed at once.  A server that was never started is nil.    *)
StopServer ==
  /\ Running /\ pc = "stop"
  /\ \/ srv[turn] = "listening" /\ srv' = [srv EXCEPT ![turn] = "draining"]
     \/ srv[turn] = "starting" /\ srv' = [srv EXCEPT ![turn] = "halted"]
     \/ srv[turn] \notin {"listening", "starting"} /\ UNCHANGED srv
  /\ Goto("drain")
  /\ UNCHANGED <<debug, turn, wake, deadline, flagVars, signalVars, now, reqVars, kubeVars, exit>>

(* Mutants: Close for Shutdown, Stop for GracefulStop, no deadline.        *)
HttpClosed == turn # "grpc" \/ ActiveAt(turn) = {}
GrpcStopped == turn = "grpc" \/ ActiveAt(turn) = {} \/ now >= deadline
NoDeadline == ActiveAt(turn) = {}

(* GracefulStop returns when no RPC is left, Shutdown also when the        *)
(* context has expired.                                                    *)
Drained == ActiveAt(turn) = {} \/ (turn # "grpc" /\ now >= deadline)

NextTurn == IF turn = "grpc" THEN "http" ELSE "https"

ServerStopped ==
  /\ Running /\ pc = "drain" /\ turn # "https" /\ Drained
  /\ srv' = [srv EXCEPT ![turn] = IF @ = "draining" THEN "closed" ELSE @]
  /\ turn' = NextTurn
  /\ Goto("stop")
  /\ UNCHANGED <<debug, wake, deadline, flagVars, signalVars, now, reqVars, kubeVars, exit>>

(* Graceful returns and with it main.                                      *)
MainReturns ==
  /\ Running /\ pc = "drain" /\ turn = "https" /\ Drained
  /\ srv' = [srv EXCEPT ![turn] = IF @ = "draining" THEN "closed" ELSE @]
  /\ Goto("returned")
  /\ ExitWith("clean")
  /\ UNCHANGED <<debug, turn, wake, deadline, flagVars, signalVars, now, at, asks, kubeVars>>

Main ==
  \/ StartGrpc \/ StartServer \/ StartSecureServer \/ RaiseHealthy \/ RaiseReady
  \/ SetupSignalHandler \/ AwaitStop \/ LowerHealthy \/ LowerReady \/ WakeUp
  \/ StopServer \/ ServerStopped \/ MainReturns

-----------------------------------------------------------------------------
(* The other goroutines.                                                   *)

(* The Serve goroutine of s runs: it serves, or fails to bind (the gRPC    *)
(* listener is bound by then), or finds that the server was stopped before *)
(* it started, which is fatal for gRPC and silent for HTTP.                *)
Serve(s) ==
  /\ Running
  /\ \/ /\ srv[s] = "starting"
        /\ srv' = [srv EXCEPT ![s] = "listening"]
        /\ UNCHANGED <<exit, status>>
     \/ /\ srv[s] = "starting" /\ s # "grpc"
        /\ ExitWith("bind")
        /\ UNCHANGED srv
     \/ /\ srv[s] = "halted" /\ s # "grpc"
        /\ srv' = [srv EXCEPT ![s] = "closed"]
        /\ UNCHANGED <<exit, status>>
     \/ /\ srv[s] = "halted" /\ s = "grpc"
        /\ ExitWith("serve")
        /\ UNCHANGED srv
  /\ UNCHANGED <<debug, mainVars, flagVars, signalVars, now, at, asks, kubeVars>>

(* The signal goroutine: the first signal closes stop, the second exits.   *)
CatchFirst ==
  /\ Running /\ sig = "first" /\ sigs > 0
  /\ sigs' = sigs - 1
  /\ stopped' = TRUE
  /\ sig' = "second"
  /\ UNCHANGED <<debug, mainVars, flagVars, srv, sent, now, reqVars, kubeVars, exit>>

CatchSecond ==
  /\ Running /\ sig = "second" /\ sigs > 0
  /\ sigs' = sigs - 1
  /\ sig' = "done"
  /\ ExitWith("second")
  /\ UNCHANGED <<debug, mainVars, flagVars, srv, sent, stopped, now, at, asks, kubeVars>>

SignalGoroutine == CatchFirst \/ CatchSecond

(* A request runs its handler, at any time after it was accepted.          *)
Handle(r) ==
  /\ Running /\ status[r] = "active"
  /\ \/ /\ asks[r] = "work"
        /\ UNCHANGED ready
        /\ status' = [status EXCEPT ![r] = "done"]
        /\ UNCHANGED exit
     \/ /\ asks[r] = "enable"
        /\ ready' = 1
        /\ status' = [status EXCEPT ![r] = "done"]
        /\ UNCHANGED exit
     \/ /\ asks[r] = "disable"
        /\ ready' = 0
        /\ status' = [status EXCEPT ![r] = "done"]
        /\ UNCHANGED exit
     \/ /\ asks[r] = "panic"
        /\ ExitWith("panic")
        /\ UNCHANGED ready
  /\ UNCHANGED <<debug, mainVars, healthy, srv, signalVars, now, at, asks, kubeVars>>

-----------------------------------------------------------------------------
(* The environment: clients, the operating system and the kubelet.         *)

Accept(r, s, k) ==
  /\ Running /\ status[r] = "new" /\ srv[s] = "listening"
  /\ s = "grpc" => k = "work"
  /\ status' = [status EXCEPT ![r] = "active"]
  /\ at' = [at EXCEPT ![r] = s]
  /\ asks' = [asks EXCEPT ![r] = k]
  /\ UNCHANGED <<debug, mainVars, flagVars, srv, signalVars, now, kubeVars, exit>>

(* Mutants: a channel without bound, and one that holds one signal.        *)
SendUnbounded ==
  /\ Running /\ sent < MaxSignals
  /\ sent' = sent + 1
  /\ \/ sig = "off" /\ ExitWith("signal") /\ UNCHANGED sigs
     \/ sig # "off" /\ sigs' = sigs + 1 /\ UNCHANGED <<exit, status>>
  /\ UNCHANGED <<debug, mainVars, flagVars, srv, sig, stopped, now, at, asks, kubeVars>>

SendToChannelOfOne ==
  /\ Running /\ sent < MaxSignals
  /\ sent' = sent + 1
  /\ \/ sig = "off" /\ ExitWith("signal") /\ UNCHANGED sigs
     \/ sig # "off" /\ sigs' = 1 /\ UNCHANGED <<exit, status>>
  /\ UNCHANGED <<debug, mainVars, flagVars, srv, sig, stopped, now, at, asks, kubeVars>>

(* Before signal.Notify a signal kills the process; after it the signal is *)
(* put in channel c, which holds two, and dropped when c is full.          *)
SendSignal ==
  /\ Running /\ sent < MaxSignals
  /\ sent' = sent + 1
  /\ \/ /\ sig = "off"
        /\ ExitWith("signal")
        /\ UNCHANGED sigs
     \/ /\ sig # "off"
        /\ sigs' = IF sigs < 2 THEN sigs + 1 ELSE sigs
        /\ UNCHANGED <<exit, status>>
  /\ UNCHANGED <<debug, mainVars, flagVars, srv, sig, stopped, now, at, asks, kubeVars>>

(* The readiness probe calls /readyz over HTTP.  One success puts the pod  *)
(* in rotation, FailureThreshold failures in a row take it out.            *)
Probe ==
  /\ Running /\ probeIn = 0
  /\ LET ok == srv["http"] = "listening" /\ ready = 1
     IN /\ failures' = IF ok THEN 0
                       ELSE IF failures < FailureThreshold THEN failures + 1 ELSE failures
        /\ endpoint' = (ok \/ (endpoint /\ failures' < FailureThreshold))
  /\ probeIn' = ProbePeriod
  /\ UNCHANGED <<debug, mainVars, flagVars, srv, signalVars, now, reqVars, exit>>

(* The kubelet's patience is over.                                         *)
Kill ==
  /\ Running /\ now >= GracePeriod
  /\ ExitWith("kill")
  /\ UNCHANGED <<debug, mainVars, flagVars, srv, signalVars, now, at, asks, kubeVars>>

(* Time passes: main waits, no other goroutine or probe is due.            *)
MainWaits ==
  \/ pc = "await" /\ ~stopped
  \/ pc = "sleep" /\ now < wake
  \/ pc = "drain" /\ ~Drained

Quiet ==
  /\ MainWaits
  /\ sigs = 0
  /\ \A s \in ServerNames : srv[s] \notin {"starting", "halted"}
  /\ probeIn > 0

Tick ==
  /\ Running /\ Quiet /\ now < GracePeriod
  /\ now' = IF stopped THEN now + 1 ELSE now
  /\ probeIn' = probeIn - 1
  /\ UNCHANGED <<debug, mainVars, flagVars, srv, signalVars, reqVars, failures, endpoint, exit>>

Next ==
  \/ Main
  \/ \E s \in Servers : Serve(s)
  \/ SignalGoroutine
  \/ \E r \in Requests : Handle(r)
  \/ \E r \in Requests, s \in Servers, k \in Kinds : Accept(r, s, k)
  \/ SendSignal
  \/ Probe
  \/ Kill
  \/ Tick

(* The scheduler runs every goroutine that can run and time passes; no     *)
(* client, signal or handler is bound to ever come or end.                 *)
Fairness ==
  /\ WF_vars(Main)
  /\ \A s \in Servers : WF_vars(Serve(s))
  /\ WF_vars(SignalGoroutine)
  /\ WF_vars(Probe) /\ WF_vars(Kill) /\ WF_vars(Tick)

Spec == Init /\ [][Next]_vars /\ Fairness

-----------------------------------------------------------------------------
(* Properties.                                                             *)

MainLabels == {"startGrpc", "startHttp", "startHttps", "raiseHealthy", "raiseReady",
               "notify", "await", "lowerHealthy", "lowerReady", "sleep", "stop",
               "drain", "returned"}
Stopping == pc \in {"sleep", "stop", "drain", "returned"}

(* Every variable has its type; the signal channel holds at most two.      *)
TypeOK ==
  /\ debug \in BOOLEAN
  /\ pc \in MainLabels /\ turn \in ServerNames
  /\ wake \in Nat /\ deadline \in Nat
  /\ healthy \in {0, 1} /\ ready \in {0, 1}
  /\ srv \in [ServerNames -> {"off", "starting", "listening", "halted", "draining", "closed"}]
  /\ sig \in {"off", "first", "second", "done"}
  /\ sigs \in 0..2 /\ sent \in 0..MaxSignals /\ stopped \in BOOLEAN
  /\ now \in 0..GracePeriod
  /\ status \in [Requests -> {"new", "active", "done", "lost"}]
  /\ at \in [Requests -> Servers \cup {"none"}]
  /\ asks \in [Requests -> Kinds \cup {"none"}]
  /\ probeIn \in 0..ProbePeriod /\ failures \in 0..FailureThreshold /\ endpoint \in BOOLEAN
  /\ exit \in Causes \cup {"none"}

(* The shutdown, which stops one server after the other, keeps the promise *)
(* of a graceful one to those who call: notice before any listener closes, *)
(* no request accepted after, and a clean end with none cut that was       *)
(* accepted, but for HTTP requests when the context has expired.           *)
Door(state) ==
  CASE state \in {"off", "starting"} -> "down"
    [] state = "listening" -> "open"
    [] state = "draining" -> "closing"
    [] OTHER -> "closed"

Graceful == INSTANCE GracefulService WITH
  Listeners <- ServerNames,
  Unbounded <- {"grpc"},
  notice <- Stopping,
  overdue <- Stopping /\ now >= deadline,
  door <- [s \in ServerNames |-> Door(srv[s])],
  end <- IF exit \in {"none", "clean"} THEN exit ELSE "abrupt"

ImplementsGraceful == Graceful!Spec

(* A process that ends by returning from Graceful cut nobody off unless    *)
(* the context's deadline had passed: every request and RPC accepted       *)
(* before its listener closed was answered (shutdown.go waits in           *)
(* GracefulStop and Shutdown, one server after the other).                 *)
CleanExitKeepsRequests ==
  exit = "clean" /\ now < deadline => \A r \in Requests : status[r] # "lost"

(* Graceful is over when --server-shutdown-timeout has passed since the    *)
(* signal, or the brief wait if that is longer, whatever handlers do.      *)
ShutdownWithinTimeout ==
  now <= (IF ShutdownTimeout > 3 THEN ShutdownTimeout ELSE 3)

(* Whoever watches the pod had its warning: unless --level=debug skips the *)
(* wait, a listener that was closed stayed open for three seconds after    *)
(* the signal, with /healthz failing.                                      *)
ListenersOutliveTheWarning ==
  ~debug => \A s \in ServerNames : srv[s] \in {"draining", "closed"} => now >= 3 /\ healthy = 0

(* Lowering the flags takes the pod out of rotation within as many probes  *)
(* as the threshold asks for, whatever server main waits for by then and   *)
(* whatever handlers do, unless a POST /readyz/enable raises one again.    *)
LeavesRotation ==
  (\A r \in Requests : asks[r] # "enable") /\ endpoint => now <= FailureThreshold * ProbePeriod

(* shutdown.go:53, "the readiness check interval must be lower than the    *)
(* timeout": where it is, the brief wait should bridge the time in which   *)
(* requests are still routed to the pod, so that they are accepted.        *)
InRotationIsServed == ~debug /\ Running /\ endpoint => srv["http"] = "listening"

(* The kubelet has to kill only a process that accepted an RPC (and waited *)
(* for it in GracefulStop): HTTP requests never make Graceful outlast the  *)
(* grace period.                                                           *)
KilledOnlyByOpenRpc == exit = "kill" => \E r \in Requests : at[r] = "grpc"

(* Every Serve goroutine runs within the brief wait, so unless that is     *)
(* skipped no shutdown makes gRPC's Serve find its server stopped, which   *)
(* would end in exit code 1.                                               *)
NoCrashOnShutdown == ~debug => exit # "serve"

(* Where the brief wait is skipped that crash can happen, but only to a    *)
(* process that never served an RPC.                                       *)
CrashLosesNoRpc == exit = "serve" => \A r \in Requests : at[r] # "grpc"

(* Once stop is closed the process ends by itself, whatever handlers do.   *)
StopTerminates == stopped ~> exit \notin {"none", "kill"}

(* Two signals end the process without waiting for the kubelet, even when  *)
(* both arrive before the signal goroutine runs and GracefulStop hangs.    *)
SecondSignalTerminates == (sent = 2 /\ now < GracePeriod) ~> exit \notin {"none", "kill"}

(* shutdown.go:40, "all calls to /healthz and /readyz will fail from now   *)
(* on": what POST /readyz/enable does after the flags were lowered.        *)
ProbesFailOnceStopping == Stopping => healthy = 0 /\ ready = 0
=============================================================================
