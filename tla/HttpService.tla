---------------------------- MODULE HttpService ------------------------------
(***************************************************************************)
(* How podinfo answers one HTTP request: the middlewares of server.go      *)
(* around a handler, the helpers of http.go, and the response writer of    *)
(* metrics.go that remembers the status for Prometheus.                    *)
(*                                                                         *)
(* What a handler does to its ResponseWriter is a program, a sequence of   *)
(* operations; a middleware makes a program of a program.  The state       *)
(* machine executes them the way net/http does, which is external: the     *)
(* first header that is not informational is final, a body without a       *)
(* header means 200, a panic closes the connection, what was not flushed   *)
(* goes out when the handler returns, and nothing goes out after the       *)
(* write deadline.                                                         *)
(*                                                                         *)
(* Durations are integers that wrap, as time.Duration does.                *)
(***************************************************************************)
EXTENDS Integers, Sequences

CONSTANTS
  Requests,           \* identities of requests
  Second, MaxInt,     \* time.Second and the largest Duration
  HttpServerTimeout,  \* --http-server-timeout, in seconds
  RandomDelay,        \* --random-delay, --random-delay-unit
  RandomDelayUnit,
  RandomError         \* --random-error

ASSUME ServiceAssumption ==
  /\ Second \in Nat \ {0} /\ MaxInt \in Nat /\ HttpServerTimeout * Second <= MaxInt
  /\ HttpServerTimeout \in Nat \ {0}
  /\ RandomDelay \in BOOLEAN /\ RandomDelayUnit \in {"s", "ms"} /\ RandomError \in BOOLEAN

VARIABLES
  bounds,  \* --random-delay-min and --random-delay-max
  req      \* of each request: what is left of its program, and its response

serviceVars == <<bounds, req>>

-----------------------------------------------------------------------------
(* Arithmetic.                                                             *)

(* The product of two 64-bit integers.                                     *)
Times(x, y) == ((x * y + MaxInt + 1) % (2 * (MaxInt + 1))) - (MaxInt + 1)

(* time.Sleep(time.Duration(n) * time.Second): how long it takes.          *)
Asleep(n) == LET d == Times(n, Second) IN IF d <= 0 THEN 0 ELSE d \div Second

(* rand.Intn panics unless its bound is positive.                          *)
Intn(n) == 0..n-1

-----------------------------------------------------------------------------
(* Operations and the helpers of http.go.                                  *)

Header(code) == [op |-> "header", arg |-> code]
Sleep(n) == [op |-> "sleep", arg |-> n]
Do(op) == [op |-> op, arg |-> 0]

JSONResponseCode(code) == <<Header(code), Do("body")>>
JSONResponse == <<Header(200), Do("body")>>

(* Whatever code it is given, the header says 200.                         *)
ErrorResponse(code) == <<Header(200), Do("body")>>

-----------------------------------------------------------------------------
(* Handlers: the programs each may turn out to be.  A path parameter that  *)
(* strconv.Atoi rejects is one above MaxInt, the routes admit digits only. *)

InfoHandler == {JSONResponse}
VersionHandler == {JSONResponse}
EnvHandler == {JSONResponse}
EchoHeadersHandler == {JSONResponse}

SwaggerJson == {<<Do("body")>>}

(* Without a backend; with backends the module EchoFanout has the rest.    *)
EchoHandler == {ErrorResponse(400), <<Header(202), Do("body")>>}

TokenGenerateHandler == {ErrorResponse(400), JSONResponse}
TokenValidateHandler == {ErrorResponse(401), JSONResponse}

DelayHandler(wait) ==
  IF wait > MaxInt THEN {ErrorResponse(400)} ELSE {<<Sleep(wait)>> \o JSONResponse}

(* The writer that a handler gets has the optional interfaces that the     *)
(* connection's own has.                                                   *)
Interfaces == {"CloseNotifier", "Flusher", "Hijacker", "Pusher", "ReaderFrom"}
WrappedResponseWriter(has) == has \cap Interfaces

ChunkedProgram(wait, w) ==
  IF "Flusher" \notin w THEN ErrorResponse(500)
  ELSE <<Do("flush"), Sleep(wait)>> \o JSONResponse \o <<Do("flush")>>

(* HttpServerTimeout is a Duration already when it is multiplied by a      *)
(* second: the bound of rand.Intn is the product less 10.                  *)
ChunkedBound == Times(HttpServerTimeout * Second, Second) - 10

ChunkedHandler(wait, w) ==
  IF wait \in 0..MaxInt THEN {ChunkedProgram(wait, w)}
  ELSE IF ChunkedBound <= 0 THEN {<<Do("panic")>>}
  ELSE {ChunkedProgram(n + 10, w) : n \in Intn(ChunkedBound)}

StatusHandler(code) ==
  IF code > MaxInt THEN {ErrorResponse(400)} ELSE {JSONResponseCode(code)}

(* The handshake of /ws/echo and the session; without a Hijacker, or when  *)
(* the request asks for no upgrade, the websocket library answers itself.  *)
EchoWsHandler(upgrade, w) ==
  IF ~upgrade THEN {<<Header(400), Do("body")>>}
  ELSE IF "Hijacker" \notin w THEN {<<Header(500), Do("body")>>}
  ELSE {<<Do("hijack"), Do("session")>>}

-----------------------------------------------------------------------------
(* Middlewares.                                                            *)

(* Mutant: the upper bound is excluded twice.                              *)
DelayBelowMax(next) ==
  IF bounds[2] - bounds[1] - 1 <= 0 THEN {<<Do("panic")>>}
  ELSE {<<Sleep(IF RandomDelayUnit = "ms" THEN 0 ELSE n + bounds[1])>> \o next :
          n \in Intn(bounds[2] - bounds[1] - 1)}

RandomDelayMiddleware(next) ==
  IF bounds[2] - bounds[1] <= 0 THEN {<<Do("panic")>>}
  ELSE {<<Sleep(IF RandomDelayUnit = "ms" THEN 0 ELSE n + bounds[1])>> \o next :
          n \in Intn(bounds[2] - bounds[1])}

RandomErrorMiddleware(next) == {next} \cup {<<Header(c)>> : c \in {500, 400, 409}}

(* Logging and the version headers leave the response alone.  The order is *)
(* the one of registerMiddlewares: the counter is the outermost.           *)
PrometheusMiddleware(next) == next \o <<Do("count")>>

Registered(handlers) ==
  LET failing == IF RandomError THEN UNION {RandomErrorMiddleware(p) : p \in handlers}
                 ELSE handlers
      delayed == IF RandomDelay THEN UNION {RandomDelayMiddleware(p) : p \in failing}
                 ELSE failing
  IN {PrometheusMiddleware(p) : p \in delayed}

(* What the interfaces of a connection are to net/http.                    *)
Connection(proto) ==
  IF proto = "h2" THEN {"CloseNotifier", "Flusher", "Pusher"}
  ELSE {"CloseNotifier", "Flusher", "Hijacker", "ReaderFrom"}

(* A target is a route with its parameter.                                 *)
Target(route, arg) == [route |-> route, arg |-> arg]

Routes ==
  {"info", "version", "env", "headers", "swagger.json", "echo", "token", "validate",
   "delay", "chunked", "status", "ws", "unmatched", "metrics/healthz"}

Handlers(t, upgrade, w) ==
  CASE t.route = "info" -> InfoHandler
    [] t.route = "version" -> VersionHandler
    [] t.route = "env" -> EnvHandler
    [] t.route = "headers" -> EchoHeadersHandler
    [] t.route = "swagger.json" -> SwaggerJson
    [] t.route = "echo" -> EchoHandler
    [] t.route = "token" -> TokenGenerateHandler
    [] t.route = "validate" -> TokenValidateHandler
    [] t.route = "delay" -> DelayHandler(t.arg)
    [] t.route = "chunked" -> ChunkedHandler(t.arg, w)
    [] t.route = "status" -> StatusHandler(t.arg)
    [] t.route = "ws" -> EchoWsHandler(upgrade, w)

(* The router runs no middleware for a request that matches no route; the  *)
(* metrics server has none.                                                *)
NotFound == {<<Header(404), Do("body")>>}
MetricsHealthz == {<<Header(200), Do("body")>>}

Programs(t, upgrade, proto) ==
  IF t.route = "unmatched" THEN NotFound
  ELSE IF t.route = "metrics/healthz" THEN MetricsHealthz
  ELSE Registered(Handlers(t, upgrade, WrappedResponseWriter(Connection(proto))))

-----------------------------------------------------------------------------
(* The state of a request: where it is; the operations left; what is left  *)
(* of a sleep; its age; the final status, 0 until there is one; the age at *)
(* which that went out, -1 until it does; whether the connection was taken *)
(* over; the interceptor's statusCode and recorded; and the status it was  *)
(* counted under, 0 until it is.                                           *)

(* Mutant: the status is not preset.                                       *)
InterceptorOfZero == [code |-> 0, recorded |-> FALSE]

Interceptor == [code |-> 200, recorded |-> FALSE]

Accepted(p) ==
  [stage |-> "running", prog |-> p, asleep |-> 0, age |-> 0, header |-> 0, wire |-> -1,
   hijacked |-> FALSE, code |-> Interceptor.code, recorded |-> Interceptor.recorded,
   counted |-> 0]
NoRequest == [Accepted(<<>>) EXCEPT !.stage = "none"]

ServiceInit(allowed) == bounds \in allowed /\ req = [r \in Requests |-> NoRequest]

Late(q) == q.age >= HttpServerTimeout

(* net/http.                                                               *)
Final(q, code) == IF q.header = 0 THEN [q EXCEPT !.header = code] ELSE q
Flushed(q) == IF q.wire < 0 /\ ~Late(q) THEN [Final(q, 200) EXCEPT !.wire = q.age]
              ELSE Final(q, 200)
Panicked(q) == [q EXCEPT !.stage = "panicked", !.prog = <<>>]
Hijacked(q) == [q EXCEPT !.header = 101, !.wire = q.age, !.hijacked = TRUE]

(* The interceptor remembers the first status it is given, final or not.   *)
Recorded(q, code) ==
  IF q.recorded THEN q ELSE [q EXCEPT !.code = code, !.recorded = TRUE]

WriteHeader(q, code) ==
  IF code \notin 100..999 THEN Panicked(Recorded(q, code))
  ELSE IF code \in 100..199 \ {101} THEN Recorded(q, code)
  ELSE Final(Recorded(q, code), code)

(* p.Counter.WithLabelValues(status).Inc(), once next.ServeHTTP returned.  *)
Count(q) == [q EXCEPT !.counted = q.code]

(* One operation; at the end of the program net/http finishes the response.*)
Perform(q) ==
  IF q.prog = <<>> THEN [(IF q.hijacked THEN q ELSE Flushed(q)) EXCEPT !.stage = "returned"]
  ELSE LET o == Head(q.prog)
           p == [q EXCEPT !.prog = Tail(q.prog)]
       IN CASE o.op = "header" -> WriteHeader(p, o.arg)
            [] o.op = "body" -> Final(p, 200)
            [] o.op = "flush" -> Flushed(p)
            [] o.op = "sleep" -> [p EXCEPT !.asleep = Asleep(o.arg)]
            [] o.op = "hijack" -> Hijacked(p)
            [] o.op = "count" -> Count(p)
            [] o.op = "panic" -> Panicked(p)

InSession(r) == req[r].prog # <<>> /\ Head(req[r].prog).op = "session"
Ready(r) == req[r].stage = "running" /\ req[r].asleep = 0 /\ ~InSession(r)

Accept(r, p) == req' = [req EXCEPT ![r] = Accepted(p)] /\ UNCHANGED bounds

ServiceStep(r) == Ready(r) /\ req' = [req EXCEPT ![r] = Perform(@)] /\ UNCHANGED bounds

(* The websocket handler returns, see WsEcho.                              *)
EndSession(r) ==
  /\ req[r].stage = "running" /\ InSession(r)
  /\ req' = [req EXCEPT ![r].prog = Tail(@)]
  /\ UNCHANGED bounds

(* Time: the sleeps that end and the write deadlines that pass.            *)
Dropped(x, d) == IF x > d THEN x - d ELSE 0
Aged(d) ==
  req' = [r \in Requests |->
            IF req[r].stage = "running"
            THEN [req[r] EXCEPT !.asleep = Dropped(@, d), !.age = @ + d] ELSE req[r]]

Running == {r \in Requests : req[r].stage = "running"}
ServiceTimers ==
  {req[r].asleep : r \in {s \in Running : req[s].asleep > 0}} \cup
  {HttpServerTimeout - req[r].age : r \in {s \in Running : ~Late(req[s])}}
=============================================================================
