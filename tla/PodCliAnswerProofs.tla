-------------------------- MODULE PodCliAnswerProofs --------------------------
(***************************************************************************)
(* What is proved of the answers of the service that podcli calls, for any *)
(* route, flags and retries: Prometheus counts a request under the status  *)
(* its client was sent but for the cases it names, and a request without   *)
(* an answer has a reason.                                                 *)
(***************************************************************************)
EXTENDS PodCliProofs

(* The numbers over which a handler of target t panics.                    *)
Excuse(t) ==
  \/ RandomDelay /\ bounds[1] = bounds[2]
  \/ t.route = "chunked" /\ t.arg > MaxInt /\ ChunkedBound <= 0
  \/ t.route = "status" /\ t.arg \notin Statuses

Panics(o) == o.op = "panic" \/ (o.op = "header" /\ o.arg \notin Statuses)

(* An informational status is one that /status was asked for.              *)
Interim == 100..199 \ {101}
Informal(t, c) == t.route = "status" /\ c = t.arg
Informs(o) == o.op = "header" /\ o.arg \in Interim

Allowed(t, o) == (Panics(o) => Excuse(t)) /\ (Informs(o) => Informal(t, o.arg))

(* A header that comes after o adds nothing to what o has sent, and the    *)
(* connection is not taken over once a response has begun.                 *)
Precedes(o, later) ==
  /\ later.op = "header" => o.op # "hijack" /\ (o.op \in {"flush", "body"} => later.arg = 200)
  /\ later.op = "hijack" => o.op \notin {"header", "flush", "body", "hijack"}

(* What the counter relies on: it is called last, and a status other than  *)
(* 200 is set before anything goes out.                                    *)
Orderly(t, p) ==
  /\ \A i \in 1..Len(p) : /\ Allowed(t, p[i])
                          /\ p[i].op = "count" => i = Len(p)
  /\ \A i, j \in 1..Len(p) : i < j => Precedes(p[i], p[j])

Counts(p) == p # <<>> /\ p[Len(p)].op = "count"

Middlewares(t) == t.route \notin {"unmatched", "metrics/healthz"}

-----------------------------------------------------------------------------
(* One request.                                                            *)

(* The count comes last and takes the interceptor's code.                  *)
Counting(q) ==
  /\ q.stage = "running" => Orderly(target, q.prog)
  /\ q.counted # 0 => q.stage # "panicked" /\ q.prog = <<>> /\ q.counted = q.code
  /\ q.stage \in {"running", "returned"} /\ Middlewares(target) => Counts(q.prog) \/ q.counted # 0
  /\ q.stage = "returned" => q.prog = <<>>

(* The interceptor's code is that of the response, unless it was given the *)
(* informational one of /status; without a code the response is a 200.     *)
Stray(c) == c \in Interim /\ Informal(target, c)

Agreeing(q) ==
  q.stage # "panicked" =>
    /\ q.hijacked => ~q.recorded /\ q.header # 0
    /\ q.recorded => Stray(q.code) \/ q.header = q.code
    /\ ~q.recorded => q.code = 200 /\ (q.hijacked \/ q.header \in {0, 200})
    /\ ~q.recorded /\ q.header # 0 =>
         \A i \in 1..Len(q.prog) : q.prog[i].op = "header" => ~q.hijacked /\ q.prog[i].arg = 200
    /\ q.recorded \/ q.header # 0 => \A i \in 1..Len(q.prog) : q.prog[i].op # "hijack"

(* A request ends with an answer or with a reason why there is none.       *)
Ending(q) ==
  /\ q.hijacked => q.wire >= 0 /\ command = "ws"
  /\ q.stage = "returned" => q.header # 0 /\ (q.wire >= 0 \/ Late(q))
  /\ q.stage = "panicked" => Excuse(target)

Honest(q) == Counting(q) /\ Agreeing(q) /\ Ending(q)

Chosen == bounds \in Validated /\ (command = "ws" => target.route = "ws")

Answers == Chosen /\ \A r \in Requests : Honest(req[r])

-----------------------------------------------------------------------------
(* The programs of the handlers and middlewares are orderly.               *)

Handled(t) ==
  {p \in Seq(Operations(AllOps)) : Orderly(t, p) /\ \A i \in 1..Len(p) : p[i].op # "count"}

(* A program of one operation.                                             *)
LEMMA OneOperation ==
  ASSUME NEW t, NEW o \in Operations(AllOps), o.op # "count", Allowed(t, o)
  PROVE  <<o>> \in Handled(t)
<1>1. <<o>> \in Seq(Operations(AllOps)) /\ Len(<<o>>) = 1 /\ <<o>>[1] = o
  OBVIOUS
<1> QED
  BY <1>1 DEF Handled, Orderly

(* A program of two operations.                                            *)
LEMMA TwoOperations ==
  ASSUME NEW t, NEW o \in Operations(AllOps), NEW u \in Operations(AllOps),
         o.op # "count", u.op # "count", Allowed(t, o), Allowed(t, u), Precedes(o, u)
  PROVE  <<o, u>> \in Handled(t)
<1> DEFINE s == <<o, u>>
<1>1. s \in Seq(Operations(AllOps)) /\ Len(s) = 2 /\ s[1] = o /\ s[2] = u
  OBVIOUS
<1> HIDE DEF s
<1>2. \A i \in 1..Len(s) : s[i].op # "count" /\ Allowed(t, s[i])
  BY <1>1
<1>3. ASSUME NEW i \in 1..Len(s), NEW j \in 1..Len(s), i < j
      PROVE  Precedes(s[i], s[j])
  <2>1. i = 1 /\ j = 2
    BY <1>1, <1>3
  <2> QED
    BY <1>1, <2>1
<1>4. s \in Handled(t)
  BY <1>1, <1>2, <1>3 DEF Handled, Orderly
<1> QED
  BY <1>4 DEF s

(* A program of two programs that agree on the header.                     *)
LEMMA InOrder ==
  ASSUME NEW t, NEW p \in Handled(t), NEW r \in Handled(t),
         \A i \in 1..Len(p), j \in 1..Len(r) : Precedes(p[i], r[j])
  PROVE  p \o r \in Handled(t)
<1> DEFINE s == p \o r
<1>1. p \in Seq(Operations(AllOps)) /\ r \in Seq(Operations(AllOps))
  BY DEF Handled
<1>2. /\ s \in Seq(Operations(AllOps)) /\ Len(s) = Len(p) + Len(r)
      /\ Len(p) \in Nat /\ Len(r) \in Nat
      /\ \A i \in 1..Len(s) : s[i] = IF i <= Len(p) THEN p[i] ELSE r[i - Len(p)]
  BY <1>1, ConcatProperties
<1> HIDE DEF s
<1>3. ASSUME NEW i \in 1..Len(s)
      PROVE  s[i].op # "count" /\ Allowed(t, s[i])
  <2>1. CASE i <= Len(p)
    BY <1>2, <2>1 DEF Handled, Orderly
  <2>2. CASE ~(i <= Len(p))
    <3>1. i - Len(p) \in 1..Len(r)
      BY <1>2, <2>2
    <3> QED
      BY <1>2, <2>2, <3>1 DEF Handled, Orderly
  <2> QED
    BY <2>1, <2>2
<1>4. ASSUME NEW i \in 1..Len(s), NEW j \in 1..Len(s), i < j
      PROVE  Precedes(s[i], s[j])
  <2>1. CASE j <= Len(p)
    <3>1. i \in 1..Len(p) /\ j \in 1..Len(p) /\ s[i] = p[i] /\ s[j] = p[j]
      BY <1>2, <1>4, <2>1
    <3> QED
      BY <1>4, <3>1 DEF Handled, Orderly
  <2>2. CASE i <= Len(p) /\ ~(j <= Len(p))
    <3>1. i \in 1..Len(p) /\ j - Len(p) \in 1..Len(r) /\ s[i] = p[i] /\ s[j] = r[j - Len(p)]
      BY <1>2, <1>4, <2>2
    <3> QED
      BY <3>1
  <2>3. CASE ~(i <= Len(p))
    <3>1. /\ i - Len(p) \in 1..Len(r) /\ j - Len(p) \in 1..Len(r) /\ i - Len(p) < j - Len(p)
          /\ s[i] = r[i - Len(p)] /\ s[j] = r[j - Len(p)]
      BY <1>2, <1>4, <2>3
    <3> QED
      BY <3>1 DEF Handled, Orderly
  <2> QED
    BY <2>1, <2>2, <2>3
<1>5. s \in Handled(t)
  BY <1>2, <1>3, <1>4 DEF Handled, Orderly
<1> QED
  BY <1>5 DEF s

(* The operations.                                                         *)
LEMMA OperationFacts ==
  /\ \A c \in Int : /\ Header(c) \in Operations(AllOps) /\ Sleep(c) \in Operations(AllOps)
                    /\ Header(c).op = "header" /\ Header(c).arg = c
                    /\ Sleep(c).op = "sleep"
  /\ \A op \in AllOps : Do(op) \in Operations(AllOps) /\ Do(op).op = op
BY DEF Header, Sleep, Do, Operations, AllOps, PlainOps

(* The helpers of http.go, given a status.                                 *)
LEMMA HelpersInOrder ==
  ASSUME NEW t, NEW c \in Int, c \in Statuses \/ Excuse(t), c \in Interim => Informal(t, c)
  PROVE  /\ <<Header(c)>> \in Handled(t)
         /\ <<Header(c), Do("body")>> \in Handled(t)
         /\ JSONResponse \in Handled(t)
         /\ ErrorResponse(c) \in Handled(t)
<1>1. ASSUME NEW d \in Int, d \in Statuses \/ Excuse(t), d \in Interim => Informal(t, d)
      PROVE  <<Header(d)>> \in Handled(t)
  BY <1>1, OperationFacts, OneOperation DEF Allowed, Panics, Informs
<1>2. ASSUME NEW d \in Int, d \in Statuses \/ Excuse(t), d \in Interim => Informal(t, d)
      PROVE  <<Header(d), Do("body")>> \in Handled(t)
  <2>1. /\ Header(d) \in Operations(AllOps) /\ Do("body") \in Operations(AllOps)
        /\ Header(d).op = "header" /\ Header(d).arg = d /\ Do("body").op = "body"
    BY OperationFacts DEF AllOps, PlainOps
  <2> QED
    BY <1>2, <2>1, TwoOperations DEF Allowed, Panics, Informs, Precedes
<1>3. 200 \in Int /\ 200 \in Statuses /\ 200 \notin Interim
  BY StatusFacts DEF Interim
<1> QED
  BY <1>1, <1>2, <1>3 DEF JSONResponse, ErrorResponse

(* The handlers that read a number from the path.                          *)
LEMMA NumbersInOrder ==
  ASSUME NEW t \in [route : Routes, arg : Nat], NEW w
  PROVE  /\ DelayHandler(t.arg) \subseteq Handled(t)
         /\ t.route = "chunked" => ChunkedHandler(t.arg, w) \subseteq Handled(t)
         /\ t.route = "status" => StatusHandler(t.arg) \subseteq Handled(t)
<1>1. t.arg \in Int /\ 400 \in Statuses /\ 500 \in Statuses /\ 200 \in Statuses /\ Statuses \subseteq Int
  BY DEF Statuses
<1>2. /\ JSONResponse \in Handled(t) /\ ErrorResponse(400) \in Handled(t)
      /\ ErrorResponse(500) \in Handled(t)
  <2>1. ASSUME NEW c \in {400, 500}
        PROVE  JSONResponse \in Handled(t) /\ ErrorResponse(c) \in Handled(t)
    <3>1. c \in Int /\ c \in Statuses /\ c \notin Interim
      BY DEF Statuses, Interim
    <3> QED
      BY <3>1, HelpersInOrder
  <2> QED
    BY <2>1
<1>3. \A c \in Int : <<Sleep(c)>> \in Handled(t)
  BY OperationFacts, OneOperation DEF Allowed, Panics, Informs
<1>4. <<Do("flush")>> \in Handled(t)
  BY OperationFacts, OneOperation DEF AllOps, PlainOps, Allowed, Panics, Informs
<1>5. /\ Len(JSONResponse) = 2
      /\ \A j \in 1..2 : /\ JSONResponse[j].op = "header" => JSONResponse[j].arg = 200
                         /\ JSONResponse[j].op # "hijack"
  BY OperationFacts DEF JSONResponse, AllOps, PlainOps
<1>6. \A c \in Int : <<Sleep(c)>> \o JSONResponse \in Handled(t)
  <2> SUFFICES ASSUME NEW c \in Int
               PROVE  <<Sleep(c)>> \o JSONResponse \in Handled(t)
    OBVIOUS
  <2>1. \A i \in 1..Len(<<Sleep(c)>>), j \in 1..Len(JSONResponse) :
          Precedes(<<Sleep(c)>>[i], JSONResponse[j])
    BY OperationFacts DEF Precedes
  <2> QED
    BY <1>2, <1>3, <2>1, InOrder
<1>7. DelayHandler(t.arg) \subseteq Handled(t)
  BY <1>1, <1>2, <1>6 DEF DelayHandler
<1>8. \A c \in Int : ChunkedProgram(c, w) \in Handled(t)
  <2> SUFFICES ASSUME NEW c \in Int
               PROVE  ChunkedProgram(c, w) \in Handled(t)
    OBVIOUS
  <2>1. <<Do("flush"), Sleep(c)>> \in Handled(t)
    <3>1. /\ Do("flush") \in Operations(AllOps) /\ Sleep(c) \in Operations(AllOps)
          /\ Do("flush").op = "flush" /\ Sleep(c).op = "sleep"
      BY OperationFacts DEF AllOps, PlainOps
    <3> QED
      BY <3>1, TwoOperations DEF Allowed, Panics, Informs, Precedes
  <2>2. <<Do("flush"), Sleep(c)>> \o JSONResponse \in Handled(t)
    <3>1. \A i \in 1..Len(<<Do("flush"), Sleep(c)>>) : <<Do("flush"), Sleep(c)>>[i].op # "hijack"
      BY OperationFacts DEF AllOps, PlainOps
    <3>2. \A i \in 1..Len(<<Do("flush"), Sleep(c)>>), j \in 1..Len(JSONResponse) :
            Precedes(<<Do("flush"), Sleep(c)>>[i], JSONResponse[j])
      BY <1>5, <3>1 DEF Precedes
    <3> QED
      BY <1>2, <2>1, <3>2, InOrder
  <2> DEFINE p == <<Do("flush"), Sleep(c)>> \o JSONResponse
  <2> HIDE DEF p
  <2>3. p \o <<Do("flush")>> \in Handled(t)
    <3>1. \A i \in 1..Len(p), j \in 1..Len(<<Do("flush")>>) : Precedes(p[i], <<Do("flush")>>[j])
      BY OperationFacts DEF Precedes, AllOps, PlainOps
    <3> QED
      BY <1>4, <2>2, <3>1, InOrder DEF p
  <2> QED
    BY <1>2, <2>3 DEF ChunkedProgram, p
<1>9. ASSUME t.route = "chunked"
      PROVE  ChunkedHandler(t.arg, w) \subseteq Handled(t)
  <2>1. CASE t.arg \in 0..MaxInt
    BY <1>1, <1>8, <2>1 DEF ChunkedHandler
  <2>2. CASE t.arg \notin 0..MaxInt /\ ChunkedBound <= 0
    <3>1. Excuse(t)
      BY <1>9, <2>2, ServiceAssumption DEF Excuse
    <3>2. <<Do("panic")>> \in Handled(t)
      BY <3>1, OperationFacts, OneOperation DEF AllOps, PlainOps, Allowed, Informs
    <3> QED
      BY <2>2, <3>2 DEF ChunkedHandler
  <2>3. CASE t.arg \notin 0..MaxInt /\ ~(ChunkedBound <= 0)
    <3>1. ChunkedBound \in Int
      BY TimesType, ServiceAssumption DEF ChunkedBound
    <3>2. \A k \in Intn(ChunkedBound) : ChunkedProgram(k + 10, w) \in Handled(t)
      BY <1>8, <3>1 DEF Intn
    <3> QED
      BY <2>3, <3>2 DEF ChunkedHandler
  <2> QED
    BY <2>1, <2>2, <2>3
<1>10. ASSUME t.route = "status"
       PROVE  StatusHandler(t.arg) \subseteq Handled(t)
  <2>1. (t.arg \in Statuses \/ Excuse(t)) /\ Informal(t, t.arg)
    BY <1>10 DEF Excuse, Informal
  <2>2. JSONResponseCode(t.arg) \in Handled(t)
    BY <1>1, <2>1, HelpersInOrder DEF JSONResponseCode
  <2> QED
    BY <1>2, <2>2 DEF StatusHandler
<1> QED
  BY <1>7, <1>9, <1>10

(* The handler of every route.                                             *)
LEMMA HandlersInOrder ==
  ASSUME NEW t \in [route : Routes, arg : Nat], Middlewares(t), NEW u \in BOOLEAN, NEW w
  PROVE  Handlers(t, u, w) \subseteq Handled(t)
<1>1. ASSUME NEW c \in {200, 202, 400, 401, 500}
      PROVE  /\ JSONResponse \in Handled(t) /\ ErrorResponse(c) \in Handled(t)
             /\ <<Header(c), Do("body")>> \in Handled(t)
  <2>1. c \in Statuses /\ c \in Int /\ c \notin Interim
    BY DEF Statuses, Interim
  <2> QED
    BY <2>1, HelpersInOrder
<1>2. /\ JSONResponse \in Handled(t)
      /\ ErrorResponse(400) \in Handled(t) /\ ErrorResponse(401) \in Handled(t)
      /\ <<Header(202), Do("body")>> \in Handled(t) /\ <<Header(400), Do("body")>> \in Handled(t)
      /\ <<Header(500), Do("body")>> \in Handled(t)
  BY <1>1
<1>3. <<Do("body")>> \in Handled(t)
  BY OperationFacts, OneOperation DEF AllOps, PlainOps, Allowed, Panics, Informs
<1>4. <<Do("hijack"), Do("session")>> \in Handled(t)
  <2>1. /\ Do("hijack") \in Operations(AllOps) /\ Do("session") \in Operations(AllOps)
        /\ Do("hijack").op = "hijack" /\ Do("session").op = "session"
    BY OperationFacts DEF AllOps
  <2> QED
    BY <2>1, TwoOperations DEF Allowed, Panics, Informs, Precedes
<1>5. /\ DelayHandler(t.arg) \subseteq Handled(t)
      /\ t.route = "chunked" => ChunkedHandler(t.arg, w) \subseteq Handled(t)
      /\ t.route = "status" => StatusHandler(t.arg) \subseteq Handled(t)
  BY NumbersInOrder
<1>6. t.route \in {"info", "version", "env", "headers", "swagger.json", "echo", "token",
                   "validate", "delay", "chunked", "status", "ws"}
  BY DEF Routes, Middlewares
<1>7. /\ InfoHandler \subseteq Handled(t) /\ VersionHandler \subseteq Handled(t)
      /\ EnvHandler \subseteq Handled(t) /\ EchoHeadersHandler \subseteq Handled(t)
      /\ SwaggerJson \subseteq Handled(t) /\ EchoHandler \subseteq Handled(t)
      /\ TokenGenerateHandler \subseteq Handled(t) /\ TokenValidateHandler \subseteq Handled(t)
  BY <1>2, <1>3
  DEF InfoHandler, VersionHandler, EnvHandler, EchoHeadersHandler, SwaggerJson,
      EchoHandler, TokenGenerateHandler, TokenValidateHandler
<1>8. EchoWsHandler(u, w) \subseteq Handled(t)
  BY <1>2, <1>4 DEF EchoWsHandler
<1>9. CASE t.route = "chunked"
  BY <1>5, <1>9 DEF Handlers
<1>10. CASE t.route = "status"
  BY <1>5, <1>10 DEF Handlers
<1>11. CASE t.route \in {"delay", "ws"}
  BY <1>5, <1>8, <1>11 DEF Handlers
<1>12. CASE t.route \notin {"chunked", "status", "delay", "ws"}
  BY <1>6, <1>7, <1>12 DEF Handlers
<1> QED
  BY <1>9, <1>10, <1>11, <1>12

(* The counter is the last operation of a program.                         *)
LEMMA CountedInOrder ==
  ASSUME NEW t, NEW p \in Handled(t)
  PROVE  /\ PrometheusMiddleware(p) \in Seq(Operations(AllOps))
         /\ Orderly(t, PrometheusMiddleware(p)) /\ Counts(PrometheusMiddleware(p))
<1> DEFINE c == <<Do("count")>>
           s == p \o c
<1>1. /\ p \in Seq(Operations(AllOps)) /\ c \in Seq(Operations(AllOps))
      /\ Len(c) = 1 /\ c[1].op = "count"
  <2>1. Do("count") \in Operations(AllOps) /\ Do("count").op = "count"
    BY OperationFacts DEF AllOps, PlainOps
  <2>2. p \in Seq(Operations(AllOps))
    BY DEF Handled
  <2> QED
    BY <2>1, <2>2
<1> HIDE DEF c
<1>2. /\ s \in Seq(Operations(AllOps)) /\ Len(s) = Len(p) + 1 /\ Len(p) \in Nat
      /\ \A i \in 1..Len(s) : s[i] = IF i <= Len(p) THEN p[i] ELSE c[i - Len(p)]
  <2>1. /\ s \in Seq(Operations(AllOps)) /\ Len(s) = Len(p) + Len(c) /\ Len(p) \in Nat
        /\ \A i \in 1..Len(p) + Len(c) : s[i] = IF i <= Len(p) THEN p[i] ELSE c[i - Len(p)]
    <3> HIDE DEF s
    <3>1. s = p \o c
      BY DEF s
    <3>2. /\ p \o c \in Seq(Operations(AllOps)) /\ Len(p \o c) = Len(p) + Len(c)
          /\ \A i \in 1..Len(p) + Len(c) : (p \o c)[i] = IF i <= Len(p) THEN p[i] ELSE c[i - Len(p)]
      BY <1>1, ConcatProperties, Zenon
    <3> QED
      BY <1>1, <3>1, <3>2
  <2> QED
    BY <1>1, <2>1
<1> HIDE DEF s
<1>3. s[Len(s)].op = "count" /\ \A i \in 1..Len(p) : s[i] = p[i]
  BY <1>1, <1>2
<1>4. Counts(s)
  BY <1>2, <1>3 DEF Counts
<1>5. ASSUME NEW i \in 1..Len(s)
      PROVE  Allowed(t, s[i]) /\ (s[i].op = "count" => i = Len(s))
  <2>1. CASE i \in 1..Len(p)
    BY <1>3, <2>1 DEF Handled, Orderly
  <2>2. CASE i = Len(s)
    BY <1>3, <2>2 DEF Allowed, Panics, Informs
  <2> QED
    BY <1>2, <2>1, <2>2
<1>6. ASSUME NEW i \in 1..Len(s), NEW j \in 1..Len(s), i < j
      PROVE  Precedes(s[i], s[j])
  <2>1. CASE j \in 1..Len(p)
    <3>1. i \in 1..Len(p) /\ s[i] = p[i] /\ s[j] = p[j]
      BY <1>3, <1>6, <2>1
    <3> QED
      BY <1>6, <2>1, <3>1 DEF Handled, Orderly
  <2>2. CASE j = Len(s)
    BY <1>3, <2>2 DEF Precedes
  <2> QED
    BY <1>2, <2>1, <2>2
<1>7. Orderly(t, s)
  BY <1>5, <1>6 DEF Orderly
<1> QED
  BY <1>2, <1>4, <1>7 DEF PrometheusMiddleware, s, c

(* The programs that a request may be given.                               *)
LEMMA ProgramsInOrder ==
  ASSUME NEW t \in [route : Routes, arg : Nat], NEW u \in BOOLEAN, NEW proto,
         bounds \in Validated, NEW p \in Programs(t, u, proto)
  PROVE  /\ p \in Seq(Operations(AllOps)) /\ Orderly(t, p)
         /\ Middlewares(t) => Counts(p)
<1>1. bounds[1] \in Nat /\ bounds[2] \in Nat /\ bounds[2] >= bounds[1]
  BY PodCliAssumption DEF Validated
<1>2. NotFound \subseteq Handled(t) /\ MetricsHealthz \subseteq Handled(t)
  <2>1. ASSUME NEW c \in {200, 404}
        PROVE  <<Header(c), Do("body")>> \in Handled(t)
    <3>1. c \in Int /\ c \in Statuses /\ c \notin Interim
      BY DEF Statuses, Interim
    <3> QED
      BY <3>1, HelpersInOrder
  <2> QED
    BY <2>1 DEF NotFound, MetricsHealthz
<1>3. ASSUME NEW next \in Handled(t)
      PROVE  RandomErrorMiddleware(next) \subseteq Handled(t)
  <2>1. ASSUME NEW c \in {500, 400, 409}
        PROVE  <<Header(c)>> \in Handled(t)
    <3>1. c \in Int /\ c \in Statuses /\ c \notin Interim
      BY DEF Statuses, Interim
    <3> QED
      BY <3>1, HelpersInOrder
  <2> QED
    BY <2>1 DEF RandomErrorMiddleware
<1>4. ASSUME RandomDelay, NEW next \in Handled(t)
      PROVE  RandomDelayMiddleware(next) \subseteq Handled(t)
  <2>1. CASE bounds[2] - bounds[1] <= 0
    <3>1. Excuse(t)
      BY <1>1, <1>4, <2>1 DEF Excuse
    <3>2. <<Do("panic")>> \in Handled(t)
      BY <3>1, OperationFacts, OneOperation DEF AllOps, PlainOps, Allowed, Informs
    <3> QED
      BY <2>1, <3>2 DEF RandomDelayMiddleware
  <2>2. CASE ~(bounds[2] - bounds[1] <= 0)
    <3>1. ASSUME NEW c \in Int
          PROVE  <<Sleep(c)>> \o next \in Handled(t)
      <4>1. <<Sleep(c)>> \in Handled(t)
        BY OperationFacts, OneOperation DEF Allowed, Panics, Informs
      <4>2. \A i \in 1..Len(<<Sleep(c)>>), j \in 1..Len(next) : Precedes(<<Sleep(c)>>[i], next[j])
        BY OperationFacts DEF Precedes
      <4> QED
        BY <4>1, <4>2, InOrder
    <3>2. \A k \in Intn(bounds[2] - bounds[1]) :
            (IF RandomDelayUnit = "ms" THEN 0 ELSE k + bounds[1]) \in Int
      BY <1>1 DEF Intn
    <3> QED
      BY <2>2, <3>1, <3>2 DEF RandomDelayMiddleware
  <2> QED
    BY <2>1, <2>2
<1>5. ASSUME NEW hs, hs \subseteq Handled(t), NEW s \in Registered(hs)
      PROVE  s \in Seq(Operations(AllOps)) /\ Orderly(t, s) /\ Counts(s)
  <2> DEFINE failing == IF RandomError THEN UNION {RandomErrorMiddleware(x) : x \in hs} ELSE hs
             delayed == IF RandomDelay THEN UNION {RandomDelayMiddleware(x) : x \in failing}
                        ELSE failing
  <2>1. failing \subseteq Handled(t)
    BY <1>3, <1>5
  <2> HIDE DEF failing
  <2>2. delayed \subseteq Handled(t)
    BY <1>4, <2>1
  <2> HIDE DEF delayed
  <2>3. PICK x \in delayed : s = PrometheusMiddleware(x)
    BY <1>5 DEF Registered, delayed, failing
  <2> QED
    BY <2>2, <2>3, CountedInOrder
<1>6. CASE Middlewares(t)
  <2>1. Handlers(t, u, WrappedResponseWriter(Connection(proto))) \subseteq Handled(t)
    BY <1>6, HandlersInOrder
  <2> QED
    BY <1>5, <1>6, <2>1 DEF Programs, Middlewares
<1>7. CASE ~Middlewares(t)
  BY <1>2, <1>7 DEF Programs, Middlewares, Handled
<1> QED
  BY <1>6, <1>7

(* What is left of an orderly program.                                     *)
Remains(t, o, p, rest) ==
  /\ Orderly(t, rest) /\ Allowed(t, o)
  /\ o.op = "count" => rest = <<>>
  /\ Counts(p) => o.op = "count" \/ Counts(rest)
  /\ \A j \in 1..Len(rest) : Precedes(o, rest[j])
  /\ \A j \in 1..Len(rest) : \E i \in 1..Len(p) : rest[j] = p[i]

LEMMA TailInOrder ==
  ASSUME NEW t, NEW Ops, NEW p \in Seq(Operations(Ops)), p # <<>>, Orderly(t, p)
  PROVE  Head(p) \in Operations(Ops) /\ Remains(t, Head(p), p, Tail(p))
<1> DEFINE h == Head(p)
           s == Tail(p)
<1>1. /\ Len(p) \in Nat /\ Len(p) >= 1 /\ Len(s) = Len(p) - 1
      /\ h = p[1] /\ h \in Operations(Ops)
      /\ s \in Seq(Operations(Ops)) /\ \A i \in 1..Len(s) : s[i] = p[i + 1]
  BY HeadTailProperties, EmptySeq
<1> HIDE DEF h, s
<1>2. \A i \in 1..Len(s) : i + 1 \in 1..Len(p) /\ 1 < i + 1
  BY <1>1
<1>3. /\ \A i \in 1..Len(p) : Allowed(t, p[i]) /\ (p[i].op = "count" => i = Len(p))
      /\ \A i, j \in 1..Len(p) : i < j => Precedes(p[i], p[j])
  BY DEF Orderly
<1>4. /\ \A j \in 1..Len(s) : Precedes(h, s[j])
      /\ \A j \in 1..Len(s) : \E i \in 1..Len(p) : s[j] = p[i]
  BY <1>1, <1>2, <1>3
<1>5. Orderly(t, s)
  <2>1. ASSUME NEW i \in 1..Len(s)
        PROVE  Allowed(t, s[i]) /\ (s[i].op = "count" => i = Len(s))
    BY <1>1, <1>2, <1>3
  <2>2. ASSUME NEW i \in 1..Len(s), NEW j \in 1..Len(s), i < j
        PROVE  Precedes(s[i], s[j])
    <3>1. i + 1 \in 1..Len(p) /\ j + 1 \in 1..Len(p) /\ i + 1 < j + 1
      BY <1>1, <2>2
    <3> QED
      BY <1>1, <1>3, <3>1
  <2> QED
    BY <2>1, <2>2 DEF Orderly
<1>6. h.op = "count" => s = <<>>
  <2>1. h.op = "count" => Len(s) = 0
    BY <1>1, <1>3
  <2> QED
    BY <1>1, <2>1, EmptySeq
<1>7. Counts(p) => h.op = "count" \/ Counts(s)
  <2> SUFFICES ASSUME p[Len(p)].op = "count", h.op # "count"
               PROVE  Counts(s)
    BY DEF Counts
  <2>1. Len(p) # 1 /\ Len(s) \in 1..Len(s) /\ Len(s) + 1 = Len(p)
    BY <1>1
  <2>2. s # <<>> /\ s[Len(s)] = p[Len(p)]
    BY <1>1, <2>1
  <2> QED
    BY <2>2 DEF Counts
<1>8. Allowed(t, h)
  BY <1>1, <1>3
<1> QED
  BY <1>1, <1>4, <1>5, <1>6, <1>7, <1>8 DEF h, s, Remains

-----------------------------------------------------------------------------
(* What the operations do to a request.                                    *)

(* The parts of a request that o = Head(q.prog) leaves alone, unless it is *)
(* the one named.                                                          *)
SameAnswer(q, p) == p.header = q.header /\ p.wire = q.wire /\ p.hijacked = q.hijacked
SameCode(q, p) == p.code = q.code /\ p.recorded = q.recorded
GoesOn(q, p) == p.stage = q.stage /\ p.prog = Tail(q.prog) /\ p.age = q.age

(* A 200 goes out unless a header did, or it is too late.                  *)
Sent(q, p) ==
  /\ p.header = IF q.header = 0 THEN 200 ELSE q.header
  /\ p.wire = IF q.wire < 0 /\ ~Late(q) THEN q.age ELSE q.wire
  /\ p.hijacked = q.hijacked

(* WriteHeader of the interceptor with c.                                  *)
HeaderWritten(q, c, p) ==
  /\ p.counted = q.counted /\ p.hijacked = q.hijacked /\ p.age = q.age /\ p.wire = q.wire
  /\ p.recorded = TRUE /\ p.code = IF q.recorded THEN q.code ELSE c
  /\ c \notin Statuses => p.stage = "panicked" /\ p.prog = <<>> /\ p.header = q.header
  /\ c \in Statuses =>
       /\ GoesOn(q, p)
       /\ p.header = IF q.header = 0 /\ c \notin 100..199 \ {101} THEN c ELSE q.header

LEMMA HeaderFields ==
  ASSUME NEW P, NEW q \in Request(P), q.prog # <<>>, Head(q.prog).op = "header",
         Head(q.prog).arg \in Int
  PROVE  HeaderWritten(q, Head(q.prog).arg, Perform(q))
<1> DEFINE c == Head(q.prog).arg
           p == Perform(q)
<1> DEFINE u == [q EXCEPT !.prog = Tail(q.prog)]
           r == Recorded(u, c)
<1>1. p = WriteHeader(u, c)
  BY DEF Perform
<1>2. /\ r.counted = q.counted /\ r.hijacked = q.hijacked /\ r.age = q.age /\ r.wire = q.wire
      /\ r.recorded = TRUE /\ r.code = IF q.recorded THEN q.code ELSE c
      /\ r.stage = q.stage /\ r.prog = Tail(q.prog) /\ r.header = q.header
      /\ r \in [stage : Stages, prog : {Tail(q.prog)}, asleep : Nat, age : Nat,
                header : NoneOr(Statuses), wire : Int, hijacked : Flags, code : Int,
                recorded : Flags, counted : NoneOr(Statuses)]
  BY DEF Recorded, Request, Flags
<1>3. p = IF c \notin Statuses THEN Panicked(r)
          ELSE IF c \in 100..199 \ {101} THEN r ELSE Final(r, c)
  BY <1>1 DEF WriteHeader, Statuses
<1> SUFFICES HeaderWritten(q, c, p)
  OBVIOUS
<1> HIDE DEF r, u, c, p
<1> USE DEF HeaderWritten
<1>4. CASE c \notin Statuses
  BY <1>2, <1>3, <1>4 DEF Panicked
<1>5. CASE c \in Statuses /\ (c \in 100..199 \ {101} \/ q.header # 0)
  BY <1>2, <1>3, <1>5 DEF Final, GoesOn
<1>6. CASE c \in Statuses /\ ~(c \in 100..199 \ {101}) /\ q.header = 0
  <2>1. p = [r EXCEPT !.header = c]
    BY <1>2, <1>3, <1>6 DEF Final
  <2> QED
    BY <1>2, <1>6, <2>1 DEF GoesOn
<1> QED
  BY <1>4, <1>5, <1>6

(* The other operations.                                                   *)
Performed(op, q, p) ==
  /\ op = "body" =>
       /\ GoesOn(q, p) /\ SameCode(q, p) /\ p.counted = q.counted
       /\ p.header = IF q.header = 0 THEN 200 ELSE q.header
       /\ p.wire = q.wire /\ p.hijacked = q.hijacked
  /\ op = "flush" =>
       GoesOn(q, p) /\ SameCode(q, p) /\ p.counted = q.counted /\ Sent(q, p)
  /\ op = "sleep" =>
       GoesOn(q, p) /\ SameCode(q, p) /\ p.counted = q.counted /\ SameAnswer(q, p)
  /\ op = "hijack" =>
       /\ GoesOn(q, p) /\ SameCode(q, p) /\ p.counted = q.counted
       /\ p.header = 101 /\ p.wire = q.age /\ p.hijacked = TRUE
  /\ op = "count" =>
       GoesOn(q, p) /\ SameCode(q, p) /\ p.counted = q.code /\ SameAnswer(q, p)
  /\ op = "panic" =>
       /\ p.stage = "panicked" /\ p.prog = <<>> /\ p.age = q.age
       /\ SameCode(q, p) /\ p.counted = q.counted /\ SameAnswer(q, p)

LEMMA OtherFields ==
  ASSUME NEW P, NEW q \in Request(P), q.prog # <<>>
  PROVE  Performed(Head(q.prog).op, q, Perform(q))
<1> DEFINE op == Head(q.prog).op
           p == Perform(q)
<1> DEFINE u == [q EXCEPT !.prog = Tail(q.prog)]
<1>1. /\ u.stage = q.stage /\ u.prog = Tail(q.prog) /\ u.age = q.age /\ SameCode(q, u)
      /\ u.counted = q.counted /\ SameAnswer(q, u)
      /\ u \in [stage : Stages, prog : {Tail(q.prog)}, asleep : Nat, age : Nat,
                header : NoneOr(Statuses), wire : Int, hijacked : Flags, code : Int,
                recorded : Flags, counted : NoneOr(Statuses)]
  BY DEF Request, SameCode, SameAnswer
<1>2. /\ op = "body" => p = Final(u, 200)
      /\ op = "flush" => p = Flushed(u)
      /\ op = "sleep" => p = [u EXCEPT !.asleep = Asleep(Head(q.prog).arg)]
      /\ op = "hijack" => p = Hijacked(u)
      /\ op = "count" => p = Count(u)
      /\ op = "panic" => p = Panicked(u)
  BY DEF Perform
<1> SUFFICES Performed(op, q, p)
  OBVIOUS
<1> HIDE DEF u, op, p
<1> USE DEF Performed
<1>3. CASE op = "body"
  <2>1. p = IF q.header = 0 THEN [u EXCEPT !.header = 200] ELSE u
    BY <1>1, <1>2, <1>3 DEF Final, SameAnswer
  <2> QED
    BY <1>1, <1>3, <2>1 DEF GoesOn, SameCode, SameAnswer
<1>4. CASE op = "flush"
  <2> DEFINE f == Final(u, 200)
  <2>1. /\ GoesOn(q, f) /\ SameCode(q, f) /\ f.counted = q.counted
        /\ f.header = IF q.header = 0 THEN 200 ELSE q.header
        /\ f.wire = q.wire /\ f.hijacked = q.hijacked
        /\ f \in [stage : Stages, prog : {Tail(q.prog)}, asleep : Nat, age : Nat,
                  header : NoneOr(Statuses), wire : Int, hijacked : Flags, code : Int,
                  recorded : Flags, counted : NoneOr(Statuses)]
    BY <1>1, StatusFacts DEF Final, GoesOn, SameCode, SameAnswer
  <2>2. p = IF q.wire < 0 /\ ~Late(q) THEN [f EXCEPT !.wire = q.age] ELSE f
    BY <1>1, <1>2, <1>4, <2>1 DEF Flushed, Late, SameAnswer, GoesOn
  <2> HIDE DEF f
  <2> QED
    BY <1>4, <2>1, <2>2 DEF GoesOn, SameCode, Sent
<1>5. CASE op = "sleep"
  BY <1>1, <1>2, <1>5 DEF GoesOn, SameCode, SameAnswer
<1>6. CASE op = "hijack"
  <2>1. p = [u EXCEPT !.header = 101, !.wire = u.age, !.hijacked = TRUE]
    BY <1>2, <1>6 DEF Hijacked
  <2>2. p.header = 101 /\ p.wire = q.age /\ p.hijacked = TRUE
    BY <1>1, <2>1
  <2>3. GoesOn(q, p) /\ SameCode(q, p) /\ p.counted = q.counted
    BY <1>1, <2>1 DEF GoesOn, SameCode
  <2> QED
    BY <1>6, <2>2, <2>3
<1>7. CASE op = "count"
  BY <1>1, <1>2, <1>7 DEF Count, GoesOn, SameCode, SameAnswer
<1>8. CASE op = "panic"
  BY <1>1, <1>2, <1>8 DEF Panicked, GoesOn, SameCode, SameAnswer
<1>9. CASE op \notin {"body", "flush", "sleep", "hijack", "count", "panic"}
  BY <1>9
<1> QED
  BY <1>3, <1>4, <1>5, <1>6, <1>7, <1>8, <1>9

(* The return of the handler.                                              *)
LEMMA ReturnFields ==
  ASSUME NEW P, NEW q \in Request(P), q.prog = <<>>, NEW p, p = Perform(q)
  PROVE  /\ p.stage = "returned" /\ p.prog = <<>> /\ p.age = q.age /\ SameCode(q, p)
         /\ p.counted = q.counted
         /\ q.hijacked => SameAnswer(q, p)
         /\ ~q.hijacked => Sent(q, p)
<1>1. CASE q.hijacked
  BY <1>1 DEF Perform, Request, SameCode, SameAnswer
<1>2. CASE ~q.hijacked
  <2> DEFINE f == Flushed(q)
  <2>1. /\ f.prog = <<>> /\ f.age = q.age /\ SameCode(q, f) /\ f.counted = q.counted /\ Sent(q, f)
        /\ f \in [stage : Stages, prog : {<<>>}, asleep : Nat, age : Nat, header : NoneOr(Statuses),
                  wire : Int, hijacked : Flags, code : Int, recorded : Flags,
                  counted : NoneOr(Statuses)]
    BY StatusFacts DEF Flushed, Final, Late, Request, SameCode, Sent
  <2>2. p = [f EXCEPT !.stage = "returned"]
    BY <1>2 DEF Perform
  <2> HIDE DEF f
  <2> QED
    BY <1>2, <2>1, <2>2 DEF SameCode, Sent, SameAnswer
<1> QED
  BY <1>1, <1>2

(* Every operation keeps a request honest.                                 *)
LEMMA PerformHonest ==
  ASSUME NEW q \in Request(Programmed), Sound(q), Honest(q), q.stage = "running",
         q.prog # <<>> => Head(q.prog).op # "session", NEW p, p = Perform(q)
  PROVE  Honest(p)
<1>1. /\ q.age \in Nat /\ q.wire \in Int /\ q.header \in NoneOr(Statuses) /\ q.code \in Statuses
      /\ q.prog \in Seq(Operations(Names)) /\ q.hijacked \in BOOLEAN /\ q.recorded \in BOOLEAN
  BY Updates DEF Sound, Programmed, Request, Flags
<1>2. 0 \notin Statuses /\ 200 \in Statuses
  BY StatusFacts
<1>3. CASE q.prog = <<>>
  <2>1. /\ p.stage = "returned" /\ p.prog = <<>> /\ p.age = q.age /\ SameCode(q, p)
        /\ p.counted = q.counted
        /\ q.hijacked => SameAnswer(q, p)
        /\ ~q.hijacked => Sent(q, p)
    BY <1>3, ReturnFields
  <2>2. ~Counts(<<>>) /\ Len(<<>>) = 0
    BY EmptySeq DEF Counts
  <2>3. Counting(p)
    BY <1>3, <2>1, <2>2 DEF Honest, Counting, SameCode
  <2>4. Agreeing(p)
    <3>1. /\ (p.hijacked <=> q.hijacked) /\ (p.recorded <=> q.recorded) /\ p.code = q.code
          /\ p.header = q.header \/ (q.header = 0 /\ p.header = 200 /\ ~q.hijacked)
      BY <2>1 DEF SameCode, SameAnswer, Sent
    <3>2. /\ q.hijacked => ~q.recorded /\ q.header # 0
          /\ q.recorded => Stray(q.code) \/ q.header = q.code
          /\ ~q.recorded => q.code = 200 /\ (q.hijacked \/ q.header \in {0, 200})
          /\ q.code # 0
      BY <1>1, <1>2 DEF Honest, Agreeing
    <3> QED
      BY <2>1, <2>2, <3>1, <3>2 DEF Agreeing
  <2>5. Ending(p)
    BY <1>1, <2>1 DEF Honest, Agreeing, Ending, SameAnswer, Sent, Late
  <2> QED
    BY <2>3, <2>4, <2>5 DEF Honest
<1>4. CASE q.prog # <<>>
  <2> DEFINE o == Head(q.prog)
             rest == Tail(q.prog)
  <2>1. /\ Orderly(target, q.prog) /\ q.counted = 0
        /\ Middlewares(target) => Counts(q.prog)
    BY <1>4 DEF Honest, Counting
  <2>tail. o \in Operations(Names) /\ Remains(target, o, q.prog, rest)
    BY <1>1, <1>4, <2>1, TailInOrder
  <2>2. /\ o \in Operations(Names)
        /\ Orderly(target, rest) /\ Allowed(target, o)
        /\ o.op = "count" => rest = <<>>
        /\ Counts(q.prog) => o.op = "count" \/ Counts(rest)
        /\ \A j \in 1..Len(rest) : Precedes(o, rest[j])
        /\ \A j \in 1..Len(rest) : \E i \in 1..Len(q.prog) : rest[j] = q.prog[i]
    BY <2>tail DEF Remains
  <2>3. o.op \in {"header", "body", "flush", "sleep", "hijack", "count", "panic"} /\ o.arg \in Int
    BY <1>4, <2>2 DEF Operations, Names, AllOps, PlainOps
  <2>4. o.op = "hijack" => command = "ws"
    BY <2>2 DEF Operations, Names, PlainOps
  <2>first. \E i \in 1..Len(q.prog) : q.prog[i] = o
    BY <1>1, <1>4, EmptySeq
  <2>5. /\ q.hijacked => ~q.recorded /\ q.header # 0
        /\ q.recorded => Stray(q.code) \/ q.header = q.code
        /\ ~q.recorded => q.code = 200 /\ (q.hijacked \/ q.header \in {0, 200})
        /\ ~q.recorded /\ q.header # 0 =>
             /\ o.op = "header" => ~q.hijacked /\ o.arg = 200
             /\ \A j \in 1..Len(rest) : rest[j].op = "header" => ~q.hijacked /\ rest[j].arg = 200
        /\ q.recorded \/ q.header # 0 =>
             o.op # "hijack" /\ \A j \in 1..Len(rest) : rest[j].op # "hijack"
    BY <2>2, <2>first DEF Honest, Agreeing
  <2>6. q.hijacked => q.wire >= 0 /\ command = "ws"
    BY DEF Honest, Ending
  <2>others. Performed(o.op, q, p)
    BY <1>4, OtherFields
  <2> DEFINE c == o.arg
  <2>7. CASE o.op = "header"
    <3>1. /\ p.counted = q.counted /\ p.hijacked = q.hijacked /\ p.age = q.age /\ p.wire = q.wire
          /\ p.recorded = TRUE /\ p.code = IF q.recorded THEN q.code ELSE c
          /\ c \notin Statuses => p.stage = "panicked" /\ p.prog = <<>> /\ p.header = q.header
          /\ c \in Statuses =>
               /\ GoesOn(q, p)
               /\ p.header = IF q.header = 0 /\ c \notin 100..199 \ {101} THEN c ELSE q.header
      <4>1. HeaderWritten(q, c, p)
        BY <1>4, <2>3, <2>7, HeaderFields
      <4> QED
        BY <4>1 DEF HeaderWritten
    <3>2. \A j \in 1..Len(rest) : rest[j].op # "hijack"
      BY <2>2, <2>7 DEF Precedes
    <3> HIDE DEF o, rest
    <3>3. CASE c \notin Statuses
      <4>1. Excuse(target)
        BY <2>2, <2>7, <3>3 DEF Allowed, Panics
      <4> QED
        BY <2>1, <2>6, <3>1, <3>3, <4>1 DEF Honest, Counting, Agreeing, Ending
    <3>4. CASE c \in Statuses
      <4>1. Counting(p)
        BY <2>1, <2>2, <2>7, <3>1, <3>4 DEF Counting, GoesOn, rest
      <4>2. q.hijacked => FALSE
        BY <2>5, <2>7
      <4>3. Stray(p.code) \/ p.header = p.code
        <5>1. c # 0 /\ q.code # 0
          BY <1>1, <1>2, <3>4
        <5>stray. c \in 100..199 \ {101} => Stray(c)
          BY <2>2, <2>7 DEF Allowed, Informs, Interim, Stray
        <5>2. CASE q.recorded
          BY <2>5, <3>1, <3>4, <5>1, <5>2
        <5>3. CASE ~q.recorded /\ q.header = 0
          BY <3>1, <3>4, <5>stray, <5>3
        <5>4. CASE ~q.recorded /\ q.header # 0
          BY <2>5, <2>7, <3>1, <3>4, <4>2, <5>4
        <5> QED
          BY <5>2, <5>3, <5>4
      <4>4. Agreeing(p)
        BY <3>1, <3>2, <3>4, <4>2, <4>3 DEF Agreeing, GoesOn, rest
      <4>5. Ending(p)
        BY <3>1, <3>4, <4>2 DEF Ending, GoesOn
      <4> QED
        BY <4>1, <4>4, <4>5 DEF Honest
    <3> QED
      BY <3>3, <3>4
  <2>8. CASE o.op = "panic"
    <3>1. /\ p.stage = "panicked" /\ p.counted = q.counted /\ SameAnswer(q, p)
      BY <2>8, <2>others DEF Performed
    <3>2. Excuse(target)
      BY <2>2, <2>8 DEF Allowed, Panics
    <3> QED
      BY <2>1, <2>6, <3>1, <3>2 DEF Honest, Counting, Agreeing, Ending, SameAnswer
  <2>9. CASE o.op = "count"
    <3>1. GoesOn(q, p) /\ SameCode(q, p) /\ p.counted = q.code /\ SameAnswer(q, p)
      BY <2>9, <2>others DEF Performed
    <3>2. p.prog = <<>> /\ p.stage = "running" /\ Len(<<>>) = 0 /\ p.counted # 0
      BY <1>1, <1>2, <2>2, <2>9, <3>1 DEF GoesOn
    <3>3. Orderly(target, p.prog)
      BY <2>2, <3>1 DEF GoesOn
    <3> HIDE DEF o, rest
    <3>4. Counting(p)
      BY <3>1, <3>2, <3>3 DEF Counting, SameCode
    <3>5. Agreeing(p)
      BY <2>5, <3>1, <3>2 DEF Agreeing, SameCode, SameAnswer
    <3>6. Ending(p)
      BY <2>6, <3>1, <3>2 DEF Ending, SameAnswer
    <3> QED
      BY <3>4, <3>5, <3>6 DEF Honest
  <2>10. CASE o.op \in {"body", "flush", "sleep", "hijack"}
    <3>1. GoesOn(q, p) /\ SameCode(q, p) /\ p.counted = q.counted
      BY <2>10, <2>others DEF Performed
    <3>2. Counting(p)
      BY <2>1, <2>2, <2>10, <3>1 DEF Counting, GoesOn
    <3>3. CASE o.op \in {"body", "flush"}
      <4>1. /\ p.header = IF q.header = 0 THEN 200 ELSE q.header
            /\ p.wire = q.wire \/ q.wire < 0
            /\ p.hijacked = q.hijacked
        <5>1. CASE o.op = "body"
          BY <5>1, <2>others DEF Performed
        <5>2. CASE o.op = "flush"
          <6>1. Sent(q, p)
            BY <5>2, <2>others DEF Performed
          <6> QED
            BY <1>1, <6>1 DEF Sent
        <5> QED
          BY <3>3, <5>1, <5>2
      <4>2. \A j \in 1..Len(rest) : /\ rest[j].op = "header" => rest[j].arg = 200
                                   /\ rest[j].op # "hijack"
        BY <2>2, <3>3 DEF Precedes
      <4> HIDE DEF o, rest
      <4>3. Agreeing(p)
        <5>1. /\ (p.hijacked <=> q.hijacked) /\ (p.recorded <=> q.recorded) /\ p.code = q.code
              /\ p.stage = q.stage /\ p.prog = rest
              /\ p.header = q.header \/ (q.header = 0 /\ p.header = 200)
          BY <3>1, <4>1 DEF GoesOn, SameCode, rest
        <5>2. q.code # 0
          BY <1>1, <1>2
        <5> QED
          BY <2>5, <4>2, <5>1, <5>2 DEF Agreeing
      <4>4. Ending(p)
        <5>1. p.stage = "running" /\ (p.hijacked <=> q.hijacked)
          BY <3>1, <4>1 DEF GoesOn
        <5>2. q.hijacked => p.wire >= 0
          BY <1>1, <2>6, <4>1
        <5> QED
          BY <2>6, <5>1, <5>2 DEF Ending
      <4> QED
        BY <3>2, <4>3, <4>4 DEF Honest
    <3>4. CASE o.op = "sleep"
      <4>1. SameAnswer(q, p)
        BY <3>4, <2>others DEF Performed
      <4> HIDE DEF o, rest
      <4>2. Agreeing(p)
        BY <2>5, <3>1, <4>1 DEF Agreeing, GoesOn, SameCode, SameAnswer, rest
      <4>3. Ending(p)
        BY <2>6, <3>1, <4>1 DEF Ending, GoesOn, SameAnswer
      <4> QED
        BY <3>2, <4>2, <4>3 DEF Honest
    <3>5. CASE o.op = "hijack"
      <4>1. p.header = 101 /\ p.wire = q.age /\ p.hijacked = TRUE
        BY <3>5, <2>others DEF Performed
      <4>2. \A j \in 1..Len(rest) : rest[j].op # "header"
        BY <2>2, <3>5 DEF Precedes
      <4>3. ~q.recorded /\ q.header = 0
        BY <2>5, <3>5
      <4>4. \A j \in 1..Len(rest) : rest[j].op # "hijack"
        BY <2>2, <3>5 DEF Precedes
      <4> HIDE DEF o, rest
      <4>5. Agreeing(p)
        BY <2>5, <3>1, <4>1, <4>2, <4>3, <4>4 DEF Agreeing, GoesOn, SameCode, rest
      <4>6. Ending(p)
        BY <1>1, <2>4, <3>1, <3>5, <4>1 DEF Ending, GoesOn
      <4> QED
        BY <3>2, <4>5, <4>6 DEF Honest
    <3> QED
      BY <2>10, <3>3, <3>4, <3>5
  <2> QED
    BY <2>3, <2>7, <2>8, <2>9, <2>10
<1> QED
  BY <1>3, <1>4

(* A websocket session that ends goes on with its program.                 *)
LEMMA SkipHonest ==
  ASSUME NEW q, q.prog \in Seq(Operations(Names)), q.prog # <<>>, Honest(q),
         q.stage = "running", Head(q.prog).op = "session",
         NEW p, GoesOn(q, p), SameCode(q, p), p.counted = q.counted, SameAnswer(q, p)
  PROVE  Honest(p)
<1> DEFINE o == Head(q.prog)
           rest == Tail(q.prog)
<1>1. /\ Orderly(target, q.prog) /\ q.counted = 0
      /\ Middlewares(target) => Counts(q.prog)
  BY DEF Honest, Counting
<1>2. Remains(target, o, q.prog, rest)
  BY <1>1, TailInOrder
<1> HIDE DEF o, rest
<1>3. Counting(p)
  BY <1>1, <1>2 DEF Counting, GoesOn, Remains, o, rest
<1>4. Agreeing(p)
  <2>1. \A j \in 1..Len(rest) : \E i \in 1..Len(q.prog) : rest[j] = q.prog[i]
    BY <1>2 DEF Remains
  <2>2. p.prog = rest /\ p.stage = q.stage
    BY DEF GoesOn, rest
  <2>3. /\ (p.hijacked <=> q.hijacked) /\ (p.recorded <=> q.recorded)
        /\ p.code = q.code /\ p.header = q.header
    BY DEF SameCode, SameAnswer
  <2>4. Agreeing(q)
    BY DEF Honest
  <2>5. Stray(p.code) <=> Stray(q.code)
    BY <2>3 DEF Stray
  <2>6. /\ q.hijacked => ~q.recorded /\ q.header # 0
        /\ q.recorded => Stray(q.code) \/ q.header = q.code
        /\ ~q.recorded => q.code = 200 /\ (q.hijacked \/ q.header \in {0, 200})
    BY <2>4 DEF Agreeing
  <2>7. ASSUME NEW j \in 1..Len(rest)
        PROVE  /\ ~q.recorded /\ q.header # 0 =>
                     (rest[j].op = "header" => ~q.hijacked /\ rest[j].arg = 200)
               /\ q.recorded \/ q.header # 0 => rest[j].op # "hijack"
    <3>1. PICK i \in 1..Len(q.prog) : rest[j] = q.prog[i]
      BY <2>1
    <3>2. /\ ~q.recorded /\ q.header # 0 =>
               (q.prog[i].op = "header" => ~q.hijacked /\ q.prog[i].arg = 200)
          /\ q.recorded \/ q.header # 0 => q.prog[i].op # "hijack"
      BY <2>4 DEF Agreeing
    <3> QED
      BY <3>1, <3>2
  <2> QED
    BY <2>2, <2>3, <2>5, <2>6, <2>7 DEF Agreeing
<1>5. Ending(p)
  BY DEF Honest, Ending, GoesOn, SameAnswer
<1> QED
  BY <1>3, <1>4, <1>5 DEF Honest

-----------------------------------------------------------------------------
(* All requests.                                                           *)

(* A request begins honest.                                                *)
LEMMA AcceptedHonest ==
  ASSUME NEW p, Orderly(target, p), Middlewares(target) => Counts(p)
  PROVE  Honest(Accepted(p))
<1> DEFINE q == Accepted(p)
<1>1. /\ q.stage = "running" /\ q.prog = p /\ q.header = 0 /\ q.wire = -1 /\ q.hijacked = FALSE
      /\ q.code = 200 /\ q.recorded = FALSE /\ q.counted = 0
  BY DEF Accepted, Interceptor
<1> HIDE DEF q
<1>2. Honest(q)
  BY <1>1 DEF Honest, Counting, Agreeing, Ending
<1> QED
  BY <1>2 DEF q

(* What is asked for is a program of the target's route.                   *)
LEMMA AskedInOrder ==
  ASSUME Inv, Chosen, NEW p, Asked(p)
  PROVE  Orderly(target, p) /\ (Middlewares(target) => Counts(p))
<1>1. target \in [route : Routes, arg : Nat] /\ bounds \in Validated
  BY CheckAssumption DEF Inv, Served, Chosen, Asked
<1>2. CASE \E proto : p \in Programs(target, FALSE, proto)
  BY <1>1, <1>2, ProgramsInOrder
<1>3. CASE command = "ws" /\ \E proto : p \in Programs(Target("ws", 0), TRUE, proto)
  <2> DEFINE t == Target("ws", 0)
  <2>1. t \in [route : Routes, arg : Nat] /\ t.route = "ws" /\ target.route = "ws"
    BY <1>3 DEF Target, Routes, Chosen
  <2> HIDE DEF t
  <2>2. p \in Seq(Operations(AllOps)) /\ Orderly(t, p) /\ (Middlewares(t) => Counts(p))
    BY <1>1, <1>3, <2>1, ProgramsInOrder DEF t
  <2>3. \A o : Allowed(t, o) => Allowed(target, o)
    BY <2>1 DEF Allowed, Excuse, Informal
  <2>4. Orderly(target, p)
    BY <2>2, <2>3 DEF Orderly
  <2> QED
    BY <2>1, <2>2, <2>4 DEF Middlewares
<1> QED
  BY <1>2, <1>3 DEF Asked

(* The flags and the target do not change.                                 *)
LEMMA HonestFrame ==
  ASSUME bounds' = bounds, command' = command, target' = target, NEW q, Honest(q)
  PROVE  Honest(q)'
<1>1. Excuse(target)' <=> Excuse(target)
  BY DEF Excuse, ChunkedBound, Times
<1>2. Orderly(target, q.prog)' <=> Orderly(target, q.prog)
  BY <1>1 DEF Orderly, Allowed, Panics, Informs, Informal, Precedes
<1>3. Middlewares(target)' <=> Middlewares(target)
  BY DEF Middlewares
<1>4. Counting(q)'
  BY <1>2, <1>3 DEF Honest, Counting, Counts
<1>5. Agreeing(q)'
  BY DEF Honest, Agreeing, Stray, Informal
<1>6. Ending(q)'
  BY <1>1 DEF Honest, Ending, Late
<1> QED
  BY <1>4, <1>5, <1>6 DEF Honest

(* Every step keeps every request honest.                                  *)
LEMMA AnswersStep ==
  ASSUME Inv, Answers, [Next]_vars
  PROVE  Answers'
<1>1. bounds' = bounds /\ command' = command /\ target' = target
  BY RequestStep
<1>2. Chosen'
  BY <1>1 DEF Answers, Chosen, Validated
<1>3. /\ req \in [Requests -> Request(Programmed)]
      /\ \A r \in Requests : Sound(req[r]) /\ Honest(req[r])
  BY DEF Inv, Served, Answers
<1> SUFFICES ASSUME NEW r \in Requests
             PROVE  Honest(req'[r])
  <2>1. \A r \in Requests : Honest(req[r])'
    <3> SUFFICES ASSUME NEW r \in Requests
                 PROVE  Honest(req[r])'
      OBVIOUS
    <3> QED
      BY <1>1, HonestFrame
  <2> QED
    BY <1>2, <2>1 DEF Answers
<1>4. ASSUME NEW x \in Requests, NEW p \in Programmed, Asked(p), Accept(x, p)
      PROVE  Honest(req'[r])
  <2>1. Honest(Accepted(p))
    BY <1>4, AskedInOrder, AcceptedHonest DEF Answers
  <2>2. req'[r] \in {req[r], Accepted(p)}
    BY <1>3, <1>4 DEF Accept
  <2> QED
    BY <1>3, <2>1, <2>2
<1>5. ASSUME NEW x \in Requests, ServiceStep(x)
      PROVE  Honest(req'[r])
  <2>1. req[x].stage = "running" /\ (req[x].prog # <<>> => Head(req[x].prog).op # "session")
    BY <1>5 DEF ServiceStep, Ready, InSession
  <2>2. Honest(Perform(req[x]))
    BY <1>3, <2>1, PerformHonest
  <2>3. req'[r] \in {req[r], Perform(req[x])}
    BY <1>3, <1>5 DEF ServiceStep
  <2> QED
    BY <1>3, <2>2, <2>3
<1>6. ASSUME command = "ws", EndSession(Handshake)
      PROVE  Honest(req'[r])
  <2> DEFINE q == req[Handshake]
             p == [q EXCEPT !.prog = Tail(q.prog)]
  <2>1. /\ q \in Request(Programmed) /\ Sound(q) /\ Honest(q)
        /\ q.stage = "running" /\ q.prog # <<>> /\ Head(q.prog).op = "session"
    BY <1>3, <1>6, ClientAssumption DEF EndSession, InSession
  <2>2. req'[r] \in {req[r], p}
    BY <1>3, <1>6 DEF EndSession
  <2>3. /\ GoesOn(q, p) /\ SameCode(q, p) /\ p.counted = q.counted /\ SameAnswer(q, p)
    BY <2>1 DEF Request, GoesOn, SameCode, SameAnswer
  <2>4. q.prog \in Seq(Operations(Names))
    BY <2>1, Updates DEF Programmed
  <2> HIDE DEF q, p
  <2>5. Honest(p)
    BY <2>1, <2>3, <2>4, SkipHonest
  <2> QED
    BY <1>3, <2>2, <2>5
<1>7. ASSUME NEW d \in Nat, Aged(d)
      PROVE  Honest(req'[r])
  <2> DEFINE q == req[r]
             p == [q EXCEPT !.asleep = Dropped(q.asleep, d), !.age = q.age + d]
  <2>1. q \in Request(Programmed) /\ Honest(q)
    BY <1>3
  <2>2. req'[r] = q \/ (q.stage = "running" /\ req'[r] = p)
    BY <1>7 DEF Aged
  <2>3. /\ p.stage = q.stage /\ p.prog = q.prog /\ p.counted = q.counted
        /\ SameCode(q, p) /\ SameAnswer(q, p)
    BY <2>1 DEF Request, SameCode, SameAnswer
  <2> HIDE DEF q, p
  <2>4. q.stage = "running" => Counting(p) /\ Agreeing(p) /\ Ending(p)
    BY <2>1, <2>3 DEF Honest, Counting, Agreeing, Ending, SameCode, SameAnswer
  <2> QED
    BY <2>1, <2>2, <2>4 DEF Honest
<1>8. CASE req' = req
  BY <1>3, <1>8
<1> QED
  BY <1>4, <1>5, <1>6, <1>7, <1>8, RequestStep

(* Every request is honest in every state.                                 *)
THEOREM AnswersInvariant == Spec => []Answers
<1>1. Init => Answers
  <2> SUFFICES ASSUME Init
               PROVE  Answers
    OBVIOUS
  <2>1. Chosen
    BY DEF Init, ServiceInit, CheckInit, Chosen
  <2> DEFINE q == NoRequest
  <2>2. /\ q.stage = "none" /\ q.prog = <<>> /\ q.header = 0 /\ q.hijacked = FALSE
        /\ q.code = 200 /\ q.recorded = FALSE /\ q.counted = 0
    BY DEF NoRequest, Accepted, Interceptor
  <2>3. \A r \in Requests : req[r] = q
    BY DEF Init, ServiceInit
  <2> HIDE DEF q
  <2>4. Honest(q)
    BY <2>2 DEF Honest, Counting, Agreeing, Ending
  <2> QED
    BY <2>1, <2>3, <2>4 DEF Answers
<1>2. Inv /\ Answers /\ [Next]_vars => Answers'
  BY AnswersStep
<1> QED
  BY <1>1, <1>2, Invariant, PTL DEF Spec

(* Prometheus counts a request that returned under the status its client   *)
(* was sent, or was meant to be sent when its deadline had passed; it      *)
(* counts a connection that was taken over as 200, a request for an        *)
(* informational status as that one, and a request that panicked never.    *)
THEOREM CountTheorem == Spec => []CountedAsAnswered
<1>1. Inv /\ Answers => CountedAsAnswered
  <2> SUFFICES ASSUME Inv, Answers, NEW r \in Requests
               PROVE  /\ req[r].stage = "panicked" => req[r].counted = 0
                      /\ req[r].stage = "returned" /\ target.route \notin Uncounted =>
                           \/ req[r].hijacked /\ req[r].counted = 200
                           \/ /\ ~req[r].hijacked /\ req[r].counted = req[r].header
                              /\ req[r].wire >= 0 \/ Late(req[r])
                           \/ /\ target.route = "status" /\ target.arg \in 100..199 \ {101}
                              /\ req[r].counted = target.arg
    BY DEF CountedAsAnswered
  <2> DEFINE q == req[r]
  <2>1. Honest(q)
    BY DEF Answers
  <2> HIDE DEF q
  <2>2. q.stage = "panicked" => q.counted = 0
    BY <2>1 DEF Honest, Counting
  <2>3. ASSUME q.stage = "returned", target.route \notin Uncounted
        PROVE  \/ q.hijacked /\ q.counted = 200
               \/ ~q.hijacked /\ q.counted = q.header /\ (q.wire >= 0 \/ Late(q))
               \/ /\ target.route = "status" /\ target.arg \in 100..199 \ {101}
                  /\ q.counted = target.arg
    <3>1. q.counted = q.code
      BY <2>1, <2>3 DEF Honest, Counting, Middlewares, Uncounted, Counts
    <3>2. q.header # 0 /\ (q.wire >= 0 \/ Late(q))
      BY <2>1, <2>3 DEF Honest, Ending
    <3>3. /\ q.hijacked => q.code = 200
          /\ ~q.hijacked => q.header = q.code \/ Stray(q.code)
      BY <2>1, <2>3, <3>2 DEF Honest, Agreeing
    <3>4. Stray(q.code) => /\ target.route = "status" /\ target.arg \in 100..199 \ {101}
                           /\ q.code = target.arg
      BY DEF Stray, Interim, Informal
    <3> QED
      BY <3>1, <3>2, <3>3, <3>4
  <2> QED
    BY <2>2, <2>3 DEF q
<1> QED
  BY <1>1, Invariant, AnswersInvariant, PTL

(* A request without an answer was late, or panicked over a number.        *)
THEOREM AnswerTheorem == Spec => []AnsweredUnlessLate
<1>1. Inv /\ Answers => AnsweredUnlessLate
  <2> SUFFICES ASSUME Inv, Answers, NEW r \in Requests, Unanswered(req[r]), ~Late(req[r])
               PROVE  /\ req[r].stage = "panicked"
                      /\ \/ RandomDelay /\ bounds[1] = bounds[2]
                         \/ target.route = "chunked" /\ target.arg > MaxInt /\ ChunkedBound <= 0
                         \/ target.route = "status" /\ target.arg \notin 100..999
    BY DEF AnsweredUnlessLate
  <2>1. Honest(req[r])
    BY DEF Answers
  <2>2. req[r].wire \in Int
    BY DEF Inv, Served, Request
  <2>3. req[r].stage = "panicked"
    BY <2>1, <2>2 DEF Unanswered, Honest, Ending
  <2>4. Excuse(target)
    BY <2>1, <2>3 DEF Honest, Ending
  <2> QED
    BY <2>3, <2>4 DEF Excuse, Statuses
<1> QED
  BY <1>1, Invariant, AnswersInvariant, PTL
=============================================================================
