---------------------------- MODULE PodCliProofs -----------------------------
(***************************************************************************)
(* What is proved of PodCli for any retries, delays, timeouts and targets: *)
(* a check ends in time, and its exit code tells the truth about the       *)
(* answers of the service, those of attempts it gave up included.          *)
(***************************************************************************)
EXTENDS PodCli, SequenceTheorems, TLAPS

(* Only podcli ws sends requests that take the connection over.            *)
PlainOps == {"header", "body", "flush", "sleep", "count", "panic"}
AllOps == PlainOps \cup {"hijack", "session"}
Operations(names) == [op : names, arg : Int]

-----------------------------------------------------------------------------
(* The programs of the handlers and middlewares.                           *)

(* A product of durations is an integer.                                   *)
LEMMA TimesType ==
  ASSUME NEW x \in Int, NEW y \in Int
  PROVE  Times(x, y) \in Int
<1>1. (x * y + MaxInt + 1) \in Int /\ 2 * (MaxInt + 1) \in Nat \ {0}
  BY ServiceAssumption
<1>2. (x * y + MaxInt + 1) % (2 * (MaxInt + 1)) \in Int
  BY <1>1
<1> QED
  BY <1>2, ServiceAssumption DEF Times

(* A sleep lasts a natural number of seconds.                              *)
LEMMA AsleepType ==
  ASSUME NEW x \in Int
  PROVE  Asleep(x) \in Nat
<1>1. Times(x, Second) \in Int
  BY TimesType, ServiceAssumption
<1> QED
  BY <1>1, ServiceAssumption DEF Asleep

(* The helpers of http.go are programs.                                    *)
LEMMA HelpersType ==
  ASSUME NEW Ops, PlainOps \subseteq Ops, NEW code \in Int
  PROVE  /\ <<Header(code)>> \in Seq(Operations(Ops))
         /\ <<Header(code), Do("body")>> \in Seq(Operations(Ops))
         /\ JSONResponse \in Seq(Operations(Ops))
         /\ ErrorResponse(code) \in Seq(Operations(Ops))
         /\ JSONResponseCode(code) \in Seq(Operations(Ops))
<1>1. \A c \in Int : Header(c) \in Operations(Ops)
  BY DEF Header, Operations, PlainOps
<1>2. Do("body") \in Operations(Ops)
  BY DEF Do, Operations, PlainOps
<1>3. \A c \in Int : <<Header(c)>> \in Seq(Operations(Ops))
                     /\ <<Header(c), Do("body")>> \in Seq(Operations(Ops))
  BY <1>1, <1>2
<1> QED
  BY <1>3 DEF JSONResponse, ErrorResponse, JSONResponseCode

(* A handler reads the number in the path, or answers without it.          *)
LEMMA NumbersType ==
  ASSUME NEW Ops, PlainOps \subseteq Ops, NEW arg \in Nat, NEW w
  PROVE  /\ DelayHandler(arg) \subseteq Seq(Operations(Ops))
         /\ ChunkedHandler(arg, w) \subseteq Seq(Operations(Ops))
         /\ StatusHandler(arg) \subseteq Seq(Operations(Ops))
<1>1. \A c \in Int : /\ <<Sleep(c)>> \in Seq(Operations(Ops))
                     /\ <<Do("flush"), Sleep(c)>> \in Seq(Operations(Ops))
  <2>1. Do("flush") \in Operations(Ops) /\ \A c \in Int : Sleep(c) \in Operations(Ops)
    BY DEF Do, Sleep, Operations, PlainOps
  <2> QED
    BY <2>1
<1>2. <<Do("flush")>> \in Seq(Operations(Ops)) /\ <<Do("panic")>> \in Seq(Operations(Ops))
  <2>1. Do("flush") \in Operations(Ops) /\ Do("panic") \in Operations(Ops)
    BY DEF Do, Operations, PlainOps
  <2> QED
    BY <2>1
<1>3. JSONResponse \in Seq(Operations(Ops))
  BY HelpersType
<1>4. \A c \in Int : ChunkedProgram(c, w) \in Seq(Operations(Ops))
  <2> SUFFICES ASSUME NEW c \in Int
               PROVE  ChunkedProgram(c, w) \in Seq(Operations(Ops))
    OBVIOUS
  <2>1. <<Do("flush"), Sleep(c)>> \o JSONResponse \in Seq(Operations(Ops))
    BY <1>1, <1>3, ConcatProperties
  <2>2. (<<Do("flush"), Sleep(c)>> \o JSONResponse) \o <<Do("flush")>> \in Seq(Operations(Ops))
    BY <1>2, <2>1, ConcatProperties
  <2> QED
    BY <2>2, HelpersType DEF ChunkedProgram
<1>5. <<Sleep(arg)>> \o JSONResponse \in Seq(Operations(Ops))
  BY <1>1, <1>3, ConcatProperties
<1>6. ChunkedBound \in Int
  BY TimesType, ServiceAssumption DEF ChunkedBound
<1>helpers. /\ ErrorResponse(400) \in Seq(Operations(Ops))
            /\ JSONResponseCode(arg) \in Seq(Operations(Ops))
  BY HelpersType
<1>7. DelayHandler(arg) \subseteq Seq(Operations(Ops))
  BY <1>5, <1>helpers DEF DelayHandler
<1>8. StatusHandler(arg) \subseteq Seq(Operations(Ops))
  BY <1>helpers DEF StatusHandler
<1>9. ChunkedHandler(arg, w) \subseteq Seq(Operations(Ops))
  <2>1. CASE arg \in 0..MaxInt
    BY <1>4, <2>1 DEF ChunkedHandler
  <2>2. CASE arg \notin 0..MaxInt
    <3>1. \A k \in Intn(ChunkedBound) : ChunkedProgram(k + 10, w) \in Seq(Operations(Ops))
      BY <1>4, <1>6 DEF Intn
    <3> QED
      BY <1>2, <2>2, <3>1 DEF ChunkedHandler
  <2> QED
    BY <2>1, <2>2
<1> QED
  BY <1>7, <1>8, <1>9

(* The handler of every route.                                             *)
LEMMA HandlersType ==
  ASSUME NEW Ops, PlainOps \subseteq Ops, NEW u \in BOOLEAN, u => Ops = AllOps,
         NEW t \in [route : Routes, arg : Nat], t.route \notin {"unmatched", "metrics/healthz"}, NEW w
  PROVE  Handlers(t, u, w) \subseteq Seq(Operations(Ops))
<1>1. /\ InfoHandler \subseteq Seq(Operations(Ops))
      /\ VersionHandler \subseteq Seq(Operations(Ops))
      /\ EnvHandler \subseteq Seq(Operations(Ops))
      /\ EchoHeadersHandler \subseteq Seq(Operations(Ops))
      /\ TokenGenerateHandler \subseteq Seq(Operations(Ops))
      /\ TokenValidateHandler \subseteq Seq(Operations(Ops))
      /\ EchoHandler \subseteq Seq(Operations(Ops))
  BY HelpersType DEF InfoHandler, VersionHandler, EnvHandler, EchoHeadersHandler,
     TokenGenerateHandler, TokenValidateHandler, EchoHandler
<1>2. SwaggerJson \subseteq Seq(Operations(Ops))
  <2>1. Do("body") \in Operations(Ops)
    BY DEF Do, Operations, PlainOps
  <2> QED
    BY <2>1 DEF SwaggerJson
<1>3. EchoWsHandler(u, w) \subseteq Seq(Operations(Ops))
  <2>1. CASE u
    <3>1. Do("hijack") \in Operations(Ops) /\ Do("session") \in Operations(Ops)
      BY <2>1 DEF Do, Operations, AllOps
    <3>2. <<Do("hijack"), Do("session")>> \in Seq(Operations(Ops))
      BY <3>1
    <3>3. <<Header(500), Do("body")>> \in Seq(Operations(Ops))
      BY HelpersType
    <3> QED
      BY <2>1, <3>2, <3>3 DEF EchoWsHandler
  <2>2. CASE ~u
    <3>1. <<Header(400), Do("body")>> \in Seq(Operations(Ops))
      BY HelpersType
    <3> QED
      BY <2>2, <3>1 DEF EchoWsHandler
  <2> QED
    BY <2>1, <2>2
<1>4. /\ DelayHandler(t.arg) \subseteq Seq(Operations(Ops))
      /\ ChunkedHandler(t.arg, w) \subseteq Seq(Operations(Ops))
      /\ StatusHandler(t.arg) \subseteq Seq(Operations(Ops))
  BY NumbersType
<1>5. t.route \in {"info", "version", "env", "headers", "swagger.json", "echo", "token",
                   "validate", "delay", "chunked", "status", "ws"}
  BY DEF Routes
<1> QED
  BY <1>1, <1>2, <1>3, <1>4, <1>5 DEF Handlers

(* The middlewares make programs of programs.                              *)
LEMMA ProgramsType ==
  ASSUME NEW Ops, PlainOps \subseteq Ops, NEW u \in BOOLEAN, u => Ops = AllOps,
         NEW t \in [route : Routes, arg : Nat], NEW proto, bounds \in Nat \X Nat
  PROVE  Programs(t, u, proto) \subseteq Seq(Operations(Ops))
<1>1. NotFound \subseteq Seq(Operations(Ops)) /\ MetricsHealthz \subseteq Seq(Operations(Ops))
  BY HelpersType DEF NotFound, MetricsHealthz
<1>2. \A p \in Seq(Operations(Ops)) : PrometheusMiddleware(p) \in Seq(Operations(Ops))
  <2>1. Do("count") \in Operations(Ops)
    BY DEF Do, Operations, PlainOps
  <2>2. <<Do("count")>> \in Seq(Operations(Ops))
    BY <2>1
  <2> QED
    BY <2>2, ConcatProperties DEF PrometheusMiddleware
<1>3. ASSUME NEW p \in Seq(Operations(Ops))
      PROVE  RandomErrorMiddleware(p) \subseteq Seq(Operations(Ops))
  <2> DEFINE S == Seq(Operations(Ops))
  <2>1. \A c \in {500, 400, 409} : <<Header(c)>> \in S
    BY HelpersType
  <2>2. p \in S
    BY <1>3
  <2> HIDE DEF S
  <2>3. RandomErrorMiddleware(p) \subseteq S
    BY <2>1, <2>2 DEF RandomErrorMiddleware
  <2> QED
    BY <2>3 DEF S
<1>4. \A p \in Seq(Operations(Ops)) : RandomDelayMiddleware(p) \subseteq Seq(Operations(Ops))
  <2>1. \A c \in Int : <<Sleep(c)>> \in Seq(Operations(Ops))
    <3>1. \A c \in Int : Sleep(c) \in Operations(Ops)
      BY DEF Sleep, Operations, PlainOps
    <3> QED
      BY <3>1
  <2>2. <<Do("panic")>> \in Seq(Operations(Ops))
    <3>1. Do("panic") \in Operations(Ops)
      BY DEF Do, Operations, PlainOps
    <3> QED
      BY <3>1
  <2>3. \A c \in Int, p \in Seq(Operations(Ops)) : <<Sleep(c)>> \o p \in Seq(Operations(Ops))
    BY <2>1, ConcatProperties
  <2>4. \A k \in Intn(bounds[2] - bounds[1]) :
          (IF RandomDelayUnit = "ms" THEN 0 ELSE k + bounds[1]) \in Int
    BY DEF Intn
  <2> QED
    BY <2>2, <2>3, <2>4 DEF RandomDelayMiddleware
<1>5. ASSUME NEW hs \in SUBSET Seq(Operations(Ops))
      PROVE  Registered(hs) \subseteq Seq(Operations(Ops))
  <2> DEFINE failing == IF RandomError THEN UNION {RandomErrorMiddleware(p) : p \in hs} ELSE hs
             delayed == IF RandomDelay THEN UNION {RandomDelayMiddleware(p) : p \in failing}
                        ELSE failing
  <2>1. failing \subseteq Seq(Operations(Ops))
    BY <1>3
  <2> HIDE DEF failing
  <2>2. delayed \subseteq Seq(Operations(Ops))
    BY <1>4, <2>1
  <2> HIDE DEF delayed
  <2>3. {PrometheusMiddleware(p) : p \in delayed} \subseteq Seq(Operations(Ops))
    BY <1>2, <2>2
  <2> QED
    BY <2>3 DEF Registered, delayed, failing
<1> QED
  BY <1>1, <1>5, HandlersType DEF Programs

-----------------------------------------------------------------------------
(* One request.                                                            *)

Statuses == 100..999
NoneOr(statuses) == {0} \cup statuses
Flags == BOOLEAN
Request(programs) ==
  [stage : Stages, prog : programs, asleep : Nat, age : Nat, header : NoneOr(Statuses),
   wire : Int, hijacked : Flags, code : Int, recorded : Flags, counted : NoneOr(Statuses)]

(* What went out has a status; what is counted is a status.                *)
Sound(q) ==
  /\ q.wire \in -1..q.age
  /\ q.wire >= 0 => q.header # 0
  /\ q.stage = "running" => q.code \in Statuses

(* A handler takes q to p: the response goes out now or it is out, and     *)
(* unless the connection is taken over its status is then final.           *)
Leads(q, p, P) ==
  /\ p \in Request(P) /\ Sound(p)
  /\ p.age = q.age
  /\ p.wire \in {q.wire, q.age}
  /\ p.stage \in {q.stage, "returned", "panicked"}
Settled(q, p) == q.wire >= 0 => p.header = q.header /\ p.wire = q.wire

(* Statuses are numbers, and none of them is the 0 of no status.           *)
LEMMA StatusFacts ==
  /\ 0 \notin Statuses /\ Statuses \subseteq Int /\ Statuses \subseteq NoneOr(Statuses)
  /\ 200 \in Statuses /\ 101 \in Statuses /\ TRUE \in Flags
  /\ {"running", "returned", "panicked"} \subseteq Stages
  /\ \A s \in NoneOr(Statuses) : s # 0 => s \in Statuses
BY DEF Statuses, NoneOr, Flags, Stages

(* The assignments to a request.                                           *)
LEMMA Updates ==
  ASSUME NEW P, NEW p \in Request(P)
  PROVE  /\ p.prog \in P /\ p.asleep \in Nat /\ p.age \in Nat /\ p.wire \in Int
         /\ p.header \in NoneOr(Statuses)
         /\ \A s \in Stages : [p EXCEPT !.stage = s] \in Request(P)
         /\ \A s \in Stages, t \in P : [p EXCEPT !.stage = s, !.prog = t] \in Request(P)
         /\ \A t \in P : [p EXCEPT !.prog = t] \in Request(P)
         /\ \A s \in Nat : [p EXCEPT !.asleep = s] \in Request(P)
         /\ \A s \in NoneOr(Statuses) : /\ [p EXCEPT !.header = s] \in Request(P)
                                       /\ [p EXCEPT !.counted = s] \in Request(P)
         /\ \A w \in Int : [p EXCEPT !.wire = w] \in Request(P)
         /\ \A c \in Int, f \in Flags : [p EXCEPT !.code = c, !.recorded = f] \in Request(P)
         /\ \A s \in NoneOr(Statuses), w \in Int, f \in Flags :
              [p EXCEPT !.header = s, !.wire = w, !.hijacked = f] \in Request(P)
         /\ \A s \in Nat, a \in Nat : [p EXCEPT !.asleep = s, !.age = a] \in Request(P)
BY DEF Request

(* The steps of net/http and of the interceptor.                           *)
LEMMA FinalLeads ==
  ASSUME NEW P, NEW q \in Request(P), NEW p, Leads(q, p, P), Settled(q, p), NEW c \in Statuses
  PROVE  /\ Leads(q, Final(p, c), P) /\ Settled(q, Final(p, c))
         /\ Final(p, c).header # 0 /\ Final(p, c).stage = p.stage
<1>1. p \in Request(P) /\ [p EXCEPT !.header = c] \in Request(P) /\ c # 0
  BY StatusFacts, Updates DEF Leads
<1> QED
  BY <1>1 DEF Final, Sound, Leads, Settled, Request

(* A flush sends the headers that were not sent yet, under 200.            *)
LEMMA FlushedLeads ==
  ASSUME NEW P, NEW q \in Request(P), NEW p, Leads(q, p, P), Settled(q, p)
  PROVE  Leads(q, Flushed(p), P) /\ Settled(q, Flushed(p)) /\ Flushed(p).stage = p.stage
<1> DEFINE f == Final(p, 200)
<1>1. /\ Leads(q, f, P) /\ Settled(q, f) /\ f.header # 0 /\ f.stage = p.stage /\ f.wire = p.wire
  BY FinalLeads, StatusFacts DEF Final, Leads, Request
<1> HIDE DEF f
<1>2. f \in Request(P)
  BY <1>1 DEF Leads
<1>age. f.age \in Nat
  BY <1>2, Updates
<1>3. [f EXCEPT !.wire = f.age] \in Request(P)
  <2>1. \A w \in Int : [f EXCEPT !.wire = w] \in Request(P)
    BY <1>2, Updates, Zenon
  <2> QED
    BY <1>age, <2>1
<1>4. p.age = f.age
  BY <1>1 DEF Leads
<1> QED
  BY <1>1, <1>2, <1>3, <1>4, <1>age DEF Flushed, f, Sound, Leads, Settled, Request

(* A panic ends the request without a count.                               *)
LEMMA PanickedLeads ==
  ASSUME NEW P, <<>> \in P, NEW q \in Request(P), NEW p \in Request(P), Settled(q, p),
         p.wire \in -1..p.age, p.wire >= 0 => p.header # 0, p.age = q.age,
         p.wire \in {q.wire, q.age}
  PROVE  Leads(q, Panicked(p), P) /\ Settled(q, Panicked(p))
<1>1. Panicked(p) \in Request(P)
  BY StatusFacts, Updates DEF Panicked
<1> QED
  BY <1>1 DEF Panicked, Sound, Leads, Settled, Request

(* WriteHeader keeps the first status that is final.                       *)
LEMMA HeaderLeads ==
  ASSUME NEW P, <<>> \in P, NEW q \in Request(P), NEW p, Leads(q, p, P), Settled(q, p),
         NEW c \in Int
  PROVE  Leads(q, WriteHeader(p, c), P) /\ Settled(q, WriteHeader(p, c))
<1> DEFINE r == Recorded(p, c)
<1>1. /\ r \in Request(P) /\ r.age = p.age /\ r.wire = p.wire /\ r.header = p.header
      /\ r.stage = p.stage /\ (r.code = c \/ r.code = p.code)
  <2>1. p \in Request(P) /\ [p EXCEPT !.code = c, !.recorded = TRUE] \in Request(P)
    BY StatusFacts, Updates DEF Leads
  <2> QED
    BY <2>1 DEF Recorded, Request
<1> HIDE DEF r
<1>2. CASE c \notin Statuses
  <2>1. Leads(q, Panicked(r), P) /\ Settled(q, Panicked(r))
    BY <1>1, PanickedLeads DEF Leads, Settled, Sound
  <2> QED
    BY <1>2, <2>1 DEF WriteHeader, r, Statuses
<1>3. CASE c \in Statuses
  <2>1. Leads(q, r, P) /\ Settled(q, r)
    BY <1>1, <1>3 DEF Sound, Leads, Settled
  <2>2. Leads(q, Final(r, c), P) /\ Settled(q, Final(r, c))
    BY <1>3, <2>1, FinalLeads
  <2> QED
    BY <1>3, <2>1, <2>2 DEF WriteHeader, r, Statuses
<1> QED
  BY <1>2, <1>3

(* The other operations of a handler.                                      *)
LEMMA OthersLead ==
  ASSUME NEW P, NEW q \in Request(P), NEW p, Leads(q, p, P), Settled(q, p),
         p.stage = "running", NEW c \in Int
  PROVE  /\ Leads(q, [p EXCEPT !.asleep = Asleep(c)], P)
         /\ Settled(q, [p EXCEPT !.asleep = Asleep(c)])
         /\ Leads(q, Count(p), P) /\ Settled(q, Count(p))
         /\ Leads(q, Hijacked(p), P)
<1>1. /\ p \in Request(P) /\ p.code \in NoneOr(Statuses) /\ p.age \in Nat
      /\ 101 \in NoneOr(Statuses)
  BY StatusFacts, Updates DEF Leads, Sound
<1>fields. /\ [p EXCEPT !.asleep = Asleep(c)] \in Request(P)
           /\ Count(p) \in Request(P)
  BY <1>1, AsleepType, StatusFacts, Updates DEF Count
<1>hijacked. Hijacked(p) \in Request(P)
  <2>1. \A s \in NoneOr(Statuses), w \in Int, f \in Flags :
          [p EXCEPT !.header = s, !.wire = w, !.hijacked = f] \in Request(P)
    BY <1>1, Updates, Zenon
  <2>2. p.age \in Int
    BY <1>1
  <2>3. TRUE \in Flags
    BY DEF Flags
  <2> QED
    BY <1>1, <2>1, <2>2, <2>3 DEF Hijacked
<1>2. /\ Leads(q, [p EXCEPT !.asleep = Asleep(c)], P)
      /\ Settled(q, [p EXCEPT !.asleep = Asleep(c)])
  BY <1>1, <1>fields DEF Sound, Leads, Settled, Request
<1>3. Leads(q, Count(p), P) /\ Settled(q, Count(p))
  BY <1>1, <1>fields DEF Count, Sound, Leads, Settled, Request
<1>4. Leads(q, Hijacked(p), P)
  <2> DEFINE h == Hijacked(p)
  <2>1. /\ h.age = p.age /\ h.wire = p.age /\ h.header = 101
        /\ h.stage = p.stage /\ h.code = p.code
    BY <1>1 DEF Hijacked, Request
  <2> HIDE DEF h
  <2>2. h \in Request(P)
    BY <1>hijacked DEF h
  <2>3. Sound(h)
    BY <1>1, <2>1 DEF Sound, Leads
  <2>4. Leads(q, h, P)
    BY <2>1, <2>2, <2>3 DEF Leads
  <2> QED
    BY <2>4 DEF h
<1> QED
  BY <1>2, <1>3, <1>4

(* The return of the handler sends what it left unsent.                    *)
LEMMA ReturnLeads ==
  ASSUME NEW P, NEW q \in Request(P), NEW p, Leads(q, p, P), Settled(q, p)
  PROVE  /\ Leads(q, [p EXCEPT !.stage = "returned"], P)
         /\ Settled(q, [p EXCEPT !.stage = "returned"])
<1>1. p \in Request(P) /\ [p EXCEPT !.stage = "returned"] \in Request(P)
  BY StatusFacts, Updates DEF Leads
<1> QED
  BY <1>1 DEF Sound, Leads, Settled, Request

(* What is left of a program over Ops.                                     *)
Closed(P, Ops) ==
  /\ <<>> \in P
  /\ \A p \in P : p # <<>> => Head(p) \in Operations(Ops) /\ Tail(p) \in P

(* A step of a handler keeps a request sound and what went out as it is.   *)
LEMMA PerformLeads ==
  ASSUME NEW Ops \in {PlainOps, AllOps}, NEW P, Closed(P, Ops), NEW q \in Request(P), Sound(q),
         q.stage = "running", q.prog # <<>> => Head(q.prog).op # "session"
  PROVE  Leads(q, Perform(q), P) /\ (Ops = PlainOps => Settled(q, Perform(q)))
<1>1. CASE q.prog = <<>>
  <2>1. Leads(q, q, P) /\ Settled(q, q)
    BY DEF Leads, Settled, Sound
  <2>2. Leads(q, Flushed(q), P) /\ Settled(q, Flushed(q)) /\ Flushed(q).stage = "running"
    BY <2>1, FlushedLeads
  <2>3. Leads(q, [q EXCEPT !.stage = "returned"], P) /\ Settled(q, [q EXCEPT !.stage = "returned"])
    BY <2>1, ReturnLeads
  <2>4. /\ Leads(q, [Flushed(q) EXCEPT !.stage = "returned"], P)
        /\ Settled(q, [Flushed(q) EXCEPT !.stage = "returned"])
    BY <2>2, ReturnLeads
  <2> QED
    BY <1>1, <2>3, <2>4 DEF Perform
<1>2. CASE q.prog # <<>>
  <2> DEFINE o == Head(q.prog)
             p == [q EXCEPT !.prog = Tail(q.prog)]
  <2>1. q.prog \in P
    BY DEF Request
  <2>2. o \in Operations(Ops) /\ Tail(q.prog) \in P
    BY <1>2, <2>1 DEF Closed
  <2>3. Leads(q, p, P) /\ Settled(q, p) /\ p.stage = "running" /\ p.wire = q.wire
    <3>1. p \in Request(P)
      BY <2>2, Updates
    <3> QED
      BY <3>1 DEF Request, Sound, Leads, Settled
  <2>4. o.op \in Ops /\ o.arg \in Int /\ o.op # "session"
    BY <1>2, <2>2 DEF Operations
  <2>5. Perform(q) = CASE o.op = "header" -> WriteHeader(p, o.arg)
                       [] o.op = "body" -> Final(p, 200)
                       [] o.op = "flush" -> Flushed(p)
                       [] o.op = "sleep" -> [p EXCEPT !.asleep = Asleep(o.arg)]
                       [] o.op = "hijack" -> Hijacked(p)
                       [] o.op = "count" -> Count(p)
                       [] o.op = "panic" -> Panicked(p)
    BY <1>2 DEF Perform
  <2> HIDE DEF p, o
  <2>6. <<>> \in P
    BY DEF Closed
  <2>7. Leads(q, WriteHeader(p, o.arg), P) /\ Settled(q, WriteHeader(p, o.arg))
    BY <2>3, <2>4, <2>6, HeaderLeads
  <2>8. /\ Leads(q, Final(p, 200), P) /\ Settled(q, Final(p, 200))
        /\ Leads(q, Flushed(p), P) /\ Settled(q, Flushed(p))
    BY <2>3, StatusFacts, FinalLeads, FlushedLeads
  <2>9. Leads(q, Panicked(p), P) /\ Settled(q, Panicked(p))
    BY <2>3, <2>6, PanickedLeads DEF Leads, Sound
  <2>10. /\ Leads(q, [p EXCEPT !.asleep = Asleep(o.arg)], P)
         /\ Settled(q, [p EXCEPT !.asleep = Asleep(o.arg)])
         /\ Leads(q, Count(p), P) /\ Settled(q, Count(p))
         /\ Leads(q, Hijacked(p), P)
    BY <2>3, <2>4, OthersLead
  <2>11. o.op \in PlainOps \/ (Ops # PlainOps /\ o.op = "hijack")
    BY <2>4 DEF AllOps, PlainOps
  <2> QED
    BY <2>5, <2>7, <2>8, <2>9, <2>10, <2>11 DEF PlainOps
<1> QED
  BY <1>1, <1>2

-----------------------------------------------------------------------------
(* The invariant.                                                          *)

Names == IF command = "ws" THEN AllOps ELSE PlainOps
Programmed == Seq(Operations(Names))

Served ==
  /\ bounds \in DelayBounds
  /\ command \in Commands /\ target \in Targets
  /\ req \in [Requests -> Request(Programmed)]
  /\ \A r \in Requests : Sound(req[r])

Checking ==
  /\ at \in {"loop", "sleep", "attempt", "await", "handshake", "over"}
  /\ n \in 0..RetryCount + 1 /\ timer \in Nat /\ spent \in Nat /\ exit \in {-1, 0, 1}
  /\ at \notin {"loop", "over"} => n <= RetryCount
  /\ at = "handshake" => command = "cert"
  /\ exit # -1 => at = "over"
  /\ disturbed \subseteq Requests

(* The websocket client is idle unless podcli ws was called.               *)
Client ==
  /\ main \in {"idle", "dial", "upgrade", "await", "over"}
  /\ console \in {"none", "read", "write", "offer"} /\ reader \in {"none", "read"}
  /\ link \in {"none", "up", "cut", "closed"}
  /\ typed \in 0..MaxLines /\ sent \in 0..typed /\ wsExit \in {-1, 0, 1}
  /\ console = "write" => sent < typed
  /\ echoes \in Seq(Nat) /\ printed \in Seq(Nat) /\ Len(printed) <= Len(echoes)
  /\ command # "ws" => main = "idle" /\ console = "none" /\ reader = "none" /\ link = "none"

(* How often the loop has slept before its first k attempts.               *)
Sleeps(k) == IF k < 2 THEN k ELSE k - 1

(* The time spent, with what a timer may add to it.                        *)
Budget ==
  command \in Retrying =>
    /\ at = "loop" => spent <= n * Timeout + Sleeps(n) * RetryDelay
    /\ at = "sleep" => spent + timer <= n * Timeout + Sleeps(n + 1) * RetryDelay
    /\ at = "attempt" => spent <= n * Timeout + Sleeps(n + 1) * RetryDelay
    /\ at = "await" => spent + timer <= (n + 1) * Timeout + Sleeps(n + 1) * RetryDelay
    /\ at = "over" => spent <= (RetryCount + 1) * Timeout + Sleeps(RetryCount + 1) * RetryDelay

(* An attempt that was given up gets no good answer before its timeout.    *)
GivenUp(q) ==
  /\ q.wire < 0 /\ q.stage = "running" => q.age >= Timeout
  /\ q.wire >= 0 /\ Success(q.header) => q.wire >= Timeout

(* The timeout of an attempt began before its request arrived; where the   *)
(* network takes no time it ends with what the service took.               *)
UnderWay(q, prompt) ==
  /\ q.stage = "running" => q.age + timer <= Timeout
  /\ q.wire >= 0 => q.wire + timer <= Timeout
  /\ prompt => /\ q.stage = "running" => q.age + timer = Timeout
               /\ q.wire >= 0 => q.wire + timer = Timeout

Unsent(q) == q.stage = "none" /\ q.wire < 0

Truth ==
  command = "http" =>
    /\ \A r \in Requests \ disturbed : r < n => GivenUp(req[r])
    /\ \A r \in Requests : r > n \/ (r = n /\ at \in {"loop", "sleep", "attempt"}) => Unsent(req[r])
    /\ at = "await" => /\ timer <= Timeout /\ (req[n].stage = "none" => Unsent(req[n]))
                       /\ n \notin disturbed /\ req[n].stage = "none" => timer = Timeout
                       /\ UnderWay(req[n], n \notin disturbed)
    /\ target.route = "malformed" => at # "await" /\ \A r \in Requests : Unsent(req[r])
    /\ exit = 0 => n <= RetryCount /\ Success(req[n].header) /\ req[n].wire \in 0..Timeout
    /\ exit = 1 /\ target.route # "malformed" => n = RetryCount + 1

Inv == Served /\ Checking /\ Client /\ Budget /\ Truth

-----------------------------------------------------------------------------
(* What the steps do to the requests.                                      *)

(* A program that has run its first operation is a program.                *)
LEMMA ProgrammedClosed == Closed(Programmed, Names)
BY HeadTailProperties, EmptySeq DEF Closed, Programmed

(* Time passes in whole units.                                             *)
LEMMA ElapsePositive ==
  ASSUME Served, Checking, NEW d \in Timers \cup Delays
  PROVE  d \in Nat
<1>1. ASSUME NEW r \in Requests
      PROVE  req[r].asleep \in Nat /\ req[r].age \in Nat
  <2>1. req[r] \in Request(Programmed)
    BY <1>1 DEF Served
  <2> QED
    BY <2>1, Updates
<1>2. ASSUME NEW r \in Requests, ~Late(req[r])
      PROVE  HttpServerTimeout - req[r].age \in Nat
  BY <1>1, <1>2, ServiceAssumption DEF Late
<1> QED
  BY <1>1, <1>2 DEF Timers, Delays, ServiceTimers, Running, Checking

(* What a check asks for, and what podcli ws does.                         *)
Asked(p) ==
  \/ target.route # "malformed" /\ \E proto : p \in Programs(target, FALSE, proto)
  \/ command = "ws" /\ \E proto : p \in Programs(Target("ws", 0), TRUE, proto)

(* The ways in which requests change.                                      *)
LEMMA RequestStep ==
  ASSUME Inv, [Next]_vars
  PROVE  /\ bounds' = bounds /\ command' = command /\ target' = target
         /\ \/ req' = req
            \/ \E r \in Requests, p \in Programmed : Asked(p) /\ Accept(r, p)
            \/ \E r \in Requests : ServiceStep(r)
            \/ command = "ws" /\ EndSession(Handshake)
            \/ \E d \in Nat : Aged(d)
<1> USE DEF serviceVars, checkVars, wsVars
<1>1. /\ bounds \in Nat \X Nat
      /\ target.route # "malformed" => target \in [route : Routes, arg : Nat]
  BY PodCliAssumption, CheckAssumption DEF Inv, Served
<1>2. CASE Arrive
  <2>1. /\ n \in Requests /\ Names = PlainOps /\ target.route # "malformed"
        /\ UNCHANGED checkVars
    BY <1>2, PodCliAssumption DEF Arrive, Awaiting, Names, Inv, Checking, Truth
  <2>2. \A proto : Programs(target, FALSE, proto) \subseteq Programmed
    BY <1>1, <2>1, ProgramsType DEF Programmed
  <2> QED
    BY <1>2, <2>1, <2>2 DEF Arrive, Accept, Asked
<1>3. CASE Dial /\ UNCHANGED checkVars
  <2>1. command = "ws"
    BY <1>3 DEF Dial, Inv, Client
  <2>2. Names = AllOps /\ PlainOps \subseteq AllOps
    BY <2>1 DEF Names, AllOps
  <2>3. Target("ws", 0) \in [route : Routes, arg : Nat]
    BY DEF Target, Routes
  <2>4. Programs(Target("ws", 0), TRUE, "h1") \subseteq Programmed
    BY <1>1, <2>2, <2>3, ProgramsType DEF Programmed
  <2> QED
    BY <1>3, <2>1, <2>4, ClientAssumption DEF Dial, Accept, End, Asked
<1>4. CASE Elapse
  <2>1. PICK d \in Timers \cup Delays : Aged(d)
    BY <1>4 DEF Elapse
  <2>2. d \in Nat
    BY ElapsePositive DEF Inv
  <2> QED
    BY <1>4, <2>1, <2>2 DEF Elapse
<1>5. CASE SessionEnds /\ UNCHANGED checkVars
  BY <1>5 DEF SessionEnds, Inv, Client, EndSession
<1>6. CASE Serve
  BY <1>6 DEF Serve, ServiceStep
<1>7. CASE CheckStep /\ ~Arrive
  BY <1>7 DEF CheckStep, RunCheck, DoRequest, Loop, Wake, Response, NoResponse, RunCheckTCP, RunCheckgPRC,
     RunCheckCert, HealthAnswers, Exit, Continue, Move
<1>8. CASE WsStep /\ ~Dial /\ ~SessionEnds /\ UNCHANGED checkVars
  BY <1>8 DEF WsStep, Main, Connected, NoConsole, BadHandshake, ReturnError, Readline,
     WriteMessage, ReadReply, ReadFails, ServerEchoes, LinkCut
<1>9. CASE UNCHANGED vars
  BY <1>9 DEF vars
<1> QED
  BY <1>2, <1>3, <1>4, <1>5, <1>6, <1>7, <1>8, <1>9 DEF Next

(* The requests stay sound.                                                *)
LEMMA ServedStep ==
  ASSUME Inv, [Next]_vars
  PROVE  Served'
<1>1. bounds' = bounds /\ command' = command /\ target' = target
  BY RequestStep
<1>2. Names' = Names /\ Programmed' = Programmed
  BY <1>1 DEF Names, Programmed
<1> SUFFICES /\ req' \in [Requests -> Request(Programmed)]
             /\ \A r \in Requests : Sound(req'[r])
  BY <1>1, <1>2 DEF Inv, Served
<1>3. /\ req \in [Requests -> Request(Programmed)]
      /\ \A r \in Requests : Sound(req[r])
  BY DEF Inv, Served
<1>4. ASSUME NEW r \in Requests, NEW q \in Request(Programmed), Sound(q),
             req' = [req EXCEPT ![r] = q]
      PROVE  /\ req' \in [Requests -> Request(Programmed)]
             /\ \A x \in Requests : Sound(req'[x])
  BY <1>3, <1>4
<1>5. ASSUME NEW r \in Requests, NEW p \in Programmed, Accept(r, p)
      PROVE  /\ req' \in [Requests -> Request(Programmed)]
             /\ \A x \in Requests : Sound(req'[x])
  <2>1. Accepted(p) \in Request(Programmed) /\ Sound(Accepted(p))
    BY StatusFacts DEF Accepted, Interceptor, Request, Sound, Flags, NoneOr
  <2> QED
    BY <1>4, <1>5, <2>1 DEF Accept
<1>6. ASSUME NEW r \in Requests, ServiceStep(r)
      PROVE  /\ req' \in [Requests -> Request(Programmed)]
             /\ \A x \in Requests : Sound(req'[x])
  <2>1. req[r].stage = "running" /\ (req[r].prog # <<>> => Head(req[r].prog).op # "session")
    BY <1>6 DEF ServiceStep, Ready, InSession
  <2>2. Names \in {PlainOps, AllOps}
    BY DEF Names
  <2>3. Leads(req[r], Perform(req[r]), Programmed)
    BY <1>3, <2>1, <2>2, PerformLeads, ProgrammedClosed
  <2> QED
    BY <1>4, <1>6, <2>3 DEF ServiceStep, Leads
<1>7. ASSUME command = "ws", EndSession(Handshake)
      PROVE  /\ req' \in [Requests -> Request(Programmed)]
             /\ \A x \in Requests : Sound(req'[x])
  <2> DEFINE q == req[Handshake]
             p == [q EXCEPT !.prog = Tail(@)]
  <2>1. q \in Request(Programmed) /\ Sound(q) /\ q.prog \in Programmed /\ q.prog # <<>>
    BY <1>3, <1>7, ClientAssumption, Updates DEF EndSession, InSession
  <2>2. Tail(q.prog) \in Programmed
    BY <2>1, ProgrammedClosed DEF Closed
  <2>3. p \in Request(Programmed)
    BY <2>1, <2>2, Updates
  <2>4. Sound(p)
    BY <2>1, <2>2 DEF Sound, Request
  <2> QED
    BY <1>4, <1>7, <2>3, <2>4, ClientAssumption DEF EndSession
<1>8. ASSUME NEW d \in Nat, Aged(d)
      PROVE  /\ req' \in [Requests -> Request(Programmed)]
             /\ \A x \in Requests : Sound(req'[x])
  <2> SUFFICES ASSUME NEW r \in Requests
               PROVE  req'[r] \in Request(Programmed) /\ Sound(req'[r])
    BY <1>8 DEF Aged
  <2> DEFINE q == req[r]
             p == [q EXCEPT !.asleep = Dropped(q.asleep, d), !.age = q.age + d]
  <2>1. q \in Request(Programmed) /\ Sound(q)
    BY <1>3
  <2>2. Dropped(q.asleep, d) \in Nat /\ q.age + d \in Nat
    <3>1. q.asleep \in Nat /\ q.age \in Nat
      BY <2>1, Updates
    <3> HIDE DEF q
    <3> QED
      BY <3>1 DEF Dropped
  <2>3. p \in Request(Programmed)
    BY <2>1, <2>2, Updates
  <2>4. Sound(p)
    BY <2>1, <2>2 DEF Sound, Request
  <2>5. req'[r] \in {q, p}
    BY <1>8 DEF Aged
  <2> QED
    BY <2>1, <2>3, <2>4, <2>5
<1> QED
  BY <1>3, <1>5, <1>6, <1>7, <1>8, RequestStep

-----------------------------------------------------------------------------
(* What the steps do to the check.                                         *)

(* Each step of a check, and what it leaves alone.                         *)
LEMMA CheckFrame ==
  ASSUME [Next]_vars
  PROVE  \/ UNCHANGED checkVars
         \/ Loop \/ Wake \/ DoRequest \/ Response \/ NoResponse
         \/ RunCheckTCP \/ RunCheckgPRC \/ RunCheckCert \/ Elapse
BY DEF Next, CheckStep, RunCheck, Arrive, Serve, vars

(* What the program does with an address: it rejects it, or asks there.    *)
Rejected ==
  /\ target.route = "malformed"
  /\ at' = "over" /\ exit' = 1 /\ timer' = 0
  /\ n' = n /\ spent' = spent /\ command' = command /\ disturbed' = disturbed

Requested ==
  /\ target.route # "malformed"
  /\ at' = "await" /\ timer' = Timeout
  /\ n' = n /\ spent' = spent /\ command' = command /\ exit' = exit
  /\ disturbed \subseteq disturbed' /\ disturbed' \subseteq disturbed \cup {n}

LEMMA DoRequestFrame ==
  ASSUME DoRequest
  PROVE  at = "attempt" /\ command = "http" /\ req' = req /\ (Rejected \/ Requested)
<1>1. at = "attempt" /\ command = "http" /\ req' = req
  BY DEF DoRequest, serviceVars
<1>2. CASE target.route = "malformed"
  BY <1>1, <1>2 DEF DoRequest, Exit, Rejected
<1>3. CASE target.route # "malformed"
  BY <1>1, <1>3 DEF DoRequest, Requested
<1> QED
  BY <1>1, <1>2, <1>3

(* A timer that runs shortens by the time that passes.                     *)
LEMMA ElapseTimer ==
  ASSUME Served, Checking, Elapse
  PROVE  /\ timer' \in Nat /\ spent' \in Nat
         /\ at = "over" => spent' = spent
         /\ timer > 0 /\ at # "over" => spent' + timer' = spent + timer
         /\ \E d \in Nat : Aged(d) /\ (timer > 0 => d + timer' = timer)
<1>1. PICK d \in Timers \cup Delays :
        /\ \A t \in Timers : d <= t
        /\ Aged(d)
        /\ timer' = Dropped(timer, d)
        /\ spent' = IF at = "over" THEN spent ELSE spent + d
  BY DEF Elapse
<1>2. d \in Nat
  BY ElapsePositive
<1>3. timer \in Nat /\ spent \in Nat /\ (timer > 0 => d <= timer)
  BY <1>1 DEF Timers, Checking
<1>4. timer' \in Nat /\ (timer > 0 => d + timer' = timer)
  BY <1>1, <1>2, <1>3 DEF Dropped
<1>5. spent' \in Nat
  BY <1>1, <1>2, <1>3
<1>6. timer > 0 /\ at # "over" => spent' + timer' = spent + timer
  BY <1>1, <1>2, <1>3, <1>4
<1> QED
  BY <1>1, <1>2, <1>4, <1>5, <1>6

(* The time that passes goes from the timer to the age.                    *)
Shortens(d, before, after, limit) ==
  /\ before <= limit => after <= limit
  /\ \A x \in Int : /\ x + before <= limit => x + after <= limit
                    /\ x + before <= limit => (x + d) + after <= limit
                    /\ x + before = limit => (x + d) + after = limit

LEMMA Shortened ==
  ASSUME NEW d \in Nat, NEW before \in Nat, NEW after \in Nat, NEW limit \in Nat,
         d + after = before
  PROVE  Shortens(d, before, after, limit)
BY DEF Shortens

(* The loop counts to RetryCount + 1, and an exit code ends it.            *)
LEMMA CheckingStep ==
  ASSUME Inv, [Next]_vars
  PROVE  Checking'
<1> USE CheckAssumption
<1>1. CASE UNCHANGED checkVars
  BY <1>1 DEF checkVars, Inv, Checking
<1>2. CASE Loop
  BY <1>2 DEF Loop, Exit, Continue, Move, Inv, Checking
<1>3. CASE Wake
  BY <1>3 DEF Wake, Exit, Continue, Move, Inv, Checking
<1>4. CASE DoRequest
  <2>1. at = "attempt" /\ command = "http"
    BY <1>4, DoRequestFrame
  <2>2. n \in Requests
    BY <2>1, PodCliAssumption DEF Inv, Checking
  <2>3. CASE Rejected
    BY <2>3 DEF Rejected, Inv, Checking
  <2>4. CASE Requested
    BY <2>1, <2>2, <2>4 DEF Requested, Inv, Checking
  <2> QED
    BY <1>4, <2>3, <2>4, DoRequestFrame
<1>5. CASE Response \/ NoResponse
  <2>1. at = "await" /\ command = "http" /\ (Exit(0) \/ Continue)
    BY <1>5 DEF Response, NoResponse, Awaiting
  <2> QED
    BY <2>1 DEF Exit, Continue, Inv, Checking
<1>6. CASE RunCheckTCP
  BY <1>6 DEF RunCheckTCP, Exit, Continue, Move, Inv, Checking
<1>7. CASE RunCheckgPRC
  <2>1. Move("await", Timeout) \/ Exit(1) \/ Exit(0) \/ Continue
    BY <1>7 DEF RunCheckgPRC, HealthAnswers
  <2>2. command = "grpc" /\ at \in {"attempt", "await"}
    BY <1>7 DEF RunCheckgPRC
  <2> QED
    BY <2>1, <2>2 DEF Exit, Continue, Move, Inv, Checking
<1>8. CASE RunCheckCert
  <2>1. \/ Move("await", 5) \/ Move("handshake", 0)
        \/ Exit(1)
        \/ \E expired \in BOOLEAN : Exit(IF expired THEN 1 ELSE 0)
    BY <1>8, Zenon DEF RunCheckCert
  <2>2. (\E expired \in BOOLEAN : Exit(IF expired THEN 1 ELSE 0)) => Exit(1) \/ Exit(0)
    BY Zenon DEF Exit
  <2>3. command = "cert" /\ at \in {"attempt", "await", "handshake"}
    BY <1>8 DEF RunCheckCert
  <2> QED
    BY <2>1, <2>2, <2>3 DEF Exit, Move, Inv, Checking
<1>9. CASE Elapse
  <2>1. timer' \in Nat /\ spent' \in Nat
    BY <1>9, ElapseTimer DEF Inv
  <2>2. command' = command /\ at' = at /\ n' = n /\ exit' = exit /\ disturbed' = disturbed
    BY <1>9 DEF Elapse
  <2> QED
    BY <2>1, <2>2 DEF Inv, Checking
<1> QED
  BY <1>1, <1>2, <1>3, <1>4, <1>5, <1>6, <1>7, <1>8, <1>9, CheckFrame

(* A line is sent after it was typed, a reply is printed after it was sent.*)
LEMMA ClientStep ==
  ASSUME Inv, [Next]_vars
  PROVE  Client'
<1> USE ClientAssumption DEF End
<1>1. command' = command
  BY RequestStep
<1>2. CASE UNCHANGED wsVars
  BY <1>1, <1>2 DEF wsVars, Inv, Client
<1>3. CASE Main
  <2>1. main # "idle"
    BY <1>3 DEF Main, Dial, Connected, NoConsole, BadHandshake, ReturnError
  <2> QED
    BY <1>1, <1>3, <2>1 DEF Main, Dial, Connected, NoConsole, BadHandshake, ReturnError, Inv, Client
<1>7. CASE Readline
  BY <1>1, <1>7 DEF Readline, Inv, Client
<1>8. CASE ReadFails
  BY <1>1, <1>8 DEF ReadFails, Inv, Client
<1>9. CASE LinkCut
  BY <1>1, <1>9 DEF LinkCut, Inv, Client
<1>4. CASE WriteMessage
  BY <1>1, <1>4 DEF WriteMessage, Server!Send, Inv, Client
<1>5. CASE ReadReply
  BY <1>1, <1>5 DEF ReadReply, Inv, Client
<1>6. CASE ServerEchoes
  BY <1>1, <1>6 DEF ServerEchoes, Server!Echo, Inv, Client
<1> QED
  BY <1>2, <1>3, <1>4, <1>5, <1>6, <1>7, <1>8, <1>9 DEF Next, WsStep, SessionEnds, Serve, vars

-----------------------------------------------------------------------------
(* The time a check takes.                                                 *)

(* Multiples of a time are times.                                          *)
LEMMA Products ==
  ASSUME NEW a \in Nat, NEW b \in Nat, NEW c \in Nat, a <= b
  PROVE  a * c <= b * c
<1>1. b = a + (b - a) /\ b - a \in Nat
  OBVIOUS
<1>2. (b - a) * c >= 0 /\ a * c + (b - a) * c = b * c
  BY <1>1
<1> QED
  BY <1>2

(* The first k attempts fit into the time of all.                          *)
LEMMA WithinAll ==
  ASSUME NEW k \in 0..RetryCount + 1, NEW j \in 0..RetryCount + 1
  PROVE  /\ k * Timeout \in Nat /\ Sleeps(j) * RetryDelay \in Nat
         /\ k * Timeout <= (RetryCount + 1) * Timeout
         /\ Sleeps(j) * RetryDelay <= Sleeps(RetryCount + 1) * RetryDelay
<1>1. k * Timeout <= (RetryCount + 1) * Timeout
  BY Products, CheckAssumption
<1>2. Sleeps(j) \in Nat /\ Sleeps(RetryCount + 1) \in Nat /\ Sleeps(j) <= Sleeps(RetryCount + 1)
  BY CheckAssumption DEF Sleeps
<1>3. Sleeps(j) * RetryDelay <= Sleeps(RetryCount + 1) * RetryDelay
  BY <1>2, Products, CheckAssumption
<1>4. Sleeps(j) * RetryDelay \in Nat
  BY <1>2, CheckAssumption
<1>5. k * Timeout \in Nat
  BY CheckAssumption
<1> QED
  BY <1>1, <1>3, <1>4, <1>5

(* One more attempt, and one more sleep unless it is the second.           *)
LEMMA OneMore ==
  ASSUME NEW k \in Nat
  PROVE  /\ (k + 1) * Timeout = k * Timeout + Timeout
         /\ Sleeps(k + 1) = IF k = 1 THEN Sleeps(k) ELSE Sleeps(k) + 1
         /\ (Sleeps(k) + 1) * RetryDelay = Sleeps(k) * RetryDelay + RetryDelay
<1>1. Sleeps(k) \in Nat
  BY DEF Sleeps
<1> QED
  BY <1>1, CheckAssumption DEF Sleeps

(* An attempt and a sleep spend what their timer gives them.               *)
LEMMA BudgetStep ==
  ASSUME Inv, [Next]_vars
  PROVE  Budget'
<1> SUFFICES ASSUME command \in Retrying, command' = command
             PROVE  Budget'
  BY RequestStep DEF Budget
<1> DEFINE All == (RetryCount + 1) * Timeout + Sleeps(RetryCount + 1) * RetryDelay
           Done(k) == k * Timeout
           Slept(k) == Sleeps(k) * RetryDelay
<1>1. /\ at = "loop" => spent <= Done(n) + Slept(n)
      /\ at = "sleep" => spent + timer <= Done(n) + Slept(n + 1)
      /\ at = "attempt" => spent <= Done(n) + Slept(n + 1)
      /\ at = "await" => spent + timer <= Done(n + 1) + Slept(n + 1)
      /\ at = "over" => spent <= All
  BY DEF Inv, Budget
<1>2. /\ n \in 0..RetryCount + 1 /\ timer \in Nat /\ spent \in Nat
      /\ at \notin {"loop", "over"} => n <= RetryCount
      /\ at \in {"loop", "sleep", "attempt", "await", "over"}
  BY DEF Inv, Checking, Retrying
<1>3. /\ Done(n) \in Nat /\ Slept(n) \in Nat /\ Done(n) + Slept(n) <= All /\ All \in Nat
      /\ n <= RetryCount => /\ Done(n + 1) \in Nat /\ Slept(n + 1) \in Nat
                           /\ Done(n + 1) + Slept(n + 1) <= All
  <2>1. /\ Done(n) \in Nat /\ Slept(n) \in Nat
        /\ Done(n) <= Done(RetryCount + 1) /\ Slept(n) <= Slept(RetryCount + 1)
        /\ Done(RetryCount + 1) \in Nat /\ Slept(RetryCount + 1) \in Nat
    BY <1>2, WithinAll, CheckAssumption
  <2>2. n <= RetryCount => /\ Done(n + 1) \in Nat /\ Slept(n + 1) \in Nat
                           /\ Done(n + 1) <= Done(RetryCount + 1)
                           /\ Slept(n + 1) <= Slept(RetryCount + 1)
    BY <1>2, WithinAll, CheckAssumption
  <2>3. All = Done(RetryCount + 1) + Slept(RetryCount + 1)
    OBVIOUS
  <2> HIDE DEF Done, Slept, All
  <2> QED
    BY <2>1, <2>2, <2>3
<1>4. /\ Done(n + 1) = Done(n) + Timeout
      /\ n = 1 => Slept(n + 1) = Slept(n)
      /\ n # 1 => Slept(n + 1) = Slept(n) + RetryDelay
  BY <1>2, OneMore, CheckAssumption
<1> SUFFICES /\ at' = "loop" => spent' <= Done(n') + Slept(n')
             /\ at' = "sleep" => spent' + timer' <= Done(n') + Slept(n' + 1)
             /\ at' = "attempt" => spent' <= Done(n') + Slept(n' + 1)
             /\ at' = "await" => spent' + timer' <= Done(n' + 1) + Slept(n' + 1)
             /\ at' = "over" => spent' <= All
  BY DEF Budget, Sleeps
<1> HIDE DEF Done, Slept, All
<1> USE CheckAssumption
<1>5. CASE UNCHANGED checkVars
  BY <1>1, <1>5 DEF checkVars
<1>6. CASE Loop
  BY <1>1, <1>2, <1>3, <1>4, <1>6 DEF Loop, Exit, Move
<1>7. CASE Wake
  BY <1>1, <1>2, <1>3, <1>7 DEF Wake, Move
<1>8. CASE at = "attempt" /\ (Move("await", Timeout) \/ Continue)
  BY <1>1, <1>2, <1>3, <1>4, <1>8 DEF Move, Continue
<1>request. CASE DoRequest
  <2>1. at = "attempt" /\ (Rejected \/ Requested)
    BY <1>request, DoRequestFrame
  <2>2. CASE Rejected
    <3>1. at' = "over" /\ spent' = spent
      BY <2>2 DEF Rejected
    <3>2. /\ spent <= Done(n) + Slept(n + 1) /\ n <= RetryCount
          /\ Done(n + 1) = Done(n) + Timeout
      BY <1>1, <1>2, <1>4, <2>1
    <3>3. /\ Done(n) \in Nat /\ Slept(n + 1) \in Nat /\ Timeout \in Nat /\ spent \in Nat
          /\ Done(n + 1) + Slept(n + 1) <= All /\ All \in Nat
      BY <1>2, <1>3, <3>2
    <3>4. spent <= All
      BY <3>2, <3>3
    <3>5. at' = "over" /\ spent' <= All
      BY <3>1, <3>4
    <3> QED
      BY <3>5
  <2>3. CASE Requested
    <3>1. at' = "await" /\ timer' = Timeout /\ n' = n /\ spent' = spent
      BY <2>3 DEF Requested
    <3>2. /\ spent <= Done(n) + Slept(n + 1) /\ n <= RetryCount
          /\ Done(n + 1) = Done(n) + Timeout
      BY <1>1, <1>2, <1>4, <2>1
    <3>3. Done(n) \in Nat /\ Slept(n + 1) \in Nat /\ Timeout \in Nat /\ spent \in Nat
      BY <1>2, <1>3, <3>2
    <3>4. spent + Timeout <= Done(n + 1) + Slept(n + 1)
      BY <3>2, <3>3
    <3>5. spent' + timer' <= Done(n' + 1) + Slept(n' + 1)
      BY <3>1, <3>4
    <3>6. at' = "await"
      BY <3>1
    <3> QED
      BY <3>5, <3>6
  <2> QED
    BY <2>1, <2>2, <2>3
<1>9. CASE at = "await" /\ (Exit(0) \/ Exit(1) \/ Continue)
  BY <1>1, <1>2, <1>3, <1>4, <1>9 DEF Exit, Continue
<1>10. CASE Response \/ NoResponse \/ RunCheckTCP \/ RunCheckgPRC
  <2>1. \/ at = "attempt" /\ (Move("await", Timeout) \/ Continue)
        \/ at = "await" /\ (Exit(0) \/ Exit(1) \/ Continue)
    BY <1>10 DEF Response, NoResponse, Awaiting, RunCheckTCP, RunCheckgPRC, HealthAnswers
  <2> QED
    BY <1>8, <1>9, <2>1
<1>11. ~RunCheckCert
  BY DEF RunCheckCert, Retrying
<1>12. CASE Elapse
  <2>1. /\ at = "over" => spent' = spent
        /\ timer > 0 /\ at # "over" => spent' + timer' = spent + timer
    BY <1>12, ElapseTimer DEF Inv
  <2>2. at' = at /\ n' = n
    BY <1>12 DEF Elapse
  <2>3. at = "over" \/ (at \in {"sleep", "await"} /\ timer > 0)
    BY <1>2, <1>12 DEF Elapse, Waiting
  <2> QED
    BY <1>1, <2>1, <2>2, <2>3
<1> QED
  BY <1>5, <1>6, <1>7, <1>request, <1>10, <1>11, <1>12, CheckFrame

-----------------------------------------------------------------------------
(* What an exit code of check http says.                                   *)

(* An attempt that was given up stays without a good answer in time.       *)
LEMMA TruthStep ==
  ASSUME Inv, [Next]_vars
  PROVE  Truth'
<1>0. bounds' = bounds /\ command' = command /\ target' = target
  BY RequestStep
<1> SUFFICES ASSUME command = "http", command' = "http"
             PROVE  Truth'
  BY <1>0 DEF Truth
<1>1. /\ \A r \in Requests \ disturbed : r < n => GivenUp(req[r])
      /\ \A r \in Requests : r > n \/ (r = n /\ at \in {"loop", "sleep", "attempt"}) => Unsent(req[r])
      /\ at = "await" => /\ timer <= Timeout /\ (req[n].stage = "none" => Unsent(req[n]))
                         /\ n \notin disturbed /\ req[n].stage = "none" => timer = Timeout
                         /\ UnderWay(req[n], n \notin disturbed)
      /\ target.route = "malformed" => at # "await" /\ \A r \in Requests : Unsent(req[r])
      /\ exit = 0 => n <= RetryCount /\ Success(req[n].header) /\ req[n].wire \in 0..Timeout
      /\ exit = 1 /\ target.route # "malformed" => n = RetryCount + 1
  BY DEF Inv, Truth
<1>2. /\ n \in 0..RetryCount + 1 /\ timer \in Nat /\ (exit # -1 => at = "over")
      /\ at \notin {"loop", "over"} => n <= RetryCount
      /\ Requests = 0..RetryCount /\ RetryCount \in Nat /\ Timeout \in Nat
  BY PodCliAssumption, CheckAssumption DEF Inv, Checking
<1>3. /\ req \in [Requests -> Request(Programmed)]
      /\ \A r \in Requests : /\ req[r] \in Request(Programmed) /\ Sound(req[r])
                             /\ req[r].age \in Nat /\ req[r].wire \in -1..req[r].age
  <2>1. /\ req \in [Requests -> Request(Programmed)]
        /\ \A r \in Requests : req[r] \in Request(Programmed) /\ Sound(req[r])
    BY DEF Inv, Served
  <2>2. \A r \in Requests : req[r].age \in Nat
    BY <2>1, Updates
  <2> QED
    BY <2>1, <2>2 DEF Sound
<1>4. CASE UNCHANGED <<serviceVars, checkVars>>
  BY <1>1, <1>4 DEF serviceVars, checkVars, Truth, UnderWay
<1>5. CASE Loop \/ Wake
  <2>1. /\ req' = req /\ n' = n /\ at' \in {"over", "sleep", "attempt"} /\ at \in {"loop", "sleep"}
        /\ disturbed' = disturbed
    BY <1>5 DEF Loop, Wake, serviceVars, Exit, Move
  <2>2. exit = -1 /\ (exit' = -1 \/ (exit' = 1 /\ n = RetryCount + 1))
    BY <1>2, <1>5, <2>1 DEF Loop, Wake, Exit, Move, Inv, Checking
  <2>3. exit' # 0 /\ (exit' = 1 => n = RetryCount + 1) /\ at' # "await"
    BY <2>1, <2>2
  <2>4. at' \in {"loop", "sleep", "attempt"} => at \in {"loop", "sleep", "attempt"}
    BY <2>1
  <2> QED
    BY <1>0, <1>1, <2>1, <2>3, <2>4 DEF Truth
<1>6. ASSUME Continue, req' = req, at = "await", n \in disturbed \/ GivenUp(req[n])
      PROVE  Truth'
  <2>1. n \in Requests /\ target.route # "malformed"
    BY <1>1, <1>2, <1>6
  <2> QED
    BY <1>0, <1>1, <1>2, <1>6, <2>1 DEF Continue, Truth
<1>7. CASE DoRequest
  <2>1. at = "attempt" /\ n \in Requests /\ req' = req /\ Unsent(req[n]) /\ exit = -1
    BY <1>1, <1>2, <1>7, DoRequestFrame DEF Inv, Checking
  <2>2. CASE Rejected
    <3>1. at' = "over" /\ n' = n /\ exit' = 1 /\ disturbed' = disturbed
          /\ target.route = "malformed"
      BY <2>2 DEF Rejected
    <3> QED
      BY <1>0, <1>1, <1>2, <2>1, <3>1 DEF Truth
  <2>3. CASE Requested
    <3>1. /\ at' = "await" /\ timer' = Timeout /\ n' = n /\ exit' = exit
          /\ disturbed \subseteq disturbed' /\ target.route # "malformed"
      BY <2>3 DEF Requested
    <3>2. UnderWay(req[n], n \notin disturbed)'
      BY <1>2, <1>3, <2>1, <3>1 DEF UnderWay, Unsent
    <3>3. /\ \A r \in Requests \ disturbed' : r < n => GivenUp(req[r])
          /\ \A r \in Requests : r > n => Unsent(req[r])
      BY <1>1, <3>1
    <3> QED
      BY <1>0, <1>1, <1>2, <2>1, <3>1, <3>2, <3>3 DEF Truth
  <2> QED
    BY <1>7, <2>2, <2>3, DoRequestFrame
<1>arrive. CASE Arrive
  <2>1. PICK p : req' = [req EXCEPT ![n] = Accepted(p)]
    BY <1>arrive DEF Arrive, Accept
  <2>2. at = "await" /\ n \in Requests /\ req[n].stage = "none" /\ target.route # "malformed"
    BY <1>1, <1>2, <1>arrive DEF Arrive, Awaiting
  <2>3. /\ req'[n].age = 0 /\ req'[n].wire = -1 /\ req'[n].stage = "running"
        /\ \A r \in Requests : r # n => req'[r] = req[r]
    BY <1>3, <2>1, <2>2 DEF Accepted
  <2>4. /\ n' = n /\ at' = at /\ timer' = timer /\ exit' = exit /\ exit = -1
        /\ disturbed' = disturbed
    BY <1>2, <1>arrive, <2>2 DEF Arrive, checkVars, Inv, Checking
  <2>5. UnderWay(req[n], n \notin disturbed)'
    BY <1>1, <1>2, <2>2, <2>3, <2>4 DEF UnderWay
  <2> QED
    BY <1>0, <1>1, <1>2, <2>2, <2>3, <2>4, <2>5 DEF Truth
<1>8. CASE Response \/ NoResponse
  <2>1. /\ at = "await" /\ n \in Requests /\ UnderWay(req[n], n \notin disturbed) /\ req' = req
        /\ req[n].age \in Nat /\ req[n].wire \in Int /\ target.route # "malformed"
        /\ n \notin disturbed /\ req[n].stage = "none" => timer = Timeout /\ req[n].wire < 0
    BY <1>1, <1>2, <1>3, <1>8 DEF Response, NoResponse, Awaiting, serviceVars, Unsent
  <2>2. CASE Response /\ Exit(0)
    <3>1. Success(req[n].header) /\ req[n].wire \in 0..Timeout
      BY <1>2, <2>1, <2>2 DEF Response, UnderWay, Exit, Continue
    <3> QED
      BY <1>0, <1>1, <1>2, <2>1, <2>2, <3>1 DEF Exit, Truth
  <2>3. CASE Continue
    <3>1. n \in disturbed \/ GivenUp(req[n])
      BY <1>2, <1>8, <2>1, <2>3
      DEF Response, NoResponse, Unanswered, UnderWay, GivenUp, Exit, Continue
    <3> QED
      BY <1>6, <2>1, <2>3, <3>1
  <2> QED
    BY <1>8, <2>2, <2>3 DEF Response, NoResponse
<1>9. ASSUME NEW r \in Requests, ServiceStep(r), UNCHANGED checkVars
      PROVE  Truth'
  <2> DEFINE q == req[r]
             p == Perform(req[r])
  <2>1. Leads(q, p, Programmed) /\ Settled(q, p) /\ q.stage = "running"
    <3>1. q.stage = "running" /\ (q.prog # <<>> => Head(q.prog).op # "session")
      BY <1>9 DEF ServiceStep, Ready, InSession
    <3>2. Names = PlainOps
      BY DEF Names
    <3> QED
      BY <1>3, <3>1, <3>2, PerformLeads, ProgrammedClosed
  <2>2. /\ req'[r] = p
        /\ \A s \in Requests : s # r => req'[s] = req[s]
    BY <1>3, <1>9 DEF ServiceStep
  <2>3. /\ q.age \in Nat /\ q.wire \in Int /\ p.age = q.age /\ p.wire \in {q.wire, q.age}
        /\ q.wire >= 0 => p.wire = q.wire /\ p.header = q.header
    BY <1>3, <2>1 DEF Leads, Settled
  <2>stage. p.stage # "none"
    BY <2>1 DEF Leads
  <2> HIDE DEF p
  <2>4. GivenUp(q) => GivenUp(p)
    BY <1>2, <2>1, <2>3 DEF GivenUp
  <2>5. \A prompt \in BOOLEAN : UnderWay(q, prompt) => UnderWay(p, prompt)
    BY <1>2, <2>1, <2>3 DEF UnderWay
  <2>6. at' = at /\ n' = n /\ timer' = timer /\ exit' = exit /\ disturbed' = disturbed
    BY <1>9 DEF checkVars
  <2>7. \A s \in Requests : GivenUp(req[s]) => GivenUp(req'[s])
    BY <2>2, <2>4
  <2>8. at = "await" => UnderWay(req[n], n \notin disturbed)'
    <3>1. at = "await" /\ r = n => UnderWay(p, n \notin disturbed)
      BY <1>1, <2>5
    <3> QED
      BY <1>1, <1>2, <2>2, <2>6, <3>1 DEF UnderWay
  <2>9. exit = 0 => Success(req'[n].header) /\ req'[n].wire \in 0..Timeout
    BY <1>1, <1>2, <2>2, <2>3
  <2>10. \A s \in Requests : Unsent(req[s]) => Unsent(req'[s])
    BY <2>1, <2>2 DEF Unsent
  <2>11. at = "await" /\ req'[n].stage = "none" => req'[n] = req[n]
    BY <1>1, <1>2, <2>2, <2>stage
  <2>12. at = "await" => /\ timer <= Timeout /\ (req'[n].stage = "none" => Unsent(req'[n]))
                         /\ n \notin disturbed /\ req'[n].stage = "none" => timer = Timeout
    BY <1>1, <2>11
  <2> QED
    BY <1>0, <1>1, <1>2, <2>1, <2>2, <2>6, <2>7, <2>8, <2>9, <2>10, <2>12 DEF Truth
<1>10. CASE Elapse
  <2>1. PICK d \in Nat : Aged(d) /\ (timer > 0 => d + timer' = timer)
    BY <1>10, ElapseTimer DEF Inv
  <2>2. \A r \in Requests : /\ req'[r].stage = req[r].stage /\ req'[r].header = req[r].header
                            /\ req'[r].wire = req[r].wire
                            /\ req'[r].age = IF req[r].stage = "running" THEN req[r].age + d
                                             ELSE req[r].age
    BY <1>3, <2>1 DEF Aged, Running, Request
  <2>3. at' = at /\ n' = n /\ exit' = exit /\ disturbed' = disturbed
    BY <1>10 DEF Elapse
  <2>4. ASSUME NEW r \in Requests
        PROVE  /\ req[r].age \in Nat /\ req[r].wire \in Int /\ d \in Nat
               /\ req'[r].stage = req[r].stage /\ req'[r].header = req[r].header
               /\ req'[r].wire = req[r].wire
               /\ req'[r].age \in {req[r].age, req[r].age + d}
               /\ req[r].stage = "running" => req'[r].age = req[r].age + d
    BY <1>3, <2>1, <2>2
  <2>5. ASSUME NEW r \in Requests, GivenUp(req[r])
        PROVE  GivenUp(req'[r])
    <3>1. Timeout \in Nat /\ req'[r].age >= req[r].age
      BY <1>2, <2>4
    <3> QED
      BY <2>4, <2>5, <3>1 DEF GivenUp
  <2>6. \A r \in Requests : Unsent(req[r]) => Unsent(req'[r])
    BY <2>4 DEF Unsent
  <2>7. ASSUME at = "await"
        PROVE  /\ timer' <= Timeout /\ (req'[n].stage = "none" => Unsent(req'[n]))
               /\ n \notin disturbed /\ req'[n].stage = "none" => timer' = Timeout
               /\ UnderWay(req[n], n \notin disturbed)'
    <3>1. /\ timer > 0 /\ n \in Requests /\ UnderWay(req[n], n \notin disturbed) /\ timer <= Timeout
          /\ req[n].stage = "none" => Unsent(req[n])
          /\ n \notin disturbed => req[n].stage = "running" /\ req[n].wire < 0
      <4>1. timer > 0 /\ (n \notin disturbed => ~InTransit(req[n]))
        BY <1>10, <2>7 DEF Elapse, Waiting, Awaiting
      <4>2. n \in Requests
        BY <1>2, <2>7
      <4>3. req[n].wire \in Int
        BY <1>3, <4>2
      <4> QED
        BY <1>1, <2>7, <4>1, <4>2, <4>3 DEF InTransit
    <3>2. timer' \in Nat /\ timer \in Nat /\ d + timer' = timer /\ Timeout \in Nat
      BY <1>2, <1>10, <2>1, <3>1, ElapseTimer DEF Inv
    <3>3. /\ req[n].age \in Nat /\ req[n].wire \in Int /\ req'[n].stage = req[n].stage
          /\ req'[n].wire = req[n].wire
          /\ req[n].stage = "running" => req'[n].age = req[n].age + d
      BY <2>4, <3>1
    <3>short. Shortens(d, timer, timer', Timeout)
      BY <3>2, Shortened, Zenon
    <3>time. \A x \in Int : /\ x + timer <= Timeout => x + timer' <= Timeout
                            /\ x + timer <= Timeout => (x + d) + timer' <= Timeout
                            /\ x + timer = Timeout => (x + d) + timer' = Timeout
      BY <3>short, Zenon DEF Shortens
    <3>4. /\ req'[n].stage = "running" => req'[n].age + timer' <= Timeout
          /\ req'[n].wire >= 0 => req'[n].wire + timer' <= Timeout
      <4>1. /\ req[n].stage = "running" => req[n].age + timer <= Timeout
            /\ req[n].wire >= 0 => req[n].wire + timer <= Timeout
        BY <3>1 DEF UnderWay
      <4>3. ASSUME req'[n].stage = "running"
            PROVE  req'[n].age + timer' <= Timeout
        <5>1. req[n].age + timer <= Timeout /\ req'[n].age = req[n].age + d
          BY <3>3, <4>1, <4>3
        <5> QED
          BY <3>3, <3>time, <5>1
      <4>4. ASSUME req'[n].wire >= 0
            PROVE  req'[n].wire + timer' <= Timeout
        <5>1. req[n].wire + timer <= Timeout /\ req'[n].wire = req[n].wire
          BY <3>3, <4>1, <4>4
        <5> QED
          BY <3>3, <3>time, <5>1
      <4> QED
        BY <4>3, <4>4
    <3>5. n \notin disturbed => /\ req'[n].stage = "running" /\ ~(req'[n].wire >= 0)
                               /\ req'[n].age + timer' = Timeout
      <4> SUFFICES ASSUME n \notin disturbed
                   PROVE  /\ req'[n].stage = "running" /\ ~(req'[n].wire >= 0)
                          /\ req'[n].age + timer' = Timeout
        OBVIOUS
      <4>1. req[n].stage = "running" /\ req[n].wire < 0 /\ UnderWay(req[n], TRUE)
        BY <3>1
      <4>2. req[n].age + timer = Timeout
        BY <4>1 DEF UnderWay
      <4>3. req'[n].stage = "running" /\ ~(req'[n].wire >= 0) /\ req'[n].age = req[n].age + d
        BY <3>3, <4>1
      <4>4. req'[n].age + timer' = Timeout
        <5>1. req[n].age \in Int
          BY <3>3
        <5> QED
          BY <3>time, <4>2, <4>3, <5>1, Zenon
      <4> QED
        BY <4>3, <4>4
    <3>6. UnderWay(req[n], n \notin disturbed)'
      BY <2>3, <3>4, <3>5 DEF UnderWay
    <3> QED
      <4>1. timer' <= Timeout
        <5>1. timer <= Timeout
          BY <3>1
        <5> QED
          BY <3>short, <5>1, Zenon DEF Shortens
      <4>2. req'[n].stage = "none" => Unsent(req'[n])
        BY <2>6, <3>1, <3>3
      <4>3. ~(n \notin disturbed /\ req'[n].stage = "none")
        BY <3>5
      <4> QED
        BY <3>6, <4>1, <4>2, <4>3
  <2> QED
    BY <1>0, <1>1, <1>2, <2>2, <2>3, <2>5, <2>6, <2>7 DEF Truth
<1>11. ~RunCheckTCP /\ ~RunCheckgPRC /\ ~RunCheckCert
  BY DEF RunCheckTCP, RunCheckgPRC, RunCheckCert
<1>12. CASE WsStep /\ UNCHANGED checkVars
  <2>1. main = "idle" /\ console = "none" /\ reader = "none" /\ link = "none"
    BY DEF Inv, Client
  <2> QED
    BY <1>12, <2>1 DEF WsStep, Main, Dial, Connected, NoConsole, BadHandshake, ReturnError, Readline,
       WriteMessage, ReadReply, ReadFails, ServerEchoes, LinkCut, SessionEnds
<1> QED
  BY <1>4, <1>5, <1>7, <1>arrive, <1>8, <1>9, <1>10, <1>11, <1>12
  DEF Next, CheckStep, RunCheck, Serve, vars

-----------------------------------------------------------------------------

(* Nothing has been asked yet.                                             *)
LEMMA InvInit == Init => Inv
<1> SUFFICES ASSUME Init
             PROVE  Inv
  OBVIOUS
<1> USE CheckAssumption, PodCliAssumption, ClientAssumption
<1>1. NoRequest \in Request(Programmed) /\ Sound(NoRequest)
      /\ NoRequest.stage = "none" /\ NoRequest.wire = -1
  <2>1. <<>> \in Programmed
    BY ProgrammedClosed DEF Closed
  <2>2. Accepted(<<>>) \in Request(Programmed) /\ Sound(Accepted(<<>>)) /\ Accepted(<<>>).wire = -1
    BY <2>1, StatusFacts DEF Accepted, Interceptor, Request, Sound, Flags, NoneOr
  <2>3. "none" \in Stages
    BY DEF Stages
  <2>4. NoRequest \in Request(Programmed)
    BY <2>2, <2>3, Updates DEF NoRequest
  <2> QED
    BY <2>2, <2>4 DEF NoRequest, Sound, Request
<1>2. Served
  BY <1>1 DEF Init, ServiceInit, Validated, CheckInit, Served
<1>3. Checking
  BY DEF Init, CheckInit, Checking
<1>4. Client
  BY DEF Init, WsInit, Client
<1>5. Budget
  BY DEF Init, CheckInit, Budget, Sleeps, Retrying
<1>6. Truth
  BY <1>1 DEF Init, ServiceInit, CheckInit, Truth, GivenUp, Unsent
<1> QED
  BY <1>2, <1>3, <1>4, <1>5, <1>6 DEF Inv

(* Inv is an invariant of podcli and the service.                          *)
THEOREM Invariant == Spec => []Inv
<1>1. Inv /\ [Next]_vars => Inv'
  BY ServedStep, CheckingStep, ClientStep, BudgetStep, TruthStep DEF Inv
<1> QED
  BY <1>1, InvInit, PTL DEF Spec

(* Every variable has its type; a metric's label is a status.              *)
THEOREM TypeCorrect == Spec => []TypeOK
<1>1. Inv => TypeOK
  <2> SUFFICES ASSUME Inv
               PROVE  TypeOK
    OBVIOUS
  <2>1. ASSUME NEW r \in Requests
        PROVE  /\ req[r].stage \in Stages /\ req[r].asleep \in Nat /\ req[r].age \in Nat
               /\ req[r].header \in {0} \cup 100..999 /\ req[r].counted \in {0} \cup 100..999
               /\ req[r].wire \in -1..req[r].age
               /\ req[r].hijacked \in BOOLEAN /\ req[r].recorded \in BOOLEAN
    <3>1. req[r] \in Request(Programmed) /\ Sound(req[r])
      BY <2>1 DEF Inv, Served
    <3> QED
      BY <3>1 DEF Request, Sound, NoneOr, Statuses, Flags
  <2> QED
    BY <2>1 DEF TypeOK, Inv, Served, Checking, Client
<1> QED
  BY <1>1, Invariant, PTL

(* A check ends within the time that its flags allow.                      *)
THEOREM InTime == Spec => []ExitsInTime
<1>1. Inv => ExitsInTime
  <2> SUFFICES ASSUME Inv, command \in Retrying
               PROVE  spent <= (RetryCount + 1) * Timeout
                               + (IF RetryCount = 0 THEN 1 ELSE RetryCount) * RetryDelay
    BY DEF ExitsInTime
  <2> DEFINE All == (RetryCount + 1) * Timeout + Sleeps(RetryCount + 1) * RetryDelay
  <2>1. /\ n \in 0..RetryCount + 1 /\ timer \in Nat /\ spent \in Nat
        /\ at \notin {"loop", "over"} => n + 1 \in 0..RetryCount + 1
        /\ at \in {"loop", "sleep", "attempt", "await", "over"}
    BY CheckAssumption DEF Inv, Checking, Retrying
  <2>2. spent <= All
    <3>1. \A k \in 0..RetryCount + 1, j \in 0..RetryCount + 1 :
            /\ k * Timeout \in Nat /\ Sleeps(j) * RetryDelay \in Nat
            /\ k * Timeout + Sleeps(j) * RetryDelay <= All
      BY WithinAll, CheckAssumption DEF Sleeps
    <3> DEFINE Done(k) == k * Timeout
               Slept(k) == Sleeps(k) * RetryDelay
    <3>2. /\ at = "loop" => spent <= Done(n) + Slept(n)
          /\ at = "sleep" => spent + timer <= Done(n) + Slept(n + 1)
          /\ at = "attempt" => spent <= Done(n) + Slept(n + 1)
          /\ at = "await" => spent + timer <= Done(n + 1) + Slept(n + 1)
          /\ at = "over" => spent <= All
      BY DEF Inv, Budget
    <3>3. \A k \in 0..RetryCount + 1, j \in 0..RetryCount + 1 :
            /\ Done(k) \in Nat /\ Slept(j) \in Nat /\ Done(k) + Slept(j) <= All
      BY <3>1
    <3>4. All \in Nat
      BY <3>3, CheckAssumption DEF Sleeps
    <3> HIDE DEF Done, Slept, All
    <3> QED
      BY <2>1, <3>2, <3>3, <3>4
  <2>3. Sleeps(RetryCount + 1) = IF RetryCount = 0 THEN 1 ELSE RetryCount
    BY CheckAssumption DEF Sleeps
  <2> QED
    BY <2>2, <2>3
<1> QED
  BY <1>1, Invariant, PTL

(* 0 says that the service gave a good answer in time; 1 that it gave none *)
(* to any of RetryCount + 1 attempts that the network did not disturb, not *)
(* even to those still running, or that the address is malformed.          *)
THEOREM Truthful == Spec => []ExitTellsTheTruth
<1>1. Inv => ExitTellsTheTruth
  <2> SUFFICES ASSUME Inv
               PROVE  ExitTellsTheTruth
    OBVIOUS
  <2>1. Requests = 0..RetryCount /\ RetryCount \in Nat
    BY PodCliAssumption, CheckAssumption
  <2> QED
    BY <2>1 DEF Inv, Truth, GivenUp, Unsent, ExitTellsTheTruth
<1> QED
  BY <1>1, Invariant, PTL
=============================================================================
