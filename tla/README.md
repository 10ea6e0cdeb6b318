# podinfo: specifications, model checks and proofs

TLA+ specifications of podinfo, the Go service under `src/apps/podinfo` that the
delivery pipelines of this repository build, ship and run. Each module is
translated from the Go source, TLC checks it on small instances, and the TLA+
proof system proves the safety properties of the passing runs for every instance.
`PROJECT.json` lists the components, runs, mutants, findings, hazards and
theorems, and says which source lines each definition stands for.

To repeat a check: `tlc -config LifecycleHttp.cfg MCLifecycle`; to repeat a
proof: `tlapm LifecycleProofs.tla`.

## 1. The system

podinfo is one process that serves HTTP, optionally HTTPS and gRPC, as a pod of
Kubernetes. Everything else in the repository (pipelines, GitOps configuration,
Terraform, charts, workshop text) builds that process and tells a cluster to run
it.

| component | state | operations | talks to |
|---|---|---|---|
| **process lifecycle**: `cmd/podinfo/main.go`, `pkg/signals`, `pkg/api/server.go`, `health.go`, `panic.go`, `pkg/grpc/server.go` | the flags `healthy` and `ready`, the listeners, channel `stop` and the signal channel behind it, the shutdown context | start-up, `/healthz`, `/readyz`, `/readyz/enable`, `/readyz/disable`, `/panic`, signals, `Graceful` | clients, kubelet, every handler in flight |
| **websocket echo**: `pkg/api/echows.go` | per session: channels `in` and `done`, a ticker, the connection | read and offer, status every 5 s, write, deferred closes | its client; a panic ends the process |
| **config watcher**: `pkg/fscache`, `pkg/api/configs.go` | a `sync.Map`, an inotify watch, a mounted ConfigMap | `NewWatch`, `Watch`, `updateCache`, `GET /configs` | kubelet, HTTP readers |
| **file store**: `pkg/api/store.go` | files named after the SHA1 of their content | `POST /store`, `GET /store/{hash}` | the volume; it outlives a crash |
| **redis cache**: `pkg/api/cache.go` | a connection pool, the keys in redis, the version key with its expiry | `POST`, `GET`, `DELETE /cache/{key}`, `SET` every 30 s | redis |
| **echo fan-out**: `pkg/api/echo.go` | a slot per backend, a wait group, a context per call | `POST /api/echo` | the backends |
| **middlewares and responses**: `http.go`, `metrics.go`, `logging.go`, `tracer.go`, `token.go` | Prometheus counters, the status a wrapper has recorded, JWT claims | every request | Prometheus |
| **fault and delay endpoints**: `delay.go`, `chunked.go`, `status.go` | none | sleeps, status codes, chunked writes | |
| **podcli**: `cmd/podcli/check.go`, `ws.go` | retry counter; two goroutines and an `errChan` | checks with retries and exit codes; an interactive websocket client | podinfo |
| **pipelines and GitOps**: `src/cli-manifests`, `src/terraform`, `src/shell-scripts`, charts | the manifest in git, the executions, the rollout | build, test, canary, rollback, commit and push, sync | git, Harness, cluster |

What is hard in them, and what makes each correct:

- **Lifecycle.** Main, one goroutine per listener, the signal goroutine, all
  handlers and the kubelet's probes run at once, and the shutdown stops the three
  servers one after the other under a context that only two of them see. It is
  correct when a stopping pod leaves rotation before its listener closes, what it
  accepted is answered unless the timeout has passed, and the process ends in
  time, without help from the kubelet.
- **Websocket echo.** Two goroutines send on one unbuffered channel, a third
  receives, and the handler closes the channel while the others may still use
  it. It is correct when every message comes back once and in order, and a session
  that ends leaves no goroutine behind and does not take the process with it.
- **Config watcher.** A directory is read file by file while the kubelet replaces
  it in several steps; readers range over the map while it is reloaded. It is
  correct when the cache ends at the published version and no response holds
  what no version had.
- **File store.** Uploads truncate and write in place, downloads read, nothing
  locks, the process may crash in between. It is correct when a download returns
  the content the hash names.
- **Redis cache.** `EXISTS` and `GET` are two commands, redis may evict, expire,
  restart or be away. A read should return the last value written or say there
  is none; the version key should be there as long as the process is.
- **Echo fan-out.** Goroutines share a captured variable and a request's context;
  backends fail, hang and answer late. Each slot should hold its own backend's
  outcome, and a caller should get an answer within the client timeout.
- **Middlewares.** Every request should be answered and counted under the status that
  was sent, although a wrapper keeps its own record of it and each layer may answer early.
- **podcli.** A check should try as often, and wait as long, as its flags say, and
  exit 0 only if one attempt succeeded.
- **Pipelines.** Two executions that push a manifest race; a failed stage should
  leave the previous version running.

Every place where this bites is listed, with its line, under `hazards` in
`PROJECT.json`, with the properties that cover it or the reason why none does.

## 2. What is modelled

| module | models | lines of the source |
|---|---|---|
| `Lifecycle` | one process from `main` to its exit | `main.go`, `server.go`, `health.go`, `panic.go`, `signal.go`, `shutdown.go`, `grpc/server.go` |
| `GracefulService` | what a shutdown promises those who call (abstract) | `shutdown.go`, `main.go` |
| `WsEcho` | one websocket session | `echows.go` |
| `EchoSession` | what a session promises its client (abstract) | the endpoint's description |
| `ConfigWatch` | watcher, kubelet and one reader | `fscache.go`, `configs.go` |
| `FileStore` | uploads, downloads, a volume, crashes | `store.go` |
| `Cache` | the cache endpoints, the version key and redis | `cache.go` |
| `CacheRegister` | what the cache endpoints promise (abstract) | `cache.go` |
| `EchoFanout` | one call of `POST /api/echo` with backends | `echo.go` |
| `Gather` | what that call promises (abstract) | `echo.go` |
| `HttpService` | middlewares, response helpers, the wrapped writer and the handlers that only answer | `server.go`, `http.go`, `metrics.go`, `delay.go`, `chunked.go`, `status.go`, `info.go`, `version.go`, `env.go`, `headers.go`, `token.go` |
| `PodCheck` | the commands of `podcli check` (extends `HttpService`) | `check.go` |
| `WsClient` | `podcli ws` (extends `HttpService`, instantiates `EchoSession`) | `ws.go`, `echows.go` |
| `PodCli` | one run of podcli against the service (composes the three) | `main.go` |
| `MC…` | values of the constants for TLC | |
| `…Proofs`, `PodCliAnswerProofs` | the theorems of each | |

### Lifecycle

Main is a program counter `pc`: `startGrpc`, `startHttp`, `startHttps`,
`raiseHealthy`, `raiseReady`, `notify` (`signal.Notify`), `await` (`<-stopCh`), then
`Graceful`: `lowerHealthy`, `lowerReady`, `sleep`, and `stop`/`drain` once for each
server in the order of `turn`: gRPC, HTTP, HTTPS. A server is `off` (no port),
`starting` (its goroutine is launched), `listening`, `draining` (`GracefulStop` or
`Shutdown` was called), `halted` (stopped before it served) or `closed`. For gRPC
`StartGrpc` stands for `net.Listen`, which happens in main.

The signal goroutine takes a first signal (closes `stop`) and a second
(`os.Exit(1)`) from a channel that holds two. A request is `active` from the moment
its server accepts it until its handler runs (`Handle`), which may be never; what is
active when the process ends is `lost`. `exit` says what ended the process:

| `exit` | in the code | exit code |
|---|---|---|
| `clean` | `Graceful` and `main` return | 0 |
| `bind`, `serve` | `logger.Fatal` after `Listen` or `Serve` failed | 1 |
| `second` | `os.Exit(1)` on the second signal | 1 |
| `panic` | `/panic`, `os.Exit(255)` | 255 |
| `signal` | a signal before `signal.Notify` | by signal |
| `kill` | the kubelet's SIGKILL at `GracePeriod` | by signal |

Time is in seconds since `stop` was closed. `Tick` is enabled only when main waits,
no signal is pending, no server is starting and no probe is due (`Quiet`): the
program's own steps take no time against a second. Handlers are exempt, they may
take any time. This is the assumption behind every property with a time in it.

`debug` is the log level, chosen in `Init`: at `--level=debug` the brief wait is skipped. A
probe that succeeds puts the pod in rotation (`endpoint`), `FailureThreshold` failures in a row
(`failures`) take it out, as `successThreshold` 1 and `failureThreshold` of the charts'
`deployment.yaml` have it.

`GracefulService` is the same life as a caller sees it: a listener's door is `down`, `open`,
`closing` or `closed`, notice is given when both flags are lowered, the deadline is the
context's. `Lifecycle` implements it (`ImplementsGraceful`): `LowerReady` is the notice, `Tick`
may be the deadline, `Serve` opens a door, `StopServer` closes it, the end of a turn
leaves it, `MainReturns` finishes, every other exit aborts, and the rest are stutters. A door is
left when nobody waits behind it any longer, or at the deadline, except gRPC's, for which
`GracefulStop` has no context.

Not in the model: the cache pool and the tracer provider that `Graceful` would
close (main never sets them in `Shutdown`, `shutdown.go:44-49`); the metrics
server (its own port, never shut down, its `/healthz` always answers 200); the
request's own timeouts; websocket connections, which `Shutdown` does not wait for; the
removal of a deleted pod from its service by the control plane, which comes at a time of its own:
in the model rotation is the readiness probe's alone.

### WsEcho

`handler`, `host` and `writer` are the three goroutines. A send on the unbuffered
channel is two steps: come to the channel (`ReadMessage`, `OfferStatus`), and be
received from (`Receive`); `first` is who came first. The deferred calls run in the
order the code has, last deferred first: close `in`, close `done`, close the
connection. `CloseIn` panics a sender that waits; `OfferStatus` panics when `in` is
closed already. A receive from the closed channel yields nil, so `writeWs` writes
`null` to the client over and over until a write fails (`holding = "null"`); the
model has the step, no property is spent on it. The client sends up to
`MaxMessages`, and may send a close frame, half-close or reset the connection.
What the websocket library and TCP do is external: the library answers a close
frame, after which writes fail; after a reset reads and writes fail sooner or later.

### ConfigWatch

A version of the ConfigMap is a set of keys, the content of a key the number of the
version it was read from. The kubelet's update is `Swap` (the link `..data`, the one
event the watcher reacts to), then `LinkNew` and `UnlinkOld` for each key. The
watcher's reload is `ReadDir`, one `ReadFile` per file, `Prune` and `Store` one key at
a time. A file whose link is there and whose target is not makes `updateCache`
return an error: fatal for the cache in `NewWatch`, only logged in `Watch`.
`GET /configs` is `ConfigRead` and one `Visit` per key, in any order, as
`sync.Map.Range` allows. Events are not lost (inotify's queue does not overflow)
and the subdirectories of the volume are skipped.

### FileStore

An upload is `Open` (create and truncate), `Write` block by block, `Accepted`, or a
failure of either; a download is `OpenToRead`, `Read` block by block, `EndOfFile`.
Files have the names of `Names`, the digests of the contents: `hash` is symbolic and
tells contents apart, as SHA1 does here. A write goes to the writer's own
offset, wherever the file ends by now, so a truncation by another upload leaves a
`"hole"`. `Crash` cuts off everything that runs and keeps the files.

### Cache

A call is at a command `cmd` (`SET`, `DEL`, or `EXISTS` then `GET`), which is `sent`,
`executed` by redis, and answered; `Fail` is a connection that breaks or cannot be
made, at any time. A write redis has received when its connection breaks may
be executed later (`late`). The environment follows the chart's redis: no
persistence (`Stop` loses everything) and `allkeys-lru` (`Evict` takes any key).
`setVersion` is `Renew`, then `SetVersion` in redis and `RenewAnswered`, or `RenewFails`.
`Tick` moves the ticker and the expiry of the host's key together, and goes on while redis
keeps the goroutine waiting, as long as it likes: no command has a time limit. The ticker's
channel holds one tick (`ticked`) and drops others. A unit of time stands for 15 seconds:
`Period` 2, `Expiry` 4. Ghost variables remember what an answer cannot tell:
`lost`, the reads whose key was removed while they ran; `waited`, how long the `SET`
under way has waited to be executed or, then, to be answered; and `kept`, that since the version
was set nobody else touched the host's key, no renewal failed and none waited for
`Margin`, 30 seconds. The pool has no state: it has no
limit on connections in use, so nobody waits, and it tests a connection before it
lends it, so which idle one is lent cannot be observed. That it is never closed, since
`Shutdown` never gets it, only shows when the process ends.

### EchoFanout

`handler` reads the body (`ReadBody`, which sets the wait group to the number of
backends, or `ReadFails`), waits for the group and answers (`Answer`). Each backend's
goroutine goes from `new` to `gone`. The assignment to the captured `ctx` in line 48 is two steps,
`ReadCtx` and `WriteCtx`, since nothing orders the goroutines; line 49 reads `ctx` once more
(`LimitCall`) and puts the limit into a variable of the goroutine's own. A context
is the set of goroutines whose traces and limits it carries; each value `ctx` can have
is of one dynamic type, so a torn read of the interface is one of the stored values. A
malformed URL fails in `NewRequest` and leaves its slot empty; otherwise the call fails,
is answered with a status, is read, or is cut by its context (`Record`). `Leave` is the
deferred `cancel` and `wg.Done`. `budget` is what a slow upload left of the
write timeout, after which an answer is lost. `Elapse` goes to the next deadline when
only backends are waited for (`Quiet`).

### HttpService

What a handler does to its `ResponseWriter` is a *program*, a sequence of operations
(`header`, `body`, `flush`, `sleep`, `count`, `hijack`, `session`, `panic`); a handler is the
set of programs it may turn out to be, a middleware a function on programs.
`Registered` nests them as `registerMiddlewares` does, the counter outermost, so that a
panic inside skips the count. `Perform` executes one operation the way net/http does: the
first final header stays, a body without one means 200, a status outside 100–999
panics, nothing goes out after the write deadline (`Late`). In a request, `header` is the
status sent or to be sent, `wire` the age at which it went out, `code` and `recorded` the
interceptor's own fields, `counted` the label. The wrapped writer has the optional
interfaces of the connection, `h1` or `h2`; over HTTP/2 there is no `Hijacker`.
Products of durations wrap (`Times`). A target is a route and the number in its path.
Token signing and parsing, templates and JSON are left out: the handlers' outcomes
are what is modelled of them.

### PodCheck, WsClient and PodCli

A check is at `loop`, `sleep`, `attempt`, `await` or `over`; `n` is the attempt and also the
request the attempt makes. The loop sleeps before every attempt but `n = 1`, as line 104
says. `check http` gets its answers from `HttpService`. `DoRequest` exits with 1 at once when
`http.NewRequest` rejects the address (the route `malformed`), without an attempt or a retry;
otherwise it starts one. `Arrive` is the request reaching the service, which runs one of the
target's programs, `Response` a header that went out reaching the client, `NoResponse` a
connection closed without one, a timeout, or an error of the network. The network decides on each
attempt: it serves it at once, or the attempt is `disturbed`, and then its request and its response
may take any time (`Delays` of `Elapse`), be refused, or be lost on the way there or back. A
request whose attempt was given up goes on at the server, if it got there by then. What tcp, grpc and cert targets answer is free; the handshake of
`check cert` has no timer because line 213 has no deadline. The retries net/http's transport
makes on its own are left out.

`podcli ws` is `main`, which dials and then waits on `errChan`, `console` and `reader`. The
handshake is a request to `HttpService` for the route `ws`, so it passes the random delay and error
middlewares; behind it `Server` is an `EchoSession`, the abstraction that `WsEcho` is
shown to implement. An error of the reader ends the process with 1 (`log.Fatal` in
`readWebsocket`), an error of the console goes through `errChan` to main.

`PodCli` chooses the command, the target and the bounds of the random delay which `main.go`
accepts. `Elapse` goes to the next timer when nobody can act (`Waiting`).

## 3. What the runs show

| run | question | answer |
|---|---|---|
| `lifecycle_http` | HTTP and HTTPS, two requests to any endpoint, both kinds of log level, three signals, a probe each second | implements `GracefulService`: warned before closed, all accepted requests answered unless the deadline passed; out of rotation after as many periods as the threshold, unless somebody calls enable; over within the timeout, and it does end |
| `lifecycle_grpc` | HTTP and gRPC, `--unhealthy`, `--unready`, both kinds of log level, two requests, two signals | the same promise to what was accepted; the kubelet has to kill only a process with an RPC; `Serve` fails because of a shutdown only where the brief wait is skipped, and no RPC is lost by it; a second signal always ends the process |
| `ws_session` | one session, 3 messages, 2 ticks, all departures | implements `EchoSession`; every message echoed while the client stays; stuck only after a reset; panics only in the deferred calls; no goroutine left otherwise |
| `config_any` | two keys, any key sets, 3 versions | a quiet watcher that did not fail is current; responses are sound; fixed keys converge |
| `store_overlap` | 3 uploads of 2 contents of 2 blocks, 1 download, 1 crash, write errors | overlapping uploads converge; a download alone with its file is whole |
| `cache_calls` | 2 calls on 2 keys, one of them the host's, with evictions, restarts and broken connections | the calls implement `CacheRegister`; the version stays while no renewal fails or hangs for 30 seconds, ticks dropped and slow renewals in a row included; a 500 to a read means that its key was removed under it or its connection broke |
| `echo_fanout` | 3 backends, one of them malformed, which answer, fail or hang; the caller may leave; any share of the write timeout is left | the race on `ctx` mixes traces but no call ends another; every slot is its own backend's; the answer comes within the client timeout, and the call does end |
| `podcli` | all commands, `check http` against the routes of `HttpService` and a malformed address, over HTTP/1 and 2 and a network that may disturb any attempt, with random delays and errors, two attempts or two typed lines | a request is counted under the status it was sent or, past the write deadline, was meant to be sent, except where its connection was taken over, for an informational code of `/status`, and after a panic; it stays unanswered only past the write deadline or after a panic over a number; a check exits in time and tells the truth; lines come back, and the client ends when its server goes |

The other runs must fail: each finds a behaviour that a comment or an API
description rules out.

| run | what TLC finds |
|---|---|
| `lifecycle_enable` | `POST /readyz/enable` during the brief wait makes `/readyz` succeed again ("all calls to /healthz and /readyz will fail from now on") |
| `lifecycle_rotation` | with a probe every 2 seconds, below the brief wait and the timeout, the listener is closed while the pod is in rotation: it takes `failureThreshold` failures to leave, three in the charts, and 3 × 2 > 3 ("the readiness check interval must be lower than the timeout"). With the charts' period of 10 seconds it is half a minute |
| `lifecycle_grpc_timeout` | `GracefulStop` takes no context: an open RPC holds the shutdown past `--server-shutdown-timeout`, HTTP's included |
| `ws_panic` | `in` is closed before `done`: `sendHostWs` sends on it and the process panics |

More was met while modelling. It has no run, for want of a text that rules it out or
since the run that showed it has made room for others:

- a `POST /readyz/disable` answered before main raises `ready` is undone;
- a reload that meets the link of a removed key stops, and the other keys keep their old
  content until the next update; a key that an update adds can be missed by the
  reload, since its link is made after the event;
- a download during a second upload of the same content returns a part of it, as a success;
  an upload that fails half way destroys an equal content accepted before;
- a read whose `EXISTS` fails is answered 404 like a missing key;
- `/chunked` without a number panics with the default timeout of 30 s: the timeout, a
  Duration already, is multiplied by a second, wraps, and `rand.Intn` gets a bound that is
  not positive (`chunked.go:29`);
- equal bounds of the random delay pass `main` and panic in every request (`delay.go:40`);
- `ErrorResponse` answers 200 whatever code it is given (`http.go:86`), so a check of a
  failing endpoint succeeds;
- `check` waits before the first attempt and not before the first retry (`check.go:104`);
  `check cert` may wait for ever for a handshake;
- a response past the write deadline is lost and its request counted as a success; a websocket is
  counted as 200 for its 101, a request that panicked not at all (`metrics.go:62`);
- the client timeout of 2 minutes outlasts the write timeout of 30 seconds, so the answer
  to a call with one hanging backend is lost (`echo.go:49`).

**Mutants.** Every property of a passing run has a mutant: a change a plausible bug
would make to one definition (a missing guard, a swapped call, a lost bound), kept
next to the definition it changes, under which TLC finds the property violated.

**Bounds.** `Requests` of two are enough for one that is served by the server whose
turn it is and one by a later server. Three signals fill the channel of two once and
drop one. `ShutdownTimeout` 4 lies above the brief wait of 3, which `--level=debug` skips in the same
runs; `GracePeriod` 6 leaves room for the kill to be wrong. `FailureThreshold` 3 is the charts'. A
`ProbePeriod` of 1 in `lifecycle_http` lets the third failure fall inside the shutdown, with the
listener open or, after the wait, closed; 2 in `lifecycle_rotation` is below wait and timeout.
Three versions let a reload straddle two swaps, and two keys
let it fail on one with the other unread. Two blocks are the least that can
be half written; three uploads allow two of one content next to one of another,
and a failure between two successes. In `cache_calls` eviction, restart and the version
key play further writers, so one of the two calls can be a read between `EXISTS` and
`GET` while the key is deleted, evicted, expired or overwritten. `Period` 2 and `Expiry` 4 have the
ratio of 30 and 60 seconds and let a `SET` wait below and up to `Margin` on both sides of its
execution; without the clause on `Margin` in `kept` TLC finds the key expired while the
goroutine waits for an answer. Symmetry is used for `Uploads` and, in `cache_calls`, for
`Calls`, in runs whose properties speak of states and steps only.

In `echo_fanout`, two well-formed backends interleave their accesses to `ctx` in all ways
next to one that leaves early; `ClientTimeout` 1 and `ServerTimeout` 2 make the limit fall before, at and after
what is left of the write timeout. In `podcli`, `RetryCount` 1 has the loop's first wait and its skipped one (what further
waits add is proved); `Timeout` 2 against delays of 1, 2 and 3 puts the answer before, at and after
it; `HttpServerTimeout` 30 is the code's default and a delay of 31 passes it; the bounds of the
random delay are a range of one, equal (accepted, panics) and inverted (rejected by main).
`Second` 11 and `MaxInt` 1112 are scaled: what matters is which multiples of a second squared wrap to
what sign, and `(2·MaxInt + 2) / Second²` is 18.4 as `2^64 / 10^18` is; `MaxInt` is above 1000, so that
codes beyond both ends of 100–999 reach net/http. `MaxLines` 2 lets a
line be typed while the reply to another is on its way.

`CHECK_DEADLOCK FALSE` is in every configuration since every system here may
stop: the process exits, the session ends, the kubelet publishes no more versions,
all calls are answered.

**Fairness.** `Lifecycle`: every goroutine that can run does (Go's scheduler), time
passes, the probe and the kill of the kubelet happen. No handler, client or signal
is fair: a request may hang for ever. `WsEcho`: the three goroutines; nothing is
assumed of the client or the ticker. `ConfigWatch`: the watch goroutine runs and
the kubelet finishes an update it began, but need not begin one. `FileStore` and
`Cache` have no fairness: redis may hang, and no command has a timeout. `EchoFanout`: the
handler's answer, each goroutine's own steps, which include the end of its context, and
time; backends and caller may do nothing. `PodCli`: main and the client's goroutines, the server's
handlers, its echoes (`EveryMessageEchoed` of `WsEcho`) and time; the user and the network
are free.

## 4. What is proved

For every value of the constants that meets the named assumption of the module, and
any number of requests, messages, versions or uploads:

| theorem | property | rests on |
|---|---|---|
| `LifecycleProofs!TypeCorrect` | `TypeOK` | step by step |
| `CleanExit`, `Warning`, `NoCrash`, `Bounded` | `CleanExitKeepsRequests`, `ListenersOutliveTheWarning`, `NoCrashOnShutdown`, `ShutdownWithinTimeout` | `ShutdownInvariant` |
| `CrashTheorem`, `KillTheorem` | `CrashLosesNoRpc`, `KilledOnlyByOpenRpc` | `RpcInvariant` |
| `OnlyEnableRaises`, `RotationTheorem` | `ProbesFailOnceStopping` (unless enable is called), `LeavesRotation` | `ShutdownInvariant`, `Rotation` |
| `LifecycleProofs!Refinement` | `ImplementsGraceful` | `ShutdownInvariant`, `InTurn` |
| `WsEchoProofs!TypeCorrect`, `Refinement` | `TypeOK`, `ImplementsEchoSession` | `SessionCorrect` |
| `PanicTheorem`, `StuckTheorem` | `PanicOnlyAtTeardown`, `StuckOnlyAfterReset` | `SessionCorrect` |
| `ConfigWatchProofs!TypeCorrect`, `QuietTheorem` | `TypeOK`, `QuietMeansCurrent` | `WatcherCorrect` |
| `SoundTheorem` | `ResponsesAreSound` | `Sound` |
| `FileStoreProofs!TypeCorrect`, `ConvergeTheorem`, `ReadsTheorem` | `TypeOK`, `UploadsConverge`, `ReadsAloneAreWhole` | `StoreCorrect` |
| `CacheProofs!TypeCorrect`, `Refinement`, `VersionTheorem`, `ReadErrorTheorem` | `TypeOK`, `ImplementsRegister`, `VersionKept`, `ReadErrorsAreRaces` | `CacheCorrect` |
| `EchoFanoutProofs!TypeCorrect`, `Independent`, `InTime` | `TypeOK`, `CallsAreIndependent`, `AnswerInTime` | `Invariant` |
| `EchoFanoutProofs!Refinement` | `ImplementsGather` | `Invariant` |
| `PodCliProofs!TypeCorrect`, `InTime`, `Truthful` | `TypeOK`, `ExitsInTime`, `ExitTellsTheTruth` | `Invariant` |
| `PodCliAnswerProofs!CountTheorem`, `AnswerTheorem` | `CountedAsAnswered`, `AnsweredUnlessLate` | `AnswersInvariant` |

Only `Bounded` has a hypothesis: no gRPC server, and `lifecycle_grpc_timeout` shows what happens
with one. `OnlyEnableRaises` is about processes in which nobody calls `POST /readyz/enable`, and
`LeavesRotation` says so itself; `lifecycle_enable` shows the call. `LeavesRotation` is what the code
guarantees of rotation, for any period and threshold and with or without the brief wait; that the listener is open
until then, `InRotationIsServed`, is false (`lifecycle_rotation`).

The arguments:

- **Lifecycle.** `ShutdownInvariant` has three parts. `Timing`: time passes after
  start-up only, so the brief wait and the context both start in second 0, and no
  server is still starting once a second has passed. `Order`: a server is shut down
  only in its turn and after the wait, and with a wait none is caught before its
  goroutine ran. `Kept`: a server that was stopped accepts nothing, and one
  whose turn is over has no request left unless the deadline has passed. None of the
  properties is inductive alone: that no request is lost needs the order in which
  servers are closed, and the order needs the clock. `RpcsServed`: only a gRPC server that
  served has accepted an RPC, and `Serve` fails only for one that was stopped first. `Patience`:
  time passes both the wait and the deadline only while main waits for an RPC, since HTTP's
  and HTTPS's turns end with the context. `Rotation`: once the flags
are lowered every probe fails, and the failures came one period after the other, so while the pod is
in rotation the time since the signal is at most a period for each failure and one to come.
The refinement needs `InTurn` besides: what
  drains is what main waits for, so main's return leaves no door closing, and gRPC's turn is
  over only when no RPC is left, whatever the clock says.
- **WsEcho.** `Counted`: every message read was written back, is held by the
  writer or is offered, so the one the writer holds is the next to be echoed.
  `Teardown`: how far the deferred calls are, and why a writer left. A step of
  the refinement is then `Echo` for `WriteJSON` of an echo, `Send` for `ClientSends`,
  and a stutter for all others.
- **ConfigWatch.** What a reload has read is of the current version or an event is
  waiting that starts another reload: `Swap` with the watch in place always leaves one.
  `Sound`: a cached content is of a version that has its key (`Genuine`); a key of all versions
  has its link at all times, so every reload lists and reads it and none prunes it
  (`Kept`); what a reader has visited is complete as far as it goes (`Collected`), so a reload that
  overlaps with `Range` cannot hide such a key.
- **FileStore.** A block that is missing from a file lies ahead of an upload that
  writes it (`Filled`): who truncates a file has all of it to write. A file is as
  long as its last block (`Reaches`), so the end a lone download finds is the end of
  the content (`Prefix`).
- **Cache.** `Outlives`: while the goroutine waits for a tick, the version's life exceeds the
  time to it by `Margin`; what redis then takes comes off that, and an execution restores
  `Expiry`. A tick that fell into the wait for the answer is in the channel, or the next one is less than
  `Period` from the execution. `CacheAssumption` has `Period < Expiry <= 2 * Period`, as 30 and 60
  seconds do, and no bound on redis. `Present`: between `EXISTS` and `GET` the key is there
  or the read is marked. The refinement maps a call to `open` until redis has executed
  its `SET`, `DEL` or `GET`, to `applied` until the answer arrived; `EXISTS` is a stutter,
  eviction, expiry and restart are `Vanish`.
- **EchoFanout.** `Private`: no limit ever enters the shared `ctx`, so a call carries its
  own limit and no other; that is what the race cannot break. `Clock`: limits run together from the
  calls' start, so while one is open the time passed is what they have lost. `Group`: the wait group is the number of
  goroutines that remain, so it is at zero only when all have left. The refinement shows a
  backend's entry as decided once its goroutine is leaving.
- **PodCli.** First the programs of all handlers and middlewares are typed; one step of a
  request then `Leads` to a request of the same type and keeps what went out
  (`Settled`: a status on the wire is final, since only `podcli ws` has its connection taken
  over). `Budget`: the time spent and the timer together are what `n` attempts and their
  `Sleeps` allow. `Truth`: an attempt the network left alone has a timer that began with its request
(`UnderWay`), and one that was given up has no good answer within the timeout and can get none
any more (`GivenUp`): its request is older than the timeout or was answered. Of a disturbed attempt
only what arrived in time is known. No request is made before its attempt (`Unsent`), and none for a malformed address.
- **PodCli's answers.** A program is `Orderly` when its operations come in the order that keeps
  counter and client in agreement: the count is last, a status other than 200 is set before
  anything goes out (`Precedes`), and it panics only over a number (`Excuse`). Each helper, handler and
  middleware is shown to make orderly programs of orderly ones, a lemma each, so the proof follows the
  nesting of `registerMiddlewares`. `Agreeing`: the interceptor's own fields agree with the header that
  net/http sends, until it was given an informational one, which only `/status` sends (`Allowed`, `Stray`). `Counting`: the label is that code. `Ending`: a request that is over without a header on the wire was late or panicked.

Liveness (`StopTerminates`, `SecondSignalTerminates`, `EveryMessageEchoed`,
`NoGoroutineLeft`, `FixedKeysConverge`, `CallEnded`, `LinesComeBack`,
`ServerGoneEndsClient`) is checked by TLC only: the prover has no support for fairness
and `ENABLED`. Every safety property of a passing run is proved. Of the
four that a run refutes, `ShutdownWithinTimeout` and `ProbesFailOnceStopping` are proved for processes without
gRPC and without a call of enable; `InRotationIsServed` and `NoPanic` are false.

## 5. What is left out, and the plan

**Not modelled.**

- The pipelines, GitOps configuration, charts and Terraform: declarations that Harness,
  ArgoCD and Kubernetes execute. How executions overlap is theirs and is not in this repository;
  probe period, failure threshold and grace period of the charts are constants of `Lifecycle`. The one program among
  them, `update-manifest.sh`, is a straight line of clone, edit, commit and push.
- The index page: it only answers browsers. When its template fails midway it asks for a
  500 after 200 was sent.
- Inside the token endpoints the JWT library, which decides on signature and expiry; the two
  outcomes of each handler are in `HttpService`.
- The stress test, flags and logger of `main`, the generated API documentation, the labels of
  Prometheus's routes, tracing and logging: they change nothing the properties speak of.
- Retries net/http's transport makes when an idle connection turns out to be dead.
- Websocket sessions during a shutdown, which `Shutdown` does not wait for.

**Plan.** In order of what matters most:

1. Sessions of `WsEcho` inside the shutdown of `Lifecycle`, as further requests that
   `GracefulService` does not wait for.
2. `Delivery`: executions that clone, edit, commit and push one manifest, against an
   abstract "the last push wins", as far as the script determines it.
3. Proofs of the steps behind the liveness properties: that each lowers a measure.
