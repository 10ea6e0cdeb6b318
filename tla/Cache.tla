-------------------------------- MODULE Cache --------------------------------
(***************************************************************************)
(* The cache endpoints and the version key of pkg/api/cache.go.  A handler *)
(* borrows a connection to redis from the pool and does one command on it, *)
(* GET /cache/{key} two: EXISTS, then GET.  A goroutine sets the key named *)
(* after the host to the version every Period, to expire after Expiry.     *)
(*                                                                         *)
(* A command is sent, executed by redis and answered.  When the connection *)
(* breaks on the way the handler gets an error, and redis may still        *)
(* execute what it received.  Redis keeps nothing over a restart and       *)
(* evicts any key when its memory is full.  The pool never makes a caller  *)
(* wait, and tests a connection before it lends it.  No command has a time *)
(* limit: redis, or the network, may keep a call or the ticker's goroutine *)
(* waiting for ever, and then time goes on without it.                     *)
(***************************************************************************)
EXTENDS Naturals

CONSTANTS
  Keys,      \* what clients name in /cache/{key}
  Host,      \* the key of the version, the name of the host
  Values,    \* what clients store
  Version,   \* version.VERSION
  Calls,     \* the requests clients may send, once each
  Period,    \* of the ticker, in units of time (30 seconds)
  Expiry     \* of the version key (60 seconds)

(* What a client may get that is not a value.                              *)
Outcomes == {"accepted", "failed", "notFound", "rejected"}

ASSUME CacheAssumption ==
  /\ Host \in Keys
  /\ (Values \cup {Version}) \cap ({"none"} \cup Outcomes) = {}
  /\ Period \in Nat /\ Expiry \in Nat
  /\ Period < Expiry /\ Expiry <= 2 * Period

(* What is left of the version's life when its renewal is due.             *)
Margin == Expiry - Period

VARIABLES
  pool,      \* a cache server is configured
  up,        \* redis runs
  store,     \* the value of each key, "none" if it has none
  ttl,       \* units until Host expires, 0 if it does not
  op,        \* what a call is for: SET, DEL or GET
  key, val,  \* its key, and the value of a SET
  cmd,       \* the command it is at, "new" before and "done" after
  phase,     \* of that command: sent, executed, or its connection is broken
  reply,     \* what redis answered
  result,    \* what the client got
  late,      \* the writes redis received and whose connection broke
  renew,     \* setVersion: idle, or its SET is sent, executed or broken
  lateSet,   \* a SET of the version is as those in late
  due,       \* units until the next tick
  ticked,    \* a tick is in ticker.C, or setVersion was not called yet
  waited,    \* units the SET waits for redis to execute it, or then to answer, while kept
  kept,      \* see VersionKept
  lost       \* the reads whose key was removed while they ran

calls   == <<op, key, val, cmd, phase, reply, result>>
renewer == <<renew, lateSet, due, ticked, waited>>
vars    == <<pool, up, store, ttl, calls, late, renewer, kept, lost>>

Reading(k) == {r \in Calls : cmd[r] \in {"EXISTS", "GET"} /\ key[r] = k}

Init ==
  /\ pool \in BOOLEAN /\ up \in BOOLEAN
  /\ store = [k \in Keys |-> "none"] /\ ttl = 0
  /\ op = [r \in Calls |-> "none"]
  /\ key \in [Calls -> Keys] /\ val \in [Calls -> Values]
  /\ cmd = [r \in Calls |-> "new"] /\ phase = [r \in Calls |-> "none"]
  /\ reply = [r \in Calls |-> "none"] /\ result = [r \in Calls |-> "none"]
  /\ late = {}
  /\ renew = "idle" /\ lateSet = FALSE /\ due = Period /\ ticked = TRUE /\ waited = 0
  /\ kept = FALSE /\ lost = {}

-----------------------------------------------------------------------------
(* The handlers.                                                           *)

(* Without a pool every call is rejected, and so is a body that cannot be  *)
(* read.                                                                   *)
Reject(r) ==
  /\ cmd[r] = "new"
  /\ \E o \in {"SET", "DEL", "GET"} :
       /\ ~pool \/ o = "SET"
       /\ op' = [op EXCEPT ![r] = o]
  /\ cmd' = [cmd EXCEPT ![r] = "done"]
  /\ result' = [result EXCEPT ![r] = "rejected"]
  /\ UNCHANGED <<pool, up, store, ttl, key, val, phase, reply, late, renewer, kept, lost>>

(* Mutant: GET without EXISTS before it.                                   *)
BeginWithGet(r, o) ==
  /\ cmd[r] = "new" /\ pool
  /\ op' = [op EXCEPT ![r] = o]
  /\ cmd' = [cmd EXCEPT ![r] = o]
  /\ phase' = [phase EXCEPT ![r] = IF up THEN "sent" ELSE "broken"]
  /\ UNCHANGED <<pool, up, store, ttl, key, val, reply, result, late, renewer, kept, lost>>

(* The connection is borrowed and the first command sent.                  *)
Begin(r, o) ==
  /\ cmd[r] = "new" /\ pool
  /\ op' = [op EXCEPT ![r] = o]
  /\ cmd' = [cmd EXCEPT ![r] = IF o = "GET" THEN "EXISTS" ELSE o]
  /\ phase' = [phase EXCEPT ![r] = IF up THEN "sent" ELSE "broken"]
  /\ UNCHANGED <<pool, up, store, ttl, key, val, reply, result, late, renewer, kept, lost>>

(* Mutant: the answer to a write is not awaited.                           *)
AnswerUnexecuted(r) ==
  /\ cmd[r] \in {"SET", "DEL"} /\ phase[r] \in {"sent", "executed"}
  /\ cmd' = [cmd EXCEPT ![r] = "done"]
  /\ result' = [result EXCEPT ![r] = "accepted"]
  /\ UNCHANGED <<pool, up, store, ttl, op, key, val, phase, reply, late, renewer, kept, lost>>

AnswerWrite(r) ==
  /\ cmd[r] \in {"SET", "DEL"} /\ phase[r] = "executed"
  /\ cmd' = [cmd EXCEPT ![r] = "done"]
  /\ result' = [result EXCEPT ![r] = "accepted"]
  /\ UNCHANGED <<pool, up, store, ttl, op, key, val, phase, reply, late, renewer, kept, lost>>

(* EXISTS was answered: 404, or GET is sent on the same connection.        *)
AnswerExists(r) ==
  /\ cmd[r] = "EXISTS" /\ phase[r] = "executed"
  /\ \/ /\ reply[r] = "none"
        /\ cmd' = [cmd EXCEPT ![r] = "done"]
        /\ result' = [result EXCEPT ![r] = "notFound"]
        /\ UNCHANGED phase
     \/ /\ reply[r] # "none"
        /\ cmd' = [cmd EXCEPT ![r] = "GET"]
        /\ phase' = [phase EXCEPT ![r] = "sent"]
        /\ UNCHANGED result
  /\ UNCHANGED <<pool, up, store, ttl, op, key, val, reply, late, renewer, kept, lost>>

(* GET was answered: 200 with the value, or 500 when there is none.        *)
AnswerGet(r) ==
  /\ cmd[r] = "GET" /\ phase[r] = "executed"
  /\ cmd' = [cmd EXCEPT ![r] = "done"]
  /\ result' = [result EXCEPT ![r] = IF reply[r] = "none" THEN "failed" ELSE reply[r]]
  /\ UNCHANGED <<pool, up, store, ttl, op, key, val, phase, reply, late, renewer, kept, lost>>

(* The command fails: the connection broke or could not be made.  A failed *)
(* EXISTS is a 404, everything else an error.                              *)
Fail(r) ==
  /\ cmd[r] \in {"SET", "DEL", "EXISTS", "GET"}
  /\ cmd' = [cmd EXCEPT ![r] = "done"]
  /\ result' = [result EXCEPT ![r] = IF cmd[r] = "EXISTS" THEN "notFound" ELSE "failed"]
  /\ late' = IF phase[r] = "sent" /\ op[r] # "GET" THEN late \cup {r} ELSE late
  /\ lost' = IF cmd[r] = "GET" THEN lost \cup {r} ELSE lost
  /\ UNCHANGED <<pool, up, store, ttl, op, key, val, phase, reply, renewer, kept>>

Handler(r) == Reject(r) \/ AnswerWrite(r) \/ AnswerExists(r) \/ AnswerGet(r) \/ Fail(r)

-----------------------------------------------------------------------------
(* setVersion, now and then at each tick.                                  *)

Renew ==
  /\ pool /\ ticked /\ renew = "idle"
  /\ renew' = IF up THEN "sent" ELSE "broken"
  /\ ticked' = FALSE
  /\ UNCHANGED <<pool, up, store, ttl, calls, late, lateSet, due, waited, kept, lost>>

RenewAnswered ==
  /\ renew = "executed"
  /\ renew' = "idle" /\ waited' = 0
  /\ UNCHANGED <<pool, up, store, ttl, calls, late, lateSet, due, ticked, kept, lost>>

(* An error is only logged.                                                *)
RenewFails ==
  /\ renew # "idle"
  /\ renew' = "idle" /\ waited' = 0
  /\ lateSet' = (lateSet \/ renew = "sent")
  /\ kept' = (kept /\ renew = "executed")
  /\ UNCHANGED <<pool, up, store, ttl, calls, late, due, ticked, lost>>

-----------------------------------------------------------------------------
(* Redis.                                                                  *)

(* The effect of the write of r, at once or after its connection broke.    *)
DoWrite(r) ==
  /\ store' = [store EXCEPT ![key[r]] = IF op[r] = "SET" THEN val[r] ELSE "none"]
  /\ ttl' = IF key[r] = Host THEN 0 ELSE ttl
  /\ kept' = (kept /\ key[r] # Host)
  /\ lost' = IF op[r] = "DEL" THEN lost \cup Reading(key[r]) ELSE lost

Execute(r) ==
  /\ phase[r] = "sent" /\ up
  /\ phase' = [phase EXCEPT ![r] = "executed"]
  /\ \/ /\ cmd[r] \in {"SET", "DEL"}
        /\ DoWrite(r)
        /\ UNCHANGED reply
     \/ /\ cmd[r] \in {"EXISTS", "GET"}
        /\ reply' = [reply EXCEPT ![r] = store[key[r]]]
        /\ UNCHANGED <<store, ttl, kept, lost>>
  /\ UNCHANGED <<pool, up, op, key, val, cmd, result, late, renewer>>

ExecuteLate(r) ==
  /\ r \in late /\ up
  /\ DoWrite(r)
  /\ late' = late \ {r}
  /\ UNCHANGED <<pool, up, calls, renewer>>

(* Mutants: the key expires when its renewal is due, and its expiry given  *)
(* in milliseconds, where redis takes seconds.                             *)
SetInMillis ==
  /\ renew = "sent" /\ up
  /\ store' = [store EXCEPT ![Host] = Version]
  /\ ttl' = Expiry * 1000
  /\ renew' = "executed" /\ waited' = 0
  /\ kept' = TRUE
  /\ UNCHANGED <<pool, up, calls, late, lateSet, due, ticked, lost>>

SetToExpireSoon ==
  /\ renew = "sent" /\ up
  /\ store' = [store EXCEPT ![Host] = Version]
  /\ ttl' = Period
  /\ renew' = "executed" /\ waited' = 0
  /\ kept' = TRUE
  /\ UNCHANGED <<pool, up, calls, late, lateSet, due, ticked, lost>>

SetVersion ==
  /\ renew = "sent" /\ up
  /\ store' = [store EXCEPT ![Host] = Version]
  /\ ttl' = Expiry
  /\ renew' = "executed" /\ waited' = 0
  /\ kept' = TRUE
  /\ UNCHANGED <<pool, up, calls, late, lateSet, due, ticked, lost>>

SetVersionLate ==
  /\ lateSet /\ up
  /\ store' = [store EXCEPT ![Host] = Version]
  /\ ttl' = Expiry
  /\ lateSet' = FALSE
  /\ UNCHANGED <<pool, up, calls, late, renew, due, ticked, waited, kept, lost>>

Evict(k) ==
  /\ up /\ store[k] # "none"
  /\ store' = [store EXCEPT ![k] = "none"]
  /\ ttl' = IF k = Host THEN 0 ELSE ttl
  /\ kept' = (kept /\ k # Host)
  /\ lost' = lost \cup Reading(k)
  /\ UNCHANGED <<pool, up, calls, late, renewer>>

(* Redis ends: its data and what it was sent are gone; an answer that is   *)
(* on its way may still arrive.                                            *)
Stop ==
  /\ up /\ up' = FALSE
  /\ store' = [k \in Keys |-> "none"] /\ ttl' = 0
  /\ phase' = [r \in Calls |-> IF phase[r] = "sent" THEN "broken" ELSE phase[r]]
  /\ late' = {} /\ lateSet' = FALSE
  /\ renew' = IF renew = "sent" THEN "broken" ELSE renew
  /\ kept' = FALSE
  /\ lost' = lost \cup UNION {Reading(k) : k \in Keys}
  /\ UNCHANGED <<pool, op, key, val, cmd, reply, result, due, ticked, waited>>

Start ==
  /\ ~up /\ up' = TRUE
  /\ UNCHANGED <<pool, store, ttl, calls, late, renewer, kept, lost>>

(* Time passes, and with it the life of the version key.  The ticker's     *)
(* channel holds one tick, others are dropped; the goroutine takes it at   *)
(* once unless it waits for redis.                                         *)
Tick ==
  /\ ~(pool /\ ticked /\ renew = "idle")
  /\ due' = IF due = 1 THEN Period ELSE due - 1
  /\ ticked' = (ticked \/ due = 1)
  /\ kept' = (kept /\ (renew = "idle" \/ waited + 1 < Margin))
  /\ waited' = IF kept' /\ renew # "idle" THEN waited + 1 ELSE 0
  /\ ttl' = IF ttl = 0 THEN 0 ELSE ttl - 1
  /\ \/ ttl = 1 /\ store' = [store EXCEPT ![Host] = "none"] /\ lost' = lost \cup Reading(Host)
     \/ ttl # 1 /\ UNCHANGED <<store, lost>>
  /\ UNCHANGED <<pool, up, calls, late, renew, lateSet>>

Redis == SetVersion \/ SetVersionLate \/ Stop \/ Start

Next ==
  \/ \E r \in Calls, o \in {"SET", "DEL", "GET"} : Begin(r, o)
  \/ \E r \in Calls : Handler(r) \/ Execute(r) \/ ExecuteLate(r)
  \/ Renew \/ RenewAnswered \/ RenewFails \/ Redis
  \/ \E k \in Keys : Evict(k)
  \/ Tick

Spec == Init /\ [][Next]_vars

-----------------------------------------------------------------------------
(* Properties.                                                             *)

Contents == Values \cup {Version, "none"}

(* Every variable has its type.                                            *)
TypeOK ==
  /\ pool \in BOOLEAN /\ up \in BOOLEAN
  /\ store \in [Keys -> Contents] /\ ttl \in 0..Expiry
  /\ op \in [Calls -> {"none", "SET", "DEL", "GET"}]
  /\ key \in [Calls -> Keys] /\ val \in [Calls -> Values]
  /\ cmd \in [Calls -> {"new", "SET", "DEL", "EXISTS", "GET", "done"}]
  /\ phase \in [Calls -> {"none", "sent", "executed", "broken"}]
  /\ reply \in [Calls -> Contents] /\ result \in [Calls -> Contents \cup Outcomes]
  /\ late \subseteq Calls /\ lateSet \in BOOLEAN
  /\ renew \in {"idle", "sent", "executed", "broken"}
  /\ due \in 1..Period /\ ticked \in BOOLEAN /\ waited \in 0..Margin - 1
  /\ kept \in BOOLEAN /\ lost \subseteq Calls

(* Once set, the host's version stays in the cache as long as no one else  *)
(* touches its key or empties redis, no renewal fails, and redis neither   *)
(* takes Margin (30 seconds) to execute one nor, then, to answer it.  The  *)
(* ticks dropped while a renewal waits cost nothing below that.  Nothing   *)
(* in the code keeps redis to it: `kept` ends where it does not.           *)
VersionKept == kept => store[Host] = Version

(* A read is answered 500 only when its key was removed between EXISTS and *)
(* GET or its connection broke: a key that is just missing is a 404.       *)
ReadErrorsAreRaces ==
  \A r \in Calls : op[r] = "GET" /\ result[r] = "failed" => r \in lost

(* The calls take effect one at a time: an accepted write happened while   *)
(* it ran, a value that was read was there while the read ran, and a write *)
(* that failed happened at most once, maybe afterwards.                    *)
Stage ==
  [r \in Calls |->
    IF cmd[r] = "new" THEN "new"
    ELSE IF cmd[r] = "done" THEN "done"
    ELSE IF cmd[r] # "EXISTS" /\ phase[r] = "executed" THEN "applied"
    ELSE "open"]

Seen ==
  [r \in Calls |-> IF cmd[r] = "GET" /\ phase[r] = "executed" THEN reply[r] ELSE "none"]

Register == INSTANCE CacheRegister WITH stage <- Stage, seen <- Seen
ImplementsRegister == Register!Spec
=============================================================================
