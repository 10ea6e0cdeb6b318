---------------------------- MODULE CacheRegister ----------------------------
(* What the cache endpoints promise: a call takes effect once, between its *)
(* beginning and its end, and its answer agrees with that effect.  A call  *)
(* that fails may have its effect, then or later, or never.  Keys vanish   *)
(* at any time, and the host's own key is set to the version at any time.  *)
CONSTANTS Keys, Host, Values, Version, Calls

VARIABLES store,   \* the value of each key, "none" if it has none
          stage,   \* of each call: new, open, applied or done
          op, key, val,
          seen,    \* what a GET found when it took effect
          late,    \* the calls that failed and may still take effect
          result

vars == <<store, stage, op, key, val, seen, late, result>>

Init ==
  /\ store = [k \in Keys |-> "none"]
  /\ stage = [r \in Calls |-> "new"] /\ op = [r \in Calls |-> "none"]
  /\ key \in [Calls -> Keys] /\ val \in [Calls -> Values]
  /\ seen = [r \in Calls |-> "none"] /\ late = {}
  /\ result = [r \in Calls |-> "none"]

Call(r, o) ==
  /\ stage[r] = "new"
  /\ stage' = [stage EXCEPT ![r] = "open"]
  /\ op' = [op EXCEPT ![r] = o]
  /\ UNCHANGED <<store, key, val, seen, late, result>>

Effect(r) ==
  \/ op[r] = "SET" /\ store' = [store EXCEPT ![key[r]] = val[r]]
  \/ op[r] = "DEL" /\ store' = [store EXCEPT ![key[r]] = "none"]
  \/ op[r] = "GET" /\ UNCHANGED store

Apply(r) ==
  /\ stage[r] = "open" /\ Effect(r)
  /\ stage' = [stage EXCEPT ![r] = "applied"]
  /\ seen' = [seen EXCEPT ![r] = IF op[r] = "GET" THEN store[key[r]] ELSE "none"]
  /\ UNCHANGED <<op, key, val, late, result>>

(* A call that took effect says so, with what it found, or that it failed. *)
Answer(r) ==
  /\ stage[r] = "applied"
  /\ stage' = [stage EXCEPT ![r] = "done"]
  /\ \E a \in {"failed"} \cup (IF op[r] = "GET" THEN {seen[r]} ELSE {"accepted"}) :
       a # "none" /\ result' = [result EXCEPT ![r] = a]
  /\ seen' = [seen EXCEPT ![r] = "none"]
  /\ UNCHANGED <<store, op, key, val, late>>

Refuse(r, o) ==
  /\ stage[r] = "new"
  /\ stage' = [stage EXCEPT ![r] = "done"]
  /\ op' = [op EXCEPT ![r] = o]
  /\ result' = [result EXCEPT ![r] = "rejected"]
  /\ UNCHANGED <<store, key, val, seen, late>>

GiveUp(r) ==
  /\ stage[r] = "open"
  /\ stage' = [stage EXCEPT ![r] = "done"]
  /\ \E a \in {"failed", "notFound"} : result' = [result EXCEPT ![r] = a]
  /\ late' \in {late, late \cup {r}}
  /\ UNCHANGED <<store, op, key, val, seen>>

ApplyLate(r) ==
  /\ r \in late /\ Effect(r)
  /\ late' = late \ {r}
  /\ UNCHANGED <<stage, op, key, val, seen, result>>

Vanish ==
  /\ \E gone \in SUBSET Keys :
       store' = [k \in Keys |-> IF k \in gone THEN "none" ELSE store[k]]
  /\ late' \in SUBSET late
  /\ UNCHANGED <<stage, op, key, val, seen, result>>

Publish ==
  /\ store' = [store EXCEPT ![Host] = Version]
  /\ UNCHANGED <<stage, op, key, val, seen, late, result>>

Next ==
  \/ \E r \in Calls, o \in {"SET", "DEL", "GET"} : Call(r, o) \/ Refuse(r, o)
  \/ \E r \in Calls : Apply(r) \/ Answer(r) \/ GiveUp(r) \/ ApplyLate(r)
  \/ Vanish \/ Publish

Spec == Init /\ [][Next]_vars
=============================================================================
