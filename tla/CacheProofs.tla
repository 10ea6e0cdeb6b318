----------------------------- MODULE CacheProofs -----------------------------
(***************************************************************************)
(* What is proved of Cache for any keys, values, calls and times: that the *)
(* version key outlives the wait for its renewal, what a 500 to a read     *)
(* means, and that the calls implement CacheRegister.                      *)
(***************************************************************************)
EXTENDS Cache, TLAPS

(* While the ticker's goroutine waits for a tick, the version outlives the *)
(* time to it by Margin, and by Margin a tick it has not taken yet; a SET  *)
(* under way lives on what that leaves, and one that redis executed on all *)
(* of Expiry.  The tick after a SET is then less than Period away, or was  *)
(* there already.                                                          *)
Outlives ==
  /\ kept \/ renew # "idle" => pool
  /\ kept =>
       /\ store[Host] = Version
       /\ renew = "idle" => ttl >= (IF ticked THEN 0 ELSE due) + Margin
       /\ renew \in {"sent", "broken"} => ttl + waited >= Margin
       /\ renew = "executed" => ttl + waited >= Expiry
       /\ renew = "executed" /\ ~ticked => due + waited <= Period

(* Which commands a call of each kind does.                                *)
Commands ==
  /\ \A r \in Calls : cmd[r] \in {"SET", "DEL"} => op[r] = cmd[r]
  /\ \A r \in Calls : cmd[r] \in {"EXISTS", "GET"} => op[r] = "GET"
  /\ \A r \in late : op[r] \in {"SET", "DEL"} /\ cmd[r] = "done"
  /\ \A r \in Calls : cmd[r] = "new" => phase[r] = "none" /\ op[r] = "none"

(* Between EXISTS and GET the key is there, or the read is known to have   *)
(* lost it.                                                                *)
PresentOf(r) ==
  /\ r \notin lost =>
       /\ cmd[r] = "EXISTS" /\ phase[r] = "executed" /\ reply[r] # "none" =>
            store[key[r]] # "none"
       /\ cmd[r] = "GET" /\ phase[r] = "sent" => store[key[r]] # "none"
       /\ cmd[r] = "GET" /\ phase[r] = "executed" => reply[r] # "none"
  /\ result[r] = "failed" /\ op[r] = "GET" => r \in lost
  /\ cmd[r] # "done" => result[r] = "none"

Present == \A r \in Calls : PresentOf(r)

CacheInvariant == TypeOK /\ Outlives /\ Commands /\ Present

(* Every step keeps the types.                                             *)
LEMMA TypeStep ==
  ASSUME TypeOK, [Next]_vars
  PROVE  TypeOK'
<1> USE CacheAssumption DEF TypeOK, Contents, Outcomes, Reading, Margin, calls, renewer
<1>1. ASSUME NEW r \in Calls, NEW o \in {"SET", "DEL", "GET"}, Begin(r, o)
      PROVE  TypeOK'
  BY <1>1 DEF Begin
<1>2. ASSUME NEW r \in Calls, Reject(r)
      PROVE  TypeOK'
  BY <1>2 DEF Reject
<1>3. ASSUME NEW r \in Calls, AnswerWrite(r)
      PROVE  TypeOK'
  BY <1>3 DEF AnswerWrite
<1>4. ASSUME NEW r \in Calls, AnswerExists(r)
      PROVE  TypeOK'
  BY <1>4 DEF AnswerExists
<1>5. ASSUME NEW r \in Calls, AnswerGet(r)
      PROVE  TypeOK'
  BY <1>5 DEF AnswerGet
<1>6. ASSUME NEW r \in Calls, Fail(r)
      PROVE  TypeOK'
  BY <1>6 DEF Fail
<1>7. ASSUME NEW r \in Calls, Execute(r)
      PROVE  TypeOK'
  <2>1. store' \in [Keys -> Contents] /\ ttl' \in 0..Expiry
    BY <1>7 DEF Execute, DoWrite
  <2>2. kept' \in BOOLEAN /\ pool' \in BOOLEAN /\ up' \in BOOLEAN /\ lateSet' \in BOOLEAN
    BY <1>7 DEF Execute, DoWrite
  <2>3. op' \in [Calls -> {"none", "SET", "DEL", "GET"}] /\ key' = key /\ val' = val /\ cmd' = cmd /\ result' = result
    BY <1>7 DEF Execute, DoWrite
  <2>4. phase' \in [Calls -> {"none", "sent", "executed", "broken"}] /\ reply' \in [Calls -> Contents]
    BY <1>7 DEF Execute, DoWrite
  <2>5. late' \subseteq Calls /\ lost' \subseteq Calls
    BY <1>7 DEF Execute, DoWrite
  <2>6. renew' \in {"idle", "sent", "executed", "broken"} /\ due' = due /\ ticked' \in BOOLEAN /\ waited' = waited
    BY <1>7 DEF Execute, DoWrite
  <2> QED
    BY <2>1, <2>2, <2>3, <2>4, <2>5, <2>6
<1>8. ASSUME NEW r \in Calls, ExecuteLate(r)
      PROVE  TypeOK'
  BY <1>8 DEF ExecuteLate, DoWrite
<1>9. ASSUME NEW k \in Keys, Evict(k)
      PROVE  TypeOK'
  BY <1>9 DEF Evict
<1>10. CASE Renew
  BY <1>10 DEF Renew
<1>11. CASE RenewFails
  BY <1>11 DEF RenewFails
<1>12. CASE SetVersion
  BY <1>12 DEF SetVersion
<1>13. CASE SetVersionLate
  <2>1. store' \in [Keys -> Contents] /\ ttl' \in 0..Expiry
    BY <1>13 DEF SetVersionLate
  <2>2. kept' \in BOOLEAN /\ pool' \in BOOLEAN /\ up' \in BOOLEAN /\ lateSet' \in BOOLEAN
    BY <1>13 DEF SetVersionLate
  <2>3. op' \in [Calls -> {"none", "SET", "DEL", "GET"}] /\ key' = key /\ val' = val /\ cmd' = cmd /\ result' = result
    BY <1>13 DEF SetVersionLate
  <2>4. phase' \in [Calls -> {"none", "sent", "executed", "broken"}] /\ reply' \in [Calls -> Contents]
    BY <1>13 DEF SetVersionLate
  <2>5. late' \subseteq Calls /\ lost' \subseteq Calls
    BY <1>13 DEF SetVersionLate
  <2>6. renew' \in {"idle", "sent", "executed", "broken"} /\ due' = due /\ ticked' \in BOOLEAN /\ waited' = waited
    BY <1>13 DEF SetVersionLate
  <2> QED
    BY <2>1, <2>2, <2>3, <2>4, <2>5, <2>6
<1>14. CASE Stop
  <2>1. store' \in [Keys -> Contents] /\ ttl' \in 0..Expiry
    BY <1>14 DEF Stop
  <2>2. kept' \in BOOLEAN /\ pool' \in BOOLEAN /\ up' \in BOOLEAN /\ lateSet' \in BOOLEAN
    BY <1>14 DEF Stop
  <2>3. op' \in [Calls -> {"none", "SET", "DEL", "GET"}] /\ key' = key /\ val' = val /\ cmd' = cmd /\ result' = result
    BY <1>14 DEF Stop
  <2>4. phase' \in [Calls -> {"none", "sent", "executed", "broken"}] /\ reply' \in [Calls -> Contents]
    BY <1>14 DEF Stop
  <2>5. late' \subseteq Calls /\ lost' \subseteq Calls
    BY <1>14 DEF Stop
  <2>6. renew' \in {"idle", "sent", "executed", "broken"} /\ due' = due /\ ticked' \in BOOLEAN /\ waited' = waited
    BY <1>14 DEF Stop
  <2> QED
    BY <2>1, <2>2, <2>3, <2>4, <2>5, <2>6
<1>15. CASE Start
  BY <1>15 DEF Start
<1>16. CASE Tick
  <2>1. store' \in [Keys -> Contents] /\ ttl' \in 0..Expiry /\ lost' \subseteq Calls
    BY <1>16 DEF Tick
  <2>2. kept' \in BOOLEAN /\ ticked' \in BOOLEAN
    BY <1>16 DEF Tick
  <2>3. due' \in 1..Period
    BY <1>16 DEF Tick
  <2>4. waited' \in 0..Margin - 1
    <3>1. CASE kept' /\ renew # "idle"
      <4>1. kept /\ waited + 1 < Margin
        BY <1>16, <3>1, Zenon DEF Tick
      <4>2. waited' = waited + 1
        BY <1>16, <3>1 DEF Tick
      <4> QED
        BY <4>1, <4>2
    <3>2. CASE ~(kept' /\ renew # "idle")
      BY <1>16, <3>2 DEF Tick
    <3> QED
      BY <3>1, <3>2
  <2>5. UNCHANGED <<pool, up, calls, late, renew, lateSet>>
    BY <1>16 DEF Tick
  <2> QED
    BY <2>1, <2>2, <2>3, <2>4, <2>5
<1>17. CASE RenewAnswered
  BY <1>17 DEF RenewAnswered
<1>18. CASE UNCHANGED vars
  BY <1>18 DEF vars
<1> QED
  BY <1>1, <1>2, <1>3, <1>4, <1>5, <1>6, <1>7, <1>8, <1>9,
     <1>10, <1>11, <1>12, <1>13, <1>14, <1>15, <1>16, <1>17, <1>18
     DEF Next, Handler, Redis

(* Every step keeps the version ahead of its expiry.                       *)
LEMMA OutlivesStep ==
  ASSUME TypeOK, Outlives, [Next]_vars
  PROVE  Outlives'
<1> USE CacheAssumption DEF TypeOK, Outlives, Contents, Margin, calls, renewer
<1>1. ASSUME NEW r \in Calls, NEW o \in {"SET", "DEL", "GET"}, Begin(r, o)
      PROVE  Outlives'
  BY <1>1 DEF Begin
<1>2. ASSUME NEW r \in Calls, Reject(r)
      PROVE  Outlives'
  BY <1>2 DEF Reject
<1>3. ASSUME NEW r \in Calls, AnswerWrite(r)
      PROVE  Outlives'
  BY <1>3 DEF AnswerWrite
<1>4. ASSUME NEW r \in Calls, AnswerExists(r)
      PROVE  Outlives'
  BY <1>4 DEF AnswerExists
<1>5. ASSUME NEW r \in Calls, AnswerGet(r)
      PROVE  Outlives'
  BY <1>5 DEF AnswerGet
<1>6. ASSUME NEW r \in Calls, Fail(r)
      PROVE  Outlives'
  BY <1>6 DEF Fail
<1>7. ASSUME NEW r \in Calls, Execute(r)
      PROVE  Outlives'
  <2>1. pool' = pool /\ renew' = renew /\ due' = due /\ ticked' = ticked /\ waited' = waited
    BY <1>7 DEF Execute
  <2>2. kept' => kept
    BY <1>7 DEF Execute, DoWrite
  <2>3. kept' => store'[Host] = store[Host] /\ ttl' = ttl
    BY <1>7 DEF Execute, DoWrite
  <2> QED
    BY <2>1, <2>2, <2>3
<1>8. ASSUME NEW r \in Calls, ExecuteLate(r)
      PROVE  Outlives'
  BY <1>8 DEF ExecuteLate, DoWrite
<1>9. ASSUME NEW k \in Keys, Evict(k)
      PROVE  Outlives'
  BY <1>9 DEF Evict
<1>10. CASE Renew
  BY <1>10 DEF Renew
<1>11. CASE RenewFails
  <2> SUFFICES ASSUME kept'
               PROVE  /\ pool' /\ store'[Host] = Version
                      /\ ttl' >= (IF ticked' THEN 0 ELSE due') + Margin
    BY <1>11 DEF RenewFails
  <2>1. kept /\ renew = "executed"
    BY <1>11, Zenon DEF RenewFails
  <2>2. pool /\ store[Host] = Version /\ ttl + waited >= Expiry /\ (~ticked => due + waited <= Period)
    BY <2>1
  <2>3. due' = due /\ ticked' = ticked /\ ttl' = ttl /\ pool' = pool /\ store' = store
    BY <1>11 DEF RenewFails
  <2>4. due \in 1..Period /\ ttl \in 0..Expiry /\ waited \in 0..Margin - 1 /\ Period \in Nat /\ Expiry \in Nat
    OBVIOUS
  <2>5. ttl >= (IF ticked THEN 0 ELSE due) + Margin
    BY <2>2, <2>4
  <2> QED
    BY <2>2, <2>3, <2>5
<1>12. CASE SetVersion
  <2>1. pool' = pool /\ store'[Host] = Version /\ ttl' = Expiry /\ renew' = "executed" /\ waited' = 0
    BY <1>12 DEF SetVersion
  <2>2. due' = due /\ due <= Period /\ due \in Nat
    BY <1>12 DEF SetVersion
  <2>3. pool
    BY <1>12 DEF SetVersion
  <2> QED
    BY <2>1, <2>2, <2>3
<1>13. CASE SetVersionLate
  BY <1>13 DEF SetVersionLate
<1>14. CASE Stop
  BY <1>14 DEF Stop
<1>15. CASE Start
  BY <1>15 DEF Start
<1>16. CASE Tick
  <2> SUFFICES ASSUME kept'
               PROVE  /\ store'[Host] = Version
                      /\ renew' = "idle" => ttl' >= (IF ticked' THEN 0 ELSE due') + Margin
                      /\ renew' \in {"sent", "broken"} => ttl' + waited' >= Margin
                      /\ renew' = "executed" => ttl' + waited' >= Expiry
                      /\ renew' = "executed" /\ ~ticked' => due' + waited' <= Period
    BY <1>16 DEF Tick
  <2>1. kept /\ pool /\ store[Host] = Version
    BY <1>16 DEF Tick
  <2>2. pool' = pool /\ renew' = renew
    BY <1>16 DEF Tick
  <2>3. due' = (IF due = 1 THEN Period ELSE due - 1) /\ ttl' = (IF ttl = 0 THEN 0 ELSE ttl - 1)
    BY <1>16 DEF Tick
  <2>4. ttl = 1 \/ store' = store
    BY <1>16 DEF Tick
  <2>5. ticked' <=> ticked \/ due = 1
    BY <1>16 DEF Tick
  <2>6. due \in 1..Period /\ ttl \in 0..Expiry /\ waited \in 0..Margin - 1 /\ Period \in Nat /\ Expiry \in Nat
    OBVIOUS
  <2>7. CASE renew = "idle"
    <3>1. ~ticked
      BY <1>16, <2>1, <2>7 DEF Tick
    <3>2. ttl >= due + Margin
      BY <2>1, <2>7, <3>1
    <3>3. ttl # 1 /\ ttl' = ttl - 1
      BY <2>3, <2>6, <3>2
    <3> QED
      BY <2>1, <2>2, <2>3, <2>4, <2>5, <2>6, <2>7, <3>1, <3>2, <3>3
  <2>8. CASE renew # "idle"
    <3>1. waited' = waited + 1
      BY <1>16, <2>8 DEF Tick
    <3>2. waited + 1 < Margin
      BY <1>16, <2>8, Zenon DEF Tick
    <3>3. ttl + waited >= Margin
      BY <2>1, <2>6, <2>8
    <3>4. ttl # 1 /\ ttl' = ttl - 1
      BY <2>3, <2>6, <3>2, <3>3
    <3>5. renew \in {"sent", "broken"} => ttl' + waited' >= Margin
      BY <2>6, <3>1, <3>3, <3>4
    <3>6. renew = "executed" => ttl' + waited' >= Expiry
      BY <2>1, <2>6, <3>1, <3>4
    <3>7. renew = "executed" /\ ~ticked' => due' + waited' <= Period
      BY <2>1, <2>3, <2>5, <2>6, <3>1
    <3> QED
      BY <2>1, <2>2, <2>4, <2>8, <3>4, <3>5, <3>6, <3>7
  <2> QED
    BY <2>7, <2>8
<1>17. CASE RenewAnswered
  BY <1>17 DEF RenewAnswered
<1>18. CASE UNCHANGED vars
  BY <1>18 DEF vars
<1> QED
  BY <1>1, <1>2, <1>3, <1>4, <1>5, <1>6, <1>7, <1>8, <1>9,
     <1>10, <1>11, <1>12, <1>13, <1>14, <1>15, <1>16, <1>17, <1>18
     DEF Next, Handler, Redis

(* Every step keeps the commands of a call to its kind.                    *)
LEMMA CommandsStep ==
  ASSUME TypeOK, Commands, [Next]_vars
  PROVE  Commands'
<1> USE CacheAssumption DEF TypeOK, Commands, calls, renewer
<1>1. ASSUME NEW r \in Calls, NEW o \in {"SET", "DEL", "GET"}, Begin(r, o)
      PROVE  Commands'
  BY <1>1 DEF Begin
<1>2. ASSUME NEW r \in Calls, Reject(r)
      PROVE  Commands'
  BY <1>2 DEF Reject
<1>3. ASSUME NEW r \in Calls, AnswerWrite(r)
      PROVE  Commands'
  BY <1>3 DEF AnswerWrite
<1>4. ASSUME NEW r \in Calls, AnswerExists(r)
      PROVE  Commands'
  BY <1>4 DEF AnswerExists
<1>5. ASSUME NEW r \in Calls, AnswerGet(r)
      PROVE  Commands'
  BY <1>5 DEF AnswerGet
<1>6. ASSUME NEW r \in Calls, Fail(r)
      PROVE  Commands'
  BY <1>6 DEF Fail
<1>7. ASSUME NEW r \in Calls, Execute(r)
      PROVE  Commands'
  BY <1>7 DEF Execute, DoWrite
<1>8. ASSUME NEW r \in Calls, ExecuteLate(r)
      PROVE  Commands'
  BY <1>8 DEF ExecuteLate, DoWrite
<1>9. ASSUME NEW k \in Keys, Evict(k)
      PROVE  Commands'
  BY <1>9 DEF Evict
<1>10. CASE Renew
  BY <1>10 DEF Renew
<1>11. CASE RenewFails
  BY <1>11 DEF RenewFails
<1>12. CASE SetVersion
  BY <1>12 DEF SetVersion
<1>13. CASE SetVersionLate
  BY <1>13 DEF SetVersionLate
<1>14. CASE Stop
  BY <1>14 DEF Stop
<1>15. CASE Start
  BY <1>15 DEF Start
<1>16. CASE Tick
  BY <1>16 DEF Tick
<1>17. CASE RenewAnswered
  BY <1>17 DEF RenewAnswered
<1>18. CASE UNCHANGED vars
  BY <1>18 DEF vars
<1> QED
  BY <1>1, <1>2, <1>3, <1>4, <1>5, <1>6, <1>7, <1>8, <1>9,
     <1>10, <1>11, <1>12, <1>13, <1>14, <1>15, <1>16, <1>17, <1>18
     DEF Next, Handler, Redis

(* Every step keeps the key of a read, or marks the read.                  *)
LEMMA PresentStep ==
  ASSUME TypeOK, Commands, Present, [Next]_vars
  PROVE  Present'
<1> USE CacheAssumption DEF TypeOK, Commands, Present, PresentOf, Contents, Outcomes, Reading, calls, renewer
<1>1. ASSUME NEW r \in Calls, NEW o \in {"SET", "DEL", "GET"}, Begin(r, o)
      PROVE  Present'
  BY <1>1 DEF Begin
<1>2. ASSUME NEW r \in Calls, Reject(r)
      PROVE  Present'
  BY <1>2 DEF Reject
<1>3. ASSUME NEW r \in Calls, AnswerWrite(r)
      PROVE  Present'
  BY <1>3 DEF AnswerWrite
<1>4. ASSUME NEW r \in Calls, AnswerExists(r)
      PROVE  Present'
  BY <1>4 DEF AnswerExists
<1>5. ASSUME NEW r \in Calls, AnswerGet(r)
      PROVE  Present'
  <2> SUFFICES ASSUME NEW q \in Calls
               PROVE  PresentOf(q)'
    BY DEF Present
  <2>1. CASE q = r
    BY <1>5, <2>1 DEF AnswerGet
  <2>2. CASE q # r
    BY <1>5, <2>2 DEF AnswerGet
  <2> QED
    BY <2>1, <2>2
<1>6. ASSUME NEW r \in Calls, Fail(r)
      PROVE  Present'
  BY <1>6 DEF Fail
<1>7. ASSUME NEW r \in Calls, Execute(r)
      PROVE  Present'
  BY <1>7 DEF Execute, DoWrite
<1>8. ASSUME NEW r \in Calls, ExecuteLate(r)
      PROVE  Present'
  BY <1>8 DEF ExecuteLate, DoWrite
<1>9. ASSUME NEW k \in Keys, Evict(k)
      PROVE  Present'
  BY <1>9 DEF Evict
<1>10. CASE Renew
  BY <1>10 DEF Renew
<1>11. CASE RenewFails
  BY <1>11 DEF RenewFails
<1>12. CASE SetVersion
  BY <1>12 DEF SetVersion
<1>13. CASE SetVersionLate
  BY <1>13 DEF SetVersionLate
<1>14. CASE Stop
  BY <1>14 DEF Stop
<1>15. CASE Start
  BY <1>15 DEF Start
<1>16. CASE Tick
  BY <1>16 DEF Tick
<1>17. CASE RenewAnswered
  BY <1>17 DEF RenewAnswered
<1>18. CASE UNCHANGED vars
  BY <1>18 DEF vars
<1> QED
  BY <1>1, <1>2, <1>3, <1>4, <1>5, <1>6, <1>7, <1>8, <1>9,
     <1>10, <1>11, <1>12, <1>13, <1>14, <1>15, <1>16, <1>17, <1>18
     DEF Next, Handler, Redis

(* The parts of the invariant hold in every state.                         *)
THEOREM CacheCorrect == Spec => []CacheInvariant
<1>1. ASSUME Init
      PROVE  CacheInvariant
  <2>1. TypeOK
    <3>1. Period \in Nat /\ Expiry \in Nat /\ Period < Expiry /\ Expiry <= 2 * Period
      BY CacheAssumption
    <3>2. ttl \in 0..Expiry /\ due \in 1..Period /\ waited \in 0..Margin - 1
      BY <1>1, <3>1 DEF Init, Margin
    <3>3. store \in [Keys -> Contents] /\ reply \in [Calls -> Contents]
      BY <1>1 DEF Init, Contents
    <3>4. result \in [Calls -> Contents \cup Outcomes]
      BY <1>1 DEF Init, Contents
    <3> QED
      BY <1>1, <3>2, <3>3, <3>4 DEF Init, TypeOK
  <2>2. Outlives /\ Commands /\ Present
    BY <1>1, CacheAssumption DEF Init, Outlives, Commands, Present, PresentOf
  <2> QED
    BY <2>1, <2>2 DEF CacheInvariant
<1>2. CacheInvariant /\ [Next]_vars => CacheInvariant'
  BY TypeStep, OutlivesStep, CommandsStep, PresentStep DEF CacheInvariant
<1> QED
  BY <1>1, <1>2, PTL DEF Spec

(* Every variable has its type.                                            *)
THEOREM TypeCorrect == Spec => []TypeOK
<1>1. CacheInvariant => TypeOK
  BY DEF CacheInvariant
<1> QED
  BY <1>1, CacheCorrect, PTL

(* Renewals that redis neither fails nor keeps waiting for Margin keep the *)
(* version in the cache.                                                   *)
THEOREM VersionTheorem == Spec => []VersionKept
<1>1. CacheInvariant => VersionKept
  BY DEF CacheInvariant, Outlives, VersionKept
<1> QED
  BY <1>1, CacheCorrect, PTL

(* A 500 to a read tells of a key removed under it or a connection lost.   *)
THEOREM ReadErrorTheorem == Spec => []ReadErrorsAreRaces
<1>1. CacheInvariant => ReadErrorsAreRaces
  BY DEF CacheInvariant, Present, PresentOf, ReadErrorsAreRaces
<1> QED
  BY <1>1, CacheCorrect, PTL

(* Every step of a handler, the ticker or redis is a step of the register, *)
(* or changes nothing that it shows.                                       *)
THEOREM Refinement == Spec => ImplementsRegister
<1>1. Init => Register!Init
  BY DEF Init, Register!Init, Stage, Seen
<1>2. ASSUME TypeOK, Commands, Present, [Next]_vars
      PROVE  [Register!Next]_Register!vars
  <2> USE CacheAssumption, <1>2
      DEF TypeOK, Commands, Contents, Stage, Seen, calls, renewer
  <2>1. ASSUME NEW r \in Calls, NEW o \in {"SET", "DEL", "GET"}, Begin(r, o)
        PROVE  [Register!Next]_Register!vars
    <3>1. Stage' = [Stage EXCEPT ![r] = "open"] /\ Stage[r] = "new"
      BY <2>1 DEF Begin
    <3>2. Seen' = Seen
      BY <2>1 DEF Begin
    <3>3. Register!Call(r, o)
      BY <2>1, <3>1, <3>2 DEF Begin, Register!Call
    <3> QED
      BY <3>3 DEF Register!Next
  <2>2. ASSUME NEW r \in Calls, Reject(r)
        PROVE  [Register!Next]_Register!vars
    <3>1. \E o \in {"SET", "DEL", "GET"} : Register!Refuse(r, o)
      BY <2>2 DEF Reject, Register!Refuse
    <3> QED
      BY <3>1 DEF Register!Next
  <2>3. ASSUME NEW r \in Calls, AnswerWrite(r)
        PROVE  [Register!Next]_Register!vars
    <3>1. Register!Answer(r)
      BY <2>3 DEF AnswerWrite, Register!Answer
    <3> QED
      BY <3>1 DEF Register!Next
  <2>4. ASSUME NEW r \in Calls, AnswerExists(r)
        PROVE  [Register!Next]_Register!vars
    <3>1. CASE reply[r] = "none"
      <4>1. Stage' = [Stage EXCEPT ![r] = "done"] /\ Stage[r] = "open"
        <5>1. cmd' = [cmd EXCEPT ![r] = "done"] /\ phase' = phase /\ cmd[r] = "EXISTS"
          BY <2>4, <3>1 DEF AnswerExists
        <5> QED
          BY <5>1
      <4>2. Seen' = Seen
        BY <2>4, <3>1 DEF AnswerExists
      <4>3. result' = [result EXCEPT ![r] = "notFound"]
        BY <2>4, <3>1 DEF AnswerExists
      <4>4. late' = late /\ UNCHANGED <<store, op, key, val>>
        BY <2>4 DEF AnswerExists
      <4>5. Register!GiveUp(r)
        BY <4>1, <4>2, <4>3, <4>4 DEF Register!GiveUp
      <4> QED
        BY <4>5 DEF Register!Next
    <3>2. CASE reply[r] # "none"
      BY <2>4, <3>2 DEF AnswerExists, Register!vars
    <3> QED
      BY <3>1, <3>2
  <2>5. ASSUME NEW r \in Calls, AnswerGet(r)
        PROVE  [Register!Next]_Register!vars
    <3>1. Register!Answer(r)
      BY <2>5 DEF AnswerGet, Register!Answer
    <3> QED
      BY <3>1 DEF Register!Next
  <2>6. ASSUME NEW r \in Calls, Fail(r)
        PROVE  [Register!Next]_Register!vars
    <3>1. CASE cmd[r] # "EXISTS" /\ phase[r] = "executed"
      <4>1. Register!Answer(r)
        BY <2>6, <3>1 DEF Fail, Register!Answer
      <4> QED
        BY <4>1 DEF Register!Next
    <3>2. CASE ~(cmd[r] # "EXISTS" /\ phase[r] = "executed")
      <4>1. Stage' = [Stage EXCEPT ![r] = "done"] /\ Stage[r] = "open"
        BY <2>6, <3>2 DEF Fail
      <4>2. Seen' = Seen
        BY <2>6, <3>2 DEF Fail
      <4>3. result' = [result EXCEPT ![r] = "failed"] \/ result' = [result EXCEPT ![r] = "notFound"]
        BY <2>6 DEF Fail
      <4>4. late' \in {late, late \cup {r}} /\ UNCHANGED <<store, op, key, val>>
        BY <2>6 DEF Fail
      <4>5. Register!GiveUp(r)
        BY <4>1, <4>2, <4>3, <4>4 DEF Register!GiveUp
      <4> QED
        BY <4>5 DEF Register!Next
    <3> QED
      BY <3>1, <3>2
  <2>7. ASSUME NEW r \in Calls, Execute(r)
        PROVE  [Register!Next]_Register!vars
    <3>1. CASE cmd[r] = "EXISTS"
      BY <2>7, <3>1 DEF Execute, Register!vars
    <3>2. CASE cmd[r] \in {"SET", "DEL", "GET"}
      <4>1. Stage' = [Stage EXCEPT ![r] = "applied"] /\ Stage[r] = "open"
        BY <2>7, <3>2 DEF Execute
      <4>2. Seen' = [Seen EXCEPT ![r] = IF op[r] = "GET" THEN store[key[r]] ELSE "none"]
        BY <2>7, <3>2 DEF Execute
      <4>3. Register!Effect(r)
        BY <2>7, <3>2 DEF Execute, DoWrite, Register!Effect
      <4>4. Register!Apply(r)
        BY <2>7, <4>1, <4>2, <4>3 DEF Execute, Register!Apply
      <4> QED
        BY <4>4 DEF Register!Next
    <3> QED
      BY <2>7, <3>1, <3>2 DEF Execute
  <2>8. ASSUME NEW r \in Calls, ExecuteLate(r)
        PROVE  [Register!Next]_Register!vars
    <3>1. Register!ApplyLate(r)
      BY <2>8 DEF ExecuteLate, DoWrite, Register!ApplyLate, Register!Effect
    <3> QED
      BY <3>1 DEF Register!Next
  <2>9. ASSUME NEW k \in Keys, Evict(k)
        PROVE  [Register!Next]_Register!vars
    <3>1. {k} \in SUBSET Keys /\ late' \in SUBSET late
      BY <2>9 DEF Evict
    <3>2. store' = [j \in Keys |-> IF j \in {k} THEN "none" ELSE store[j]]
      BY <2>9 DEF Evict
    <3>3. Stage' = Stage /\ Seen' = Seen
      BY <2>9 DEF Evict
    <3>4. UNCHANGED <<op, key, val, result>>
      BY <2>9 DEF Evict
    <3>5. Register!Vanish
      BY <3>1, <3>2, <3>3, <3>4 DEF Register!Vanish
    <3> QED
      BY <3>5 DEF Register!Next
  <2>10. CASE Renew
    BY <2>10 DEF Renew, Register!vars
  <2>11. CASE RenewFails
    BY <2>11 DEF RenewFails, Register!vars
  <2>12. CASE SetVersion
    <3>1. Register!Publish
      BY <2>12 DEF SetVersion, Register!Publish
    <3> QED
      BY <3>1 DEF Register!Next
  <2>13. CASE SetVersionLate
    <3>1. Register!Publish
      BY <2>13 DEF SetVersionLate, Register!Publish
    <3> QED
      BY <3>1 DEF Register!Next
  <2>14. CASE Stop
    <3>1. Keys \in SUBSET Keys /\ late' \in SUBSET late
      BY <2>14 DEF Stop
    <3>2. store' = [j \in Keys |-> IF j \in Keys THEN "none" ELSE store[j]]
      BY <2>14 DEF Stop
    <3>3. Stage' = Stage /\ Seen' = Seen
      BY <2>14 DEF Stop
    <3>4. UNCHANGED <<op, key, val, result>>
      BY <2>14 DEF Stop
    <3>5. Register!Vanish
      BY <3>1, <3>2, <3>3, <3>4 DEF Register!Vanish
    <3> QED
      BY <3>5 DEF Register!Next
  <2>15. CASE Start
    BY <2>15 DEF Start, Register!vars
  <2>16. CASE Tick
    <3>1. CASE ttl = 1
      <4>1. {Host} \in SUBSET Keys /\ late' \in SUBSET late
        BY <2>16, <3>1 DEF Tick
      <4>2. store' = [j \in Keys |-> IF j \in {Host} THEN "none" ELSE store[j]]
        BY <2>16, <3>1 DEF Tick
      <4>3. Stage' = Stage /\ Seen' = Seen
        BY <2>16, <3>1 DEF Tick
      <4>4. UNCHANGED <<op, key, val, result>>
        BY <2>16, <3>1 DEF Tick
      <4>5. Register!Vanish
        BY <4>1, <4>2, <4>3, <4>4 DEF Register!Vanish
      <4> QED
        BY <4>5 DEF Register!Next
    <3>2. CASE ttl # 1
      BY <2>16, <3>2 DEF Tick, Register!vars
    <3> QED
      BY <3>1, <3>2
  <2>17. CASE RenewAnswered
    BY <2>17 DEF RenewAnswered, Register!vars
  <2>18. CASE UNCHANGED vars
    BY <2>18 DEF vars, Register!vars
  <2> QED
    BY <2>1, <2>2, <2>3, <2>4, <2>5, <2>6, <2>7, <2>8, <2>9,
       <2>10, <2>11, <2>12, <2>13, <2>14, <2>15, <2>16, <2>17, <2>18
       DEF Next, Handler, Redis
<1>3. CacheInvariant /\ [Next]_vars => [Register!Next]_Register!vars
  BY <1>2 DEF CacheInvariant
<1> QED
  BY <1>1, <1>3, CacheCorrect, PTL DEF Spec, ImplementsRegister, Register!Spec
=============================================================================
