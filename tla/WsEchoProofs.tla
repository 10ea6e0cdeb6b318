---------------------------- MODULE WsEchoProofs -----------------------------
(***************************************************************************)
(* What is proved of WsEcho for any number of messages and ticks and any   *)
(* way of leaving: that a session implements EchoSession, and where a      *)
(* panic or a stuck handler can come from.                                 *)
(***************************************************************************)
EXTENDS WsEcho, TLAPS

(* How far the deferred calls are; a status is offered after a tick; what  *)
(* made the writer leave.                                                  *)
Teardown ==
  /\ inClosed => handler \in {"closeDone", "closeConn", "left"}
  /\ closeSent => handler \notin {"read", "offer"}
  /\ connClosed => handler = "left"
  /\ tick \/ host = "offer" => ticks > 0
  /\ crashed => inClosed /\ ticks > 0
  /\ writer = "left" => gone = "reset" \/ closeSent \/ connClosed

(* Every message read was written back, is being written or is offered; a  *)
(* writer that left takes the last two with it.                            *)
Counted ==
  /\ got <= sent
  /\ holding = "echo" => writer = "write" /\ msg = Len(echoes) + 1
  /\ writer # "left" =>
       /\ holding # "echo" /\ handler # "offer" => got = Len(echoes)
       /\ holding # "echo" /\ handler = "offer" => got = Len(echoes) + 1
       /\ holding = "echo" /\ handler # "offer" => got = Len(echoes) + 1
       /\ holding = "echo" /\ handler = "offer" => got = Len(echoes) + 2

SessionInvariant == TypeOK /\ Teardown /\ Counted

-----------------------------------------------------------------------------
(* The steps, invariant by invariant.                                      *)

(* Every step keeps the types and who is first in line.                    *)
LEMMA TypeStep ==
  ASSUME TypeOK, Teardown, [Next]_vars
  PROVE  TypeOK'
<1> USE WsAssumption DEF TypeOK, Teardown, Ways, Running, InLine, client, ticker, closes
<1>1. CASE ReadMessage
  BY <1>1 DEF ReadMessage
<1>2. CASE ReadError
  BY <1>2 DEF ReadError
<1>3. CASE CloseIn
  BY <1>3 DEF CloseIn
<1>4. CASE CloseDone
  BY <1>4 DEF CloseDone
<1>5. CASE CloseConn
  BY <1>5 DEF CloseConn
<1>6. CASE OfferStatus
  <2>1. crashed' \in BOOLEAN /\ tick' \in BOOLEAN
    BY <1>6, Zenon DEF OfferStatus
  <2> QED
    BY <1>6, <2>1 DEF OfferStatus
<1>7. CASE HostLeaves
  BY <1>7 DEF HostLeaves
<1>8. CASE Receive
  BY <1>8 DEF Receive
<1>9. CASE WriteJSON
  BY <1>9 DEF WriteJSON, Writable
<1>10. CASE WriteError
  BY <1>10 DEF WriteError, Writable
<1>11. CASE ClientSends
  BY <1>11 DEF ClientSends
<1>12. CASE ClientLeaves
  <2>1. gone' \in Ways
    BY <1>12 DEF ClientLeaves
  <2> QED
    BY <1>12, <2>1 DEF ClientLeaves
<1>13. CASE Tick
  BY <1>13 DEF Tick
<1>14. CASE UNCHANGED vars
  BY <1>14 DEF vars
<1> QED
  BY <1>1, <1>2, <1>3, <1>4, <1>5, <1>6, <1>7, <1>8, <1>9, <1>10, <1>11, <1>12,
     <1>13, <1>14
     DEF Next, Handler, SendHostWs, WriteWs

(* Every step keeps the order of the deferred calls.                       *)
LEMMA TeardownStep ==
  ASSUME TypeOK, Teardown, [Next]_vars
  PROVE  Teardown'
<1> USE WsAssumption DEF TypeOK, Teardown, Ways, Running, InLine, client, ticker, closes
<1>1. CASE ReadMessage
  BY <1>1 DEF ReadMessage
<1>2. CASE ReadError
  BY <1>2 DEF ReadError
<1>3. CASE CloseIn
  BY <1>3 DEF CloseIn
<1>4. CASE CloseDone
  BY <1>4 DEF CloseDone
<1>5. CASE CloseConn
  BY <1>5 DEF CloseConn
<1>6. CASE OfferStatus
  BY <1>6 DEF OfferStatus
<1>7. CASE HostLeaves
  BY <1>7 DEF HostLeaves
<1>8. CASE Receive
  BY <1>8 DEF Receive
<1>9. CASE WriteJSON
  BY <1>9 DEF WriteJSON, Writable
<1>10. CASE WriteError
  BY <1>10 DEF WriteError, Writable
<1>11. CASE ClientSends
  BY <1>11 DEF ClientSends
<1>12. CASE ClientLeaves
  BY <1>12 DEF ClientLeaves
<1>13. CASE Tick
  BY <1>13 DEF Tick
<1>14. CASE UNCHANGED vars
  BY <1>14 DEF vars
<1> QED
  BY <1>1, <1>2, <1>3, <1>4, <1>5, <1>6, <1>7, <1>8, <1>9, <1>10, <1>11, <1>12,
     <1>13, <1>14
     DEF Next, Handler, SendHostWs, WriteWs

(* No step loses, repeats or reorders a message while there is a writer.   *)
LEMMA CountedStep ==
  ASSUME TypeOK, Counted, [Next]_vars
  PROVE  Counted'
<1> USE DEF Counted, Running, client, ticker, closes
<1> Len(echoes) \in Nat /\ got \in Nat /\ sent \in Nat /\ msg \in Nat
  BY DEF TypeOK
<1>1. CASE ReadMessage
  BY <1>1 DEF ReadMessage
<1>2. CASE ReadError
  BY <1>2 DEF ReadError
<1>3. CASE CloseIn
  BY <1>3 DEF CloseIn
<1>4. CASE CloseDone
  BY <1>4 DEF CloseDone
<1>5. CASE CloseConn
  BY <1>5 DEF CloseConn
<1>6. CASE OfferStatus
  BY <1>6 DEF OfferStatus
<1>7. CASE HostLeaves
  BY <1>7 DEF HostLeaves
<1>8. CASE Receive
  BY <1>8 DEF Receive, TypeOK
<1>9. CASE WriteJSON
  BY <1>9 DEF WriteJSON, Writable
<1>10. CASE WriteError
  BY <1>10 DEF WriteError, Writable
<1>11. CASE ClientSends
  BY <1>11 DEF ClientSends
<1>12. CASE ClientLeaves
  BY <1>12 DEF ClientLeaves
<1>13. CASE Tick
  BY <1>13 DEF Tick
<1>14. CASE UNCHANGED vars
  BY <1>14 DEF vars
<1> QED
  BY <1>1, <1>2, <1>3, <1>4, <1>5, <1>6, <1>7, <1>8, <1>9, <1>10, <1>11, <1>12,
     <1>13, <1>14
     DEF Next, Handler, SendHostWs, WriteWs

(* The invariant holds in every state of every session.                    *)
THEOREM SessionCorrect == Spec => []SessionInvariant
<1>1. Init => SessionInvariant
  <2> SUFFICES ASSUME Init
               PROVE  SessionInvariant
    OBVIOUS
  <2>1. /\ inClosed \in BOOLEAN /\ doneClosed \in BOOLEAN /\ connClosed \in BOOLEAN
        /\ closeSent \in BOOLEAN /\ tick \in BOOLEAN
        /\ crashed \in BOOLEAN
    BY Zenon DEF Init
  <2>2. TypeOK
    BY <2>1 DEF Init, TypeOK
  <2>3. Teardown
    BY Zenon DEF Init, Teardown
  <2>4. Counted
    BY DEF Init, Counted
  <2> QED
    BY <2>2, <2>3, <2>4 DEF SessionInvariant
<1>2. SessionInvariant /\ [Next]_vars => SessionInvariant'
  BY TypeStep, TeardownStep, CountedStep DEF SessionInvariant
<1> QED
  BY <1>1, <1>2, PTL DEF Spec

-----------------------------------------------------------------------------
(* The theorems.                                                           *)

(* Every variable has its type; who is first in line waits in a send.      *)
THEOREM TypeCorrect == Spec => []TypeOK
<1>1. SessionInvariant => TypeOK
  BY DEF SessionInvariant
<1> QED
  BY <1>1, SessionCorrect, PTL

(* A panic comes from the deferred calls and needs a tick.                 *)
THEOREM PanicTheorem == Spec => []PanicOnlyAtTeardown
<1>1. SessionInvariant => PanicOnlyAtTeardown
  BY DEF SessionInvariant, Teardown, PanicOnlyAtTeardown
<1> QED
  BY <1>1, SessionCorrect, PTL

(* A handler that nobody receives from has a peer that reset.              *)
THEOREM StuckTheorem == Spec => []StuckOnlyAfterReset
<1>1. SessionInvariant => StuckOnlyAfterReset
  BY DEF SessionInvariant, Teardown, StuckOnlyAfterReset
<1> QED
  BY <1>1, SessionCorrect, PTL

(* The two goroutines and their channel implement the abstract session.    *)
THEOREM Refinement == Spec => ImplementsEchoSession
<1>1. Init => Echo!Init
  BY DEF Init, Echo!Init
<1>2. SessionInvariant /\ [Next]_vars => [Echo!Next]_<<sent, echoes>>
  <2> SUFFICES ASSUME SessionInvariant, Next, <<sent, echoes>>' # <<sent, echoes>>
               PROVE  Echo!Next
    BY DEF vars, client
  <2> USE DEF client, closes, ticker
  <2>1. CASE ClientSends
    BY <2>1 DEF ClientSends, Echo!Next, Echo!Send
  <2>2. CASE WriteJSON
    <3>1. holding = "echo" /\ echoes' = Append(echoes, msg) /\ sent' = sent
      BY <2>2 DEF WriteJSON
    <3>2. msg = Len(echoes) + 1 /\ Len(echoes) < sent
      BY <2>2, <3>1 DEF WriteJSON, SessionInvariant, Counted, TypeOK
    <3> QED
      BY <3>1, <3>2 DEF Echo!Next, Echo!Echo
  <2>3. ClientSends \/ WriteJSON
    BY DEF Next, Handler, SendHostWs, WriteWs, ReadMessage, ReadError, CloseIn, CloseDone,
           CloseConn, OfferStatus, HostLeaves, Receive, WriteError, ClientLeaves, Tick
  <2> QED
    BY <2>1, <2>2, <2>3
<1> QED
  BY <1>1, <1>2, SessionCorrect, PTL DEF Spec, ImplementsEchoSession, Echo!Spec
=============================================================================
