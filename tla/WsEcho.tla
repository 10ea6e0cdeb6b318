------------------------------- MODULE WsEcho --------------------------------
(***************************************************************************)
(* One websocket session of pkg/api/echows.go: the handler goroutine reads *)
(* what the client sends and offers it on the unbuffered channel in,       *)
(* sendHostWs offers a status every 5 seconds on the same channel, writeWs *)
(* receives from it and writes to the connection.  When reading fails the  *)
(* handler's deferred calls close in, then done, then the connection.      *)
(*                                                                         *)
(* The client's messages are numbered in the order it sends them, which is *)
(* the order in which they are read.  Of two goroutines that wait to send  *)
(* on the channel the first to come is the first served.                   *)
(***************************************************************************)
EXTENDS Naturals, Sequences

CONSTANTS
  MaxMessages,  \* bound: messages the client sends
  MaxTicks,     \* bound: times the 5 second ticker fires
  Departures    \* how the client may leave

Ways == {"close", "halfClose", "reset"}

ASSUME WsAssumption ==
  MaxMessages \in Nat /\ MaxTicks \in Nat /\ Departures \subseteq Ways

VARIABLES
  handler,     \* echoWsHandler: reading, offering, or at its deferred calls
  host,        \* sendHostWs: in select, offering, or gone
  writer,      \* writeWs: receiving, writing, or gone
  first,       \* who is the first to wait in a send on in, "none" if nobody does
  inClosed, doneClosed, connClosed,
  closeSent,   \* the close frame was answered: every later write fails
  holding,     \* what the writer writes: "echo", "status" or "null"
  msg,         \* the message it echoes
  tick,        \* a tick waits in ticker.C, which holds one
  ticks,       \* how often the ticker fired
  sent,        \* messages the client sent
  got,         \* messages the handler has read
  gone,        \* how the client left, "no" while it is there
  echoes,      \* the messages written back, in order
  crashed      \* a goroutine panicked, which ends the process

client == <<sent, gone>>
ticker == <<tick, ticks>>
closes == <<inClosed, doneClosed, connClosed>>
vars == <<handler, host, writer, first, closes, closeSent, holding, msg, ticker,
          client, got, echoes, crashed>>

Running == ~crashed

Init ==
  /\ handler = "read" /\ host = "select" /\ writer = "receive"
  /\ first = "none"
  /\ inClosed = FALSE /\ doneClosed = FALSE /\ connClosed = FALSE /\ closeSent = FALSE
  /\ holding = "nothing" /\ msg = 0
  /\ tick = FALSE /\ ticks = 0
  /\ sent = 0 /\ got = 0 /\ gone = "no"
  /\ echoes = <<>>
  /\ crashed = FALSE

-----------------------------------------------------------------------------
(* The handler.                                                            *)

(* Where a goroutine that comes to send finds itself in line.              *)
InLine(sender) == IF first = "none" THEN sender ELSE first

(* Mutants: a select that drops the message when the writer is busy, and a *)
(* goroutine for each send.                                                *)
DropWhenBusy ==
  /\ Running /\ handler = "read" /\ got < sent
  /\ got' = got + 1
  /\ \/ writer = "receive" /\ handler' = "offer" /\ first' = InLine("handler")
     \/ writer # "receive" /\ UNCHANGED <<handler, first>>
  /\ UNCHANGED <<host, writer, closes, closeSent, holding, msg, ticker, client, echoes,
                 crashed>>

SendInBackground ==
  /\ Running /\ handler = "read" /\ got < sent
  /\ got' = got + 1
  /\ first' = InLine("handler")
  /\ UNCHANGED <<handler, host, writer, closes, closeSent, holding, msg, ticker, client,
                 echoes, crashed>>

ReadMessage ==
  /\ Running /\ handler = "read" /\ got < sent
  /\ got' = got + 1
  /\ handler' = "offer"
  /\ first' = InLine("handler")
  /\ UNCHANGED <<host, writer, closes, closeSent, holding, msg, ticker, client, echoes,
                 crashed>>

(* Reading fails: behind the last message comes a close frame, which the   *)
(* library answers with one, or the end of the stream; after a reset what  *)
(* was not read yet may be lost.                                           *)
ReadError ==
  /\ Running /\ handler = "read"
  /\ \/ gone = "close" /\ got = sent /\ closeSent' = TRUE
     \/ gone = "halfClose" /\ got = sent /\ UNCHANGED closeSent
     \/ gone = "reset" /\ UNCHANGED closeSent
  /\ handler' = "closeIn"
  /\ UNCHANGED <<host, writer, first, closes, holding, msg, ticker, client, got, echoes,
                 crashed>>

(* Mutant: in is never closed.                                             *)
LeaveInOpen ==
  /\ Running /\ handler = "closeIn"
  /\ handler' = "closeDone"
  /\ UNCHANGED <<host, writer, first, closes, closeSent, holding, msg, ticker, client, got,
                 echoes, crashed>>

(* A goroutine blocked in a send on a channel that is closed panics.       *)
CloseIn ==
  /\ Running /\ handler = "closeIn"
  /\ inClosed' = TRUE
  /\ crashed' = (first # "none")
  /\ handler' = "closeDone"
  /\ UNCHANGED <<host, writer, first, doneClosed, connClosed, closeSent, holding, msg,
                 ticker, client, got, echoes>>

CloseDone ==
  /\ Running /\ handler = "closeDone"
  /\ doneClosed' = TRUE
  /\ handler' = "closeConn"
  /\ UNCHANGED <<host, writer, first, inClosed, connClosed, closeSent, holding, msg,
                 ticker, client, got, echoes, crashed>>

CloseConn ==
  /\ Running /\ handler = "closeConn"
  /\ connClosed' = TRUE
  /\ handler' = "left"
  /\ UNCHANGED <<host, writer, first, inClosed, doneClosed, closeSent, holding, msg,
                 ticker, client, got, echoes, crashed>>

Handler == ReadMessage \/ ReadError \/ CloseIn \/ CloseDone \/ CloseConn

-----------------------------------------------------------------------------
(* sendHostWs: select chooses any ready case, so a tick may win over done. *)

(* Mutant: the first status does not wait for a tick.                      *)
OfferAtOnce ==
  /\ Running /\ host = "select" /\ (tick \/ ticks = 0)
  /\ tick' = FALSE
  /\ \/ inClosed /\ crashed' = TRUE /\ UNCHANGED <<host, first>>
     \/ ~inClosed /\ host' = "offer" /\ first' = InLine("host") /\ UNCHANGED crashed
  /\ UNCHANGED <<handler, writer, closes, closeSent, holding, msg, ticks, client, got,
                 echoes>>

OfferStatus ==
  /\ Running /\ host = "select" /\ tick
  /\ tick' = FALSE
  /\ \/ inClosed /\ crashed' = TRUE /\ UNCHANGED <<host, first>>
     \/ /\ ~inClosed
        /\ host' = "offer"
        /\ first' = InLine("host")
        /\ UNCHANGED crashed
  /\ UNCHANGED <<handler, writer, closes, closeSent, holding, msg, ticks, client, got,
                 echoes>>

HostLeaves ==
  /\ Running /\ host = "select" /\ doneClosed
  /\ host' = "left"
  /\ UNCHANGED <<handler, writer, first, closes, closeSent, holding, msg, ticker, client,
                 got, echoes, crashed>>

SendHostWs == OfferStatus \/ HostLeaves

-----------------------------------------------------------------------------
(* writeWs.                                                                *)

(* The first waiting sender hands over its message and goes on; a closed   *)
(* channel hands over nil, again and again.                                *)
Receive ==
  /\ Running /\ writer = "receive"
  /\ writer' = "write"
  /\ \/ /\ first = "handler"
        /\ holding' = "echo" /\ msg' = got
        /\ handler' = "read"
        /\ first' = IF host = "offer" THEN "host" ELSE "none"
        /\ UNCHANGED host
     \/ /\ first = "host"
        /\ holding' = "status"
        /\ host' = "select"
        /\ first' = IF handler = "offer" THEN "handler" ELSE "none"
        /\ UNCHANGED <<handler, msg>>
     \/ /\ first = "none" /\ inClosed
        /\ holding' = "null"
        /\ UNCHANGED <<handler, host, first, msg>>
  /\ UNCHANGED <<closes, closeSent, ticker, client, got, echoes, crashed>>

Writable == ~closeSent /\ ~connClosed

WriteJSON ==
  /\ Running /\ writer = "write" /\ Writable
  /\ echoes' = IF holding = "echo" THEN Append(echoes, msg) ELSE echoes
  /\ holding' = "nothing"
  /\ writer' = "receive"
  /\ UNCHANGED <<handler, host, first, closes, closeSent, msg, ticker, client, got, crashed>>

(* Mutant: a write may time out.                                           *)
WriteTimeout ==
  /\ Running /\ writer = "write"
  /\ holding' = "nothing"
  /\ writer' = "left"
  /\ UNCHANGED <<handler, host, first, closes, closeSent, msg, ticker, client, got, echoes,
                 crashed>>

(* After a reset writes fail sooner or later.                              *)
WriteError ==
  /\ Running /\ writer = "write" /\ (~Writable \/ gone = "reset")
  /\ holding' = "nothing"
  /\ writer' = "left"
  /\ UNCHANGED <<handler, host, first, closes, closeSent, msg, ticker, client, got, echoes,
                 crashed>>

WriteWs == Receive \/ WriteJSON \/ WriteError

-----------------------------------------------------------------------------
(* The client and the clock.                                               *)

ClientSends ==
  /\ Running /\ gone = "no" /\ sent < MaxMessages
  /\ sent' = sent + 1
  /\ UNCHANGED <<handler, host, writer, first, closes, closeSent, holding, msg, ticker,
                 gone, got, echoes, crashed>>

ClientLeaves ==
  /\ Running
  /\ \/ gone = "no" /\ gone' \in Departures
     \/ gone = "halfClose" /\ gone' \in Departures \cap {"reset"}
  /\ UNCHANGED <<handler, host, writer, first, closes, closeSent, holding, msg, ticker,
                 sent, got, echoes, crashed>>

(* A tick that finds ticker.C full is dropped.                             *)
Tick ==
  /\ Running /\ host # "left" /\ ticks < MaxTicks
  /\ ticks' = ticks + 1
  /\ tick' = TRUE
  /\ UNCHANGED <<handler, host, writer, first, closes, closeSent, holding, msg, client,
                 got, echoes, crashed>>

Next == Handler \/ SendHostWs \/ WriteWs \/ ClientSends \/ ClientLeaves \/ Tick

(* Goroutines that can run do; what the client does is up to the client.   *)
Fairness == WF_vars(Handler) /\ WF_vars(SendHostWs) /\ WF_vars(WriteWs)

Spec == Init /\ [][Next]_vars /\ Fairness

-----------------------------------------------------------------------------
(* Properties.                                                             *)

(* Every variable has its type; who is first in line waits in a send.      *)
TypeOK ==
  /\ handler \in {"read", "offer", "closeIn", "closeDone", "closeConn", "left"}
  /\ host \in {"select", "offer", "left"} /\ writer \in {"receive", "write", "left"}
  /\ first \in {"none"} \cup (IF handler = "offer" THEN {"handler"} ELSE {})
                        \cup (IF host = "offer" THEN {"host"} ELSE {})
  /\ first = "none" => handler # "offer" /\ host # "offer"
  /\ inClosed \in BOOLEAN /\ doneClosed \in BOOLEAN /\ connClosed \in BOOLEAN
  /\ closeSent \in BOOLEAN
  /\ holding \in {"nothing", "echo", "status", "null"} /\ msg \in Nat
  /\ tick \in BOOLEAN /\ ticks \in Nat
  /\ sent \in Nat /\ got \in Nat /\ gone \in Ways \cup {"no"}
  /\ echoes \in Seq(Nat) /\ crashed \in BOOLEAN

(* What comes back is what was sent, once, in order: the session is an     *)
(* EchoSession although two goroutines feed one writer.                    *)
Echo == INSTANCE EchoSession
ImplementsEchoSession == Echo!Spec

(* While the client stays every message comes back, however the ticks fall.*)
EveryMessageEchoed ==
  \A i \in 1..MaxMessages : sent >= i ~> Len(echoes) >= i \/ gone # "no"

(* The handler can be stuck in its send, with the connection never closed  *)
(* and no one to receive, only when the client reset the connection.       *)
StuckOnlyAfterReset == handler = "offer" /\ writer = "left" => gone = "reset"

(* A panic can only come from the handler's deferred calls, and it needs a *)
(* tick: closing done is what ends sendHostWs, and in is closed before it. *)
PanicOnlyAtTeardown == crashed => inClosed /\ ticks > 0

(* Once the handler has returned no goroutine of the session outlives it:  *)
(* done ends sendHostWs, and the closed channel and connection writeWs.    *)
NoGoroutineLeft == handler = "left" ~> crashed \/ (host = "left" /\ writer = "left")

(* echows.go:71, done is how sendHostWs ends: it never panics.             *)
NoPanic == ~crashed
=============================================================================
