------------------------------ MODULE WsClient -------------------------------
(***************************************************************************)
(* podcli ws: main dials and waits for an error on errChan, one goroutine  *)
(* sends the lines of the console, another prints what comes back.  The    *)
(* handshake is a request to HttpService; behind it the server is an       *)
(* EchoSession, as WsEcho is.                                              *)
(***************************************************************************)
EXTENDS HttpService

CONSTANTS
  Handshake,  \* the request of the handshake
  MaxLines    \* bound: lines typed

ASSUME ClientAssumption == Handshake \in Requests /\ MaxLines \in Nat

VARIABLES
  main,     \* "idle", "dial", "upgrade", "await" errChan, "over"
  console,  \* readConsole: "none", "read", "write", "offer" on errChan
  reader,   \* readWebsocket: "none", "read"
  link,     \* the connection: "none", "up", "cut" by server or network, "closed" by the client
  typed,    \* lines read from the console
  sent,     \* lines that reached the server
  echoes,   \* what the server wrote back
  printed,  \* what the reader printed
  wsExit    \* the exit code, -1 while the command runs

wsVars == <<main, console, reader, link, typed, sent, echoes, printed, wsExit>>

WsInit(selected) ==
  /\ main = IF selected THEN "dial" ELSE "idle"
  /\ console = "none" /\ reader = "none" /\ link = "none"
  /\ typed = 0 /\ sent = 0 /\ echoes = <<>> /\ printed = <<>>
  /\ wsExit = -1

Server == INSTANCE EchoSession

(* The process ends, and with it the connection.                           *)
End(code) ==
  /\ wsExit' = code
  /\ main' = "over" /\ console' = "none" /\ reader' = "none"
  /\ link' = IF link = "up" THEN "closed" ELSE link
  /\ UNCHANGED <<typed, sent, echoes, printed>>

-----------------------------------------------------------------------------
(* connect.  An error of it is logged and the command returns nil.         *)

Dial ==
  /\ main = "dial"
  /\ \/ /\ \E p \in Programs(Target("ws", 0), TRUE, "h1") : Accept(Handshake, p)
        /\ main' = "upgrade"
        /\ UNCHANGED <<console, reader, link, typed, sent, echoes, printed, wsExit>>
     \/ End(0) /\ UNCHANGED serviceVars

Connected ==
  /\ main = "upgrade" /\ req[Handshake].hijacked
  /\ main' = "await" /\ console' = "read" /\ reader' = "read" /\ link' = "up"
  /\ UNCHANGED <<typed, sent, echoes, printed, wsExit>> /\ UNCHANGED serviceVars

(* readline.NewEx fails.                                                   *)
NoConsole ==
  /\ main = "upgrade" /\ req[Handshake].hijacked
  /\ wsExit' = 0 /\ main' = "over" /\ link' = "closed"
  /\ UNCHANGED <<console, reader, typed, sent, echoes, printed>> /\ UNCHANGED serviceVars

(* The answer is no upgrade, or none.                                      *)
BadHandshake ==
  /\ main = "upgrade"
  /\ req[Handshake].stage \in {"returned", "panicked"} /\ ~req[Handshake].hijacked
  /\ End(0)
  /\ UNCHANGED serviceVars

(* return <-sess.errChan                                                   *)
ReturnError ==
  /\ main = "await" /\ console = "offer"
  /\ End(0)
  /\ UNCHANGED serviceVars

Main == Dial \/ Connected \/ NoConsole \/ BadHandshake \/ ReturnError

-----------------------------------------------------------------------------
(* readConsole: the user types a line, or ends the input.                  *)

Readline ==
  /\ console = "read"
  /\ \/ typed < MaxLines /\ typed' = typed + 1 /\ console' = "write"
     \/ console' = "offer" /\ UNCHANGED typed
  /\ UNCHANGED <<main, reader, link, sent, echoes, printed, wsExit>> /\ UNCHANGED serviceVars

(* A write to a connection that was cut fails, but not always at once.     *)
WriteMessage ==
  /\ console = "write"
  /\ \/ link = "up" /\ Server!Send /\ console' = "read"
     \/ link = "cut" /\ console' \in {"read", "offer"} /\ UNCHANGED <<sent, echoes>>
  /\ UNCHANGED <<main, reader, link, typed, printed, wsExit>> /\ UNCHANGED serviceVars

(* Mutant: one message is read, not all.                                   *)
ReadOnce ==
  /\ reader = "read" /\ Len(printed) < Len(echoes)
  /\ printed' = Append(printed, echoes[Len(printed) + 1])
  /\ reader' = "none"
  /\ UNCHANGED <<main, console, link, typed, sent, echoes, wsExit>>
  /\ UNCHANGED serviceVars

(* readWebsocket.                                                          *)
ReadReply ==
  /\ reader = "read" /\ Len(printed) < Len(echoes)
  /\ printed' = Append(printed, echoes[Len(printed) + 1])
  /\ UNCHANGED <<main, console, reader, link, typed, sent, echoes, wsExit>>
  /\ UNCHANGED serviceVars

(* Mutant: the goroutine returns without a word.                           *)
ReaderReturns ==
  /\ reader = "read" /\ link = "cut"
  /\ reader' = "none"
  /\ UNCHANGED <<main, console, link, typed, sent, echoes, printed, wsExit>>
  /\ UNCHANGED serviceVars

ReadFails ==
  /\ reader = "read" /\ link = "cut"
  /\ End(1)
  /\ UNCHANGED serviceVars

-----------------------------------------------------------------------------
(* The other side.                                                         *)

ServerEchoes ==
  /\ link = "up" /\ Server!Echo
  /\ UNCHANGED <<main, console, reader, link, typed, printed, wsExit>> /\ UNCHANGED serviceVars

LinkCut ==
  /\ link = "up" /\ link' = "cut"
  /\ UNCHANGED <<main, console, reader, typed, sent, echoes, printed, wsExit>>
  /\ UNCHANGED serviceVars

(* The session's handler ends with its connection, EndSession of           *)
(* HttpService.                                                            *)
SessionEnds ==
  /\ link \in {"cut", "closed"}
  /\ EndSession(Handshake)
  /\ UNCHANGED wsVars

WsStep ==
  \/ Main \/ Readline \/ WriteMessage \/ ReadReply \/ ReadFails
  \/ ServerEchoes \/ LinkCut \/ SessionEnds

-----------------------------------------------------------------------------
(* Properties.                                                             *)

(* While the session lasts, every line typed is printed again, in order.   *)
LinesComeBack ==
  \A i \in 1..MaxLines : typed >= i ~> (Len(printed) >= i /\ printed[i] = i) \/ link # "up"

(* When the server goes away the command ends: the user is not left with a *)
(* prompt that sends nowhere.                                              *)
ServerGoneEndsClient == link = "cut" ~> wsExit # -1
=============================================================================
