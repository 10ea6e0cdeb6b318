----------------------------- MODULE EchoSession -----------------------------
(* What /ws/echo promises a client, "echos content via websockets": of the *)
(* messages the client sent, numbered 1, 2, ..., the first ones come back, *)
(* each once and in the order they were sent.                              *)
EXTENDS Naturals, Sequences

VARIABLES sent,    \* how many messages the client has sent
          echoes   \* the messages the server has written back

Init == sent = 0 /\ echoes = <<>>

Send == sent' = sent + 1 /\ UNCHANGED echoes

Echo ==
  /\ Len(echoes) < sent
  /\ echoes' = Append(echoes, Len(echoes) + 1)
  /\ UNCHANGED sent

Next == Send \/ Echo

Spec == Init /\ [][Next]_<<sent, echoes>>
=============================================================================
