---------------------------- MODULE LossyChannel ----------------------------
(***************************************************************************)
(* What ZeroMqService and MqMessageService promise of sendMessage():       *)
(* messages are sent in the order they were accepted, each at most once,   *)
(* and nothing is sent that was not accepted; any of them may be lost.     *)
(* Messages are numbered in the order they are accepted.                   *)
(***************************************************************************)
EXTENDS Naturals, Sequences

VARIABLES
  accepted,  \* how many messages sendMessage() took
  sent       \* the messages that left the service, in order

vars == <<accepted, sent>>

Init ==
  /\ accepted = 0
  /\ sent = <<>>

Accept ==
  /\ accepted' = accepted + 1
  /\ UNCHANGED sent

\* The messages between the last one sent and n are lost.
Send(n) ==
  /\ \A i \in 1..Len(sent) : sent[i] < n
  /\ sent' = Append(sent, n)
  /\ UNCHANGED accepted

Next == Accept \/ \E n \in 1..accepted : Send(n)

Spec == Init /\ [][Next]_vars
=============================================================================
