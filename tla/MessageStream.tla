---------------------------- MODULE MessageStream ----------------------------
(* What one direction of a connection promises, without frames and tags: each  *)
(* message handed to a service or a callback was sent, is handed over at most  *)
(* once and in the order of sending, and has all its own objects in the fields *)
(* they were sent for.  Messages may be lost.                                   *)

EXTENDS Naturals, Sequences

CONSTANTS
  Shapes,       \* the shapes of messages: the sequences of their object fields
  MaxMessages   \* how many messages are sent

VARIABLES
  sent,         \* the shapes of the messages sent, in order
  delivered     \* the messages handed over, in order, with their objects

vars == <<sent, delivered>>

\* Field i of message n holds object i of message n, if the sender set it.
OwnObjects(n, shape) ==
  {<<i, n, i>> : i \in {j \in DOMAIN shape : shape[j].value = "set"}}

Init == sent = <<>> /\ delivered = <<>>

Send(shape) ==
  /\ Len(sent) < MaxMessages
  /\ sent' = Append(sent, shape)
  /\ UNCHANGED delivered

Deliver(n) ==
  /\ \A k \in DOMAIN delivered : delivered[k].msg < n
  /\ delivered' = Append(delivered, [msg |-> n, objects |-> OwnObjects(n, sent[n])])
  /\ UNCHANGED sent

Next ==
  \/ \E shape \in Shapes : Send(shape)
  \/ \E n \in DOMAIN sent : Deliver(n)

Spec == Init /\ [][Next]_vars

=============================================================================
