------------------------------ MODULE VtkChannel ------------------------------
(* One direction of a vtkCommunicatorChannel, frame by frame: the generated    *)
(* code of one side sends an envelope and the objects in its fields, that of   *)
(* the other side reads an envelope and then an object for every field it has. *)
(* Nothing but the tags of the frames tells the receiver where it is.          *)

EXTENDS Naturals, Sequences, FiniteSets, SequencesExt

CONSTANTS
  Shapes,       \* the object fields of the messages that are sent
  MaxMessages,  \* bound: messages sent
  BufferCap,    \* bound: frames the connection buffers
  MayRefuse,    \* whether requests may have no dispatcher, deserializers may fail
  MayBreak      \* whether the connection may fail

\* A field is there (has_x()), its object may still be NULL, or its serializer
\* may fail.
Fields == [kind : {"object", "array", "external"}, value : {"set", "null", "bad"}]

ASSUME StreamAssumption ==
  /\ \A shape \in Shapes : shape \in Seq(Fields)
  /\ MaxMessages \in Nat /\ BufferCap \in Nat \ {0}
  /\ MayRefuse \in BOOLEAN /\ MayBreak \in BOOLEAN

VARIABLES
  outgoing,   \* the frame the running proxy or reply() sends next, or NoFrame
  buffer,     \* the frames on the connection
  link,       \* the connection, "up" or "down"
  expected,   \* the frame the running receive() reads next, or NothingExpected
  reading,    \* the message whose envelope it has read, or NoMessage
  got,        \* the objects it has read: <<field, message, field it was sent for>>
  sent,       \* history: the shapes of the messages sent; envelope n has shape n
  delivered,  \* history: the messages handed to a service or callback
  refused     \* history: the messages without dispatcher, or not deserialized

receiver == <<expected, reading, got>>
history == <<sent, delivered, refused>>
vars == <<outgoing, buffer, link, receiver, history>>

NoMessage == 0

\* A frame: its tag and, for the properties, the message and the field it is for;
\* the envelope is field 0.
Frame(tag, n, i) == [tag |-> tag, msg |-> n, field |-> i]
NoFrame == Frame("none", 0, 0)

\* What receive() knows of the frame it is to read.
Expected(tag, i) == [tag |-> tag, field |-> i]
NothingExpected == Expected("none", 0)

IsExternal(shape, i) == shape[i].kind = "external"

\* Mutant of SentBefore: the objects are sent in reverse order.
SentAfterwards(shape, i, j) ==
  IF IsExternal(shape, i) = IsExternal(shape, j) THEN j < i ELSE IsExternal(shape, j)

\* The order in which generated code sends objects: VTK fields, then external.
SentBefore(shape, i, j) ==
  IF IsExternal(shape, i) = IsExternal(shape, j) THEN i < j ELSE IsExternal(shape, j)

\* The order in which it receives them.
ReceivedBefore(shape, i, j) ==
  IF IsExternal(shape, i) = IsExternal(shape, j) THEN i < j ELSE IsExternal(shape, j)

\* The fields whose objects are sent: a NULL object is not, and the sender returns
\* at the first field whose serializer fails.
SentFields(shape) ==
  {i \in DOMAIN shape :
     /\ shape[i].value = "set"
     /\ \A j \in DOMAIN shape : SentBefore(shape, j, i) => shape[j].value # "bad"}

\* Those that are sent after field i, or after the envelope.
LeftToSend(shape, i) == {j \in SentFields(shape) : i = 0 \/ SentBefore(shape, i, j)}

\* The fields an object is received for, whatever the sender did with them.
LeftToReceive(shape, i) == {j \in DOMAIN shape : i = 0 \/ ReceivedBefore(shape, i, j)}

\* Envelopes and external objects take two frames: send(RpcVoidData).
FirstTag(shape, i) ==
  CASE shape[i].kind = "object" -> "DATAOBJECT"
    [] shape[i].kind = "array" -> "DATAARRAY"
    [] shape[i].kind = "external" -> "SIZE"

\* The frame of a message that is sent after another one.
FrameAfter(shape, frame) ==
  LET left == LeftToSend(shape, frame.field)
      next == CHOOSE i \in left : \A j \in left : j = i \/ SentBefore(shape, i, j)
  IN  IF frame.tag = "SIZE" THEN Frame("MESSAGE", frame.msg, frame.field)
      ELSE IF left = {} THEN NoFrame
      ELSE Frame(FirstTag(shape, next), frame.msg, next)

-----------------------------------------------------------------------------
Init ==
  /\ outgoing = NoFrame /\ buffer = <<>> /\ link = "up"
  /\ expected = NothingExpected /\ reading = NoMessage /\ got = {}
  /\ sent = <<>> /\ delivered = <<>> /\ refused = {}

\* A proxy method or reply() starts to send a message.
BeginSend(shape) ==
  /\ outgoing = NoFrame
  /\ Len(sent) < MaxMessages
  /\ sent' = Append(sent, shape)
  /\ outgoing' = Frame("SIZE", Len(sent) + 1, 0)
  /\ UNCHANGED <<buffer, link, receiver, delivered, refused>>

\* Mutant of PushFrame: the communicator never blocks.
PushAtOnce ==
  /\ outgoing # NoFrame /\ link = "up"
  /\ buffer' = Append(buffer, outgoing)
  /\ outgoing' = FrameAfter(sent[outgoing.msg], outgoing)
  /\ UNCHANGED <<link, receiver, history>>

\* The communicator sends the next frame; it blocks while the buffer is full.
PushFrame ==
  /\ outgoing # NoFrame /\ link = "up" /\ Len(buffer) < BufferCap
  /\ buffer' = Append(buffer, outgoing)
  /\ outgoing' = FrameAfter(sent[outgoing.msg], outgoing)
  /\ UNCHANGED <<link, receiver, history>>

\* It fails, and the generated code returns without sending the rest.
SendFails ==
  /\ outgoing # NoFrame /\ link = "down"
  /\ outgoing' = NoFrame
  /\ UNCHANGED <<buffer, link, receiver, history>>

\* receive() starts to read an envelope.
BeginReceive ==
  /\ expected = NothingExpected
  /\ expected' = Expected("SIZE", 0)
  /\ UNCHANGED <<outgoing, buffer, link, reading, got, history>>

\* Every failure on the way makes receive() return: what it has read is dropped.
GiveUp == expected' = NothingExpected /\ reading' = NoMessage /\ got' = {}

\* The next frame is read and has the tag that is expected.
Reads ==
  /\ buffer # <<>> /\ Head(buffer).tag = expected.tag
  /\ buffer' = Tail(buffer)
  /\ UNCHANGED <<outgoing, link, sent>>

\* A frame with another tag is consumed; receive() fails.
ReadWrongTag ==
  /\ expected # NothingExpected
  /\ buffer # <<>> /\ Head(buffer).tag # expected.tag
  /\ buffer' = Tail(buffer)
  /\ GiveUp
  /\ UNCHANGED <<outgoing, link, history>>

ReadSize ==
  /\ Reads /\ expected.tag = "SIZE"
  /\ expected' = Expected("MESSAGE", expected.field)
  /\ UNCHANGED <<reading, got, delivered, refused>>

\* Message n was read up to field i.  The next object is read; the service or the
\* callback is called when there is none.
GoOn(n, i, objects) ==
  LET left == LeftToReceive(sent[n], i)
      next == CHOOSE j \in left : \A k \in left : k = j \/ ReceivedBefore(sent[n], j, k)
  IN  \/ /\ left = {}
         /\ delivered' = Append(delivered, [msg |-> n, objects |-> objects])
         /\ GiveUp
      \/ /\ left # {}
         /\ expected' = Expected(FirstTag(sent[n], next), next)
         /\ reading' = n /\ got' = objects
         /\ UNCHANGED delivered

\* An envelope is read and its dispatcher or handler found.
ReadEnvelope ==
  /\ Reads /\ expected = Expected("MESSAGE", 0) /\ Head(buffer).field = 0
  /\ GoOn(Head(buffer).msg, 0, {})
  /\ UNCHANGED refused

\* An envelope is read and there is no dispatcher for it.
RefuseEnvelope ==
  /\ MayRefuse
  /\ Reads /\ expected = Expected("MESSAGE", 0) /\ Head(buffer).field = 0
  /\ GiveUp
  /\ refused' = refused \cup {Head(buffer).msg}
  /\ UNCHANGED delivered

\* The data of an external object does not parse as an envelope.
MistakeEnvelope ==
  /\ Reads /\ expected = Expected("MESSAGE", 0) /\ Head(buffer).field # 0
  /\ GiveUp
  /\ UNCHANGED <<delivered, refused>>

\* An object is read into the next field of the message.
ReadObject ==
  /\ Reads /\ expected.tag # "SIZE" /\ expected.field # 0
  /\ GoOn(reading, expected.field,
          got \cup {<<expected.field, Head(buffer).msg, Head(buffer).field>>})
  /\ UNCHANGED refused

\* The data of an external object cannot be deserialized, as may be with data
\* that is not an object's.
RefuseObject ==
  /\ Reads /\ expected.tag = "MESSAGE" /\ expected.field # 0
  /\ MayRefuse \/ Head(buffer).field = 0
  /\ GiveUp
  /\ refused' = refused \cup {reading}
  /\ UNCHANGED delivered

\* The connection is gone and everything was read.
ReceiveFails ==
  /\ expected # NothingExpected /\ buffer = <<>> /\ link = "down"
  /\ GiveUp
  /\ UNCHANGED <<outgoing, buffer, link, history>>

Break ==
  /\ MayBreak /\ link = "up"
  /\ link' = "down"
  /\ UNCHANGED <<outgoing, buffer, receiver, history>>

\* A frame in flight is lost, the ones after it with it.
LoseFrame ==
  /\ link = "down" /\ buffer # <<>>
  /\ buffer' = Front(buffer)
  /\ UNCHANGED <<outgoing, link, receiver, history>>

ReadFrame ==
  \/ ReadWrongTag \/ ReadSize
  \/ ReadEnvelope \/ RefuseEnvelope \/ MistakeEnvelope
  \/ ReadObject \/ RefuseObject

Next ==
  \/ \E shape \in Shapes : BeginSend(shape)
  \/ PushFrame \/ SendFails
  \/ BeginReceive \/ ReadFrame \/ ReceiveFails
  \/ Break \/ LoseFrame

Spec == Init /\ [][Next]_vars

\* The sender goes on sending what it began.  The receiver goes on receiving, as
\* README.md:263-265 asks of every program (the loop of server.cpp:31 does so only
\* until receive() returns false).
FairSpec ==
  Spec /\ WF_vars(PushFrame) /\ WF_vars(BeginReceive) /\ WF_vars(ReadFrame)

-----------------------------------------------------------------------------
Tags == {"SIZE", "MESSAGE", "DATAOBJECT", "DATAARRAY"}
Frames == [tag : Tags, msg : 1 .. Len(sent), field : Nat]
Objects == Nat \X (1 .. Len(sent)) \X Nat

TypeOK ==
  /\ outgoing \in Frames \cup {NoFrame}
  /\ buffer \in Seq(Frames) /\ Len(buffer) <= BufferCap
  /\ link \in {"up", "down"}
  /\ expected \in [tag : Tags, field : Nat] \cup {NothingExpected}
  /\ reading \in NoMessage .. Len(sent)
  /\ got \subseteq Objects
  /\ sent \in Seq(Shapes) /\ Len(sent) <= MaxMessages
  /\ delivered \in Seq([msg : 1 .. Len(sent), objects : SUBSET Objects])
  /\ refused \subseteq 1 .. Len(sent)

\* The message was handed over ...
Delivered(n) == \E k \in DOMAIN delivered : delivered[k].msg = n

\* ... or has an announced object that was not sent ...
Lacking(shape) == DOMAIN shape \ SentFields(shape)
Incomplete(n) == Lacking(sent[n]) # {}

\* ... or was in the place of such an object of an earlier message.
Swallowed(n) == \E m \in 1 .. n - 1 : n <= m + Cardinality(Lacking(sent[m]))

\* What may have become of a message.
Explained(n) ==
  n \in DOMAIN sent /\ (Delivered(n) \/ n \in refused \/ Incomplete(n) \/ Swallowed(n))

(* The frames of a connection carry the promise of MessageStream: no object of *)
(* one message or field ends up in another, whatever is refused on the way and *)
(* wherever the connection fails, except in messages that lack an object they  *)
(* announced, whose objects are not looked at (vtkcommunicatorchannel.cpp:40-183, *)
(* the generated send and receive blocks).                                     *)
Trusted(message) ==
  IF Incomplete(message.msg)
  THEN [message EXCEPT !.objects =
          {<<i, message.msg, i>> : i \in {j \in DOMAIN sent[message.msg] :
                                            sent[message.msg][j].value = "set"}}]
  ELSE message
Stream == INSTANCE MessageStream WITH
  delivered <- [k \in DOMAIN delivered |-> Trusted(delivered[k])]
StreamSpec == Stream!Spec

(* A receiver that lost its place, in the objects of a refused message or of   *)
(* one that lacks announced objects, finds it again: a message that was        *)
(* overtaken by a later one was refused, lacks an object, or follows one that   *)
(* lacks objects, at most as many messages behind as these are.                *)
LossExplained ==
  \A n \in DOMAIN sent :
    (\E k \in DOMAIN delivered : delivered[k].msg > n) => Explained(n)

(* On a healthy connection every message but these is handed over: sender and  *)
(* receiver agree on frames and order and do not wait for each other, however  *)
(* small the buffer is, and the receiver finds its place without further       *)
(* messages.                                                                   *)
AllDelivered ==
  \A n \in 1 .. MaxMessages : Len(sent) >= n ~> Explained(n) \/ link = "down"

(* rpcgenerator.cpp:403, 407: the objects a service is given are those "that   *)
(* might be on the wire" for its request.                                      *)
ObjectsOwn ==
  \A k \in DOMAIN delivered : \A object \in delivered[k].objects :
    object[2] = delivered[k].msg

=============================================================================
