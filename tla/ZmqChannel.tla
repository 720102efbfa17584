------------------------------ MODULE ZmqChannel ------------------------------
(* One direction of a zmqCommunicatorChannel, frame by frame.  An envelope, or *)
(* an external object, is one ZeroMQ message of several frames: the identities *)
(* of the routers on the way, an empty spacer, and the data.  No call blocks:  *)
(* five tries, and what fails before the data is ignored.                      *)
(*                                                                             *)
(* ZeroMQ itself is external: messages arrive whole, in order or not at all; a *)
(* full pipe refuses the first frame of a message and never a later one; a     *)
(* router drops what does not start with the identity of a peer.               *)

EXTENDS Naturals, Sequences, SequencesExt

CONSTANTS
  Settings,     \* what the channel is used with
  MaxMessages,  \* bound: messages sent
  HighWater     \* the high water mark of the pipe: how many messages it holds

ASSUME ZmqAssumption ==
  /\ MaxMessages \in Nat /\ HighWater \in Nat \ {0}
  /\ Settings \subseteq
       [spaced : BOOLEAN,   \* whether the sockets are of types other than REQ and REP
        routers : Nat,      \* how many routers on the way each take an identity
        objects : Nat,      \* how many external objects a message may have
        polls : BOOLEAN,    \* whether receive() is called only when something arrived
        lossy : BOOLEAN]    \* whether the connection may lose messages

VARIABLES
  setting,    \* one of Settings
  identities, \* how many identities the sender has pushed, m_sendIdentities
  outbox,     \* the frames the running send() has not tried yet
  part,       \* the frames of its message that ZeroMQ has accepted
  pipe,       \* the messages on their way, each a sequence of frames
  inbox,      \* the frames that have arrived
  at,         \* where receive() is: "idle", "spacer", "data" or "crashed"
  reading,    \* the message whose objects it reads, or NoMessage
  piece,      \* which of its objects is next
  sent,       \* history: the objects and the identities of each message
  dispatched, \* history: the messages whose envelope handleMessage() was given
  fresh       \* history: those that arrived whole while receive() had nothing to do

sender == <<identities, outbox, part, sent>>
receiver == <<at, reading, piece, dispatched>>
vars == <<setting, sender, pipe, inbox, receiver, fresh>>

NoMessage == 0

\* Piece 0 of a message is its envelope, piece i its object i.
Frame(kind, n, i) == [kind |-> kind, msg |-> n, piece |-> i]

\* Mutant of FramesOf: the spacer is forgotten.
FramesWithoutSpacer(ids, n, i) ==
  [k \in 1 .. ids |-> Frame("identity", n, i)] \o <<Frame("data", n, i)>>

\* The frames of send(): identities, the spacer where there is one, the data.
FramesOf(ids, n, i) ==
  [k \in 1 .. ids |-> Frame("identity", n, i)]
    \o (IF setting.spaced THEN <<Frame("spacer", n, i)>> ELSE <<>>)
    \o <<Frame("data", n, i)>>

\* Mutant of FirstRead: the type of the socket is not looked at.
AlwaysSpacer == "spacer"

\* What receive() reads first.
FirstRead == IF setting.spaced THEN "spacer" ELSE "data"

\* Where the routers leave the frames of a message: at the receiver, without the
\* identities, or nowhere.
Routed(frames) ==
  IF \A k \in 1 .. setting.routers : k \in DOMAIN frames /\ frames[k].kind = "identity"
  THEN SubSeq(frames, setting.routers + 1, Len(frames))
  ELSE <<>>

-----------------------------------------------------------------------------
Init ==
  /\ setting \in Settings
  /\ identities = 0 /\ outbox = <<>> /\ part = <<>> /\ pipe = <<>> /\ inbox = <<>>
  /\ at = "idle" /\ reading = NoMessage /\ piece = 0
  /\ sent = <<>> /\ dispatched = <<>> /\ fresh = {}

\* The program calls push_socket_identity() between two messages, ...
PushSocketIdentity ==
  /\ outbox = <<>> /\ identities < setting.routers
  /\ identities' = identities + 1
  /\ UNCHANGED <<setting, outbox, part, sent, pipe, inbox, receiver, fresh>>

\* ... or clear_socket_identities().
ClearSocketIdentities ==
  /\ outbox = <<>> /\ identities > 0
  /\ identities' = 0
  /\ UNCHANGED <<setting, outbox, part, sent, pipe, inbox, receiver, fresh>>

\* A proxy or reply() sends a message: first its envelope.
BeginSend(objects) ==
  /\ outbox = <<>> /\ Len(sent) < MaxMessages
  /\ sent' = Append(sent, [objects |-> objects, ids |-> identities])
  /\ outbox' = FramesOf(identities, Len(sent) + 1, 0)
  /\ UNCHANGED <<setting, identities, part, pipe, inbox, receiver, fresh>>

\* async_send() of an identity or of the spacer succeeds.
AcceptFrame ==
  /\ outbox # <<>> /\ Head(outbox).kind # "data"
  /\ part # <<>> \/ Len(pipe) < HighWater
  /\ part' = Append(part, Head(outbox))
  /\ outbox' = Tail(outbox)
  /\ UNCHANGED <<setting, identities, sent, pipe, inbox, receiver, fresh>>

\* Mutant of AcceptData: the number of bytes sent is taken for a failed try.
AcceptDataTwice ==
  /\ outbox # <<>> /\ Head(outbox).kind = "data"
  /\ part # <<>> \/ Len(pipe) < HighWater
  /\ pipe' = Append(pipe, Append(part, Head(outbox)))
  /\ part' = <<>>
  /\ UNCHANGED <<setting, identities, sent, outbox, inbox, receiver, fresh>>

\* Mutant of AcceptData: the pipe takes more than its high water mark.
AcceptDataAlways ==
  /\ outbox # <<>> /\ Head(outbox).kind = "data"
  /\ pipe' = Append(pipe, Append(part, Head(outbox)))
  /\ part' = <<>> /\ outbox' = <<>>
  /\ UNCHANGED <<setting, identities, sent, inbox, receiver, fresh>>

\* The data completes the message; the generated code goes on with the next object.
AcceptData ==
  /\ outbox # <<>> /\ Head(outbox).kind = "data"
  /\ part # <<>> \/ Len(pipe) < HighWater
  /\ pipe' = Append(pipe, Append(part, Head(outbox)))
  /\ part' = <<>>
  /\ LET n == Head(outbox).msg
         i == Head(outbox).piece
     IN  outbox' = IF i < sent[n].objects THEN FramesOf(identities, n, i + 1) ELSE <<>>
  /\ UNCHANGED <<setting, identities, sent, inbox, receiver, fresh>>

\* Five tries find the pipe full: an identity or the spacer is left out ...
SkipFrame ==
  /\ outbox # <<>> /\ Head(outbox).kind # "data"
  /\ part = <<>> /\ Len(pipe) >= HighWater
  /\ outbox' = Tail(outbox)
  /\ UNCHANGED <<setting, identities, part, sent, pipe, inbox, receiver, fresh>>

\* ... without the data send() fails, and the generated code returns.
SendFails ==
  /\ outbox # <<>> /\ Head(outbox).kind = "data"
  /\ part = <<>> /\ Len(pipe) >= HighWater
  /\ outbox' = <<>>
  /\ UNCHANGED <<setting, identities, part, sent, pipe, inbox, receiver, fresh>>

\* A message leaves the pipe, for the receiver's socket or for nowhere.
Arrive ==
  /\ pipe # <<>>
  /\ pipe' = Tail(pipe)
  /\ inbox' = inbox \o Routed(Head(pipe))
  /\ fresh' = LET n == Last(Head(pipe)).msg
              IN  IF at = "idle" /\ inbox = <<>> /\ Head(pipe) = FramesOf(setting.routers, n, 0)
                  THEN fresh \cup {n} ELSE fresh
  /\ UNCHANGED <<setting, sender, receiver>>

Lose ==
  /\ setting.lossy /\ pipe # <<>>
  /\ pipe' = Tail(pipe)
  /\ UNCHANGED <<setting, sender, inbox, receiver, fresh>>

\* The program calls receive().
BeginReceive ==
  /\ at = "idle"
  /\ setting.polls => inbox # <<>>
  /\ at' = FirstRead
  /\ UNCHANGED <<setting, sender, pipe, inbox, reading, piece, dispatched, fresh>>

\* A frame is taken for the spacer, if there is one.
ReadSpacer ==
  /\ at = "spacer"
  /\ inbox' = IF inbox = <<>> THEN inbox ELSE Tail(inbox)
  /\ at' = "data"
  /\ UNCHANGED <<setting, sender, pipe, reading, piece, dispatched, fresh>>

\* receive() returns, or the whole of RpcChannel::receive() does.
ReturnFromReceive == at' = "idle" /\ reading' = NoMessage /\ piece' = 0

\* The next frame is read as the data of an envelope or of an object.
ReadsData ==
  /\ at = "data" /\ inbox # <<>>
  /\ inbox' = Tail(inbox)
  /\ UNCHANGED <<setting, sender, pipe, fresh>>

\* Five tries find nothing.
ReadNothing ==
  /\ at = "data" /\ inbox = <<>>
  /\ ReturnFromReceive
  /\ UNCHANGED <<setting, sender, pipe, inbox, dispatched, fresh>>

\* The data is an envelope: handleMessage() dispatches it, which reads its objects.
ReadEnvelope ==
  /\ ReadsData /\ reading = NoMessage
  /\ LET frame == Head(inbox)
     IN  /\ frame.kind = "data" /\ frame.piece = 0
         /\ dispatched' = Append(dispatched, frame.msg)
         /\ \/ sent[frame.msg].objects = 0 /\ ReturnFromReceive
            \/ /\ sent[frame.msg].objects > 0
               /\ at' = FirstRead /\ reading' = frame.msg /\ piece' = 1

\* It is not, which the result of ParseFromArray() would have told.
ReadRubbish ==
  /\ ReadsData /\ reading = NoMessage
  /\ Head(inbox).kind # "data" \/ Head(inbox).piece # 0
  /\ ReturnFromReceive
  /\ UNCHANGED dispatched

\* The data is deserialized as an object, whatever it is; deserializing may fail.
ReadObject ==
  /\ ReadsData /\ reading # NoMessage
  /\ \/ ReturnFromReceive
     \/ /\ piece < sent[reading].objects
        /\ at' = FirstRead /\ piece' = piece + 1 /\ UNCHANGED reading
  /\ UNCHANGED dispatched

\* The zmq_msg_t of an object is not initialized: ZeroMQ may find that out and
\* refuse to receive into it, or free what it points to.
ReadIntoGarbage ==
  /\ at = "data" /\ reading # NoMessage
  /\ \/ ReturnFromReceive
     \/ at' = "crashed" /\ UNCHANGED <<reading, piece>>
  /\ UNCHANGED <<setting, sender, pipe, inbox, dispatched, fresh>>

Receive ==
  \/ ReadSpacer \/ ReadNothing \/ ReadEnvelope \/ ReadRubbish
  \/ ReadObject \/ ReadIntoGarbage

Next ==
  \/ PushSocketIdentity \/ ClearSocketIdentities
  \/ \E objects \in 0 .. setting.objects : BeginSend(objects)
  \/ AcceptFrame \/ AcceptData \/ SkipFrame \/ SendFails
  \/ Arrive \/ Lose
  \/ BeginReceive \/ Receive

Spec == Init /\ [][Next]_vars

\* Messages arrive; the program calls receive() again and again.
FairSpec == Spec /\ WF_vars(Arrive) /\ WF_vars(BeginReceive) /\ WF_vars(Receive)

-----------------------------------------------------------------------------
Frames ==
  [kind : {"identity", "spacer", "data"}, msg : 1 .. Len(sent), piece : Nat]

TypeOK ==
  /\ setting \in Settings /\ identities \in 0 .. setting.routers
  /\ outbox \in Seq(Frames) /\ part \in Seq(Frames) /\ inbox \in Seq(Frames)
  /\ pipe \in Seq(Seq(Frames) \ {<<>>}) /\ Len(pipe) <= HighWater
  /\ at \in {"idle", "spacer", "data", "crashed"}
  /\ reading \in NoMessage .. Len(sent) /\ piece \in Nat
  /\ sent \in Seq([objects : 0 .. setting.objects, ids : 0 .. setting.routers]) /\ Len(sent) <= MaxMessages
  /\ dispatched \in Seq(1 .. Len(sent)) /\ fresh \subseteq 1 .. Len(sent)

Dispatched(n) == \E k \in DOMAIN dispatched : dispatched[k] = n

(* Whatever frames are left out, taken for others or lost, no envelope is      *)
(* dispatched twice or before an earlier one: the channel keeps the promise of *)
(* MessageStream for envelopes (zmqcommunicatorchannel.cpp:48-76, 135-245).    *)
Envelopes == INSTANCE MessageStream WITH
  Shapes <- {<<>>},
  sent <- [n \in DOMAIN sent |-> <<>>],
  delivered <- [k \in DOMAIN dispatched |-> [msg |-> dispatched[k], objects |-> {}]]
EnvelopeStream == Envelopes!Spec

(* A receiver that lost its place, because a spacer came too late for its read *)
(* or was never sent, is in step again once it has read all that came: a whole *)
(* envelope that then arrives is not missed (zmqcommunicatorchannel.cpp:217).  *)
BackInStep ==
  \A n \in fresh : (\E k \in DOMAIN dispatched : dispatched[k] > n) => Dispatched(n)

(* It is dispatched in the end, without waiting for more to arrive.            *)
FreshDispatched == \A n \in 1 .. MaxMessages : n \in fresh ~> Dispatched(n)

(* With routers, which drop the messages without identities, and programs that *)
(* wait for something to arrive before they call receive(), every whole        *)
(* envelope that was accepted is dispatched, however often the pipe was full.  *)
Reliable == setting.routers > 0 /\ setting.polls /\ setting.objects = 0 /\ ~setting.lossy
WholeDispatched ==
  \A n \in 1 .. MaxMessages :
    (Reliable /\ \E k \in DOMAIN pipe : pipe[k] = FramesOf(setting.routers, n, 0))
      ~> Dispatched(n)

=============================================================================
