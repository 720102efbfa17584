--------------------------- MODULE VtkChannelProofs ---------------------------
(* Theorems about VtkChannel, for all shapes of messages, numbers of messages  *)
(* and sizes of the buffer: its typing, that it keeps the promise of           *)
(* MessageStream, and that every message that is overtaken is accounted for.   *)

EXTENDS VtkChannel, SequenceTheorems, FiniteSetTheorems, NaturalsInduction,
        WellFoundedInduction, TLAPS

-----------------------------------------------------------------------------
(* The stream.  All the receiver can tell about the sender is the frame that    *)
(* comes next, and reading it makes the next one of the stream come.            *)

\* What is sent after a frame, be it of the next message.
Succ(shape, frame) ==
  IF FrameAfter(shape, frame) # NoFrame THEN FrameAfter(shape, frame)
  ELSE Frame("SIZE", frame.msg + 1, 0)

\* What is pushed next, ...
Pending == IF outgoing # NoFrame THEN outgoing ELSE Frame("SIZE", Len(sent) + 1, 0)

\* ... and what is read next, if anything ever is.
Coming == IF buffer # <<>> THEN Head(buffer) ELSE Pending
Alive == buffer # <<>> \/ link = "up"

\* The tags of the frames of an object.
ObjectTag(shape, i, tag) == tag = FirstTag(shape, i) \/ (tag = "MESSAGE" /\ IsExternal(shape, i))

\* The frames of a message: those of its envelope and of the objects that are sent.
Regular(shape, frame) ==
  \/ frame.field = 0 /\ frame.tag \in {"SIZE", "MESSAGE"}
  \/ frame.field \in SentFields(shape) /\ ObjectTag(shape, frame.field, frame.tag)

StreamInv ==
  /\ outgoing # NoFrame => outgoing.msg = Len(sent) /\ Regular(sent[Len(sent)], outgoing)
  /\ \A k \in 1 .. Len(buffer) : Regular(sent[buffer[k].msg], buffer[k])
  /\ \A k \in 1 .. Len(buffer) :
       k + 1 <= Len(buffer) => buffer[k + 1] = Succ(sent[buffer[k].msg], buffer[k])
  /\ link = "up" /\ buffer # <<>> =>
       Pending = Succ(sent[buffer[Len(buffer)].msg], buffer[Len(buffer)])

-----------------------------------------------------------------------------
(* The receiver.                                                               *)

\* The first message whose envelope has not been read, by whatever.
Unread(frame) == IF frame.field = 0 THEN frame.msg ELSE frame.msg + 1

\* The objects that are wanted from field i on, and those of a message that still
\* come, from a frame on.
Wanted(shape, i) == {i} \cup LeftToReceive(shape, i)
OwnLeft(shape, m, frame) ==
  {i \in SentFields(shape) : frame.msg = m /\ (i = frame.field \/ SentBefore(shape, frame.field, i))}

\* The objects of message m before field i.
OwnBefore(shape, m, i) == {<<j, m, j>> : j \in {k \in DOMAIN shape : ReceivedBefore(shape, k, i)}}

\* What receive() has read and expects fits the message it reads.
ReadingInv ==
  /\ reading = NoMessage =>
       expected.field = 0 /\ expected.tag \in {"none", "SIZE", "MESSAGE"} /\ got = {}
  /\ reading # NoMessage =>
       /\ expected.field \in DOMAIN sent[reading]
       /\ ObjectTag(sent[reading], expected.field, expected.tag)
       /\ \A k \in 1 .. Len(delivered) : delivered[k].msg < reading
       /\ ~Incomplete(reading) => got = OwnBefore(sent[reading], reading, expected.field)

\* SIZE and MESSAGE are read in pairs.
PairInv(next) ==
  /\ expected.tag = "MESSAGE" => next.tag = "MESSAGE"
  /\ reading # NoMessage /\ expected.tag # "MESSAGE" => next.tag # "MESSAGE"

\* A message that lacks nothing is read in step.  One that does takes at most as
\* many later messages for its objects as objects are lacking.
StepInv(next) ==
  /\ reading # NoMessage /\ ~Incomplete(reading) =>
       next.msg = reading /\ next.field = expected.field /\ next.tag = expected.tag
  /\ reading # NoMessage /\ Incomplete(reading) =>
       /\ reading < Unread(next)
       /\ Cardinality(Wanted(sent[reading], expected.field)) + Unread(next)
            <= reading + 1 + Cardinality(Lacking(sent[reading]))
                 + Cardinality(OwnLeft(sent[reading], reading, next))

\* Every message that was passed is being read or accounted for.
PassedInv(next) ==
  /\ \A k \in 1 .. Len(delivered) : delivered[k].msg < Unread(next)
  /\ \A n \in 1 .. Len(sent) : n < Unread(next) => Explained(n) \/ reading = n
  /\ \A n \in 1 .. Len(sent) :
       next = Frame("MESSAGE", n, 0) /\ expected.tag # "MESSAGE" => Explained(n)

ReceiverInv ==
  /\ ReadingInv /\ LossExplained
  /\ Alive => PairInv(Coming) /\ StepInv(Coming) /\ PassedInv(Coming)

-----------------------------------------------------------------------------
(* The order in which the objects of a message are sent and received.          *)

\* A set of numbers has a least one.
LEMMA Least ==
  ASSUME NEW S \in SUBSET Nat, S # {}
  PROVE  \E m \in S : \A k \in S : m <= k
<1>1. PICK m \in S : \A k \in S : ~(<<k, m>> \in OpToRel(<, Nat))
  BY NatLessThanWellFounded, WFMin
<1>2. \A k \in S : ~(k < m)
  BY <1>1 DEF OpToRel
<1>3. \A k \in S : m <= k
  BY <1>2
<1> QED
  BY <1>3

\* The fields of a message are numbered.
LEMMA FieldNumbers ==
  ASSUME NEW shape \in Seq(Fields)
  PROVE  /\ DOMAIN shape \in SUBSET (Nat \ {0}) /\ IsFiniteSet(DOMAIN shape)
         /\ \A i \in DOMAIN shape : shape[i] \in Fields
<1>1. Len(shape) \in Nat /\ DOMAIN shape = 1 .. Len(shape)
  BY LenProperties
<1>2. IsFiniteSet(1 .. Len(shape))
  BY <1>1, FS_Interval
<1>3. \A i \in 1 .. Len(shape) : shape[i] \in Fields
  BY ElementOfSeq
<1> QED
  BY <1>1, <1>2, <1>3

\* It is a total order ...
LEMMA SentInOrder ==
  ASSUME NEW shape \in Seq(Fields)
  PROVE  /\ \A i \in DOMAIN shape : ~SentBefore(shape, i, i)
         /\ \A i, j \in DOMAIN shape : i = j \/ SentBefore(shape, i, j) \/ SentBefore(shape, j, i)
         /\ \A i, j \in DOMAIN shape : SentBefore(shape, i, j) => ~SentBefore(shape, j, i)
         /\ \A i, j, k \in DOMAIN shape :
              SentBefore(shape, i, j) /\ SentBefore(shape, j, k) => SentBefore(shape, i, k)
<1>1. \A i \in DOMAIN shape : i \in Nat /\ IsExternal(shape, i) \in BOOLEAN
  BY FieldNumbers DEF IsExternal
<1>2. \A i \in DOMAIN shape : ~SentBefore(shape, i, i)
  BY <1>1 DEF SentBefore
<1>3. \A i, j \in DOMAIN shape : i = j \/ SentBefore(shape, i, j) \/ SentBefore(shape, j, i)
  BY <1>1 DEF SentBefore
<1>4. \A i, j \in DOMAIN shape : SentBefore(shape, i, j) => ~SentBefore(shape, j, i)
  BY <1>1 DEF SentBefore
<1>5. \A i, j, k \in DOMAIN shape :
        SentBefore(shape, i, j) /\ SentBefore(shape, j, k) => SentBefore(shape, i, k)
  BY <1>1 DEF SentBefore
<1> QED
  BY <1>2, <1>3, <1>4, <1>5

\* ... that the receiver keeps to.
LEMMA ReceivedAsSent ==
  ASSUME NEW shape, NEW i, NEW j
  PROVE  ReceivedBefore(shape, i, j) <=> SentBefore(shape, i, j)
BY DEF ReceivedBefore, SentBefore

\* Of some fields one is the first.
LEMMA FirstExists ==
  ASSUME NEW shape \in Seq(Fields), NEW left \in SUBSET DOMAIN shape, left # {}
  PROVE  \E i \in left : \A j \in left : j = i \/ SentBefore(shape, i, j)
<1> DEFINE vtk == {i \in left : ~IsExternal(shape, i)}
<1>1. DOMAIN shape \in SUBSET Nat
  BY FieldNumbers
<1>2. CASE vtk # {}
  <2>1. PICK i \in vtk : \A k \in vtk : i <= k
    BY <1>1, <1>2, Least
  <2>2. ASSUME NEW j \in left
        PROVE  j = i \/ SentBefore(shape, i, j)
    <3>1. CASE IsExternal(shape, j)
      BY <2>1, <3>1 DEF SentBefore
    <3>2. CASE ~IsExternal(shape, j)
      <4>1. i <= j /\ i \in Nat /\ j \in Nat
        BY <1>1, <2>1, <3>2
      <4>2. j = i \/ i < j
        BY <4>1
      <4>3. ~IsExternal(shape, i)
        BY <2>1
      <4>4. IsExternal(shape, i) = IsExternal(shape, j)
        BY <3>2, <4>3 DEF IsExternal
      <4> QED
        BY <4>2, <4>4 DEF SentBefore
    <3> QED
      BY <3>1, <3>2
  <2> QED
    BY <2>2
<1>3. CASE vtk = {}
  <2>1. PICK i \in left : \A k \in left : i <= k
    BY <1>1, Least
  <2>2. \A j \in left : IsExternal(shape, j) /\ i <= j /\ i \in Nat /\ j \in Nat
    BY <1>1, <1>3, <2>1
  <2>3. \A j \in left : j = i \/ SentBefore(shape, i, j)
    BY <2>2 DEF SentBefore
  <2> QED
    BY <2>3
<1> QED
  BY <1>2, <1>3

\* The first tag of an object is not that of its data.
LEMMA FirstTags ==
  ASSUME NEW shape \in Seq(Fields), NEW i \in DOMAIN shape
  PROVE  /\ FirstTag(shape, i) \in {"SIZE", "DATAOBJECT", "DATAARRAY"}
         /\ FirstTag(shape, i) = "SIZE" <=> IsExternal(shape, i)
<1>1. shape[i].kind \in {"object", "array", "external"}
  BY FieldNumbers DEF Fields
<1> QED
  BY <1>1 DEF FirstTag, IsExternal

\* What is left to be sent or to be received.
LEMMA LeftSubsets ==
  ASSUME NEW shape \in Seq(Fields), NEW i
  PROVE  /\ LeftToSend(shape, i) \in SUBSET SentFields(shape)
         /\ SentFields(shape) \in SUBSET DOMAIN shape
         /\ LeftToReceive(shape, i) \in SUBSET DOMAIN shape
BY DEF LeftToSend, SentFields, LeftToReceive

-----------------------------------------------------------------------------
(* The frames.                                                                 *)

\* What comes after a frame of the same message.
LEMMA AfterFrame ==
  ASSUME NEW shape \in Seq(Fields), NEW frame
  PROVE  /\ frame.tag = "SIZE" =>
              FrameAfter(shape, frame) = Frame("MESSAGE", frame.msg, frame.field)
         /\ frame.tag # "SIZE" /\ LeftToSend(shape, frame.field) = {} =>
              FrameAfter(shape, frame) = NoFrame
         /\ frame.tag # "SIZE" /\ LeftToSend(shape, frame.field) # {} =>
              \E i \in LeftToSend(shape, frame.field) :
                /\ \A j \in LeftToSend(shape, frame.field) : j = i \/ SentBefore(shape, i, j)
                /\ FrameAfter(shape, frame) = Frame(FirstTag(shape, i), frame.msg, i)
<1> DEFINE left == LeftToSend(shape, frame.field)
           next == CHOOSE i \in left : \A j \in left : j = i \/ SentBefore(shape, i, j)
<1>1. /\ frame.tag = "SIZE" =>
           FrameAfter(shape, frame) = Frame("MESSAGE", frame.msg, frame.field)
      /\ frame.tag # "SIZE" /\ left = {} => FrameAfter(shape, frame) = NoFrame
      /\ frame.tag # "SIZE" /\ left # {} =>
           FrameAfter(shape, frame) = Frame(FirstTag(shape, next), frame.msg, next)
  BY DEF FrameAfter
<1>2. left # {} => next \in left /\ \A j \in left : j = next \/ SentBefore(shape, next, j)
  <2>1. left \in SUBSET DOMAIN shape
    BY LeftSubsets
  <2>2. left # {} => \E i \in left : \A j \in left : j = i \/ SentBefore(shape, i, j)
    BY <2>1, FirstExists
  <2> QED
    BY <2>2
<1> HIDE DEF next, left
<1> QED
  BY <1>1, <1>2 DEF left

\* It is a frame of that message, and not the data of something whose size was
\* not sent.
LEMMA AfterRegular ==
  ASSUME NEW shape \in Seq(Fields), NEW frame, frame.msg # 0,
         frame.field \in Nat, Regular(shape, frame), FrameAfter(shape, frame) # NoFrame
  PROVE  /\ Regular(shape, FrameAfter(shape, frame))
         /\ FrameAfter(shape, frame) \in [tag : Tags, msg : {frame.msg}, field : Nat]
         /\ frame.tag # "SIZE" => FrameAfter(shape, frame).tag # "MESSAGE"
<1>1. CASE frame.tag = "SIZE"
  <2>1. FrameAfter(shape, frame) = Frame("MESSAGE", frame.msg, frame.field)
    BY <1>1, AfterFrame
  <2>2. frame.field \in SentFields(shape) /\ frame.field # 0 => IsExternal(shape, frame.field)
    BY <1>1, LeftSubsets, FirstTags, FieldNumbers DEF Regular, ObjectTag
  <2> QED
    BY <1>1, <2>1, <2>2 DEF Regular, ObjectTag, Frame, Tags
<1>2. CASE frame.tag # "SIZE"
  <2>1. LeftToSend(shape, frame.field) # {}
    BY <1>2, AfterFrame
  <2>2. PICK i \in LeftToSend(shape, frame.field) :
          FrameAfter(shape, frame) = Frame(FirstTag(shape, i), frame.msg, i)
    BY <1>2, <2>1, AfterFrame
  <2>3. i \in SentFields(shape) /\ i \in DOMAIN shape /\ i \in Nat
    BY LeftSubsets, FieldNumbers
  <2>4. FirstTag(shape, i) \in Tags /\ FirstTag(shape, i) # "MESSAGE"
    BY <2>3, FirstTags DEF Tags
  <2> QED
    BY <2>2, <2>3, <2>4 DEF Regular, ObjectTag, Frame
<1> QED
  BY <1>1, <1>2

-----------------------------------------------------------------------------
(* Types.                                                                      *)

\* Objects are only read for a message.
ReadsFor == expected.field # 0 => reading # NoMessage
TypeInv == TypeOK /\ ReadsFor

\* A message that was sent has fields.
LEMMA SentShapes ==
  ASSUME TypeOK
  PROVE  /\ Len(sent) \in Nat /\ DOMAIN sent = 1 .. Len(sent)
         /\ \A n \in 1 .. Len(sent) : sent[n] \in Seq(Fields)
<1>1. sent \in Seq(Shapes) /\ \A shape \in Shapes : shape \in Seq(Fields)
  BY StreamAssumption DEF TypeOK, StreamAssumption
<1> QED
  BY <1>1, LenProperties, ElementOfSeq

\* The message is handed over, or its next object is read.
LEMMA GoesOn ==
  ASSUME TypeOK, NEW n \in 1 .. Len(sent), NEW i, NEW objects, GoOn(n, i, objects)
  PROVE  \/ /\ LeftToReceive(sent[n], i) = {} /\ GiveUp
            /\ delivered' = Append(delivered, [msg |-> n, objects |-> objects])
         \/ \E j \in LeftToReceive(sent[n], i) :
              /\ \A k \in LeftToReceive(sent[n], i) : k = j \/ SentBefore(sent[n], j, k)
              /\ expected' = Expected(FirstTag(sent[n], j), j)
              /\ reading' = n /\ got' = objects /\ delivered' = delivered
<1> DEFINE shape == sent[n]
           left == LeftToReceive(shape, i)
           next == CHOOSE j \in left : \A k \in left : k = j \/ ReceivedBefore(shape, j, k)
<1>1. shape \in Seq(Fields)
  BY SentShapes
<1>2. \/ /\ left = {} /\ GiveUp
         /\ delivered' = Append(delivered, [msg |-> n, objects |-> objects])
      \/ /\ left # {}
         /\ expected' = Expected(FirstTag(shape, next), next)
         /\ reading' = n /\ got' = objects /\ delivered' = delivered
  BY DEF GoOn
<1> HIDE DEF shape
<1>3. left # {} => next \in left /\ \A k \in left : k = next \/ SentBefore(shape, next, k)
  <2>1. left \in SUBSET DOMAIN shape
    BY <1>1, LeftSubsets
  <2>2. left # {} => \E j \in left : \A k \in left : k = j \/ SentBefore(shape, j, k)
    BY <1>1, <2>1, FirstExists
  <2>3. left # {} => \E j \in left : \A k \in left : k = j \/ ReceivedBefore(shape, j, k)
    BY <2>2, ReceivedAsSent
  <2> HIDE DEF left
  <2>4. left # {} => next \in left /\ \A k \in left : k = next \/ ReceivedBefore(shape, next, k)
    BY <2>3
  <2> QED
    BY <2>4, ReceivedAsSent
<1> HIDE DEF next, left
<1> QED
  BY <1>2, <1>3 DEF left, shape

\* A connection that loses its last frame.
LEMMA FrontFrames ==
  ASSUME NEW S, NEW f \in Seq(S), Len(f) # 0
  PROVE  /\ Front(f) \in Seq(S) /\ Len(Front(f)) = Len(f) - 1
         /\ \A k \in 1 .. Len(f) - 1 : Front(f)[k] = f[k]
<1>1. Len(f) \in Nat
  BY LenProperties
<1>2. \A k \in 1 .. Len(f) - 1 : f[k] \in S
  BY <1>1, ElementOfSeq
<1>3. Len(f) - 1 \in Nat /\ 1 \in Nat
  BY <1>1
<1>4. /\ SubSeq(f, 1, Len(f) - 1) \in Seq(S)
      /\ Len(SubSeq(f, 1, Len(f) - 1)) = IF 1 <= Len(f) - 1 THEN (Len(f) - 1) - 1 + 1 ELSE 0
      /\ \A k \in 1 .. (Len(f) - 1) - 1 + 1 : SubSeq(f, 1, Len(f) - 1)[k] = f[1 + k - 1]
  BY <1>2, <1>3, SubSeqProperties
<1>5. (Len(f) - 1) - 1 + 1 = Len(f) - 1 /\ \A k \in 1 .. Len(f) - 1 : 1 + k - 1 = k
  BY <1>1
<1> DEFINE g == SubSeq(f, 1, Len(f) - 1)
<1> HIDE DEF g
<1>6. g \in Seq(S) /\ Len(g) = Len(f) - 1 /\ \A k \in 1 .. Len(f) - 1 : g[k] = f[k]
  BY <1>1, <1>3, <1>4, <1>5 DEF g
<1> QED
  BY <1>6 DEF Front, g

\* The sender and the connection.
LEMMA TypeSendStep ==
  ASSUME TypeInv,
         \/ \E shape \in Shapes : BeginSend(shape)
         \/ PushFrame \/ SendFails \/ Break \/ LoseFrame
  PROVE  TypeInv'
<1>0. TypeOK
  BY DEF TypeInv
<1>1. ASSUME NEW shape \in Shapes, BeginSend(shape)
      PROVE  TypeInv'
  <2>1. /\ sent' = Append(sent, shape) /\ Len(sent) < MaxMessages
        /\ outgoing' = Frame("SIZE", Len(sent) + 1, 0)
        /\ UNCHANGED <<buffer, link, expected, reading, got, delivered, refused>>
    BY <1>1 DEF BeginSend, receiver
  <2>2. sent \in Seq(Shapes) /\ Len(sent) \in Nat /\ MaxMessages \in Nat
    BY <1>0, SentShapes, StreamAssumption DEF TypeOK, StreamAssumption
  <2>3. sent' \in Seq(Shapes) /\ Len(sent') = Len(sent) + 1
    BY <2>1, <2>2, AppendProperties
  <2>4. Frames \subseteq Frames' /\ Objects \subseteq Objects'
        /\ 1 .. Len(sent) \subseteq 1 .. Len(sent')
    BY <2>2, <2>3 DEF Frames, Objects
  <2>5. buffer' \in Seq(Frames')
    <3>1. buffer \in Seq(Frames)
      BY <1>0 DEF TypeOK
    <3> QED
      BY <2>1, <2>4, <3>1, SeqMonotonic
  <2>6. delivered' \in Seq([msg : 1 .. Len(sent'), objects : SUBSET Objects'])
    <3> DEFINE D == [msg : 1 .. Len(sent), objects : SUBSET Objects]
               E == [msg : 1 .. Len(sent'), objects : SUBSET Objects']
    <3>1. delivered \in Seq(D)
      BY <1>0 DEF TypeOK
    <3>2. D \subseteq E
      BY <2>4
    <3> HIDE DEF D
    <3> HIDE DEF E
    <3>3. delivered \in Seq(E)
      BY <3>1, <3>2, SeqMonotonic
    <3> QED
      BY <2>1, <3>3 DEF E
  <2>7. outgoing' \in Frames'
    BY <2>1, <2>2, <2>3 DEF Frame, Frames, Tags
  <2>8. reading' \in NoMessage .. Len(sent') /\ refused' \subseteq 1 .. Len(sent') /\ got' \subseteq Objects'
    BY <1>0, <2>1, <2>2, <2>3, <2>4 DEF TypeOK, NoMessage
  <2>9. Len(sent') <= MaxMessages
    BY <2>1, <2>2, <2>3
  <2> QED
    BY <1>0, <2>1, <2>3, <2>5, <2>6, <2>7, <2>8, <2>9 DEF TypeInv, TypeOK, ReadsFor
<1>2. CASE PushFrame
  <2>1. /\ outgoing # NoFrame /\ Len(buffer) < BufferCap
        /\ buffer' = Append(buffer, outgoing)
        /\ outgoing' = FrameAfter(sent[outgoing.msg], outgoing)
        /\ UNCHANGED <<link, receiver, history>>
    BY <1>2 DEF PushFrame
  <2>2. outgoing \in Frames /\ buffer \in Seq(Frames) /\ Len(buffer) \in Nat /\ BufferCap \in Nat
    BY <1>0, <2>1, LenProperties, StreamAssumption DEF TypeOK, StreamAssumption
  <2>3. buffer' \in Seq(Frames) /\ Len(buffer') = Len(buffer) + 1
    BY <2>1, <2>2, AppendProperties
  <2>4. outgoing' \in Frames \cup {NoFrame}
    <3>1. sent[outgoing.msg] \in Seq(Fields) /\ outgoing.msg \in 1 .. Len(sent) /\ outgoing.field \in Nat
      BY <1>0, <2>2, SentShapes DEF Frames
    <3>2. CASE outgoing.tag = "SIZE"
      <4>1. outgoing' = Frame("MESSAGE", outgoing.msg, outgoing.field)
        BY <2>1, <3>1, <3>2, AfterFrame
      <4> QED
        BY <3>1, <4>1 DEF Frames, Frame, Tags
    <3>3. CASE outgoing.tag # "SIZE" /\ outgoing' # NoFrame
      <4>1. PICK i \in LeftToSend(sent[outgoing.msg], outgoing.field) :
              outgoing' = Frame(FirstTag(sent[outgoing.msg], i), outgoing.msg, i)
        BY <2>1, <3>1, <3>3, AfterFrame
      <4>2. i \in DOMAIN sent[outgoing.msg] /\ i \in Nat
        BY <3>1, LeftSubsets, FieldNumbers
      <4>3. FirstTag(sent[outgoing.msg], i) \in Tags
        BY <3>1, <4>2, FirstTags DEF Tags
      <4> QED
        BY <3>1, <4>1, <4>2, <4>3 DEF Frames, Frame
    <3> QED
      BY <3>2, <3>3
  <2>5. Len(buffer') <= BufferCap
    BY <2>1, <2>2, <2>3
  <2> QED
    BY <1>0, <2>1, <2>3, <2>4, <2>5
       DEF TypeInv, TypeOK, ReadsFor, receiver, history, Frames, Objects
<1>3. CASE SendFails \/ Break
  BY <1>0, <1>3
     DEF SendFails, Break, TypeInv, TypeOK, ReadsFor, receiver, history, Frames, Objects
<1>4. CASE LoseFrame
  <2>1. buffer # <<>> /\ buffer' = Front(buffer) /\ UNCHANGED <<outgoing, link, receiver, history>>
    BY <1>4 DEF LoseFrame
  <2>2. buffer \in Seq(Frames) /\ Len(buffer) \in Nat /\ Len(buffer) <= BufferCap /\ BufferCap \in Nat
        /\ Len(buffer) # 0
    BY <1>0, <2>1, EmptySeq, LenProperties, StreamAssumption DEF TypeOK, StreamAssumption
  <2>3. /\ Front(buffer) \in Seq(Frames) /\ Len(Front(buffer)) = Len(buffer) - 1
    BY <2>2, FrontFrames
  <2>4. Len(buffer') <= BufferCap
    BY <2>1, <2>2, <2>3
  <2> QED
    BY <1>0, <2>1, <2>3, <2>4 DEF TypeInv, TypeOK, ReadsFor, receiver, history, Frames, Objects
<1> QED
  BY <1>1, <1>2, <1>3, <1>4

\* The receiver.
LEMMA TypeReceiveStep ==
  ASSUME TypeInv, BeginReceive \/ ReadFrame \/ ReceiveFails
  PROVE  TypeInv'
<1>0. TypeOK
  BY DEF TypeInv
<1>1. /\ UNCHANGED <<outgoing, link, sent>>
      /\ buffer' = buffer \/ (buffer # <<>> /\ buffer' = Tail(buffer))
  BY DEF BeginReceive, ReadFrame, ReceiveFails, ReadWrongTag, ReadSize, ReadEnvelope,
     RefuseEnvelope, MistakeEnvelope, ReadObject, RefuseObject, Reads, history
<1>2. buffer' \in Seq(Frames) /\ Len(buffer') <= BufferCap
  <2>1. buffer \in Seq(Frames) /\ Len(buffer) \in Nat /\ Len(buffer) <= BufferCap /\ BufferCap \in Nat
    BY <1>0, LenProperties, StreamAssumption DEF TypeOK, StreamAssumption
  <2>2. buffer # <<>> => Tail(buffer) \in Seq(Frames) /\ Len(Tail(buffer)) = Len(buffer) - 1
    BY <2>1, HeadTailProperties
  <2> QED
    BY <1>1, <2>1, <2>2
<1>3. buffer # <<>> => Head(buffer) \in Frames
  BY <1>0, HeadTailProperties DEF TypeOK
<1> DEFINE Calm ==
             /\ expected' \in [tag : Tags, field : Nat] \cup {NothingExpected}
             /\ reading' \in NoMessage .. Len(sent) /\ got' \subseteq Objects
             /\ delivered' \in Seq([msg : 1 .. Len(sent), objects : SUBSET Objects])
             /\ refused' \subseteq 1 .. Len(sent)
             /\ (expected.field # 0 => reading # NoMessage)'
<1>4. ASSUME GiveUp, UNCHANGED delivered, refused' \subseteq 1 .. Len(sent)
      PROVE  Calm
  BY <1>0, <1>4, SentShapes DEF TypeOK, GiveUp, NothingExpected, Expected, NoMessage
<1>5. ASSUME BeginReceive \/ ReadSize
      PROVE  Calm
  <2>1. UNCHANGED <<reading, got, delivered, refused>>
    BY <1>5 DEF BeginReceive, ReadSize, history
  <2>2. expected' = Expected("SIZE", 0) \/ expected' = Expected("MESSAGE", expected.field)
    BY <1>5 DEF BeginReceive, ReadSize
  <2>3. expected.field \in Nat
    BY <1>0 DEF TypeOK, NothingExpected, Expected
  <2> QED
    BY <1>0, <2>1, <2>2, <2>3 DEF TypeInv, ReadsFor, TypeOK, Expected, Tags
<1>6. ASSUME NEW n \in 1 .. Len(sent), NEW i, NEW objects \in SUBSET Objects,
             GoOn(n, i, objects), UNCHANGED refused
      PROVE  Calm
  <2>1. CASE GiveUp /\ delivered' = Append(delivered, [msg |-> n, objects |-> objects])
    <3> DEFINE D == [msg : 1 .. Len(sent), objects : SUBSET Objects]
               x == [msg |-> n, objects |-> objects]
    <3>1. delivered \in Seq(D) /\ x \in D
      BY <1>0 DEF TypeOK
    <3> HIDE DEF D, x
    <3>2. delivered' \in Seq(D)
      BY <2>1, <3>1, AppendProperties DEF x
    <3> QED
      BY <1>0, <1>6, <2>1, <3>2, SentShapes
         DEF D, TypeOK, GiveUp, NothingExpected, Expected, NoMessage
  <2>2. ASSUME NEW j \in LeftToReceive(sent[n], i),
               expected' = Expected(FirstTag(sent[n], j), j),
               reading' = n, got' = objects, delivered' = delivered
        PROVE  Calm
    <3>1. sent[n] \in Seq(Fields) /\ Len(sent) \in Nat
      BY <1>0, SentShapes
    <3>2. j \in Nat /\ j \in DOMAIN sent[n]
      BY <3>1, LeftSubsets, FieldNumbers
    <3>3. FirstTag(sent[n], j) \in Tags
      BY <3>1, <3>2, FirstTags DEF Tags
    <3> QED
      BY <1>0, <1>6, <2>2, <3>1, <3>2, <3>3 DEF TypeOK, Expected, NoMessage
  <2> QED
    BY <1>0, <1>6, <2>1, <2>2, GoesOn
<1>7. ASSUME ReadWrongTag \/ RefuseEnvelope \/ MistakeEnvelope \/ RefuseObject \/ ReceiveFails
      PROVE  Calm
  <2>1. buffer # <<>> => Head(buffer).msg \in 1 .. Len(sent)
    BY <1>3 DEF Frames
  <2>2. expected.field # 0 => reading \in 1 .. Len(sent)
    BY <1>0, SentShapes DEF TypeInv, TypeOK, ReadsFor, NoMessage
  <2>3. GiveUp /\ UNCHANGED delivered /\ refused' \subseteq 1 .. Len(sent)
    BY <1>0, <1>7, <2>1, <2>2 DEF TypeOK, ReadWrongTag, RefuseEnvelope, MistakeEnvelope,
       RefuseObject, ReceiveFails, Reads, history
  <2> QED
    BY <1>4, <2>3
<1>8. ASSUME ReadEnvelope
      PROVE  Calm
  <2>1. PICK n \in 1 .. Len(sent) : n = Head(buffer).msg
    BY <1>3, <1>8 DEF Frames, ReadEnvelope, Reads
  <2>2. GoOn(n, 0, {}) /\ UNCHANGED refused /\ {} \in SUBSET Objects
    BY <1>8, <2>1 DEF ReadEnvelope
  <2> HIDE DEF Calm
  <2> QED
    BY <1>6, <2>2
<1>9. ASSUME ReadObject
      PROVE  Calm
  <2>1. reading \in 1 .. Len(sent) /\ expected.field \in Nat /\ expected.field # 0
    BY <1>0, <1>9, SentShapes
       DEF TypeInv, TypeOK, ReadsFor, NoMessage, ReadObject, NothingExpected, Expected
  <2>2. <<expected.field, Head(buffer).msg, Head(buffer).field>> \in Objects
    BY <1>3, <1>9, <2>1 DEF Frames, Objects, ReadObject, Reads
  <2>3. got \cup {<<expected.field, Head(buffer).msg, Head(buffer).field>>} \in SUBSET Objects
    BY <1>0, <2>2 DEF TypeOK
  <2>4. PICK n \in 1 .. Len(sent), i \in Nat, objects \in SUBSET Objects :
          /\ n = reading /\ i = expected.field
          /\ objects = got \cup {<<expected.field, Head(buffer).msg, Head(buffer).field>>}
    BY <2>1, <2>3
  <2>5. GoOn(n, i, objects) /\ UNCHANGED refused
    BY <1>9, <2>4 DEF ReadObject
  <2> HIDE DEF Calm
  <2> QED
    BY <1>6, <2>5
<1>10. Calm
  BY <1>5, <1>7, <1>8, <1>9 DEF ReadFrame
<1> QED
  BY <1>0, <1>1, <1>2, <1>10 DEF TypeInv, TypeOK, ReadsFor, Frames, Objects

\* Initially nothing was sent.
LEMMA TypeInit == Init => TypeInv
<1> SUFFICES ASSUME Init PROVE TypeInv
  OBVIOUS
<1>1. \A S : <<>> \in Seq(S)
  BY EmptySeq
<1>2. Len(<<>>) = 0 /\ MaxMessages \in Nat /\ BufferCap \in Nat
  BY StreamAssumption DEF StreamAssumption
<1> QED
  BY <1>1, <1>2
     DEF Init, TypeInv, TypeOK, ReadsFor, NoMessage, NoFrame, Frame, NothingExpected, Expected

\* Every step keeps the types.
LEMMA TypeStep == TypeInv /\ [Next]_vars => TypeInv'
<1> SUFFICES ASSUME TypeInv, [Next]_vars PROVE TypeInv'
  OBVIOUS
<1>1. CASE Next
  BY <1>1, TypeSendStep, TypeReceiveStep DEF Next
<1>2. CASE UNCHANGED vars
  BY <1>2 DEF vars, receiver, history, TypeInv, TypeOK, ReadsFor, Frames, Objects
<1> QED
  BY <1>1, <1>2

\* The connection never buffers more frames than it can, every frame is that of a
\* message that was sent, and what receive() reads belongs to one.
THEOREM VtkTyping == Spec => []TypeOK
<1>1. TypeInv => TypeOK
  BY DEF TypeInv
<1> QED
  BY TypeInit, TypeStep, <1>1, PTL DEF Spec

-----------------------------------------------------------------------------
(* The stream.                                                                 *)

\* What the next step does to the frames.
LEMMA FrameTypes ==
  ASSUME TypeOK
  PROVE  /\ Len(sent) \in Nat /\ Len(buffer) \in Nat
         /\ buffer \in Seq(Frames)
         /\ buffer # <<>> <=> Len(buffer) # 0
         /\ \A k \in 1 .. Len(buffer) :
              /\ buffer[k] \in Frames /\ buffer[k].msg \in 1 .. Len(sent)
              /\ buffer[k].field \in Nat /\ buffer[k].msg # 0
         /\ outgoing # NoFrame =>
              outgoing \in Frames /\ outgoing.msg \in 1 .. Len(sent) /\ outgoing.field \in Nat
<1>1. buffer \in Seq(Frames) /\ (outgoing # NoFrame => outgoing \in Frames)
  BY DEF TypeOK
<1>2. Len(sent) \in Nat /\ Len(buffer) \in Nat /\ (buffer # <<>> <=> Len(buffer) # 0)
  BY <1>1, SentShapes, LenProperties, EmptySeq
<1>3. \A k \in 1 .. Len(buffer) : buffer[k] \in Frames
  BY <1>1, <1>2, ElementOfSeq
<1> QED
  BY <1>1, <1>2, <1>3 DEF Frames

\* A message that is begun is the last one.
LEMMA SentGrows ==
  ASSUME TypeOK, NEW shape \in Shapes, sent' = Append(sent, shape)
  PROVE  /\ Len(sent') = Len(sent) + 1 /\ Len(sent) \in Nat
         /\ \A n \in 1 .. Len(sent) : sent'[n] = sent[n]
<1>1. sent \in Seq(Shapes) /\ Len(sent) \in Nat
  BY SentShapes DEF TypeOK
<1> QED
  BY <1>1, AppendProperties

\* A frame is pushed, ...
LEMMA StreamPush == TypeInv /\ StreamInv /\ PushFrame => StreamInv'
<1> SUFFICES ASSUME TypeInv, StreamInv, PushFrame PROVE StreamInv'
  OBVIOUS
<1>0. /\ outgoing # NoFrame /\ link = "up"
      /\ buffer' = Append(buffer, outgoing)
      /\ outgoing' = FrameAfter(sent[outgoing.msg], outgoing)
      /\ link' = link /\ sent' = sent
  BY DEF PushFrame, history
<1>1. outgoing.msg = Len(sent) /\ Regular(sent[Len(sent)], outgoing)
  BY <1>0 DEF StreamInv
<1>2. /\ Len(sent) \in Nat /\ Len(buffer) \in Nat /\ buffer \in Seq(Frames)
      /\ outgoing \in Frames /\ outgoing.msg \in 1 .. Len(sent) /\ outgoing.field \in Nat
      /\ buffer # <<>> <=> Len(buffer) # 0
  BY <1>0, FrameTypes DEF TypeInv
<1>3. /\ Len(buffer') = Len(buffer) + 1 /\ buffer'[Len(buffer) + 1] = outgoing
      /\ \A k \in 1 .. Len(buffer) : buffer'[k] = buffer[k]
  BY <1>0, <1>2, AppendProperties
<1>4. sent[Len(sent)] \in Seq(Fields)
  BY <1>1, <1>2, SentShapes DEF TypeInv
<1>5. outgoing' # NoFrame => outgoing'.msg = Len(sent) /\ Regular(sent[Len(sent)], outgoing')
  BY <1>0, <1>1, <1>2, <1>4, AfterRegular
<1>6. Pending' = Succ(sent[outgoing.msg], outgoing)
  BY <1>0, <1>1 DEF Pending, Succ
<1>7. ASSUME NEW k \in 1 .. Len(buffer')
      PROVE  Regular(sent'[buffer'[k].msg], buffer'[k])
  <2>1. k \in 1 .. Len(buffer) \/ k = Len(buffer) + 1
    BY <1>2, <1>3
  <2> QED
    BY <1>0, <1>1, <1>3, <2>1 DEF StreamInv
<1>8. ASSUME NEW k \in 1 .. Len(buffer'), k + 1 <= Len(buffer')
      PROVE  buffer'[k + 1] = Succ(sent'[buffer'[k].msg], buffer'[k])
  <2>1. k \in 1 .. Len(buffer) /\ (k + 1 \in 1 .. Len(buffer) \/ k = Len(buffer))
    BY <1>2, <1>3, <1>8
  <2>2. CASE k + 1 \in 1 .. Len(buffer)
    <3>1. k + 1 <= Len(buffer)
      BY <1>2, <2>2
    <3> QED
      BY <1>0, <1>3, <2>1, <2>2, <3>1 DEF StreamInv
  <2>3. CASE k = Len(buffer)
    <3>1. Pending = Succ(sent[buffer[Len(buffer)].msg], buffer[Len(buffer)])
      BY <1>0, <1>2, <2>1, <2>3 DEF StreamInv
    <3> QED
      BY <1>0, <1>3, <2>1, <2>3, <3>1 DEF Pending
  <2> QED
    BY <2>1, <2>2, <2>3
<1>9. Pending' = Succ(sent'[buffer'[Len(buffer')].msg], buffer'[Len(buffer')])
  BY <1>0, <1>3, <1>6
<1> QED
  BY <1>0, <1>5, <1>7, <1>8, <1>9 DEF StreamInv

\* ... or read, ...
LEMMA StreamRead ==
  ASSUME TypeOK, StreamInv, buffer # <<>>, buffer' = Tail(buffer), UNCHANGED <<outgoing, link, sent>>
  PROVE  StreamInv'
<1>1. /\ Len(buffer) \in Nat \ {0} /\ Len(buffer') = Len(buffer) - 1
      /\ \A k \in 1 .. Len(buffer') : buffer'[k] = buffer[k + 1]
      /\ buffer' # <<>> <=> Len(buffer') # 0
  BY FrameTypes, HeadTailProperties, EmptySeq
<1>2. \A k \in 1 .. Len(buffer') :
        k + 1 \in 1 .. Len(buffer) /\ (k + 1 <= Len(buffer') => k + 1 + 1 <= Len(buffer))
  BY <1>1
<1>3. \A k \in 1 .. Len(buffer') : Regular(sent'[buffer'[k].msg], buffer'[k])
  BY <1>1, <1>2 DEF StreamInv
<1>4. ASSUME NEW k \in 1 .. Len(buffer'), k + 1 <= Len(buffer')
      PROVE  buffer'[k + 1] = Succ(sent'[buffer'[k].msg], buffer'[k])
  <2>1. k + 1 \in 1 .. Len(buffer') /\ k + 1 \in 1 .. Len(buffer) /\ k + 1 + 1 <= Len(buffer)
    BY <1>1, <1>2, <1>4
  <2> QED
    BY <1>1, <2>1 DEF StreamInv
<1>5. link' = "up" /\ buffer' # <<>> =>
        Pending' = Succ(sent'[buffer'[Len(buffer')].msg], buffer'[Len(buffer')])
  <2>1. Pending' = Pending
    BY DEF Pending
  <2>2. buffer' # <<>> => buffer'[Len(buffer')] = buffer[Len(buffer)] /\ buffer # <<>>
    BY <1>1
  <2> QED
    BY <2>1, <2>2 DEF StreamInv
<1> QED
  BY <1>3, <1>4, <1>5 DEF StreamInv

\* ... and everything else leaves them as they are or loses the last.
LEMMA StreamStep == TypeInv /\ StreamInv /\ [Next]_vars => StreamInv'
<1> SUFFICES ASSUME TypeInv, StreamInv, [Next]_vars PROVE StreamInv'
  OBVIOUS
<1>0. TypeOK
  BY DEF TypeInv
<1>1. ASSUME NEW shape \in Shapes, BeginSend(shape)
      PROVE  StreamInv'
  <2>1. /\ sent' = Append(sent, shape) /\ outgoing = NoFrame
        /\ outgoing' = Frame("SIZE", Len(sent) + 1, 0) /\ buffer' = buffer /\ link' = link
    BY <1>1 DEF BeginSend
  <2>2. /\ Len(sent') = Len(sent) + 1 /\ Len(sent) \in Nat /\ Len(buffer) \in Nat
        /\ \A n \in 1 .. Len(sent) : sent'[n] = sent[n]
    BY <1>0, <2>1, SentGrows, FrameTypes
  <2>3. outgoing'.msg = Len(sent') /\ Regular(sent'[Len(sent')], outgoing')
    BY <2>1, <2>2 DEF Regular, Frame
  <2>4. Pending' = Pending
    BY <2>1, <2>2 DEF Pending, Frame, NoFrame
  <2>5. \A k \in 1 .. Len(buffer) : sent'[buffer[k].msg] = sent[buffer[k].msg]
    BY <1>0, <2>2, FrameTypes
  <2>6. buffer # <<>> => Len(buffer) \in 1 .. Len(buffer)
    BY <1>0, <2>2, FrameTypes
  <2> QED
    BY <2>1, <2>3, <2>4, <2>5, <2>6 DEF StreamInv
<1>2. CASE SendFails \/ Break
  BY <1>2 DEF SendFails, Break, StreamInv, history
<1>3. CASE LoseFrame
  <2>1. buffer # <<>> /\ link = "down" /\ buffer' = Front(buffer) /\ UNCHANGED <<outgoing, link, sent>>
    BY <1>3 DEF LoseFrame, history
  <2>2. Len(buffer) \in Nat /\ Len(buffer') = Len(buffer) - 1
        /\ \A k \in 1 .. Len(buffer') : buffer'[k] = buffer[k] /\ k \in 1 .. Len(buffer)
    BY <1>0, <2>1, FrameTypes, FrontFrames
  <2>3. \A k \in 1 .. Len(buffer') :
          k + 1 <= Len(buffer') => k + 1 \in 1 .. Len(buffer') /\ k + 1 <= Len(buffer)
    BY <2>2
  <2> QED
    BY <2>1, <2>2, <2>3 DEF StreamInv
<1>4. CASE BeginReceive \/ ReceiveFails
  BY <1>4 DEF BeginReceive, ReceiveFails, StreamInv, Pending, history
<1>5. CASE ReadFrame
  <2>1. buffer # <<>> /\ buffer' = Tail(buffer) /\ UNCHANGED <<outgoing, link, sent>>
    BY <1>5 DEF ReadFrame, ReadWrongTag, ReadSize, ReadEnvelope, RefuseEnvelope, MistakeEnvelope,
       ReadObject, RefuseObject, Reads, history
  <2> QED
    BY <1>0, <2>1, StreamRead
<1>6. CASE UNCHANGED vars
  BY <1>6 DEF vars, receiver, history, StreamInv, Pending
<1> QED
  BY <1>1, <1>2, <1>3, <1>4, <1>5, <1>6, StreamPush DEF Next

\* The frame that comes is one of a message that was sent, or the first of the next.
LEMMA ComingTypes ==
  ASSUME TypeOK, StreamInv
  PROVE  /\ Len(sent) \in Nat
         /\ Coming = Frame(Coming.tag, Coming.msg, Coming.field)
         /\ Coming.msg \in 1 .. Len(sent) + 1 /\ Coming.field \in Nat /\ Coming.tag \in Tags
         /\ Coming.msg \in 1 .. Len(sent) => Regular(sent[Coming.msg], Coming)
         /\ Coming.msg \notin 1 .. Len(sent) => Coming = Frame("SIZE", Len(sent) + 1, 0)
         /\ buffer # <<>> => Coming = Head(buffer) /\ Coming.msg \in 1 .. Len(sent)
<1>1. Len(sent) \in Nat
  BY SentShapes
<1>2. CASE buffer # <<>>
  <2>1. Coming = buffer[1] /\ 1 \in 1 .. Len(buffer) /\ Head(buffer) = buffer[1]
    BY <1>2, FrameTypes, HeadTailProperties DEF Coming
  <2>2. buffer[1] \in Frames /\ buffer[1].msg \in 1 .. Len(sent)
    BY <2>1, FrameTypes
  <2>3. Regular(sent[buffer[1].msg], buffer[1])
    BY <2>1 DEF StreamInv
  <2> QED
    BY <1>1, <2>1, <2>2, <2>3 DEF Frames, Frame
<1>3. CASE buffer = <<>> /\ outgoing # NoFrame
  <2>1. Coming = outgoing /\ outgoing \in Frames /\ outgoing.msg = Len(sent) /\ outgoing.msg \in 1 .. Len(sent)
    BY <1>3, FrameTypes DEF Coming, Pending, StreamInv
  <2>2. Regular(sent[Coming.msg], Coming)
    BY <1>3, <2>1 DEF StreamInv
  <2> QED
    BY <1>1, <1>3, <2>1, <2>2 DEF Frames, Frame
<1>4. CASE buffer = <<>> /\ outgoing = NoFrame
  <2>1. Coming = Frame("SIZE", Len(sent) + 1, 0)
    BY <1>4 DEF Coming, Pending
  <2> QED
    BY <1>1, <1>4, <2>1 DEF Frame, Tags
<1> QED
  BY <1>2, <1>3, <1>4

\* It comes until it is read, ...
LEMMA ComingKept ==
  ASSUME TypeOK, StreamInv,
         \/ \E shape \in Shapes : BeginSend(shape)
         \/ PushFrame \/ SendFails \/ Break \/ LoseFrame \/ BeginReceive
  PROVE  Alive' => Alive /\ Coming' = Coming
<1>1. ASSUME NEW shape \in Shapes, BeginSend(shape)
      PROVE  Alive' => Alive /\ Coming' = Coming
  <2>1. /\ sent' = Append(sent, shape) /\ outgoing = NoFrame
        /\ outgoing' = Frame("SIZE", Len(sent) + 1, 0) /\ buffer' = buffer /\ link' = link
    BY <1>1 DEF BeginSend
  <2> QED
    BY <2>1 DEF Coming, Pending, Alive, Frame, NoFrame
<1>2. CASE PushFrame
  <2>1. /\ outgoing # NoFrame /\ link = "up" /\ buffer' = Append(buffer, outgoing)
    BY <1>2 DEF PushFrame
  <2>2. /\ buffer \in Seq(Frames) /\ outgoing \in Frames /\ Len(buffer) \in Nat
        /\ buffer # <<>> <=> Len(buffer) # 0
    BY <2>1, FrameTypes
  <2>3. /\ Append(buffer, outgoing) # <<>>
        /\ Head(Append(buffer, outgoing)) = IF buffer = <<>> THEN outgoing ELSE Head(buffer)
    BY <2>2, AppendProperties, HeadTailProperties, EmptySeq
  <2> QED
    BY <2>1, <2>3 DEF Coming, Pending, Alive
<1>3. CASE SendFails \/ Break \/ BeginReceive
  BY <1>3 DEF SendFails, Break, BeginReceive, Alive, Coming, Pending, history
<1>4. CASE LoseFrame
  <2>1. buffer # <<>> /\ link = "down" /\ buffer' = Front(buffer) /\ link' = link
    BY <1>4 DEF LoseFrame
  <2>2. /\ buffer \in Seq(Frames) /\ Len(buffer) \in Nat /\ Len(buffer) # 0
        /\ Front(buffer) \in Seq(Frames) /\ Len(Front(buffer)) = Len(buffer) - 1
        /\ \A k \in 1 .. Len(buffer) - 1 : Front(buffer)[k] = buffer[k]
    BY <2>1, FrameTypes, FrontFrames
  <2>3. buffer' # <<>> => Head(buffer') = Head(buffer)
    <3>1. buffer' # <<>> => Len(buffer') # 0 /\ Head(buffer') = buffer'[1]
      BY <2>1, <2>2, HeadTailProperties, EmptySeq
    <3>2. Head(buffer) = buffer[1]
      BY <2>1, <2>2, HeadTailProperties
    <3>3. Len(buffer') # 0 => 1 \in 1 .. Len(buffer) - 1
      BY <2>1, <2>2
    <3> QED
      BY <2>1, <2>2, <3>1, <3>2, <3>3
  <2> QED
    BY <2>1, <2>3 DEF Alive, Coming
<1> QED
  BY <1>1, <1>2, <1>3, <1>4

\* ... and then the next one of the stream.
LEMMA ComingRead ==
  ASSUME TypeOK, StreamInv, buffer # <<>>, buffer' = Tail(buffer), UNCHANGED <<outgoing, link, sent>>
  PROVE  Alive' => Coming' = Succ(sent[Head(buffer).msg], Head(buffer))
<1>1. /\ Len(buffer) \in Nat \ {0} /\ Len(buffer') = Len(buffer) - 1
      /\ buffer' \in Seq(Frames) /\ Head(buffer) = buffer[1]
      /\ \A k \in 1 .. Len(buffer') : buffer'[k] = buffer[k + 1]
      /\ buffer' # <<>> <=> Len(buffer') # 0
  <2>1. buffer \in Seq(Frames) /\ Len(buffer) \in Nat \ {0}
    BY FrameTypes
  <2>2. /\ Head(buffer) = buffer[1] /\ buffer' \in Seq(Frames) /\ Len(buffer') = Len(buffer) - 1
        /\ \A k \in 1 .. Len(buffer') : buffer'[k] = buffer[k + 1]
    BY <2>1, HeadTailProperties
  <2> QED
    BY <2>1, <2>2, EmptySeq
<1>2. CASE buffer' # <<>>
  <2>1. Coming' = buffer'[1] /\ 1 \in 1 .. Len(buffer')
    BY <1>1, <1>2, HeadTailProperties DEF Coming
  <2>2. buffer'[1] = buffer[2] /\ 1 \in 1 .. Len(buffer) /\ 1 + 1 <= Len(buffer) /\ 1 + 1 = 2
    BY <1>1, <2>1
  <2>3. buffer[1 + 1] = Succ(sent[buffer[1].msg], buffer[1])
    BY <2>2 DEF StreamInv
  <2> QED
    BY <1>1, <2>1, <2>2, <2>3
<1>3. CASE buffer' = <<>>
  <2>1. Len(buffer) = 1 /\ Coming' = Pending
    BY <1>1, <1>3 DEF Coming, Pending
  <2>2. link = "up" => Pending = Succ(sent[buffer[1].msg], buffer[1])
    BY <2>1 DEF StreamInv
  <2> QED
    BY <1>1, <1>3, <2>1, <2>2 DEF Alive
<1> QED
  BY <1>2, <1>3

\* Frame V is the first one of the first object that is sent after frame U.
FirstObject(shape, U, V) ==
  \E i \in LeftToSend(shape, U.field) :
    /\ \A j \in LeftToSend(shape, U.field) : j = i \/ SentBefore(shape, i, j)
    /\ V = Frame(FirstTag(shape, i), U.msg, i)

\* What follows a frame in the stream, and what is unread then.
LEMMA Successor ==
  ASSUME NEW shape \in Seq(Fields), NEW U, U.msg \in Nat \ {0}, U.field \in Nat,
         U.tag \in Tags, Regular(shape, U), NEW V, V = Succ(shape, U)
  PROVE  /\ U.tag = "SIZE" => V = Frame("MESSAGE", U.msg, U.field)
         /\ U.tag # "SIZE" => V.tag # "MESSAGE"
         /\ U.tag # "SIZE" /\ LeftToSend(shape, U.field) = {} => V = Frame("SIZE", U.msg + 1, 0)
         /\ U.tag # "SIZE" /\ LeftToSend(shape, U.field) # {} => FirstObject(shape, U, V)
         /\ Unread(U) \in Nat
         /\ Unread(V) = IF U.tag = "MESSAGE" /\ U.field = 0 THEN U.msg + 1 ELSE Unread(U)
<1>1. CASE U.tag = "SIZE"
  <2>1. FrameAfter(shape, U) = Frame("MESSAGE", U.msg, U.field)
    BY <1>1, AfterFrame
  <2> QED
    BY <1>1, <2>1 DEF Succ, Frame, NoFrame, Unread
<1>2. CASE U.tag # "SIZE" /\ LeftToSend(shape, U.field) = {}
  <2>1. V = Frame("SIZE", U.msg + 1, 0)
    BY <1>2, AfterFrame DEF Succ
  <2>2. U.field = 0 => U.tag = "MESSAGE"
    BY <1>2, LeftSubsets, FieldNumbers DEF Regular
  <2> QED
    BY <1>2, <2>1, <2>2 DEF Frame, Unread
<1>3. CASE U.tag # "SIZE" /\ LeftToSend(shape, U.field) # {}
  <2>1. PICK i \in LeftToSend(shape, U.field) :
          /\ \A j \in LeftToSend(shape, U.field) : j = i \/ SentBefore(shape, i, j)
          /\ FrameAfter(shape, U) = Frame(FirstTag(shape, i), U.msg, i)
    BY <1>3, AfterFrame
  <2>2. i \in DOMAIN shape /\ i \in Nat \ {0}
    BY LeftSubsets, FieldNumbers
  <2>3. FirstTag(shape, i) # "MESSAGE"
    BY <2>2, FirstTags
  <2>4. V = Frame(FirstTag(shape, i), U.msg, i)
    BY <2>1, <2>2 DEF Succ, Frame, NoFrame
  <2>5. U.field = 0 => U.tag = "MESSAGE"
    BY <1>3, LeftSubsets, FieldNumbers DEF Regular
  <2>6. V.tag # "MESSAGE" /\ V.msg = U.msg /\ V.field # 0
    BY <2>2, <2>3, <2>4 DEF Frame
  <2>7. Unread(U) \in Nat
        /\ Unread(V) = IF U.tag = "MESSAGE" /\ U.field = 0 THEN U.msg + 1 ELSE Unread(U)
    BY <2>5, <2>6 DEF Unread
  <2>8. FirstObject(shape, U, V)
    BY <2>1, <2>4 DEF FirstObject
  <2> QED
    BY <1>3, <2>6, <2>7, <2>8
<1> QED
  BY <1>1, <1>2, <1>3

-----------------------------------------------------------------------------
(* What was explained stays explained.                                         *)

\* The messages that were handed over.
LEMMA DeliveredTypes ==
  ASSUME TypeOK
  PROVE  /\ Len(delivered) \in Nat /\ DOMAIN delivered = 1 .. Len(delivered)
         /\ delivered \in Seq([msg : 1 .. Len(sent), objects : SUBSET Objects])
         /\ \A k \in 1 .. Len(delivered) :
              /\ delivered[k] \in [msg : 1 .. Len(sent), objects : SUBSET Objects]
              /\ delivered[k].msg \in 1 .. Len(sent)
<1> DEFINE D == [msg : 1 .. Len(sent), objects : SUBSET Objects]
<1>1. delivered \in Seq(D)
  BY DEF TypeOK
<1>2. Len(delivered) \in Nat /\ DOMAIN delivered = 1 .. Len(delivered)
      /\ \A k \in 1 .. Len(delivered) : delivered[k] \in D
  <2> HIDE DEF D
  <2> QED
    BY <1>1, LenProperties, ElementOfSeq
<1> QED
  BY <1>1, <1>2

\* Another message is handed over.
LEMMA DeliveredGrows ==
  ASSUME TypeOK, NEW n \in 1 .. Len(sent), NEW objects \in SUBSET Objects,
         delivered' = Append(delivered, [msg |-> n, objects |-> objects])
  PROVE  /\ Len(delivered') = Len(delivered) + 1 /\ DOMAIN delivered' = 1 .. Len(delivered) + 1
         /\ delivered' \in Seq([msg : 1 .. Len(sent), objects : SUBSET Objects])
         /\ \A k \in 1 .. Len(delivered) : delivered'[k] = delivered[k]
         /\ delivered'[Len(delivered) + 1] = [msg |-> n, objects |-> objects]
<1> DEFINE D == [msg : 1 .. Len(sent), objects : SUBSET Objects]
           x == [msg |-> n, objects |-> objects]
<1>1. delivered \in Seq(D) /\ x \in D /\ delivered' = Append(delivered, x)
  BY DEF TypeOK
<1>2. /\ Len(delivered') = Len(delivered) + 1 /\ delivered' \in Seq(D)
      /\ \A k \in 1 .. Len(delivered) : delivered'[k] = delivered[k]
      /\ delivered'[Len(delivered) + 1] = x
  <2> HIDE DEF D, x
  <2> QED
    BY <1>1, AppendProperties
<1>3. DOMAIN delivered' = 1 .. Len(delivered')
  <2> HIDE DEF D
  <2> QED
    BY <1>2, LenProperties
<1> QED
  BY <1>2, <1>3

\* The message that is read, and the objects it then has.
LEMMA MessageRead ==
  ASSUME TypeInv
  PROVE  /\ expected.field # 0 => reading \in 1 .. Len(sent)
         /\ reading # NoMessage => reading \in 1 .. Len(sent)
         /\ expected.field \in Nat
         /\ buffer # <<>> =>
              /\ Head(buffer) \in Frames /\ Head(buffer).msg \in 1 .. Len(sent)
              /\ Head(buffer).field \in Nat /\ Head(buffer).tag \in Tags
              /\ expected.field \in Nat =>
                   got \cup {<<expected.field, Head(buffer).msg, Head(buffer).field>>} \in SUBSET Objects
<1>1. TypeOK /\ ReadsFor
  BY DEF TypeInv
<1>2. reading # NoMessage => reading \in 1 .. Len(sent)
  BY <1>1, SentShapes DEF TypeOK, NoMessage
<1>3. buffer # <<>> => Head(buffer) \in Frames
  BY <1>1, HeadTailProperties DEF TypeOK
<1> QED
  BY <1>1, <1>2, <1>3 DEF TypeOK, ReadsFor, Frames, Objects, Expected, NothingExpected

\* What a step does to delivered.
LEMMA DeliveredStep ==
  ASSUME TypeInv, [Next]_vars
  PROVE  \/ delivered' = delivered
         \/ /\ sent' = sent
            /\ \E n \in 1 .. Len(sent), objects \in SUBSET Objects :
                 delivered' = Append(delivered, [msg |-> n, objects |-> objects])
<1>1. CASE ReadEnvelope
  <2>1. buffer # <<>> /\ GoOn(Head(buffer).msg, 0, {}) /\ sent' = sent
    BY <1>1 DEF ReadEnvelope, Reads
  <2>2. Head(buffer).msg \in 1 .. Len(sent) /\ {} \in SUBSET Objects
    BY <2>1, MessageRead
  <2> QED
    BY <2>1, <2>2 DEF GoOn
<1>2. CASE ReadObject
  <2>1. buffer # <<>> /\ expected.field # 0 /\ sent' = sent
        /\ GoOn(reading, expected.field, got \cup {<<expected.field, Head(buffer).msg, Head(buffer).field>>})
    BY <1>2 DEF ReadObject, Reads
  <2>2. reading \in 1 .. Len(sent)
        /\ got \cup {<<expected.field, Head(buffer).msg, Head(buffer).field>>} \in SUBSET Objects
    BY <2>1, MessageRead
  <2> QED
    BY <2>1, <2>2 DEF GoOn
<1>3. ReadEnvelope \/ ReadObject \/ delivered' = delivered
  BY DEF Next, vars, history, receiver, BeginSend, PushFrame, SendFails, BeginReceive, ReadFrame,
     ReadWrongTag, ReadSize, RefuseEnvelope, MistakeEnvelope, RefuseObject, ReceiveFails, Break, LoseFrame
<1> QED
  BY <1>1, <1>2, <1>3

\* The history only grows.
LEMMA HistoryGrows ==
  ASSUME TypeInv, [Next]_vars
  PROVE  /\ \A n \in 1 .. Len(sent) : n \in 1 .. Len(sent') /\ sent'[n] = sent[n]
         /\ refused \subseteq refused'
         /\ \A k \in 1 .. Len(delivered) : k \in DOMAIN delivered' /\ delivered'[k] = delivered[k]
<1>0. TypeOK
  BY DEF TypeInv
<1>1. \A n \in 1 .. Len(sent) : n \in 1 .. Len(sent') /\ sent'[n] = sent[n]
  <2>1. sent' = sent \/ \E shape \in Shapes : sent' = Append(sent, shape)
    BY DEF Next, vars, history, receiver, BeginSend, PushFrame, SendFails, BeginReceive, ReadFrame, Reads,
       ReadWrongTag, ReadSize, ReadEnvelope, RefuseEnvelope, MistakeEnvelope, ReadObject, RefuseObject,
       ReceiveFails, Break, LoseFrame
  <2>2. CASE sent' # sent
    <3>1. PICK shape \in Shapes : sent' = Append(sent, shape)
      BY <2>1, <2>2
    <3>2. Len(sent') = Len(sent) + 1 /\ Len(sent) \in Nat /\ \A n \in 1 .. Len(sent) : sent'[n] = sent[n]
      BY <1>0, <3>1, SentGrows
    <3> QED
      BY <3>2
  <2> QED
    BY <2>2
<1>2. refused \subseteq refused'
  BY DEF Next, vars, history, receiver, BeginSend, PushFrame, SendFails, BeginReceive, ReadFrame,
     ReadWrongTag, ReadSize, ReadEnvelope, RefuseEnvelope, MistakeEnvelope, ReadObject, RefuseObject,
     ReceiveFails, Break, LoseFrame
<1>3. \A k \in 1 .. Len(delivered) : k \in DOMAIN delivered' /\ delivered'[k] = delivered[k]
  <2>1. Len(delivered) \in Nat /\ DOMAIN delivered = 1 .. Len(delivered)
    BY <1>0, DeliveredTypes
  <2>2. CASE delivered' # delivered
    <3>1. PICK n \in 1 .. Len(sent), objects \in SUBSET Objects :
            delivered' = Append(delivered, [msg |-> n, objects |-> objects])
      BY <2>2, DeliveredStep
    <3>2. /\ DOMAIN delivered' = 1 .. Len(delivered) + 1
          /\ \A k \in 1 .. Len(delivered) : delivered'[k] = delivered[k]
      BY <1>0, <3>1, DeliveredGrows
    <3> QED
      BY <2>1, <3>2
  <2> QED
    BY <2>1, <2>2
<1> QED
  BY <1>1, <1>2, <1>3

\* What explains a message is not undone.
LEMMA ExplainedKept ==
  ASSUME TypeInv, [Next]_vars, NEW n \in 1 .. Len(sent), Explained(n)
  PROVE  Explained(n)'
<1>0. /\ Len(sent) \in Nat /\ DOMAIN sent = 1 .. Len(sent) /\ DOMAIN delivered = 1 .. Len(delivered)
      /\ DOMAIN sent' = 1 .. Len(sent') /\ n \in DOMAIN sent' /\ sent'[n] = sent[n]
  <2>1. TypeOK /\ TypeOK'
    BY TypeStep DEF TypeInv
  <2>2. (Len(sent) \in Nat /\ DOMAIN sent = 1 .. Len(sent))'
    BY <2>1, LenProperties DEF TypeOK
  <2> QED
    BY <2>1, <2>2, SentShapes, DeliveredTypes, HistoryGrows
<1>1. CASE Delivered(n)
  <2>1. PICK k \in 1 .. Len(delivered) : delivered[k].msg = n
    BY <1>0, <1>1 DEF Delivered
  <2>2. k \in DOMAIN delivered' /\ delivered'[k].msg = n
    BY <2>1, HistoryGrows
  <2>3. Delivered(n)'
    BY <2>2 DEF Delivered
  <2> QED
    BY <1>0, <2>3 DEF Explained
<1>2. CASE n \in refused
  BY <1>0, <1>2, HistoryGrows DEF Explained
<1>3. CASE Incomplete(n)
  BY <1>0, <1>3 DEF Explained, Incomplete
<1>4. CASE Swallowed(n)
  <2>1. PICK m \in 1 .. n - 1 : n <= m + Cardinality(Lacking(sent[m]))
    BY <1>4 DEF Swallowed
  <2>2. sent'[m] = sent[m]
    BY <1>0, <2>1, HistoryGrows
  <2>3. Swallowed(n)'
    BY <2>1, <2>2 DEF Swallowed
  <2> QED
    BY <1>0, <2>3 DEF Explained
<1> QED
  BY <1>1, <1>2, <1>3, <1>4 DEF Explained

\* A step that hands nothing over loses nothing.
LEMMA LossKept ==
  ASSUME TypeInv, LossExplained, [Next]_vars, delivered' = delivered
  PROVE  LossExplained'
<1> SUFFICES ASSUME NEW n \in DOMAIN sent', NEW k \in DOMAIN delivered, delivered[k].msg > n
             PROVE  Explained(n)'
  BY DEF LossExplained
<1>1. delivered[k].msg \in 1 .. Len(sent) /\ Len(sent) \in Nat /\ DOMAIN sent = 1 .. Len(sent)
  BY SentShapes, DeliveredTypes DEF TypeInv
<1>2. n \in Nat \ {0}
  <2>1. TypeOK'
    BY TypeStep DEF TypeInv
  <2>2. (sent \in Seq(Shapes))'
    BY <2>1 DEF TypeOK
  <2>3. DOMAIN sent' = 1 .. Len(sent')
    BY <2>2, LenProperties
  <2> QED
    BY <2>3
<1>3. n \in 1 .. Len(sent)
  BY <1>1, <1>2
<1>4. Explained(n)
  BY <1>1, <1>3 DEF LossExplained
<1> QED
  BY <1>3, <1>4, ExplainedKept

\* A message may be handed over when those before it are explained.
LEMMA LossAppended ==
  ASSUME TypeInv, LossExplained, [Next]_vars, NEW m \in 1 .. Len(sent), NEW objects \in SUBSET Objects,
         delivered' = Append(delivered, [msg |-> m, objects |-> objects]), sent' = sent,
         \A n \in 1 .. Len(sent) : n < m => Explained(n)
  PROVE  LossExplained'
<1> SUFFICES ASSUME NEW n \in DOMAIN sent', NEW k \in DOMAIN delivered', delivered'[k].msg > n
             PROVE  Explained(n)'
  BY DEF LossExplained
<1>0. TypeOK
  BY DEF TypeInv
<1>1. n \in 1 .. Len(sent)
  BY <1>0, SentShapes
<1>2. Explained(n)
  <2>1. /\ Len(delivered) \in Nat /\ DOMAIN delivered' = 1 .. Len(delivered) + 1
        /\ \A j \in 1 .. Len(delivered) : delivered'[j] = delivered[j]
        /\ delivered'[Len(delivered) + 1] = [msg |-> m, objects |-> objects]
        /\ DOMAIN delivered = 1 .. Len(delivered)
    BY <1>0, DeliveredTypes, DeliveredGrows
  <2>2. CASE k = Len(delivered) + 1
    <3>1. m > n
      BY <2>1, <2>2
    <3>2. n < m
      BY <1>1, <3>1
    <3> QED
      BY <1>1, <3>2
  <2>3. CASE k \in 1 .. Len(delivered)
    <3>1. k \in DOMAIN delivered /\ delivered[k].msg > n /\ n \in DOMAIN sent
      BY <1>0, <1>1, <2>1, <2>3, SentShapes
    <3> QED
      BY <3>1 DEF LossExplained
  <2> QED
    BY <2>1, <2>2, <2>3
<1> QED
  BY <1>1, <1>2, ExplainedKept

-----------------------------------------------------------------------------
(* The receiver stays where it is while it does not read.                      *)

\* The fields that are wanted and those that still come depend on the shape only.
LEMMA PlaceKept ==
  ASSUME TypeInv, StreamInv, [Next]_vars, ReadingInv, UNCHANGED <<expected, reading, got, delivered, refused>>,
         NEW U, U.msg \in 1 .. Len(sent) + 1,
         U.msg \notin 1 .. Len(sent) => U = Frame("SIZE", Len(sent) + 1, 0),
         PairInv(U), StepInv(U), PassedInv(U)
  PROVE  (PairInv(U) /\ StepInv(U) /\ PassedInv(U))'
<1>0. /\ Len(sent) \in Nat
      /\ \A n \in 1 .. Len(sent) : sent'[n] = sent[n]
      /\ reading # NoMessage => reading \in 1 .. Len(sent)
  BY SentShapes, HistoryGrows, MessageRead DEF TypeInv
<1>1. PairInv(U)'
  BY DEF PairInv
<1>2. StepInv(U)'
  <2>1. reading # NoMessage => sent'[reading] = sent[reading] /\ (Incomplete(reading)' <=> Incomplete(reading))
    BY <1>0 DEF Incomplete
  <2> QED
    BY <2>1 DEF StepInv
<1>3. Unread(U) <= Len(sent) + 1
  BY <1>0 DEF Unread, Frame
<1>4. \A k \in 1 .. Len(delivered) : delivered[k].msg < Unread(U)
  BY DEF PassedInv
<1>5. ASSUME NEW n \in 1 .. Len(sent'), n < Unread(U)
      PROVE  Explained(n)' \/ reading' = n
  <2>1. n \in 1 .. Len(sent)
    BY <1>0, <1>3, <1>5 DEF Unread
  <2>2. Explained(n) \/ reading = n
    BY <1>5, <2>1 DEF PassedInv
  <2> QED
    BY <2>1, <2>2, ExplainedKept
<1>6. ASSUME NEW n \in 1 .. Len(sent'), U = Frame("MESSAGE", n, 0), expected'.tag # "MESSAGE"
      PROVE  Explained(n)'
  <2>1. n \in 1 .. Len(sent)
    BY <1>6 DEF Frame
  <2>2. Explained(n)
    BY <1>6, <2>1 DEF PassedInv
  <2> QED
    BY <2>1, <2>2, ExplainedKept
<1>7. PassedInv(U)'
  BY <1>4, <1>5, <1>6 DEF PassedInv
<1> QED
  BY <1>1, <1>2, <1>7

\* The sender, and the connection, ...
LEMMA ReceiverWaits ==
  ASSUME TypeInv, StreamInv, ReceiverInv,
         \/ \E shape \in Shapes : BeginSend(shape)
         \/ PushFrame \/ SendFails \/ Break \/ LoseFrame \/ UNCHANGED vars
  PROVE  ReceiverInv'
<1>0. [Next]_vars /\ UNCHANGED <<expected, reading, got, delivered, refused>>
  BY DEF Next, BeginSend, PushFrame, SendFails, Break, LoseFrame, vars, receiver, history
<1>1. ReadingInv'
  <2>1. reading # NoMessage => sent'[reading] = sent[reading] /\ (Incomplete(reading)' <=> Incomplete(reading))
    BY <1>0, HistoryGrows, MessageRead DEF Incomplete
  <2> QED
    BY <1>0, <2>1 DEF ReceiverInv, ReadingInv
<1>2. LossExplained'
  BY <1>0, LossKept DEF ReceiverInv
<1>3. PICK U : U = Coming
  OBVIOUS
<1>4. Alive' => Alive /\ Coming' = U
  BY <1>3, ComingKept DEF TypeInv, vars, Alive, Coming, Pending, history
<1>5. Alive' => (PairInv(U) /\ StepInv(U) /\ PassedInv(U))'
  <2>1. /\ U.msg \in 1 .. Len(sent) + 1
        /\ U.msg \notin 1 .. Len(sent) => U = Frame("SIZE", Len(sent) + 1, 0)
    BY <1>3, ComingTypes DEF TypeInv
  <2>2. Alive => PairInv(U) /\ StepInv(U) /\ PassedInv(U)
    BY <1>3 DEF ReceiverInv
  <2>3. ReadingInv
    BY DEF ReceiverInv
  <2> QED
    BY <1>0, <1>4, <2>1, <2>2, <2>3, PlaceKept
<1>6. Alive' => (PairInv(Coming) /\ StepInv(Coming) /\ PassedInv(Coming))'
  BY <1>4, <1>5 DEF PairInv, StepInv, PassedInv
<1> QED
  BY <1>1, <1>2, <1>6 DEF ReceiverInv

\* ... a receiver that begins to receive, or fails for good.
LEMMA ReceiverBegins ==
  ASSUME TypeInv, StreamInv, ReceiverInv, BeginReceive \/ ReceiveFails
  PROVE  ReceiverInv'
<1>0. [Next]_vars /\ delivered' = delivered /\ sent' = sent /\ refused' = refused
  BY DEF Next, BeginReceive, ReceiveFails, history
<1>2. LossExplained'
  BY <1>0, LossKept DEF ReceiverInv
<1>3. CASE BeginReceive
  <2>1. /\ expected = NothingExpected /\ expected' = Expected("SIZE", 0)
        /\ UNCHANGED <<outgoing, buffer, link, reading, got>>
    BY <1>3 DEF BeginReceive
  <2>2. reading = NoMessage
    <3>1. reading # NoMessage => expected.field \in DOMAIN sent[reading] /\ sent[reading] \in Seq(Fields)
      BY MessageRead, SentShapes DEF TypeInv, ReceiverInv, ReadingInv
    <3>2. 0 \notin DOMAIN sent[reading] \/ sent[reading] \notin Seq(Fields)
      BY FieldNumbers
    <3> QED
      BY <2>1, <3>1, <3>2 DEF NothingExpected, Expected
  <2>3. ReadingInv'
    BY <2>1, <2>2 DEF ReceiverInv, ReadingInv, Expected
  <2>4. PICK U : U = Coming
    OBVIOUS
  <2>5. Alive' => Alive /\ Coming' = U
    BY <2>4, <1>3, ComingKept DEF TypeInv
  <2>6. Alive' => PairInv(U)' /\ StepInv(U)'
    BY <2>1, <2>2 DEF PairInv, StepInv, Expected
  <2>7. Alive' => PassedInv(U)'
    <3>1. Alive => PassedInv(U)
      BY <2>4 DEF ReceiverInv
    <3>2. \A n \in 1 .. Len(sent) : Explained(n)' <=> Explained(n)
      BY <1>0 DEF Explained, Delivered, Incomplete, Swallowed
    <3> QED
      BY <1>0, <2>1, <2>5, <3>1, <3>2 DEF PassedInv, NothingExpected, Expected
  <2>8. Alive' => (PairInv(Coming) /\ StepInv(Coming) /\ PassedInv(Coming))'
    BY <2>5, <2>6, <2>7 DEF PairInv, StepInv, PassedInv
  <2> QED
    BY <1>2, <2>3, <2>8 DEF ReceiverInv
<1>4. CASE ReceiveFails
  <2>1. ~Alive' /\ GiveUp
    BY <1>4 DEF ReceiveFails, Alive
  <2>2. ReadingInv'
    BY <2>1 DEF ReadingInv, GiveUp, NothingExpected, Expected
  <2> QED
    BY <1>2, <2>1, <2>2 DEF ReceiverInv
<1> QED
  BY <1>3, <1>4

-----------------------------------------------------------------------------
(* The receiver reads frame U of the stream, and V comes next.                 *)

Place(U, V) ==
  /\ U.msg \in 1 .. Len(sent) /\ U.field \in Nat /\ U.tag \in Tags
  /\ Regular(sent[U.msg], U) /\ V = Succ(sent[U.msg], U)
  /\ PairInv(U) /\ StepInv(U) /\ PassedInv(U)

\* What the step has to establish.
Arrived(V) == ReadingInv /\ LossExplained /\ PairInv(V) /\ StepInv(V) /\ PassedInv(V)

\* The receiver is always at such a place.
LEMMA AtPlace ==
  ASSUME TypeInv, StreamInv, ReceiverInv, buffer # <<>>
  PROVE  \E U, V : U = Head(buffer) /\ V = Succ(sent[U.msg], U) /\ Place(U, V)
<1>1. PICK U, V : U = Head(buffer) /\ V = Succ(sent[U.msg], U)
  OBVIOUS
<1>2. U = Coming /\ Alive
  BY <1>1 DEF Coming, Alive
<1>3. Place(U, V)
  <2>1. /\ U.msg \in 1 .. Len(sent) /\ U.field \in Nat /\ U.tag \in Tags
        /\ Regular(sent[U.msg], U)
    BY <1>2, ComingTypes DEF TypeInv
  <2>2. PairInv(U) /\ StepInv(U) /\ PassedInv(U)
    BY <1>2 DEF ReceiverInv
  <2> QED
    BY <1>1, <2>1, <2>2 DEF Place
<1> QED
  BY <1>1, <1>3

\* It is enough to look at one frame and the next.
LEMMA ReadsPlaces ==
  ASSUME TypeInv, StreamInv, ReceiverInv, ReadFrame,
         \A U, V : U = Head(buffer) /\ Place(U, V) => Arrived(V)'
  PROVE  ReceiverInv'
<1>0. buffer # <<>> /\ buffer' = Tail(buffer) /\ UNCHANGED <<outgoing, link, sent>>
  BY DEF ReadFrame, ReadWrongTag, ReadSize, ReadEnvelope, RefuseEnvelope, MistakeEnvelope,
     ReadObject, RefuseObject, Reads, history
<1>1. PICK U, V : U = Head(buffer) /\ V = Succ(sent[U.msg], U) /\ Place(U, V)
  BY <1>0, AtPlace
<1>2. Arrived(V)'
  BY <1>1
<1>3. Alive' => Coming' = V
  BY <1>0, <1>1, ComingRead DEF TypeInv
<1>4. Alive' => (PairInv(Coming) /\ StepInv(Coming) /\ PassedInv(Coming))'
  BY <1>2, <1>3 DEF Arrived, PairInv, StepInv, PassedInv
<1> QED
  BY <1>2, <1>4 DEF Arrived, ReceiverInv

\* Where the next frame is.
LEMMA NextPlace ==
  ASSUME TypeInv, NEW U, NEW V, Place(U, V)
  PROVE  /\ sent[U.msg] \in Seq(Fields) /\ Len(sent) \in Nat
         /\ U.field = 0 => U.tag \in {"SIZE", "MESSAGE"} /\ Unread(U) = U.msg
         /\ U.field # 0 => U.field \in SentFields(sent[U.msg]) /\ Unread(U) = U.msg + 1
         /\ U.tag = "SIZE" => V = Frame("MESSAGE", U.msg, U.field)
         /\ U.tag # "SIZE" => V.tag # "MESSAGE"
         /\ U.tag # "SIZE" /\ LeftToSend(sent[U.msg], U.field) = {} => V = Frame("SIZE", U.msg + 1, 0)
         /\ U.tag # "SIZE" /\ LeftToSend(sent[U.msg], U.field) # {} => FirstObject(sent[U.msg], U, V)
         /\ Unread(U) \in Nat
         /\ Unread(V) = IF U.tag = "MESSAGE" /\ U.field = 0 THEN U.msg + 1 ELSE Unread(U)
<1>1. /\ U.msg \in 1 .. Len(sent) /\ U.field \in Nat /\ U.tag \in Tags
      /\ Regular(sent[U.msg], U) /\ V = Succ(sent[U.msg], U) /\ U.msg \in Nat \ {0}
  BY SentShapes DEF Place, TypeInv
<1>2. sent[U.msg] \in Seq(Fields) /\ Len(sent) \in Nat
  BY <1>1, SentShapes DEF TypeInv
<1>3. /\ U.field = 0 => U.tag \in {"SIZE", "MESSAGE"} /\ Unread(U) = U.msg
      /\ U.field # 0 => U.field \in SentFields(sent[U.msg]) /\ Unread(U) = U.msg + 1
  <2>1. 0 \notin SentFields(sent[U.msg])
    BY <1>2, LeftSubsets, FieldNumbers
  <2> QED
    BY <1>1, <2>1 DEF Regular, Unread
<1> DEFINE shape == sent[U.msg]
<1>4. shape \in Seq(Fields) /\ V = Succ(shape, U) /\ Regular(shape, U)
  BY <1>1, <1>2
<1> HIDE DEF shape
<1>5. /\ U.tag = "SIZE" => V = Frame("MESSAGE", U.msg, U.field)
      /\ U.tag # "SIZE" => V.tag # "MESSAGE"
      /\ U.tag # "SIZE" /\ LeftToSend(shape, U.field) = {} => V = Frame("SIZE", U.msg + 1, 0)
      /\ U.tag # "SIZE" /\ LeftToSend(shape, U.field) # {} => FirstObject(shape, U, V)
      /\ Unread(U) \in Nat
      /\ Unread(V) = IF U.tag = "MESSAGE" /\ U.field = 0 THEN U.msg + 1 ELSE Unread(U)
  BY <1>1, <1>4, Successor
<1> QED
  BY <1>2, <1>3, <1>5 DEF shape

\* What is wanted and lacking can be counted.
LEMMA Counts ==
  ASSUME NEW shape \in Seq(Fields), NEW m, NEW i \in DOMAIN shape, NEW frame
  PROVE  /\ IsFiniteSet(SentFields(shape)) /\ Cardinality(SentFields(shape)) \in Nat
         /\ IsFiniteSet(Lacking(shape)) /\ Cardinality(Lacking(shape)) \in Nat
         /\ IsFiniteSet(Wanted(shape, i)) /\ Cardinality(Wanted(shape, i)) \in Nat \ {0}
         /\ IsFiniteSet(OwnLeft(shape, m, frame)) /\ Cardinality(OwnLeft(shape, m, frame)) \in Nat
         /\ Cardinality({}) = 0
         /\ Cardinality(DOMAIN shape) = Cardinality(Lacking(shape)) + Cardinality(SentFields(shape))
<1>1. IsFiniteSet(DOMAIN shape)
  BY FieldNumbers
<1>2. /\ SentFields(shape) \subseteq DOMAIN shape /\ Lacking(shape) \subseteq DOMAIN shape
      /\ Wanted(shape, i) \subseteq DOMAIN shape /\ OwnLeft(shape, m, frame) \subseteq DOMAIN shape
  BY LeftSubsets DEF Lacking, Wanted, OwnLeft
<1>3. /\ IsFiniteSet(SentFields(shape)) /\ IsFiniteSet(Lacking(shape))
      /\ IsFiniteSet(Wanted(shape, i)) /\ IsFiniteSet(OwnLeft(shape, m, frame))
  BY <1>1, <1>2, FS_Subset
<1>4. /\ Cardinality(SentFields(shape)) \in Nat /\ Cardinality(Lacking(shape)) \in Nat
      /\ Cardinality(Wanted(shape, i)) \in Nat /\ Cardinality(OwnLeft(shape, m, frame)) \in Nat
  BY <1>3, FS_CardinalityType
<1>5. Cardinality(Wanted(shape, i)) # 0
  <2>1. Wanted(shape, i) # {}
    BY DEF Wanted
  <2> QED
    BY <1>3, <2>1, FS_EmptySet
<1>6. Cardinality({}) = 0
  BY FS_EmptySet
<1>7. Cardinality(DOMAIN shape) = Cardinality(Lacking(shape)) + Cardinality(SentFields(shape))
  <2>1. /\ DOMAIN shape = Lacking(shape) \cup SentFields(shape)
        /\ Lacking(shape) \cap SentFields(shape) = {}
    BY <1>2 DEF Lacking
  <2>2. Cardinality(DOMAIN shape) =
          Cardinality(Lacking(shape)) + Cardinality(SentFields(shape)) - Cardinality({})
    BY <1>3, <2>1, FS_Union
  <2> QED
    BY <1>4, <1>6, <2>2
<1> QED
  BY <1>3, <1>4, <1>5, <1>6, <1>7

\* An envelope that comes when an object is wanted is in the place of one that
\* is lacking.
LEMMA Swallows ==
  ASSUME TypeInv, ReadingInv, NEW U, NEW V, Place(U, V), reading # NoMessage, U.field = 0
  PROVE  Incomplete(reading) /\ Explained(reading) /\ Explained(U.msg)
<1>1. /\ U.msg \in 1 .. Len(sent) /\ Len(sent) \in Nat /\ reading \in 1 .. Len(sent)
      /\ DOMAIN sent = 1 .. Len(sent) /\ sent[reading] \in Seq(Fields)
      /\ expected.field \in DOMAIN sent[reading]
  BY MessageRead, SentShapes DEF TypeInv, Place, ReadingInv
<1>2. expected.field # 0
  BY <1>1, FieldNumbers
<1>3. Incomplete(reading)
  BY <1>2 DEF Place, StepInv
<1>4. /\ reading < U.msg
      /\ Cardinality(Wanted(sent[reading], expected.field)) + U.msg
           <= reading + 1 + Cardinality(Lacking(sent[reading]))
                + Cardinality(OwnLeft(sent[reading], reading, U))
  BY <1>3, NextPlace DEF Place, StepInv
<1>5. OwnLeft(sent[reading], reading, U) = {}
  BY <1>1, <1>4 DEF OwnLeft
<1>6. /\ Cardinality(Wanted(sent[reading], expected.field)) \in Nat \ {0}
      /\ Cardinality(Lacking(sent[reading])) \in Nat /\ Cardinality({}) = 0
  BY <1>1, Counts
<1>7. U.msg <= reading + Cardinality(Lacking(sent[reading]))
  BY <1>1, <1>4, <1>5, <1>6
<1>8. Swallowed(U.msg)
  BY <1>1, <1>4, <1>7 DEF Swallowed
<1> QED
  BY <1>1, <1>3, <1>8 DEF Explained

\* Nothing is passed that is not explained or being read.
LEMMA PassedOn ==
  ASSUME TypeInv, [Next]_vars, NEW U, NEW V, Place(U, V), sent' = sent,
         \A k \in 1 .. Len(delivered') : delivered'[k].msg < Unread(V),
         \A n \in 1 .. Len(sent) : reading = n => Explained(n)' \/ reading' = n,
         U.field = 0 =>
           \/ Explained(U.msg)'
           \/ U.tag = "MESSAGE" /\ reading' = U.msg
           \/ U.tag = "SIZE" /\ expected'.tag = "MESSAGE"
  PROVE  PassedInv(V)'
<1>0. /\ U.msg \in 1 .. Len(sent) /\ Len(sent) \in Nat /\ Unread(U) \in Nat
      /\ U.field = 0 => U.tag \in {"SIZE", "MESSAGE"} /\ Unread(U) = U.msg
      /\ Unread(V) = IF U.tag = "MESSAGE" /\ U.field = 0 THEN U.msg + 1 ELSE Unread(U)
  BY NextPlace DEF Place
<1>1. ASSUME NEW n \in 1 .. Len(sent'), n < Unread(V)
      PROVE  Explained(n)' \/ reading' = n
  <2>1. n \in 1 .. Len(sent) /\ n # NoMessage
    BY DEF NoMessage
  <2>2. CASE n < Unread(U)
    <3>1. Explained(n) \/ reading = n
      BY <2>1, <2>2 DEF Place, PassedInv
    <3>2. Explained(n) => Explained(n)'
      BY <2>1, ExplainedKept
    <3> QED
      BY <2>1, <3>1, <3>2
  <2>3. CASE ~(n < Unread(U))
    <3>1. U.tag = "MESSAGE" /\ U.field = 0 /\ n = U.msg
      BY <1>0, <1>1, <2>1, <2>3
    <3> QED
      BY <3>1
  <2> QED
    BY <2>2, <2>3
<1>2. ASSUME NEW n \in 1 .. Len(sent'), V = Frame("MESSAGE", n, 0), expected'.tag # "MESSAGE"
      PROVE  Explained(n)'
  <2>1. U.tag = "SIZE"
    BY <1>2, NextPlace DEF Frame
  <2>2. V = Frame("MESSAGE", U.msg, U.field)
    BY <2>1, NextPlace
  <2>3. U.field = 0 /\ U.msg = n
    BY <1>2, <2>2 DEF Frame
  <2> QED
    BY <1>2, <2>1, <2>3
<1> QED
  BY <1>1, <1>2 DEF PassedInv

-----------------------------------------------------------------------------
(* receive() fails.                                                            *)

\* It drops what it has read; that is explained, and so is an envelope it consumed.
LEMMA Drops ==
  ASSUME TypeInv, [Next]_vars, LossExplained, NEW U, NEW V, Place(U, V), sent' = sent,
         GiveUp, delivered' = delivered,
         \A n \in 1 .. Len(sent) : reading = n => Explained(n)',
         U.field = 0 => Explained(U.msg)'
  PROVE  Arrived(V)'
<1>1. LossExplained'
  BY LossKept
<1>2. reading' = NoMessage /\ expected' = NothingExpected /\ got' = {}
  BY DEF GiveUp
<1>3. ReadingInv' /\ PairInv(V)' /\ StepInv(V)'
  BY <1>2 DEF ReadingInv, PairInv, StepInv, NothingExpected, Expected
<1>4. \A k \in 1 .. Len(delivered') : delivered'[k].msg < Unread(V)
  <2>1. \A k \in 1 .. Len(delivered) : delivered[k].msg < Unread(U) /\ delivered[k].msg \in Nat
    BY DeliveredTypes DEF TypeInv, Place, PassedInv
  <2>2. Unread(U) \in Nat /\ Unread(V) \in Nat /\ Unread(U) <= Unread(V)
    BY NextPlace DEF Place
  <2> QED
    BY <2>1, <2>2
<1>5. PassedInv(V)'
  BY <1>4, PassedOn
<1> QED
  BY <1>1, <1>3, <1>5 DEF Arrived

\* A frame with another tag comes.
LEMMA WrongTagArrives ==
  ASSUME TypeInv, ReadingInv, LossExplained, ReadWrongTag, NEW U, NEW V, U = Head(buffer), Place(U, V)
  PROVE  Arrived(V)'
<1>0. /\ [Next]_vars /\ GiveUp /\ sent' = sent /\ delivered' = delivered
      /\ expected # NothingExpected /\ U.tag # expected.tag
  BY DEF Next, ReadFrame, ReadWrongTag, history
<1>1. ASSUME NEW n \in 1 .. Len(sent), reading = n
      PROVE  Explained(n)'
  <2>1. reading # NoMessage
    BY <1>1 DEF NoMessage
  <2>2. Incomplete(reading)
    BY <1>0, <2>1 DEF Place, StepInv
  <2>3. Explained(n)
    BY <1>1, <2>2, SentShapes DEF TypeInv, Explained
  <2> QED
    BY <1>0, <2>3, ExplainedKept
<1>2. ASSUME U.field = 0
      PROVE  Explained(U.msg)'
  <2>0. U.msg \in 1 .. Len(sent) /\ U.tag \in {"SIZE", "MESSAGE"}
    BY <1>2, NextPlace DEF Place
  <2>1. CASE reading # NoMessage
    <3>1. Explained(U.msg)
      BY <1>2, <2>1, Swallows
    <3> QED
      BY <1>0, <2>0, <3>1, ExplainedKept
  <2>2. CASE reading = NoMessage
    <3>1. expected.tag \in {"SIZE", "MESSAGE"}
      <4>1. expected \in [tag : Tags, field : Nat]
        BY <1>0 DEF TypeInv, TypeOK
      <4>2. expected.tag # "none"
        BY <4>1 DEF Tags
      <4> QED
        BY <2>2, <4>2 DEF ReadingInv
    <3>2. U.tag = "MESSAGE" /\ expected.tag # "MESSAGE"
      BY <1>0, <2>0, <3>1 DEF Place, PairInv
    <3>3. U = Frame("MESSAGE", U.msg, 0)
      <4>1. buffer # <<>> /\ U = Head(buffer)
        BY DEF ReadWrongTag
      <4>2. U \in Frames
        BY <4>1, MessageRead
      <4> QED
        BY <1>2, <3>2, <4>2 DEF Frames, Frame
    <3>4. Explained(U.msg)
      BY <2>0, <3>2, <3>3 DEF Place, PassedInv
    <3> QED
      BY <1>0, <2>0, <3>4, ExplainedKept
  <2> QED
    BY <2>1, <2>2
<1> QED
  BY <1>0, <1>1, <1>2, Drops

\* An envelope is refused, or something else is taken for one.
LEMMA EnvelopeDropped ==
  ASSUME TypeInv, ReadingInv, LossExplained, RefuseEnvelope \/ MistakeEnvelope,
         NEW U, NEW V, U = Head(buffer), Place(U, V)
  PROVE  Arrived(V)'
<1>0. /\ [Next]_vars /\ GiveUp /\ sent' = sent /\ delivered' = delivered /\ expected.field = 0
      /\ U.field = 0 => U.msg \in refused'
  BY DEF Next, ReadFrame, RefuseEnvelope, MistakeEnvelope, Reads, Expected
<1>1. reading = NoMessage
  <2>1. reading # NoMessage => expected.field \in DOMAIN sent[reading] /\ sent[reading] \in Seq(Fields)
    BY MessageRead, SentShapes DEF TypeInv, ReadingInv
  <2>2. 0 \notin DOMAIN sent[reading] \/ sent[reading] \notin Seq(Fields)
    BY FieldNumbers
  <2> QED
    BY <1>0, <2>1, <2>2
<1>2. \A n \in 1 .. Len(sent) : reading = n => Explained(n)'
  BY <1>1 DEF NoMessage
<1>3. U.field = 0 => Explained(U.msg)'
  <2>1. U.msg \in DOMAIN sent
    BY SentShapes DEF TypeInv, Place
  <2> QED
    BY <1>0, <2>1 DEF Explained
<1> QED
  BY <1>0, <1>2, <1>3, Drops

\* An object cannot be deserialized.
LEMMA ObjectDropped ==
  ASSUME TypeInv, ReadingInv, LossExplained, RefuseObject, NEW U, NEW V, U = Head(buffer), Place(U, V)
  PROVE  Arrived(V)'
<1>0. /\ [Next]_vars /\ GiveUp /\ sent' = sent /\ delivered' = delivered /\ expected.field # 0
      /\ refused' = refused \cup {reading}
  BY DEF Next, ReadFrame, RefuseObject, Reads
<1>1. reading # NoMessage
  BY <1>0 DEF TypeInv, ReadsFor
<1>2. \A n \in 1 .. Len(sent) : reading = n => Explained(n)'
  <2>1. DOMAIN sent = 1 .. Len(sent)
    BY SentShapes DEF TypeInv
  <2> QED
    BY <1>0, <2>1 DEF Explained
<1>3. U.field = 0 => Explained(U.msg)'
  <2>1. U.field = 0 => Explained(U.msg)
    BY <1>1, Swallows
  <2> QED
    BY <1>0, <2>1, ExplainedKept DEF Place
<1> QED
  BY <1>0, <1>2, <1>3, Drops

-----------------------------------------------------------------------------
(* receive() goes on.                                                          *)

\* The size of an envelope or of an external object is read.
LEMMA SizeArrives ==
  ASSUME TypeInv, ReadingInv, LossExplained, ReadSize, NEW U, NEW V, U = Head(buffer), Place(U, V)
  PROVE  Arrived(V)'
<1>0. /\ [Next]_vars /\ UNCHANGED <<sent, reading, got, delivered, refused>>
      /\ U.tag = "SIZE" /\ expected.tag = "SIZE" /\ expected' = Expected("MESSAGE", expected.field)
  BY DEF Next, ReadFrame, ReadSize, Reads
<1>1. V = Frame("MESSAGE", U.msg, U.field) /\ Unread(V) = Unread(U)
  BY <1>0, NextPlace
<1>2. LossExplained'
  BY <1>0, LossKept
<1>3. ReadingInv'
  <2>1. reading # NoMessage => IsExternal(sent[reading], expected.field)
    <3>1. reading # NoMessage =>
            /\ sent[reading] \in Seq(Fields) /\ expected.field \in DOMAIN sent[reading]
            /\ ObjectTag(sent[reading], expected.field, "SIZE")
      BY <1>0, MessageRead, SentShapes DEF TypeInv, ReadingInv
    <3> QED
      BY <3>1, FirstTags DEF ObjectTag
  <2>2. reading # NoMessage => ObjectTag(sent[reading], expected.field, "MESSAGE")
    BY <2>1 DEF ObjectTag
  <2> QED
    BY <1>0, <2>2 DEF ReadingInv, Expected, Incomplete
<1>4. PairInv(V)'
  BY <1>0, <1>1 DEF PairInv, Frame, Expected
<1>5. StepInv(V)'
  <2>1. OwnLeft(sent[reading], reading, V) = OwnLeft(sent[reading], reading, U)
    BY <1>1 DEF OwnLeft, Frame
  <2>2. StepInv(U)
    BY DEF Place
  <2> QED
    BY <1>0, <1>1, <2>1, <2>2 DEF StepInv, Frame, Expected, Incomplete
<1>6. PassedInv(V)'
  <2>1. \A k \in 1 .. Len(delivered') : delivered'[k].msg < Unread(V)
    BY <1>0, <1>1 DEF Place, PassedInv
  <2>2. \A n \in 1 .. Len(sent) : reading = n => Explained(n)' \/ reading' = n
    BY <1>0
  <2>3. expected'.tag = "MESSAGE"
    BY <1>0 DEF Expected
  <2> QED
    BY <1>0, <2>1, <2>2, <2>3, PassedOn
<1> QED
  BY <1>2, <1>3, <1>4, <1>5, <1>6 DEF Arrived

\* Message n is complete, as far as the receiver knows.
LEMMA Delivers ==
  ASSUME TypeInv, [Next]_vars, LossExplained, NEW U, NEW V, Place(U, V), sent' = sent,
         NEW n \in 1 .. Len(sent), NEW objects \in SUBSET Objects,
         GiveUp, delivered' = Append(delivered, [msg |-> n, objects |-> objects]),
         n < Unread(V),
         \A k \in 1 .. Len(sent) : k < n => Explained(k),
         reading # NoMessage => reading = n,
         U.field = 0 => U.msg = n \/ Explained(U.msg)
  PROVE  Arrived(V)'
<1>0. reading' = NoMessage /\ expected' = NothingExpected /\ got' = {}
  BY DEF GiveUp
<1>1. LossExplained'
  BY LossAppended
<1>2. ReadingInv' /\ PairInv(V)' /\ StepInv(V)'
  BY <1>0 DEF ReadingInv, PairInv, StepInv, NothingExpected, Expected
<1>3. /\ Len(delivered) \in Nat /\ Len(delivered') = Len(delivered) + 1
      /\ DOMAIN delivered' = 1 .. Len(delivered) + 1
      /\ \A k \in 1 .. Len(delivered) : delivered'[k] = delivered[k]
      /\ delivered'[Len(delivered) + 1] = [msg |-> n, objects |-> objects]
  BY DeliveredTypes, DeliveredGrows DEF TypeInv
<1>4. \A k \in 1 .. Len(delivered') : delivered'[k].msg < Unread(V)
  <2>1. \A k \in 1 .. Len(delivered) : delivered[k].msg < Unread(U) /\ delivered[k].msg \in Nat
    BY DeliveredTypes DEF TypeInv, Place, PassedInv
  <2>2. Unread(U) \in Nat /\ Unread(V) \in Nat /\ Unread(U) <= Unread(V)
    BY NextPlace DEF Place
  <2>3. \A k \in 1 .. Len(delivered') : k \in 1 .. Len(delivered) \/ k = Len(delivered) + 1
    BY <1>3
  <2>4. \A k \in 1 .. Len(delivered) : delivered'[k].msg < Unread(V)
    BY <1>3, <2>1, <2>2
  <2>5. delivered'[Len(delivered) + 1].msg < Unread(V)
    BY <1>3
  <2> QED
    BY <2>3, <2>4, <2>5
<1>5. Explained(n)'
  <2>1. Len(delivered) + 1 \in DOMAIN delivered' /\ delivered'[Len(delivered) + 1].msg = n
    BY <1>3
  <2>2. Delivered(n)'
    BY <2>1 DEF Delivered
  <2>3. n \in DOMAIN sent'
    BY SentShapes DEF TypeInv
  <2> QED
    BY <2>2, <2>3 DEF Explained
<1>6. U.field = 0 => Explained(U.msg)'
  <2>1. Explained(U.msg) => Explained(U.msg)'
    BY ExplainedKept DEF Place
  <2> QED
    BY <1>5, <2>1
<1>7. \A m \in 1 .. Len(sent) : reading = m => Explained(m)' \/ reading' = m
  BY <1>5 DEF NoMessage
<1>8. PassedInv(V)'
  BY <1>4, <1>6, <1>7, PassedOn
<1> QED
  BY <1>1, <1>2, <1>8 DEF Arrived

\* The object of field j of message n is expected next.
LEMMA Continues ==
  ASSUME TypeInv, [Next]_vars, LossExplained, NEW U, NEW V, Place(U, V), sent' = sent,
         NEW n \in 1 .. Len(sent), NEW j \in DOMAIN sent[n],
         delivered' = delivered, reading' = n, expected' = Expected(FirstTag(sent[n], j), j),
         U.tag # "SIZE",
         \A k \in 1 .. Len(delivered) : delivered[k].msg < n,
         ~Incomplete(n) => got' = OwnBefore(sent[n], n, j) /\ V = Frame(FirstTag(sent[n], j), n, j),
         Incomplete(n) =>
           /\ n < Unread(V)
           /\ Cardinality(Wanted(sent[n], j)) + Unread(V)
                <= n + 1 + Cardinality(Lacking(sent[n])) + Cardinality(OwnLeft(sent[n], n, V)),
         reading # NoMessage => reading = n,
         U.field = 0 => (U.tag = "MESSAGE" /\ U.msg = n) \/ Explained(U.msg)
  PROVE  Arrived(V)'
<1>0. /\ sent[n] \in Seq(Fields) /\ n # NoMessage /\ V.tag # "MESSAGE"
      /\ FirstTag(sent[n], j) # "MESSAGE"
  BY SentShapes, FirstTags, NextPlace DEF TypeInv, NoMessage
<1>1. LossExplained'
  BY LossKept
<1>2. ReadingInv'
  BY <1>0 DEF ReadingInv, ObjectTag, Expected, Incomplete
<1>3. PairInv(V)'
  BY <1>0 DEF PairInv, Expected
<1>4. StepInv(V)'
  BY <1>0 DEF StepInv, Expected, Incomplete, Frame
<1>5. \A k \in 1 .. Len(delivered') : delivered'[k].msg < Unread(V)
  <2>1. \A k \in 1 .. Len(delivered) : delivered[k].msg < Unread(U) /\ delivered[k].msg \in Nat
    BY DeliveredTypes DEF TypeInv, Place, PassedInv
  <2>2. Unread(U) \in Nat /\ Unread(V) \in Nat /\ Unread(U) <= Unread(V)
    BY NextPlace DEF Place
  <2> QED
    BY <2>1, <2>2
<1>6. U.field = 0 => (U.tag = "MESSAGE" /\ reading' = U.msg) \/ Explained(U.msg)'
  <2>1. Explained(U.msg) => Explained(U.msg)'
    BY ExplainedKept DEF Place
  <2> QED
    BY <2>1
<1>7. \A m \in 1 .. Len(sent) : reading = m => Explained(m)' \/ reading' = m
  BY DEF NoMessage
<1>8. PassedInv(V)'
  BY <1>5, <1>6, <1>7, PassedOn
<1> QED
  BY <1>1, <1>2, <1>3, <1>4, <1>8 DEF Arrived

-----------------------------------------------------------------------------
(* An envelope or an object is read.                                           *)

\* Field j is the first that is left after field i, or after the envelope.
FirstLeft(shape, i, j) ==
  /\ j \in LeftToReceive(shape, i)
  /\ \A k \in LeftToReceive(shape, i) : k = j \/ SentBefore(shape, j, k)

\* After the envelope everything is left, after a field one less is wanted.
LEMMA FirstOfAll ==
  ASSUME NEW shape \in Seq(Fields), NEW m, NEW j, FirstLeft(shape, 0, j)
  PROVE  j \in DOMAIN shape /\ Wanted(shape, j) = DOMAIN shape /\ OwnBefore(shape, m, j) = {}
<1>1. LeftToReceive(shape, 0) = DOMAIN shape
  BY DEF LeftToReceive
<1>2. j \in DOMAIN shape /\ \A k \in DOMAIN shape : k = j \/ SentBefore(shape, j, k)
  BY <1>1 DEF FirstLeft
<1>3. j # 0 /\ \A k \in DOMAIN shape : ~ReceivedBefore(shape, k, j)
  <2>1. \A k \in DOMAIN shape : ~SentBefore(shape, k, j)
    BY <1>2, SentInOrder
  <2> QED
    BY <1>2, <2>1, FieldNumbers, ReceivedAsSent
<1>4. Wanted(shape, j) = DOMAIN shape
  BY <1>2, <1>3, ReceivedAsSent DEF Wanted, LeftToReceive
<1> QED
  BY <1>2, <1>3, <1>4 DEF OwnBefore

LEMMA FirstOfRest ==
  ASSUME NEW shape \in Seq(Fields), NEW m, NEW i \in DOMAIN shape, NEW j, FirstLeft(shape, i, j)
  PROVE  /\ j \in DOMAIN shape
         /\ Cardinality(Wanted(shape, i)) = Cardinality(Wanted(shape, j)) + 1
         /\ OwnBefore(shape, m, j) = OwnBefore(shape, m, i) \cup {<<i, m, i>>}
<1>1. /\ j \in DOMAIN shape /\ SentBefore(shape, i, j) /\ i # 0 /\ j # 0
      /\ \A k \in DOMAIN shape : SentBefore(shape, i, k) => k = j \/ SentBefore(shape, j, k)
  <2>1. i # 0
    BY FieldNumbers
  <2>2. LeftToReceive(shape, i) = {k \in DOMAIN shape : SentBefore(shape, i, k)}
    BY <2>1, ReceivedAsSent DEF LeftToReceive
  <2> QED
    BY <2>1, <2>2, FieldNumbers DEF FirstLeft
<1>2. Wanted(shape, j) = LeftToReceive(shape, i)
  <2>1. LeftToReceive(shape, i) = {k \in DOMAIN shape : SentBefore(shape, i, k)}
        /\ LeftToReceive(shape, j) = {k \in DOMAIN shape : SentBefore(shape, j, k)}
    BY <1>1, ReceivedAsSent DEF LeftToReceive
  <2>2. \A k \in DOMAIN shape : SentBefore(shape, j, k) => SentBefore(shape, i, k)
    BY <1>1, SentInOrder
  <2> QED
    BY <1>1, <2>1, <2>2 DEF Wanted
<1>3. i \notin LeftToReceive(shape, i)
  BY <1>1, SentInOrder, ReceivedAsSent DEF LeftToReceive
<1>4. Wanted(shape, i) = LeftToReceive(shape, i) \cup {i} /\ IsFiniteSet(LeftToReceive(shape, i))
  <2>1. IsFiniteSet(Wanted(shape, j))
    BY <1>1, Counts
  <2> QED
    BY <1>2, <2>1 DEF Wanted
<1>5. Cardinality(Wanted(shape, i)) = Cardinality(Wanted(shape, j)) + 1
  BY <1>2, <1>3, <1>4, FS_AddElement
<1>6. \A k \in DOMAIN shape : ReceivedBefore(shape, k, j) <=> k = i \/ ReceivedBefore(shape, k, i)
  <2>1. ASSUME NEW k \in DOMAIN shape
        PROVE  SentBefore(shape, k, j) <=> k = i \/ SentBefore(shape, k, i)
    <3>1. SentBefore(shape, k, i) => SentBefore(shape, k, j)
      BY <1>1, SentInOrder
    <3>2. SentBefore(shape, k, j) => ~(k = j) /\ ~SentBefore(shape, j, k)
      BY <1>1, SentInOrder
    <3>3. k = i \/ SentBefore(shape, i, k) \/ SentBefore(shape, k, i)
      BY SentInOrder
    <3> QED
      BY <1>1, <3>1, <3>2, <3>3
  <2> QED
    BY <2>1, ReceivedAsSent
<1>7. OwnBefore(shape, m, j) = OwnBefore(shape, m, i) \cup {<<i, m, i>>}
  BY <1>6 DEF OwnBefore
<1> QED
  BY <1>1, <1>5, <1>7

\* A message that lacks nothing is received as it is sent.
LEMMA CompleteAgrees ==
  ASSUME NEW shape \in Seq(Fields), Lacking(shape) = {}
  PROVE  /\ SentFields(shape) = DOMAIN shape
         /\ \A i : LeftToSend(shape, i) = LeftToReceive(shape, i)
<1>1. SentFields(shape) = DOMAIN shape
  BY LeftSubsets DEF Lacking
<1> QED
  BY <1>1, ReceivedAsSent DEF LeftToSend, LeftToReceive

\* There is only one first field.
LEMMA FirstUnique ==
  ASSUME NEW shape \in Seq(Fields), NEW left \in SUBSET DOMAIN shape, NEW i \in left, NEW j \in left,
         \A k \in left : k = i \/ SentBefore(shape, i, k),
         \A k \in left : k = j \/ SentBefore(shape, j, k)
  PROVE  i = j
BY SentInOrder

\* The frame that comes after a complete message's is that of the field it expects.
LEMMA StaysInStep ==
  ASSUME TypeInv, NEW U, NEW V, Place(U, V), U.tag # "SIZE", ~Incomplete(U.msg),
         NEW j, FirstLeft(sent[U.msg], U.field, j)
  PROVE  V = Frame(FirstTag(sent[U.msg], j), U.msg, j)
<1>1. PICK shape \in Seq(Fields) : shape = sent[U.msg]
  BY SentShapes DEF TypeInv, Place
<1>2. LeftToSend(shape, U.field) = LeftToReceive(shape, U.field) /\ LeftToSend(shape, U.field) # {}
      /\ LeftToSend(shape, U.field) \in SUBSET DOMAIN shape
  <2>1. Lacking(shape) = {}
    BY <1>1 DEF Incomplete
  <2> QED
    BY <1>1, <2>1, CompleteAgrees, LeftSubsets DEF FirstLeft
<1>3. PICK i \in LeftToSend(shape, U.field) :
        /\ \A k \in LeftToSend(shape, U.field) : k = i \/ SentBefore(shape, i, k)
        /\ V = Frame(FirstTag(shape, i), U.msg, i)
  <2>1. FirstObject(shape, U, V)
    BY <1>1, <1>2, NextPlace
  <2> QED
    BY <2>1 DEF FirstObject
<1>4. j \in LeftToSend(shape, U.field)
      /\ \A k \in LeftToSend(shape, U.field) : k = j \/ SentBefore(shape, j, k)
  BY <1>1, <1>2 DEF FirstLeft
<1>5. i = j
  BY <1>2, <1>3, <1>4, FirstUnique
<1> QED
  BY <1>1, <1>3, <1>5

\* An envelope is followed by all objects that are sent for it.
LEMMA OwnAfterEnvelope ==
  ASSUME TypeInv, NEW U, NEW V, Place(U, V), U.tag = "MESSAGE", U.field = 0
  PROVE  OwnLeft(sent[U.msg], U.msg, V) = SentFields(sent[U.msg])
<1>1. PICK shape \in Seq(Fields) : shape = sent[U.msg]
  BY SentShapes DEF TypeInv, Place
<1>2. LeftToSend(shape, U.field) = SentFields(shape)
  BY DEF LeftToSend
<1>3. CASE SentFields(shape) = {}
  BY <1>1, <1>3 DEF OwnLeft
<1>4. CASE SentFields(shape) # {}
  <2>1. PICK i \in SentFields(shape) :
          /\ \A k \in SentFields(shape) : k = i \/ SentBefore(shape, i, k)
          /\ V = Frame(FirstTag(shape, i), U.msg, i)
    <3>1. FirstObject(shape, U, V)
      BY <1>1, <1>2, <1>4, NextPlace
    <3> QED
      BY <1>2, <3>1 DEF FirstObject
  <2> QED
    BY <1>1, <2>1 DEF OwnLeft, Frame
<1> QED
  BY <1>3, <1>4

\* A frame of an object takes one object at most from those that still come.
LEMMA OwnAfterObject ==
  ASSUME TypeInv, NEW U, NEW V, Place(U, V), U.tag # "SIZE", U.field # 0, NEW n \in 1 .. Len(sent)
  PROVE  OwnLeft(sent[n], n, U) \subseteq OwnLeft(sent[n], n, V) \cup {U.field}
<1>1. CASE U.msg # n
  BY <1>1 DEF OwnLeft
<1>2. CASE U.msg = n
  <2>1. PICK shape \in Seq(Fields) : shape = sent[U.msg]
    BY SentShapes DEF TypeInv, Place
  <2>2. OwnLeft(shape, n, U) \subseteq LeftToSend(shape, U.field) \cup {U.field}
    BY DEF OwnLeft, LeftToSend
  <2>3. LeftToSend(shape, U.field) \subseteq OwnLeft(shape, n, V)
    <3>1. CASE LeftToSend(shape, U.field) # {}
      <4>1. PICK i \in LeftToSend(shape, U.field) :
              /\ \A k \in LeftToSend(shape, U.field) : k = i \/ SentBefore(shape, i, k)
              /\ V = Frame(FirstTag(shape, i), U.msg, i)
        <5>1. FirstObject(shape, U, V)
          BY <2>1, <3>1, NextPlace
        <5> QED
          BY <5>1 DEF FirstObject
      <4> QED
        BY <1>2, <4>1, LeftSubsets DEF OwnLeft, Frame
    <3> QED
      BY <3>1
  <2> QED
    BY <1>2, <2>1, <2>2, <2>3
<1> QED
  BY <1>1, <1>2

\* An envelope is read.
LEMMA EnvelopeArrives ==
  ASSUME TypeInv, ReadingInv, LossExplained, ReadEnvelope, NEW U, NEW V, U = Head(buffer), Place(U, V)
  PROVE  Arrived(V)'
<1> DEFINE n == U.msg
<1>0. /\ [Next]_vars /\ sent' = sent /\ expected.field = 0 /\ expected.tag = "MESSAGE"
      /\ U.tag = "MESSAGE" /\ U.field = 0 /\ GoOn(U.msg, 0, {})
  BY DEF Next, ReadFrame, ReadEnvelope, Reads, Expected
<1>1. /\ n \in 1 .. Len(sent) /\ sent[n] \in Seq(Fields) /\ Len(sent) \in Nat
      /\ Unread(U) = n /\ Unread(V) = n + 1 /\ n < Unread(V)
  BY <1>0, NextPlace DEF Place
<1>2. reading = NoMessage
  <2>1. reading # NoMessage => expected.field \in DOMAIN sent[reading] /\ sent[reading] \in Seq(Fields)
    BY MessageRead, SentShapes DEF TypeInv, ReadingInv
  <2>2. 0 \notin DOMAIN sent[reading] \/ sent[reading] \notin Seq(Fields)
    BY FieldNumbers
  <2> QED
    BY <1>0, <2>1, <2>2
<1>3. /\ \A k \in 1 .. Len(delivered) : delivered[k].msg < n
      /\ \A k \in 1 .. Len(sent) : k < n => Explained(k)
  BY <1>1, <1>2 DEF Place, PassedInv, NoMessage
<1>4. CASE GiveUp /\ delivered' = Append(delivered, [msg |-> n, objects |-> {}])
  <2>1. {} \in SUBSET Objects
    OBVIOUS
  <2> QED
    BY <1>0, <1>1, <1>2, <1>3, <1>4, <2>1, Delivers
<1>5. ASSUME NEW j, FirstLeft(sent[n], 0, j), expected' = Expected(FirstTag(sent[n], j), j),
             reading' = n, got' = {}, delivered' = delivered
      PROVE  Arrived(V)'
  <2>1. j \in DOMAIN sent[n] /\ Wanted(sent[n], j) = DOMAIN sent[n] /\ OwnBefore(sent[n], n, j) = {}
    BY <1>1, <1>5, FirstOfAll
  <2>2. ~Incomplete(n) => V = Frame(FirstTag(sent[n], j), n, j)
    BY <1>0, <1>5, StaysInStep
  <2>3. Cardinality(Wanted(sent[n], j)) + Unread(V)
          <= n + 1 + Cardinality(Lacking(sent[n])) + Cardinality(OwnLeft(sent[n], n, V))
    <3>1. OwnLeft(sent[n], n, V) = SentFields(sent[n])
      BY <1>0, OwnAfterEnvelope
    <3>2. /\ Cardinality(SentFields(sent[n])) \in Nat /\ Cardinality(Lacking(sent[n])) \in Nat
          /\ Cardinality(DOMAIN sent[n]) = Cardinality(Lacking(sent[n])) + Cardinality(SentFields(sent[n]))
      BY <1>1, <2>1, Counts
    <3> QED
      BY <1>1, <2>1, <3>1, <3>2
  <2>4. U.tag # "SIZE"
    BY <1>0
  <2> QED
    BY <1>0, <1>1, <1>2, <1>3, <1>5, <2>1, <2>2, <2>3, <2>4, Continues
<1>6. \/ GiveUp /\ delivered' = Append(delivered, [msg |-> n, objects |-> {}])
      \/ \E j : /\ FirstLeft(sent[n], 0, j) /\ expected' = Expected(FirstTag(sent[n], j), j)
                /\ reading' = n /\ got' = {} /\ delivered' = delivered
  BY <1>0, <1>1, GoesOn DEF TypeInv, FirstLeft
<1> QED
  BY <1>4, <1>5, <1>6

\* An object is read.
LEMMA ObjectArrives ==
  ASSUME TypeInv, ReadingInv, LossExplained, ReadObject, NEW U, NEW V, U = Head(buffer), Place(U, V)
  PROVE  Arrived(V)'
<1>0. /\ [Next]_vars /\ sent' = sent /\ expected.field # 0 /\ expected.tag # "SIZE"
      /\ U.tag # "SIZE" /\ buffer # <<>>
  BY DEF Next, ReadFrame, ReadObject, Reads
<1>1. PICK n \in 1 .. Len(sent), i \in Nat, objects \in SUBSET Objects :
        /\ n = reading /\ i = expected.field /\ objects = got \cup {<<i, U.msg, U.field>>}
  BY <1>0, MessageRead
<1>2. GoOn(n, i, objects)
  BY <1>1 DEF ReadObject
<1>3. /\ sent[n] \in Seq(Fields) /\ Len(sent) \in Nat /\ n # NoMessage /\ i \in DOMAIN sent[n]
      /\ \A k \in 1 .. Len(delivered) : delivered[k].msg < n
  BY <1>1, SentShapes DEF TypeInv, ReadingInv, NoMessage
<1>4. ~Incomplete(n) =>
        U.msg = n /\ U.field = i /\ U.field # 0 /\ objects = OwnBefore(sent[n], n, i) \cup {<<i, n, i>>}
  BY <1>0, <1>1, <1>3 DEF Place, StepInv, ReadingInv
<1>5. Incomplete(n) =>
        /\ n < Unread(U)
        /\ Cardinality(Wanted(sent[n], i)) + Unread(U)
             <= n + 1 + Cardinality(Lacking(sent[n])) + Cardinality(OwnLeft(sent[n], n, U))
  BY <1>1, <1>3 DEF Place, StepInv
<1>6. Unread(U) \in Nat /\ n < Unread(U) /\ n < Unread(V)
      /\ Unread(V) = IF U.tag = "MESSAGE" /\ U.field = 0 THEN U.msg + 1 ELSE Unread(U)
  <2>1. /\ Unread(U) \in Nat
        /\ U.field = 0 => Unread(U) = U.msg
        /\ U.field # 0 => Unread(U) = U.msg + 1
        /\ Unread(V) = IF U.tag = "MESSAGE" /\ U.field = 0 THEN U.msg + 1 ELSE Unread(U)
    BY NextPlace
  <2> QED
    BY <1>3, <1>4, <1>5, <2>1
<1>7. \A k \in 1 .. Len(sent) : k < n => Explained(k)
  <2>1. \A k \in 1 .. Len(sent) : k < n => k < Unread(U) /\ k # n
    BY <1>3, <1>6
  <2> QED
    BY <1>1, <2>1 DEF Place, PassedInv
<1>8. U.field = 0 => Explained(U.msg)
  BY <1>1, <1>3, Swallows
<1>9. CASE GiveUp /\ delivered' = Append(delivered, [msg |-> n, objects |-> objects])
  BY <1>0, <1>1, <1>6, <1>7, <1>8, <1>9, Delivers
<1>10. ASSUME NEW j, FirstLeft(sent[n], i, j), expected' = Expected(FirstTag(sent[n], j), j),
              reading' = n, got' = objects, delivered' = delivered
       PROVE  Arrived(V)'
  <2>1. /\ j \in DOMAIN sent[n]
        /\ Cardinality(Wanted(sent[n], i)) = Cardinality(Wanted(sent[n], j)) + 1
        /\ OwnBefore(sent[n], n, j) = OwnBefore(sent[n], n, i) \cup {<<i, n, i>>}
    BY <1>3, <1>10, FirstOfRest
  <2>2. ~Incomplete(n) => got' = OwnBefore(sent[n], n, j) /\ V = Frame(FirstTag(sent[n], j), n, j)
    <3>1. ~Incomplete(n) => V = Frame(FirstTag(sent[n], j), n, j)
      BY <1>0, <1>4, <1>10, StaysInStep
    <3> QED
      BY <1>4, <1>10, <2>1, <3>1
  <2>3. Incomplete(n) =>
          Cardinality(Wanted(sent[n], j)) + Unread(V)
            <= n + 1 + Cardinality(Lacking(sent[n])) + Cardinality(OwnLeft(sent[n], n, V))
    <3> SUFFICES ASSUME Incomplete(n)
                 PROVE  Cardinality(Wanted(sent[n], j)) + Unread(V)
                          <= n + 1 + Cardinality(Lacking(sent[n])) + Cardinality(OwnLeft(sent[n], n, V))
      OBVIOUS
    <3>1. /\ Cardinality(Wanted(sent[n], j)) \in Nat /\ Cardinality(Lacking(sent[n])) \in Nat
          /\ Cardinality(OwnLeft(sent[n], n, U)) \in Nat /\ Cardinality(OwnLeft(sent[n], n, V)) \in Nat
          /\ IsFiniteSet(OwnLeft(sent[n], n, V)) /\ Cardinality({}) = 0
      BY <1>3, <2>1, Counts
    <3>0. /\ n \in Nat /\ Unread(U) \in Nat
          /\ Cardinality(Wanted(sent[n], j)) + 1 + Unread(U)
               <= n + 1 + Cardinality(Lacking(sent[n])) + Cardinality(OwnLeft(sent[n], n, U))
      BY <1>5, <1>6, <2>1
    <3>2. CASE U.field = 0
      <4>1. Unread(U) = U.msg /\ Unread(V) <= Unread(U) + 1 /\ Unread(V) \in Nat
        BY <1>6, <3>2, NextPlace
      <4>2. OwnLeft(sent[n], n, U) = {}
        <5>1. U.msg # n
          BY <1>6, <4>1
        <5> QED
          BY <5>1 DEF OwnLeft
      <4>3. Cardinality(OwnLeft(sent[n], n, U)) = 0
        BY <3>1, <4>2
      <4> QED
        BY <3>0, <3>1, <4>1, <4>3
    <3>3. CASE U.field # 0
      <4>1. Unread(V) = Unread(U)
        BY <1>6, <3>3
      <4>2. OwnLeft(sent[n], n, U) \subseteq OwnLeft(sent[n], n, V) \cup {U.field}
        BY <1>0, <3>3, OwnAfterObject
      <4>3. Cardinality(OwnLeft(sent[n], n, U)) <= Cardinality(OwnLeft(sent[n], n, V)) + 1
        <5> DEFINE left == OwnLeft(sent[n], n, V) \cup {U.field}
        <5>1. /\ IsFiniteSet(left)
              /\ Cardinality(left) = Cardinality(OwnLeft(sent[n], n, V))
                   \/ Cardinality(left) = Cardinality(OwnLeft(sent[n], n, V)) + 1
          BY <3>1, FS_AddElement
        <5>2. Cardinality(OwnLeft(sent[n], n, U)) <= Cardinality(left)
          BY <4>2, <5>1, FS_Subset
        <5> HIDE DEF left
        <5> QED
          BY <3>1, <5>1, <5>2
      <4> QED
        BY <3>0, <3>1, <4>1, <4>3
    <3> QED
      BY <3>2, <3>3
  <2> QED
    BY <1>0, <1>1, <1>3, <1>6, <1>8, <1>10, <2>1, <2>2, <2>3, Continues
<1>11. \/ GiveUp /\ delivered' = Append(delivered, [msg |-> n, objects |-> objects])
       \/ \E j : /\ FirstLeft(sent[n], i, j) /\ expected' = Expected(FirstTag(sent[n], j), j)
                 /\ reading' = n /\ got' = objects /\ delivered' = delivered
  BY <1>2, GoesOn DEF TypeInv, FirstLeft
<1> QED
  BY <1>9, <1>10, <1>11

-----------------------------------------------------------------------------
(* The theorem about losses.                                                   *)

Invariant == TypeInv /\ StreamInv /\ ReceiverInv

\* Initially nothing has been sent or read.
LEMMA InvariantInit == Init => Invariant
<1> SUFFICES ASSUME Init PROVE Invariant
  OBVIOUS
<1>1. /\ outgoing = NoFrame /\ buffer = <<>> /\ sent = <<>> /\ delivered = <<>>
      /\ expected = NothingExpected /\ reading = NoMessage /\ got = {}
      /\ Len(<<>>) = 0 /\ DOMAIN <<>> = {} /\ 1 .. 0 = {}
  BY EmptySeq DEF Init
<1>2. StreamInv
  BY <1>1 DEF StreamInv
<1>3. Coming = Frame("SIZE", 1, 0)
  BY <1>1 DEF Coming, Pending
<1>4. ReadingInv /\ LossExplained
  BY <1>1 DEF ReadingInv, LossExplained, NothingExpected, Expected
<1>5. PairInv(Coming) /\ StepInv(Coming) /\ PassedInv(Coming)
  BY <1>1, <1>3 DEF PairInv, StepInv, PassedInv, NothingExpected, Expected
<1> QED
  BY <1>2, <1>4, <1>5, TypeInit DEF Invariant, ReceiverInv

\* Every step keeps the receiver where the stream lets it be.
LEMMA InvariantStep == Invariant /\ [Next]_vars => Invariant'
<1> SUFFICES ASSUME Invariant, [Next]_vars PROVE Invariant'
  OBVIOUS
<1>1. TypeInv /\ StreamInv /\ ReceiverInv /\ ReadingInv /\ LossExplained
  BY DEF Invariant, ReceiverInv
<1>2. TypeInv' /\ StreamInv'
  BY <1>1, TypeStep, StreamStep
<1>3. CASE ReadFrame
  <2>1. ASSUME NEW U, NEW V, U = Head(buffer), Place(U, V)
        PROVE  Arrived(V)'
    BY <1>1, <1>3, <2>1, WrongTagArrives, SizeArrives, EnvelopeArrives, EnvelopeDropped,
       ObjectArrives, ObjectDropped DEF ReadFrame
  <2>2. ReceiverInv'
    BY <1>1, <1>3, <2>1, ReadsPlaces
  <2> QED
    BY <1>2, <2>2 DEF Invariant
<1>4. CASE BeginReceive \/ ReceiveFails
  BY <1>1, <1>2, <1>4, ReceiverBegins DEF Invariant
<1>5. CASE \/ \E shape \in Shapes : BeginSend(shape)
           \/ PushFrame \/ SendFails \/ Break \/ LoseFrame \/ UNCHANGED vars
  BY <1>1, <1>2, <1>5, ReceiverWaits DEF Invariant
<1> QED
  BY <1>3, <1>4, <1>5 DEF Next

\* A message that was overtaken was refused, lacks an object, or is at most as many
\* messages behind one that does as this lacks objects: whatever tags it meets, the
\* receiver finds its place again.
THEOREM LossesExplained == Spec => []LossExplained
<1>1. Invariant => LossExplained
  BY DEF Invariant, ReceiverInv
<1> QED
  BY InvariantInit, InvariantStep, <1>1, PTL DEF Spec

-----------------------------------------------------------------------------
(* The promise of MessageStream.                                               *)

Handed == [k \in DOMAIN delivered |-> Trusted(delivered[k])]

\* Other objects in a message.
LEMMA ObjectsExcept ==
  ASSUME NEW n, NEW objects, NEW others
  PROVE  [[msg |-> n, objects |-> objects] EXCEPT !.objects = others] = [msg |-> n, objects |-> others]
OBVIOUS

\* What a complete message is handed over with, and what is trusted of one.
LEMMA TrustedTypes ==
  ASSUME TypeOK, NEW n \in 1 .. Len(sent), NEW objects \in SUBSET Objects
  PROVE  /\ Trusted([msg |-> n, objects |-> objects]) \in [msg : 1 .. Len(sent), objects : SUBSET Objects]
         /\ Trusted([msg |-> n, objects |-> objects]).msg = n
         /\ Incomplete(n) \/ objects = Stream!OwnObjects(n, sent[n]) =>
              Trusted([msg |-> n, objects |-> objects])
                = [msg |-> n, objects |-> Stream!OwnObjects(n, sent[n])]
<1> DEFINE x == [msg |-> n, objects |-> objects]
           own == {<<i, n, i>> : i \in {j \in DOMAIN sent[n] : sent[n][j].value = "set"}}
<1>1. own = Stream!OwnObjects(n, sent[n])
  BY DEF Stream!OwnObjects
<1>2. Trusted(x) = IF Incomplete(n) THEN [msg |-> n, objects |-> own] ELSE x
  <2>1. x.msg = n
    OBVIOUS
  <2>2. [x EXCEPT !.objects = own] = [msg |-> n, objects |-> own]
    <3> HIDE DEF own
    <3> QED
      BY ObjectsExcept
  <2> HIDE DEF x
  <2> QED
    BY <2>1, <2>2 DEF Trusted
<1>3. own \in SUBSET Objects
  <2>1. sent[n] \in Seq(Fields)
    BY SentShapes
  <2>2. DOMAIN sent[n] \subseteq Nat
    BY <2>1, FieldNumbers
  <2> QED
    BY <2>2 DEF Objects
<1> HIDE DEF own
<1> QED
  BY <1>1, <1>2, <1>3

\* The messages handed over, as the sequence they are.
LEMMA HandedTypes ==
  ASSUME TypeOK
  PROVE  /\ Handed \in Seq([msg : 1 .. Len(sent), objects : SUBSET Objects])
         /\ Len(Handed) = Len(delivered) /\ DOMAIN Handed = 1 .. Len(delivered)
         /\ \A k \in 1 .. Len(delivered) :
              Handed[k] = Trusted(delivered[k]) /\ Handed[k].msg = delivered[k].msg
<1> DEFINE D == [msg : 1 .. Len(sent), objects : SUBSET Objects]
<1>1. Len(delivered) \in Nat /\ DOMAIN delivered = 1 .. Len(delivered)
  BY DeliveredTypes
<1>2. ASSUME NEW k \in 1 .. Len(delivered)
      PROVE  Trusted(delivered[k]) \in D /\ Trusted(delivered[k]).msg = delivered[k].msg
  <2>1. delivered[k] \in D
    BY DeliveredTypes
  <2>2. PICK n \in 1 .. Len(sent), objects \in SUBSET Objects : delivered[k] = [msg |-> n, objects |-> objects]
    BY <2>1
  <2>3. /\ Trusted([msg |-> n, objects |-> objects]) \in D
        /\ Trusted([msg |-> n, objects |-> objects]).msg = n
    BY TrustedTypes
  <2> QED
    BY <2>2, <2>3
<1> HIDE DEF D
<1>3. Handed = [k \in 1 .. Len(delivered) |-> Trusted(delivered[k])]
  BY <1>1 DEF Handed
<1>4. Handed \in Seq(D) /\ Len(Handed) = Len(delivered)
  BY <1>1, <1>2, <1>3
<1> QED
  BY <1>1, <1>2, <1>3, <1>4 DEF D

\* The messages handed over are not touched by what is sent later.
LEMMA HandedKept ==
  ASSUME TypeInv, [Next]_vars
  PROVE  \A k \in 1 .. Len(delivered) : Trusted(delivered[k])' = Trusted(delivered[k])
<1> SUFFICES ASSUME NEW k \in 1 .. Len(delivered)
             PROVE  Trusted(delivered[k])' = Trusted(delivered[k])
  OBVIOUS
<1>1. delivered'[k] = delivered[k] /\ delivered[k].msg \in 1 .. Len(sent)
  BY HistoryGrows, DeliveredTypes DEF TypeInv
<1>2. sent'[delivered[k].msg] = sent[delivered[k].msg]
  BY <1>1, HistoryGrows
<1> QED
  BY <1>1, <1>2 DEF Trusted, Incomplete

\* A message is handed over after those sent before it, with its own objects.
LEMMA OwnHandedOver ==
  ASSUME Invariant, ReadFrame, delivered' # delivered
  PROVE  \E n \in 1 .. Len(sent), objects \in SUBSET Objects :
           /\ delivered' = Append(delivered, [msg |-> n, objects |-> objects])
           /\ \A k \in 1 .. Len(delivered) : delivered[k].msg < n
           /\ Incomplete(n) \/ objects = Stream!OwnObjects(n, sent[n])
<1>0. TypeInv /\ ReadingInv /\ (Alive => StepInv(Coming) /\ PassedInv(Coming))
      /\ [Next]_vars /\ StreamInv
  BY DEF Invariant, ReceiverInv, Next
<1>1. ASSUME NEW n \in 1 .. Len(sent), ~Incomplete(n)
      PROVE  Stream!OwnObjects(n, sent[n]) = {<<i, n, i>> : i \in DOMAIN sent[n]}
  <2>1. sent[n] \in Seq(Fields) /\ Lacking(sent[n]) = {}
    BY <1>0, <1>1, SentShapes DEF TypeInv, Incomplete
  <2>2. SentFields(sent[n]) = DOMAIN sent[n]
    BY <2>1, CompleteAgrees
  <2>3. \A i \in DOMAIN sent[n] : sent[n][i].value = "set"
    BY <2>2 DEF SentFields
  <2> QED
    BY <2>3 DEF Stream!OwnObjects
<1>2. PICK U, V : U = Head(buffer) /\ Place(U, V)
  <2>1. buffer # <<>>
    BY DEF ReadFrame, ReadWrongTag, ReadSize, ReadEnvelope, RefuseEnvelope, MistakeEnvelope,
       ReadObject, RefuseObject, Reads
  <2> QED
    BY <2>1, AtPlace DEF Invariant
<1>3. CASE ReadEnvelope
  <2>1. GoOn(U.msg, 0, {}) /\ U.field = 0 /\ U.tag = "MESSAGE" /\ U.msg \in 1 .. Len(sent)
        /\ expected.field = 0 /\ {} \in SUBSET Objects
    BY <1>2, <1>3 DEF ReadEnvelope, Reads, Place, Expected
  <2>2. LeftToReceive(sent[U.msg], 0) = {} /\ delivered' = Append(delivered, [msg |-> U.msg, objects |-> {}])
    BY <2>1, <1>0, GoesOn DEF TypeInv
  <2>3. DOMAIN sent[U.msg] = {}
    BY <2>2 DEF LeftToReceive
  <2>4. Stream!OwnObjects(U.msg, sent[U.msg]) = {}
    BY <2>3 DEF Stream!OwnObjects
  <2>5. \A k \in 1 .. Len(delivered) : delivered[k].msg < U.msg
    <3>1. Unread(U) = U.msg
      BY <2>1 DEF Unread
    <3> QED
      BY <1>2, <3>1 DEF Place, PassedInv
  <2> QED
    BY <2>1, <2>2, <2>4, <2>5
<1>4. CASE ReadObject
  <2>0. expected.field # 0 /\ buffer # <<>>
    BY <1>4 DEF ReadObject, Reads
  <2>1. PICK n \in 1 .. Len(sent), i \in Nat, objects \in SUBSET Objects :
          /\ n = reading /\ i = expected.field /\ objects = got \cup {<<i, U.msg, U.field>>}
    BY <1>0, <1>2, <2>0, MessageRead
  <2>2. GoOn(n, i, objects)
    BY <1>2, <1>4, <2>1 DEF ReadObject
  <2>3. LeftToReceive(sent[n], i) = {} /\ delivered' = Append(delivered, [msg |-> n, objects |-> objects])
    BY <1>0, <2>2, GoesOn DEF TypeInv
  <2>4. /\ sent[n] \in Seq(Fields) /\ n # NoMessage /\ i \in DOMAIN sent[n] /\ i # 0
        /\ \A k \in 1 .. Len(delivered) : delivered[k].msg < n
    BY <1>0, <2>0, <2>1, SentShapes DEF TypeInv, ReadingInv, NoMessage
  <2>5. ~Incomplete(n) => objects = OwnBefore(sent[n], n, i) \cup {<<i, n, i>>}
    BY <1>0, <1>2, <2>1, <2>4 DEF Place, StepInv, ReadingInv
  <2>6. OwnBefore(sent[n], n, i) \cup {<<i, n, i>>} = {<<j, n, j>> : j \in DOMAIN sent[n]}
    <3>1. \A j \in DOMAIN sent[n] : j = i \/ SentBefore(sent[n], j, i)
      <4>1. \A j \in DOMAIN sent[n] : ~SentBefore(sent[n], i, j)
        BY <2>3, <2>4, ReceivedAsSent DEF LeftToReceive
      <4> QED
        BY <2>4, <4>1, SentInOrder
    <3>2. \A j \in DOMAIN sent[n] : j = i \/ ReceivedBefore(sent[n], j, i)
      BY <3>1, ReceivedAsSent
    <3> QED
      BY <2>4, <3>2 DEF OwnBefore
  <2>7. Incomplete(n) \/ objects = Stream!OwnObjects(n, sent[n])
    BY <1>1, <2>5, <2>6
  <2> QED
    BY <2>3, <2>4, <2>7
<1>5. ReadEnvelope \/ ReadObject
  BY DEF ReadFrame, ReadWrongTag, ReadSize, RefuseEnvelope, MistakeEnvelope, RefuseObject, history
<1> QED
  BY <1>3, <1>4, <1>5

\* Every step is one of the promise, or leaves what was sent and handed over alone.
LEMMA StreamNext ==
  ASSUME Invariant, [Next]_vars
  PROVE  \/ \E shape \in Shapes : Stream!Send(shape)
         \/ \E n \in DOMAIN sent : Stream!Deliver(n)
         \/ UNCHANGED <<sent, Handed>>
<1> DEFINE D == [msg : 1 .. Len(sent), objects : SUBSET Objects]
<1>0. TypeInv /\ TypeOK
  BY DEF Invariant, TypeInv
<1>1. /\ Handed \in Seq(D) /\ Len(Handed) = Len(delivered) /\ DOMAIN Handed = 1 .. Len(delivered)
      /\ \A k \in 1 .. Len(delivered) : Handed[k] = Trusted(delivered[k])
      /\ \A k \in 1 .. Len(delivered) : Handed[k].msg = delivered[k].msg
      /\ Len(delivered) \in Nat /\ DOMAIN delivered = 1 .. Len(delivered)
  BY <1>0, HandedTypes, DeliveredTypes
<1>2. \A k \in 1 .. Len(delivered) : Trusted(delivered[k])' = Trusted(delivered[k])
  BY <1>0, HandedKept
<1>3. delivered' = delivered => Handed' = Handed
  BY <1>1, <1>2 DEF Handed
<1>4. ASSUME NEW shape \in Shapes, BeginSend(shape)
      PROVE  Stream!Send(shape)
  BY <1>3, <1>4 DEF BeginSend, Stream!Send, Handed
<1>5. ASSUME ReadFrame, delivered' # delivered
      PROVE  \E n \in DOMAIN sent : Stream!Deliver(n)
  <2>1. PICK last \in Nat : last = Len(delivered)
    BY <1>1
  <2>2. /\ Handed \in Seq(D) /\ Len(Handed) = last /\ DOMAIN Handed = 1 .. last
        /\ \A k \in 1 .. last : Handed[k] = Trusted(delivered[k])
        /\ \A k \in 1 .. last : Handed[k].msg = delivered[k].msg
        /\ \A k \in 1 .. last : Trusted(delivered[k])' = Trusted(delivered[k])
    BY <1>1, <1>2, <2>1
  <2>3. PICK n \in 1 .. Len(sent), objects \in SUBSET Objects :
          /\ delivered' = Append(delivered, [msg |-> n, objects |-> objects])
          /\ \A k \in 1 .. last : delivered[k].msg < n
          /\ Incomplete(n) \/ objects = Stream!OwnObjects(n, sent[n])
    BY <1>5, <2>1, OwnHandedOver
  <2>4. PICK y : y = [msg |-> n, objects |-> objects]
    OBVIOUS
  <2>5. DOMAIN delivered' = 1 .. last + 1 /\ delivered'[last + 1] = y
    BY <1>0, <2>1, <2>3, <2>4, DeliveredGrows
  <2>6. sent' = sent /\ n \in DOMAIN sent
    BY <1>0, <1>5, SentShapes DEF ReadFrame, ReadWrongTag, ReadSize, ReadEnvelope, RefuseEnvelope,
       MistakeEnvelope, ReadObject, RefuseObject, Reads, history
  <2> DEFINE x == [msg |-> n, objects |-> Stream!OwnObjects(n, sent[n])]
  <2>7. Trusted(y) = x /\ x \in D
    BY <1>0, <2>3, <2>4, TrustedTypes
  <2>8. Trusted(delivered[last + 1])' = x
    <3>1. Trusted(delivered[last + 1])' = Trusted(y)
      BY <2>5, <2>6 DEF Trusted, Incomplete
    <3> QED
      BY <2>7, <3>1
  <2> HIDE DEF x, D
  <2>9. /\ DOMAIN Handed' = 1 .. last + 1 /\ Len(Handed') = last + 1 /\ Handed' \in Seq(D)
        /\ \A k \in 1 .. last : Handed'[k] = Handed[k]
        /\ Handed'[last + 1] = x
    <3>1. Handed' = [k \in 1 .. last + 1 |-> Trusted(delivered[k])']
      BY <2>5 DEF Handed
    <3>2. \A k \in 1 .. last : Trusted(delivered[k])' = Handed[k] /\ Handed[k] \in D
      BY <2>2, ElementOfSeq
    <3>3. \A k \in 1 .. last + 1 : Handed'[k] = Trusted(delivered[k])'
      BY <3>1
    <3>4. \A k \in 1 .. last : Handed'[k] = Handed[k]
      BY <3>2, <3>3
    <3>5. Handed'[last + 1] = x
      BY <2>8, <3>3
    <3>6. \A k \in 1 .. last + 1 : Handed'[k] \in D
      <4>1. \A k \in 1 .. last + 1 : k \in 1 .. last \/ k = last + 1
        OBVIOUS
      <4> QED
        BY <2>7, <3>2, <3>4, <3>5, <4>1
    <3>7. Handed' \in Seq(D) /\ Len(Handed') = last + 1 /\ DOMAIN Handed' = 1 .. last + 1
      BY <3>1, <3>3, <3>6
    <3> QED
      BY <3>4, <3>5, <3>7
  <2>10. Handed' = Append(Handed, x)
    <3>1. /\ Append(Handed, x) \in Seq(D) /\ Len(Append(Handed, x)) = last + 1
          /\ \A k \in 1 .. last : Append(Handed, x)[k] = Handed[k]
          /\ Append(Handed, x)[last + 1] = x
      BY <2>2, <2>7, AppendProperties
    <3>2. \A k \in 1 .. last + 1 : k \in 1 .. last \/ k = last + 1
      OBVIOUS
    <3>3. \A k \in 1 .. last + 1 : Handed'[k] = Append(Handed, x)[k]
      BY <2>9, <3>1, <3>2
    <3> QED
      BY <2>9, <3>1, <3>3, SeqEqual
  <2>11. \A k \in DOMAIN Handed : Handed[k].msg < n
    BY <2>2, <2>3
  <2>12. Stream!Deliver(n)
    BY <2>6, <2>10, <2>11 DEF Stream!Deliver, Handed, x
  <2> QED
    BY <2>6, <2>12
<1>6. \/ \E shape \in Shapes : BeginSend(shape)
      \/ ReadFrame /\ delivered' # delivered
      \/ sent' = sent /\ delivered' = delivered
  BY DEF Next, vars, history, receiver, PushFrame, SendFails, BeginReceive, ReadFrame, Reads,
     ReadWrongTag, ReadSize, ReadEnvelope, RefuseEnvelope, MistakeEnvelope, ReadObject, RefuseObject,
     ReceiveFails, Break, LoseFrame
<1> QED
  BY <1>3, <1>4, <1>5, <1>6

\* Whatever frames are mistaken or lost: messages are handed over once and in order,
\* and those that lack nothing with exactly their own objects.
THEOREM VtkKeepsPromise == Spec => StreamSpec
<1>1. Init => Stream!Init
  BY DEF Init, Stream!Init
<1>2. Invariant /\ [Next]_vars => [Stream!Next]_Stream!vars
  BY StreamNext DEF Stream!Next, Stream!vars, Handed
<1> QED
  BY InvariantInit, InvariantStep, <1>1, <1>2, PTL DEF Spec, StreamSpec, Stream!Spec

=============================================================================
