--------------------------- MODULE ZmqChannelProofs ---------------------------
(* Theorems about ZmqChannel, for all settings, numbers of messages and high   *)
(* water marks: its typing, that its envelopes keep the promise of             *)
(* MessageStream, and that a receiver that lost its place gets back in step.   *)
(* At the end, about SocketIdentity: the order of identities.                  *)

EXTENDS ZmqChannel, SocketIdentity, SequenceTheorems, WellFoundedInduction, TLAPS

Kinds == {"identity", "spacer", "data"}

\* What is known of the setting.
LEMMA Setting ==
  ASSUME TypeOK
  PROVE  /\ setting.spaced \in BOOLEAN /\ setting.routers \in Nat
         /\ setting.objects \in Nat
         /\ MaxMessages \in Nat /\ HighWater \in Nat \ {0}
BY ZmqAssumption DEF TypeOK, ZmqAssumption

\* The frames of a sequence.
Of(f) == {f[k] : k \in 1 .. Len(f)}

\* The data is the last frame of its message.
DataLast(f) == \A k \in 1 .. Len(f) : f[k].kind = "data" => k = Len(f)

\* Its frames are those of one piece.
OfPiece(f, n, i) == \A x \in Of(f) : x.msg = n /\ x.piece = i

\* How many frames a piece has.
FrameCount(ids) == ids + (IF setting.spaced THEN 2 ELSE 1)

\* The frames of a piece: identities, then the spacer, then the data.
LEMMA FramesOfProperties ==
  ASSUME TypeOK, NEW ids \in Nat, NEW n \in Nat, NEW i \in Nat
  PROVE  LET f == FramesOf(ids, n, i)
             size == FrameCount(ids)
         IN  /\ f \in Seq([kind : Kinds, msg : {n}, piece : Nat])
             /\ Len(f) = size
             /\ \A k \in 1 .. ids : f[k] = Frame("identity", n, i)
             /\ DataLast(f) /\ OfPiece(f, n, i)
             /\ f[size] = Frame("data", n, i)
<1> DEFINE F == [kind : Kinds, msg : {n}, piece : Nat]
           heads == [k \in 1 .. ids |-> Frame("identity", n, i)]
           mid == IF setting.spaced THEN <<Frame("spacer", n, i)>> ELSE <<>>
           m == IF setting.spaced THEN 1 ELSE 0
<1>1. /\ Frame("identity", n, i) \in F /\ Frame("spacer", n, i) \in F
      /\ Frame("data", n, i) \in F
  BY DEF Frame, Kinds
<1> HIDE DEF F
<1>2. heads \in Seq(F) /\ Len(heads) = ids
      /\ \A k \in 1 .. ids : heads[k] = Frame("identity", n, i)
  BY <1>1
<1>3. mid \in Seq(F) /\ Len(mid) = m /\ \A k \in 1 .. m : mid[k] = Frame("spacer", n, i)
  BY <1>1
<1>5. m \in Nat
  OBVIOUS
<1> HIDE DEF heads, mid, m
<1>4. heads \in Seq(F) /\ mid \in Seq(F) /\ Len(heads) = ids /\ Len(mid) = m
  BY <1>2, <1>3
<1>6. /\ heads \o mid \in Seq(F) /\ Len(heads \o mid) = ids + m
      /\ \A k \in 1 .. ids + m : (heads \o mid)[k] = IF k <= ids THEN heads[k] ELSE mid[k - ids]
  BY <1>4, ConcatProperties
<1> DEFINE init == heads \o mid
<1> HIDE DEF init
<1>7. init \in Seq(F) /\ Len(init) = ids + m /\ ids + m \in Nat
  BY <1>5, <1>6 DEF init
<1>8. FramesOf(ids, n, i) = Append(init, Frame("data", n, i))
  BY <1>1, <1>7, AppendIsConcat DEF FramesOf, heads, mid, init
<1> DEFINE f == FramesOf(ids, n, i)
<1>9. /\ f \in Seq(F) /\ Len(f) = ids + m + 1
      /\ \A k \in 1 .. ids + m : f[k] = init[k]
      /\ f[ids + m + 1] = Frame("data", n, i)
  BY <1>1, <1>7, <1>8, AppendProperties
<1> HIDE DEF f
<1>10. \A k \in 1 .. ids : f[k] = Frame("identity", n, i)
  <2> SUFFICES ASSUME NEW k \in 1 .. ids PROVE f[k] = Frame("identity", n, i)
    OBVIOUS
  <2>1. k \in 1 .. ids + m /\ k \in 1 .. ids + m + 1 /\ k <= ids /\ k <= ids + m
    BY <1>5
  <2> QED
    BY <1>2, <1>6, <1>9, <2>1 DEF init
<1>11. ASSUME NEW k \in 1 .. ids + m + 1, k > ids, k <= ids + m
       PROVE  f[k] = Frame("spacer", n, i)
  <2>1. k \in 1 .. ids + m /\ ~(k <= ids) /\ k - ids \in 1 .. m
    BY <1>5, <1>11
  <2> QED
    BY <1>3, <1>6, <1>9, <2>1 DEF init
<1>12. \A k \in 1 .. ids + m + 1 :
         \/ k \in 1 .. ids
         \/ k > ids /\ k <= ids + m
         \/ k = ids + m + 1
  BY <1>5
<1>13. \A k \in 1 .. ids + m + 1 :
         /\ f[k].kind = "data" => k = ids + m + 1
         /\ f[k].msg = n /\ f[k].piece = i
  BY <1>9, <1>10, <1>11, <1>12 DEF Frame
<1> QED
  <2>1. FrameCount(ids) = ids + m + 1
    BY <1>5 DEF FrameCount, m
  <2>2. DataLast(f) /\ OfPiece(f, n, i)
    BY <1>9, <1>13 DEF DataLast, OfPiece, Of
  <2> QED
    BY <1>9, <1>10, <2>1, <2>2 DEF F, f

\* They are frames of a message that was sent.
LEMMA FramesOfTyped ==
  ASSUME TypeOK, NEW ids \in Nat, NEW c \in Nat, NEW n \in 1 .. c, NEW i \in Nat
  PROVE  FramesOf(ids, n, i) \in Seq([kind : Kinds, msg : 1 .. c, piece : Nat])
<1>0. n \in Nat
  OBVIOUS
<1>1. FramesOf(ids, n, i) \in Seq([kind : Kinds, msg : {n}, piece : Nat])
  BY <1>0, FramesOfProperties
<1>2. [kind : Kinds, msg : {n}, piece : Nat] \subseteq [kind : Kinds, msg : 1 .. c, piece : Nat]
  OBVIOUS
<1> QED
  BY <1>1, <1>2, SeqMonotonic

-----------------------------------------------------------------------------
(* Types.  The pipe only takes a whole message because ZeroMQ looks at its      *)
(* length when it takes the first frame.                                       *)

PartFits == part # <<>> => Len(pipe) < HighWater
TypeInv == TypeOK /\ PartFits

\* The routers leave frames that were sent.
LEMMA RoutedTyped ==
  ASSUME TypeOK, NEW S, NEW f \in Seq(S)
  PROVE  Routed(f) \in Seq(S)
<1>1. setting.routers \in Nat /\ Len(f) \in Nat
  BY Setting, LenProperties
<1>2. \A k \in setting.routers + 1 .. Len(f) : f[k] \in S
  BY <1>1, ElementOfSeq
<1>3. SubSeq(f, setting.routers + 1, Len(f)) \in Seq(S)
  BY <1>1, <1>2, SubSeqProperties
<1> QED
  BY <1>3, EmptySeq DEF Routed

\* The calls of the program.
LEMMA TypeProgramStep ==
  ASSUME TypeInv,
         \/ PushSocketIdentity \/ ClearSocketIdentities
         \/ \E objects \in 0 .. setting.objects : BeginSend(objects)
         \/ BeginReceive
  PROVE  TypeInv'
<1>0. TypeOK
  BY DEF TypeInv
<1>1. CASE PushSocketIdentity \/ ClearSocketIdentities
  <2>1. identities' \in 0 .. setting.routers
    BY <1>0, <1>1, Setting DEF PushSocketIdentity, ClearSocketIdentities, TypeOK
  <2>2. UNCHANGED <<setting, outbox, part, sent, pipe, inbox, receiver, fresh>>
    BY <1>1 DEF PushSocketIdentity, ClearSocketIdentities
  <2> QED
    BY <2>1, <2>2 DEF TypeInv, TypeOK, PartFits, Frames, receiver
<1>2. ASSUME NEW objects \in 0 .. setting.objects, BeginSend(objects)
      PROVE  TypeInv'
  <2> DEFINE item == [objects |-> objects, ids |-> identities]
             Items == [objects : 0 .. setting.objects, ids : 0 .. setting.routers]
  <2>1. /\ sent' = Append(sent, item)
        /\ outbox' = FramesOf(identities, Len(sent) + 1, 0)
        /\ UNCHANGED <<setting, identities, part, pipe, inbox, receiver, fresh>>
        /\ Len(sent) < MaxMessages
    BY <1>2 DEF BeginSend
  <2>2. item \in Items /\ sent \in Seq(Items) /\ Len(sent) \in Nat
    BY <1>0, LenProperties DEF TypeOK
  <2> HIDE DEF item, Items
  <2>3. sent' \in Seq(Items) /\ Len(sent') = Len(sent) + 1
    BY <2>1, <2>2, AppendProperties
  <2>4. Frames \subseteq Frames' /\ 1 .. Len(sent) \subseteq 1 .. Len(sent')
    BY <2>2, <2>3 DEF Frames
  <2>5. Seq(Frames) \subseteq Seq(Frames')
    BY <2>4, SeqMonotonic
  <2>6. part' \in Seq(Frames') /\ inbox' \in Seq(Frames')
    BY <1>0, <2>1, <2>5 DEF TypeOK
  <2>7. pipe' \in Seq(Seq(Frames') \ {<<>>})
    <3>1. Seq(Frames) \ {<<>>} \subseteq Seq(Frames') \ {<<>>}
      BY <2>5
    <3>2. pipe \in Seq(Seq(Frames) \ {<<>>})
      BY <1>0 DEF TypeOK
    <3> QED
      BY <2>1, <3>1, <3>2, SeqMonotonic
  <2>8. outbox' \in Seq(Frames')
    <3>1. identities \in Nat
      BY <1>0, Setting DEF TypeOK
    <3>2. Len(sent) + 1 \in 1 .. Len(sent')  /\ Len(sent') \in Nat
      BY <2>2, <2>3
    <3>3. outbox' \in Seq([kind : Kinds, msg : 1 .. Len(sent'), piece : Nat])
      BY <1>0, <2>1, <3>1, <3>2, FramesOfTyped
    <3> QED
      BY <3>3 DEF Frames, Kinds
  <2>9. dispatched' \in Seq(1 .. Len(sent')) /\ fresh' \subseteq 1 .. Len(sent')
    <3>1. dispatched \in Seq(1 .. Len(sent)) /\ fresh \subseteq 1 .. Len(sent)
      BY <1>0 DEF TypeOK
    <3> QED
      BY <2>1, <2>4, <3>1, SeqMonotonic DEF receiver
  <2>10. reading' \in NoMessage .. Len(sent') /\ Len(sent') <= MaxMessages
    BY <1>0, <2>1, <2>2, <2>3, Setting DEF TypeOK, receiver, NoMessage
  <2>11. PartFits'
    BY <2>1 DEF TypeInv, PartFits
  <2> QED
    BY <1>0, <2>1, <2>3, <2>6, <2>7, <2>8, <2>9, <2>10, <2>11
       DEF TypeInv, TypeOK, receiver, Items
<1>3. CASE BeginReceive
  BY <1>0, <1>3 DEF BeginReceive, FirstRead, TypeInv, TypeOK, PartFits, Frames, sender
<1> QED
  BY <1>1, <1>2, <1>3

\* What the socket of the sender accepts or refuses.
LEMMA TypeSendStep ==
  ASSUME TypeInv, AcceptFrame \/ AcceptData \/ SkipFrame \/ SendFails
  PROVE  TypeInv'
<1>0. TypeOK /\ PartFits
  BY DEF TypeInv
<1> DEFINE x == Head(outbox)
<1>1. /\ outbox # <<>> /\ x \in Frames /\ Tail(outbox) \in Seq(Frames)
      /\ part \in Seq(Frames) /\ Append(part, x) \in Seq(Frames) \ {<<>>}
      /\ <<>> \in Seq(Frames)
  <2>1. outbox # <<>> /\ outbox \in Seq(Frames) /\ part \in Seq(Frames)
    BY <1>0 DEF AcceptFrame, AcceptData, SkipFrame, SendFails, TypeOK
  <2> QED
    BY <2>1, HeadTailProperties, AppendProperties, EmptySeq
<1>2. UNCHANGED <<setting, identities, sent, inbox, receiver, fresh>>
  BY DEF AcceptFrame, AcceptData, SkipFrame, SendFails
<1>3. /\ pipe \in Seq(Seq(Frames) \ {<<>>}) /\ Len(pipe) \in Nat /\ Len(pipe) <= HighWater
      /\ HighWater \in Nat
  BY <1>0, Setting, LenProperties DEF TypeOK
<1>4. part # <<>> \/ Len(pipe) < HighWater => Len(pipe) < HighWater
  BY <1>0 DEF PartFits
<1> HIDE DEF x
<1>5. /\ outbox' \in Seq(Frames) /\ part' \in Seq(Frames)
      /\ pipe' \in Seq(Seq(Frames) \ {<<>>}) /\ Len(pipe') <= HighWater
      /\ PartFits'
  <2>1. CASE AcceptFrame
    BY <1>1, <1>3, <1>4, <2>1 DEF AcceptFrame, PartFits, x
  <2>2. CASE SkipFrame \/ SendFails
    BY <1>1, <1>3, <2>2 DEF SkipFrame, SendFails, PartFits
  <2>3. CASE AcceptData
    <3>1. /\ pipe' = Append(pipe, Append(part, x)) /\ part' = <<>>
          /\ Len(pipe) < HighWater
          /\ outbox' = FramesOf(identities, x.msg, x.piece + 1) \/ outbox' = <<>>
      BY <1>4, <2>3 DEF AcceptData, x
    <3>2. pipe' \in Seq(Seq(Frames) \ {<<>>}) /\ Len(pipe') = Len(pipe) + 1
      BY <1>1, <1>3, <3>1, AppendProperties
    <3>3. FramesOf(identities, x.msg, x.piece + 1) \in Seq(Frames)
      <4>1. /\ identities \in Nat /\ Len(sent) \in Nat
            /\ x.msg \in 1 .. Len(sent) /\ x.piece + 1 \in Nat
        <5>1. x.msg \in 1 .. Len(sent) /\ x.piece \in Nat
          BY <1>1 DEF Frames
        <5>2. identities \in Nat /\ Len(sent) \in Nat
          BY <1>0, Setting, LenProperties DEF TypeOK
        <5> QED
          BY <5>1, <5>2
      <4>2. FramesOf(identities, x.msg, x.piece + 1)
              \in Seq([kind : Kinds, msg : 1 .. Len(sent), piece : Nat])
        BY <1>0, <4>1, FramesOfTyped
      <4> QED
        BY <4>2 DEF Frames, Kinds
    <3>4. outbox' \in Seq(Frames) /\ part' \in Seq(Frames) /\ PartFits'
      BY <1>1, <3>1, <3>3 DEF PartFits
    <3>5. Len(pipe') <= HighWater
      BY <1>3, <3>1, <3>2
    <3> QED
      BY <3>2, <3>4, <3>5
  <2> QED
    BY <2>1, <2>2, <2>3
<1> QED
  BY <1>0, <1>2, <1>5 DEF TypeInv, TypeOK, Frames, receiver

\* What ZeroMQ does.
LEMMA TypeNetworkStep ==
  ASSUME TypeInv, Arrive \/ Lose
  PROVE  TypeInv'
<1>0. TypeOK
  BY DEF TypeInv
<1> DEFINE m == Head(pipe)
<1>1. /\ pipe # <<>> /\ pipe' = Tail(pipe)
      /\ UNCHANGED <<setting, sender, receiver>>
      /\ inbox' = inbox \o Routed(m) \/ inbox' = inbox
      /\ fresh' = fresh \cup {Last(m).msg} \/ fresh' = fresh
  BY DEF Arrive, Lose
<1>2. pipe \in Seq(Seq(Frames) \ {<<>>}) /\ Len(pipe) \in Nat /\ Len(pipe) <= HighWater
      /\ HighWater \in Nat /\ inbox \in Seq(Frames)
  BY <1>0, Setting, LenProperties DEF TypeOK
<1>3. /\ m \in Seq(Frames) /\ m # <<>>
      /\ Tail(pipe) \in Seq(Seq(Frames) \ {<<>>}) /\ Len(Tail(pipe)) = Len(pipe) - 1
  BY <1>1, <1>2, HeadTailProperties
<1> HIDE DEF m
<1>4. inbox \o Routed(m) \in Seq(Frames)
  BY <1>0, <1>2, <1>3, RoutedTyped, ConcatProperties
<1>5. Last(m).msg \in 1 .. Len(sent)
  <2>1. Len(m) \in 1 .. Len(m)
    BY <1>3, EmptySeq
  <2>2. m[Len(m)] \in Frames
    BY <1>3, <2>1, ElementOfSeq
  <2> QED
    BY <2>2 DEF Last, Frames
<1>6. PartFits'
  BY <1>1, <1>2, <1>3 DEF TypeInv, PartFits, sender
<1>7. /\ UNCHANGED <<setting, identities, outbox, part, sent, at, reading, piece, dispatched>>
      /\ Frames' = Frames
  BY <1>1 DEF sender, receiver, Frames
<1>8. /\ inbox' \in Seq(Frames) /\ fresh' \subseteq 1 .. Len(sent)
      /\ pipe' \in Seq(Seq(Frames) \ {<<>>}) /\ Len(pipe') <= HighWater
  <2>1. fresh \subseteq 1 .. Len(sent)
    BY <1>0 DEF TypeOK
  <2>2. inbox' \in Seq(Frames)
    BY <1>1, <1>2, <1>4
  <2>3. pipe' \in Seq(Seq(Frames) \ {<<>>}) /\ Len(pipe') = Len(pipe) - 1
    BY <1>1, <1>3
  <2>4. fresh' \subseteq 1 .. Len(sent)
    BY <1>1, <1>5, <2>1
  <2> QED
    BY <1>2, <2>2, <2>3, <2>4
<1> QED
  BY <1>0, <1>6, <1>7, <1>8 DEF TypeInv, TypeOK

\* The steps of receive().
LEMMA TypeReceiveStep ==
  ASSUME TypeInv, Receive
  PROVE  TypeInv'
<1>0. TypeOK
  BY DEF TypeInv
<1>1. UNCHANGED <<setting, sender, pipe, fresh>>
  BY DEF Receive, ReadSpacer, ReadNothing, ReadEnvelope, ReadRubbish, ReadObject,
     ReadIntoGarbage, ReadsData
<1>2. inbox' \in Seq(Frames)
  <2>1. inbox' = inbox \/ (inbox # <<>> /\ inbox' = Tail(inbox))
    BY DEF Receive, ReadSpacer, ReadNothing, ReadEnvelope, ReadRubbish, ReadObject,
       ReadIntoGarbage, ReadsData
  <2>2. inbox \in Seq(Frames)
    BY <1>0 DEF TypeOK
  <2> QED
    BY <2>1, <2>2, HeadTailProperties
<1>3. inbox # <<>> => Head(inbox).msg \in 1 .. Len(sent)
  <2>1. inbox \in Seq(Frames)
    BY <1>0 DEF TypeOK
  <2>2. inbox # <<>> => Head(inbox) \in Frames
    BY <2>1, HeadTailProperties
  <2> QED
    BY <2>2 DEF Frames
<1>4. /\ at' \in {"idle", "spacer", "data", "crashed"}
      /\ reading' \in NoMessage .. Len(sent) /\ piece' \in Nat
  <2>1. Len(sent) \in Nat /\ reading \in NoMessage .. Len(sent) /\ piece \in Nat
    BY <1>0, LenProperties DEF TypeOK
  <2>2. CASE ReadEnvelope
    BY <1>3, <2>1, <2>2 DEF ReadEnvelope, ReadsData, FirstRead, ReturnFromReceive, NoMessage
  <2>3. CASE ReadSpacer \/ ReadNothing \/ ReadRubbish \/ ReadObject \/ ReadIntoGarbage
    BY <2>1, <2>3 DEF ReadSpacer, ReadNothing, ReadRubbish, ReadObject, ReadIntoGarbage,
       ReadsData, FirstRead, ReturnFromReceive, NoMessage
  <2> QED
    BY <2>2, <2>3 DEF Receive
<1>5. dispatched' \in Seq(1 .. Len(sent))
  <2>1. dispatched \in Seq(1 .. Len(sent))
    BY <1>0 DEF TypeOK
  <2>2. CASE ReadEnvelope
    <3>1. dispatched' = Append(dispatched, Head(inbox).msg) /\ inbox # <<>>
      BY <2>2 DEF ReadEnvelope, ReadsData
    <3> QED
      BY <1>3, <2>1, <3>1, AppendProperties
  <2>3. CASE ~ReadEnvelope
    BY <2>1, <2>3 DEF Receive, ReadSpacer, ReadNothing, ReadRubbish, ReadObject, ReadIntoGarbage
  <2> QED
    BY <2>2, <2>3
<1> QED
  BY <1>0, <1>1, <1>2, <1>4, <1>5 DEF TypeInv, TypeOK, PartFits, Frames, sender

\* Initially nothing was sent.
LEMMA TypeInit == Init => TypeInv
<1> SUFFICES ASSUME Init PROVE TypeInv
  OBVIOUS
<1>1. \A S : <<>> \in Seq(S)
  BY EmptySeq
<1>2. Len(<<>>) = 0 /\ MaxMessages \in Nat /\ HighWater \in Nat
  BY ZmqAssumption DEF ZmqAssumption
<1>3. setting.routers \in Nat
  BY ZmqAssumption DEF ZmqAssumption, Init
<1> QED
  BY <1>1, <1>2, <1>3 DEF Init, TypeInv, TypeOK, PartFits, NoMessage

\* Every step keeps the types.
LEMMA TypeStep == TypeInv /\ [Next]_vars => TypeInv'
<1> SUFFICES ASSUME TypeInv, [Next]_vars PROVE TypeInv'
  OBVIOUS
<1>1. CASE Next
  BY <1>1, TypeProgramStep, TypeSendStep, TypeNetworkStep, TypeReceiveStep DEF Next
<1>2. CASE UNCHANGED vars
  BY <1>2 DEF vars, sender, receiver, TypeInv, TypeOK, PartFits, Frames
<1> QED
  BY <1>1, <1>2

\* The pipe never holds more than its high water mark, every frame is that of a
\* message that was sent, and what receive() reads belongs to one.
THEOREM ZmqTyping == Spec => []TypeOK
<1>1. TypeInv => TypeOK
  BY DEF TypeInv
<1> QED
  BY TypeInit, TypeStep, <1>1, PTL DEF Spec

-----------------------------------------------------------------------------
(* The order of the envelopes: whatever is left out, dropped or taken for       *)
(* something else, the data of an envelope is on its way at most once, behind   *)
(* the envelopes sent before it, and ahead of everything that was dispatched.   *)

IsEnvelope(x) == x.kind = "data" /\ x.piece = 0

\* The envelopes of S were sent before those of T.
Precede(S, T) == \A x \in S, y \in T : IsEnvelope(x) /\ IsEnvelope(y) => x.msg < y.msg

\* The envelopes of S were sent after those dispatched in d.
Unseen(d, S) == \A k \in 1 .. Len(d) : \A x \in S : IsEnvelope(x) => d[k] < x.msg

InboxInv ==
  /\ Unseen(dispatched, Of(inbox))
  /\ \A k, l \in 1 .. Len(inbox) :
       k < l /\ IsEnvelope(inbox[k]) /\ IsEnvelope(inbox[l]) => inbox[k].msg < inbox[l].msg

PipeInv ==
  \A j \in 1 .. Len(pipe) :
    /\ DataLast(pipe[j]) /\ Unseen(dispatched, Of(pipe[j])) /\ Precede(Of(inbox), Of(pipe[j]))
    /\ \A i \in 1 .. Len(pipe) : i < j => Precede(Of(pipe[i]), Of(pipe[j]))

OutboxInv ==
  /\ \A k \in 1 .. Len(part) : part[k].kind # "data"
  /\ DataLast(outbox) /\ Unseen(dispatched, Of(outbox)) /\ Precede(Of(inbox), Of(outbox))
  /\ \A j \in 1 .. Len(pipe) : Precede(Of(pipe[j]), Of(outbox))

OrderInv == InboxInv /\ PipeInv /\ OutboxInv

\* What is taken off the front of a sequence, and what it leaves.
LEMMA OfTail ==
  ASSUME NEW S, NEW f \in Seq(S), f # <<>>
  PROVE  /\ Head(f) = f[1] /\ f[1] \in Of(f) /\ Of(Tail(f)) \subseteq Of(f)
         /\ Len(f) \in Nat \ {0} /\ Len(Tail(f)) = Len(f) - 1
         /\ \A k \in 1 .. Len(Tail(f)) : k + 1 \in 1 .. Len(f) /\ Tail(f)[k] = f[k + 1]
<1>1. /\ Len(f) \in Nat \ {0} /\ Len(Tail(f)) = Len(f) - 1
      /\ \A k \in 1 .. Len(Tail(f)) : Tail(f)[k] = f[k + 1]
  BY HeadTailProperties, EmptySeq
<1>2. \A k \in 1 .. Len(Tail(f)) : k + 1 \in 1 .. Len(f)
  BY <1>1
<1>3. 1 \in 1 .. Len(f) /\ Head(f) = f[1]
  BY <1>1
<1> QED
  BY <1>1, <1>2, <1>3 DEF Of

\* The frames of a longer sequence.
LEMMA OfAppend ==
  ASSUME NEW S, NEW f \in Seq(S), NEW x \in S
  PROVE  Of(Append(f, x)) = Of(f) \cup {x}
<1>1. /\ Len(f) \in Nat /\ Len(Append(f, x)) = Len(f) + 1
      /\ \A k \in 1 .. Len(f) : Append(f, x)[k] = f[k]
      /\ Append(f, x)[Len(f) + 1] = x
  BY AppendProperties, LenProperties
<1>2. 1 .. Len(f) + 1 = (1 .. Len(f)) \cup {Len(f) + 1}
  BY <1>1
<1> QED
  BY <1>1, <1>2 DEF Of

LEMMA OfConcat ==
  ASSUME NEW S, NEW f \in Seq(S), NEW g \in Seq(S)
  PROVE  Of(f \o g) \subseteq Of(f) \cup Of(g)
<1>1. /\ Len(f) \in Nat /\ Len(g) \in Nat /\ Len(f \o g) = Len(f) + Len(g)
      /\ \A k \in 1 .. Len(f) + Len(g) :
           (f \o g)[k] = IF k <= Len(f) THEN f[k] ELSE g[k - Len(f)]
  BY ConcatProperties, LenProperties
<1>2. \A k \in 1 .. Len(f) + Len(g) : k \in 1 .. Len(f) \/ (~(k <= Len(f)) /\ k - Len(f) \in 1 .. Len(g))
  BY <1>1
<1>3. \A k \in 1 .. Len(f) : k <= Len(f)
  BY <1>1
<1> QED
  BY <1>1, <1>2, <1>3 DEF Of

\* What the routers leave of a message: some of its frames, in their order.
LEMMA RoutedFrames ==
  ASSUME TypeOK, NEW S, NEW f \in Seq(S)
  PROVE  /\ Of(Routed(f)) \subseteq Of(f)
         /\ DataLast(f) => DataLast(Routed(f))
         /\ Len(Routed(f)) \in Nat
<1> DEFINE r == setting.routers
           g == SubSeq(f, r + 1, Len(f))
<1>1. r \in Nat /\ Len(f) \in Nat
  BY Setting, LenProperties
<1>2. \A k \in r + 1 .. Len(f) : k \in 1 .. Len(f) /\ f[k] \in S
  BY <1>1, ElementOfSeq
<1>3. /\ Len(g) = IF r + 1 <= Len(f) THEN Len(f) - r ELSE 0
      /\ \A k \in 1 .. Len(f) - r : g[k] = f[r + k]
  <2>1. /\ Len(g) = IF r + 1 <= Len(f) THEN Len(f) - (r + 1) + 1 ELSE 0
        /\ \A k \in 1 .. Len(f) - (r + 1) + 1 : g[k] = f[(r + 1) + k - 1]
    <3>1. r + 1 \in Nat /\ Len(f) \in Nat /\ \A k \in r + 1 .. Len(f) : f[k] \in S
      BY <1>1, <1>2
    <3> HIDE DEF r
    <3> QED
      BY <3>1, SubSeqProperties
  <2> HIDE DEF r, g
  <2>2. Len(f) - (r + 1) + 1 = Len(f) - r
    BY <1>1
  <2>3. ASSUME NEW k \in 1 .. Len(f) - r
        PROVE  g[k] = f[r + k]
    <3>1. (r + 1) + k - 1 = r + k
      BY <1>1
    <3> QED
      BY <2>1, <2>2, <3>1
  <2> QED
    BY <2>1, <2>2, <2>3
<1> HIDE DEF r, g
<1>4. Len(g) \in Nat /\ \A k \in 1 .. Len(g) :
        r + k \in 1 .. Len(f) /\ g[k] = f[r + k] /\ (r + k = Len(f) => k = Len(g))
  BY <1>1, <1>3
<1>5. Of(g) \subseteq Of(f) /\ (DataLast(f) => DataLast(g))
  BY <1>4 DEF Of, DataLast
<1>6. Routed(f) = g \/ Routed(f) = <<>>
  BY DEF Routed, r, g
<1>7. Of(<<>>) = {} /\ DataLast(<<>>) /\ Len(<<>>) = 0
  BY DEF Of, DataLast
<1> QED
  BY <1>4, <1>5, <1>6, <1>7

\* Nothing the order is about changes.
LEMMA OrderUnchanged ==
  ASSUME OrderInv, UNCHANGED <<inbox, pipe, part, outbox, dispatched>>
  PROVE  OrderInv'
BY DEF OrderInv, InboxInv, PipeInv, OutboxInv, Unseen, Precede, Of, DataLast

\* A message is begun: its envelope is newer than all there is.
LEMMA OrderBeginSend ==
  ASSUME TypeInv, OrderInv, NEW objects \in 0 .. setting.objects, BeginSend(objects)
  PROVE  OrderInv'
<1> DEFINE n == Len(sent) + 1
           f == FramesOf(identities, n, 0)
<1>0. TypeOK
  BY DEF TypeInv
<1>1. outbox' = f /\ UNCHANGED <<inbox, pipe, part, dispatched>>
  BY DEF BeginSend, receiver
<1>2. DataLast(f) /\ \A x \in Of(f) : x.msg = n
  <2>1. identities \in Nat /\ n \in Nat /\ 0 \in Nat
    BY <1>0, Setting, LenProperties DEF TypeOK
  <2> HIDE DEF n
  <2>2. DataLast(f) /\ OfPiece(f, n, 0)
    BY <1>0, <2>1, FramesOfProperties
  <2> QED
    BY <2>2 DEF OfPiece
<1>3. /\ \A k \in 1 .. Len(dispatched) : dispatched[k] < n
      /\ \A x \in Of(inbox) : x.msg < n
      /\ \A j \in 1 .. Len(pipe) : \A x \in Of(pipe[j]) : x.msg < n
  <2>0. Len(sent) \in Nat
    BY <1>0, LenProperties DEF TypeOK
  <2>1. \A m \in 1 .. Len(sent) : m < n
    BY <2>0
  <2>2. \A k \in 1 .. Len(dispatched) : dispatched[k] \in 1 .. Len(sent)
    BY <1>0, ElementOfSeq DEF TypeOK
  <2>3. \A k \in 1 .. Len(inbox) : inbox[k] \in Frames
    BY <1>0, ElementOfSeq DEF TypeOK
  <2>4. \A j \in 1 .. Len(pipe) : \A k \in 1 .. Len(pipe[j]) : pipe[j][k] \in Frames
    <3>1. \A j \in 1 .. Len(pipe) : pipe[j] \in Seq(Frames)
      BY <1>0, ElementOfSeq DEF TypeOK
    <3> QED
      BY <3>1, ElementOfSeq
  <2>5. \A x \in Frames : x.msg \in 1 .. Len(sent)
    BY DEF Frames
  <2> HIDE DEF n
  <2> QED
    BY <2>1, <2>2, <2>3, <2>4, <2>5 DEF Of
<1> HIDE DEF n, f
<1>4. /\ Unseen(dispatched, Of(f)) /\ Precede(Of(inbox), Of(f))
      /\ \A j \in 1 .. Len(pipe) : Precede(Of(pipe[j]), Of(f))
  BY <1>2, <1>3 DEF Unseen, Precede
<1>5. InboxInv' /\ PipeInv'
  BY <1>1 DEF OrderInv, InboxInv, PipeInv, Unseen
<1>6. OutboxInv'
  BY <1>1, <1>2, <1>4 DEF OrderInv, OutboxInv, Unseen
<1> QED
  BY <1>5, <1>6 DEF OrderInv

\* The frames that are left to be sent.
LEMMA OrderShorterOutbox ==
  ASSUME TypeInv, OrderInv, outbox # <<>>, Head(outbox).kind # "data" \/ outbox' = <<>>,
         outbox' = Tail(outbox) \/ outbox' = <<>>,
         part' = part \/ (Head(outbox).kind # "data" /\ part' = Append(part, Head(outbox))),
         UNCHANGED <<inbox, pipe, dispatched>>
  PROVE  OrderInv'
<1>1. /\ outbox \in Seq(Frames) /\ part \in Seq(Frames) /\ Head(outbox) \in Frames
  BY HeadTailProperties DEF TypeInv, TypeOK
<1>2. Of(outbox') \subseteq Of(outbox) /\ DataLast(outbox')
  <2>1. CASE outbox' = Tail(outbox)
    BY <1>1, <2>1, OfTail DEF OrderInv, OutboxInv, DataLast
  <2>2. CASE outbox' = <<>>
    BY <2>2 DEF Of, DataLast
  <2> QED
    BY <2>1, <2>2
<1>3. \A k \in 1 .. Len(part') : part'[k].kind # "data"
  <2>1. CASE part' = part
    BY <2>1 DEF OrderInv, OutboxInv
  <2>2. CASE Head(outbox).kind # "data" /\ part' = Append(part, Head(outbox))
    <3>1. Of(part') = Of(part) \cup {Head(outbox)}
      BY <1>1, <2>2, OfAppend
    <3>2. \A x \in Of(part) : x.kind # "data"
      BY DEF Of, OrderInv, OutboxInv
    <3> QED
      BY <2>2, <3>1, <3>2 DEF Of
  <2> QED
    BY <2>1, <2>2
<1>4. InboxInv' /\ PipeInv'
  BY DEF OrderInv, InboxInv, PipeInv, Unseen
<1>5. OutboxInv'
  <2>1. /\ Unseen(dispatched, Of(outbox)) /\ Precede(Of(inbox), Of(outbox))
        /\ \A j \in 1 .. Len(pipe) : Precede(Of(pipe[j]), Of(outbox))
    BY DEF OrderInv, OutboxInv
  <2>2. /\ Unseen(dispatched', Of(outbox')) /\ Precede(Of(inbox), Of(outbox))'
    BY <1>2, <2>1 DEF Unseen, Precede
  <2>3. \A j \in 1 .. Len(pipe') : Precede(Of(pipe[j]), Of(outbox))'
    BY <1>2, <2>1 DEF Precede
  <2> QED
    BY <1>2, <1>3, <2>2, <2>3 DEF OutboxInv
<1> QED
  BY <1>4, <1>5 DEF OrderInv

\* The data is sent: its message is the last in the pipe, and whatever is sent
\* next is not an envelope.
LEMMA OrderAcceptData ==
  ASSUME TypeInv, OrderInv, AcceptData
  PROVE  OrderInv'
<1> DEFINE x == Head(outbox)
           w == Append(part, x)
<1>0. TypeOK
  BY DEF TypeInv
<1>1. /\ outbox # <<>> /\ outbox \in Seq(Frames) /\ part \in Seq(Frames)
      /\ pipe \in Seq(Seq(Frames) \ {<<>>}) /\ x \in Frames
      /\ identities \in Nat /\ x.msg \in Nat /\ x.piece + 1 \in Nat
  <2>1. outbox # <<>> /\ outbox \in Seq(Frames)
    BY <1>0 DEF AcceptData, TypeOK
  <2>2. x \in Frames
    BY <2>1, HeadTailProperties
  <2>3. x.msg \in Nat /\ x.piece \in Nat
    BY <2>2 DEF Frames
  <2> QED
    BY <1>0, <2>1, <2>2, <2>3, Setting DEF TypeOK
<1>2. /\ pipe' = Append(pipe, w) /\ part' = <<>>
      /\ outbox' = FramesOf(identities, x.msg, x.piece + 1) \/ outbox' = <<>>
      /\ UNCHANGED <<inbox, dispatched>>
  BY DEF AcceptData, receiver
<1>3. x \in Of(outbox)
  BY <1>1, OfTail
<1>4. w \in Seq(Frames) \ {<<>>} /\ Of(w) = Of(part) \cup {x} /\ DataLast(w)
  <2>1. /\ w \in Seq(Frames) \ {<<>>} /\ Of(w) = Of(part) \cup {x}
        /\ Len(part) \in Nat /\ Len(w) = Len(part) + 1
        /\ \A k \in 1 .. Len(part) : w[k] = part[k]
    BY <1>1, OfAppend, AppendProperties, LenProperties
  <2>2. \A k \in 1 .. Len(part) : part[k].kind # "data"
    BY DEF OrderInv, OutboxInv
  <2> HIDE DEF w, x
  <2>3. \A k \in 1 .. Len(w) : k \in 1 .. Len(part) \/ k = Len(w)
    BY <2>1
  <2>4. DataLast(w)
    BY <2>1, <2>2, <2>3 DEF DataLast
  <2> QED
    BY <2>1, <2>4
<1> HIDE DEF x, w
<1>5. \A y \in Of(w) : IsEnvelope(y) => y = x
  BY <1>4 DEF OrderInv, OutboxInv, Of, IsEnvelope
<1>6. DataLast(outbox') /\ \A y \in Of(outbox') : ~IsEnvelope(y)
  <2>1. CASE outbox' = <<>>
    BY <2>1 DEF DataLast, Of
  <2>2. CASE outbox' = FramesOf(identities, x.msg, x.piece + 1)
    <3>1. DataLast(outbox') /\ OfPiece(outbox', x.msg, x.piece + 1)
      BY <1>0, <1>1, <2>2, FramesOfProperties
    <3>2. x.piece + 1 # 0
      BY <1>1 DEF Frames
    <3> QED
      BY <3>1, <3>2 DEF OfPiece, IsEnvelope
  <2> QED
    BY <1>2, <2>1, <2>2
<1>7. /\ Unseen(dispatched, Of(w)) /\ Precede(Of(inbox), Of(w))
      /\ \A j \in 1 .. Len(pipe) : Precede(Of(pipe[j]), Of(w))
  BY <1>3, <1>5 DEF OrderInv, OutboxInv, Unseen, Precede
<1>8. /\ Len(pipe) \in Nat /\ Len(pipe') = Len(pipe) + 1 /\ pipe'[Len(pipe')] = w
      /\ \A j \in 1 .. Len(pipe) : pipe'[j] = pipe[j]
  BY <1>1, <1>2, <1>4, AppendProperties, LenProperties
<1>9. \A j \in 1 .. Len(pipe') : j \in 1 .. Len(pipe) \/ (j = Len(pipe') /\ j \notin 1 .. Len(pipe))
  BY <1>8
<1>10. InboxInv'
  BY <1>2 DEF OrderInv, InboxInv, Unseen
<1>11. PipeInv'
  <2>1. ASSUME NEW j \in 1 .. Len(pipe')
        PROVE  DataLast(pipe'[j]) /\ Unseen(dispatched', Of(pipe'[j])) /\ Precede(Of(inbox), Of(pipe'[j]))
    BY <1>2, <1>4, <1>7, <1>8, <1>9 DEF OrderInv, PipeInv, Unseen
  <2>2. ASSUME NEW j \in 1 .. Len(pipe'), NEW i \in 1 .. Len(pipe'), i < j
        PROVE  Precede(Of(pipe'[i]), Of(pipe'[j]))
    <3>1. i \in 1 .. Len(pipe)
      BY <1>8, <2>2
    <3>2. CASE j \in 1 .. Len(pipe)
      BY <1>8, <2>2, <3>1, <3>2 DEF OrderInv, PipeInv
    <3>3. CASE j = Len(pipe')
      BY <1>7, <1>8, <3>1, <3>3
    <3> QED
      BY <1>9, <3>2, <3>3
  <2> QED
    BY <1>2, <2>1, <2>2 DEF PipeInv
<1>12. OutboxInv'
  BY <1>2, <1>6 DEF OutboxInv, Unseen, Precede
<1> QED
  BY <1>10, <1>11, <1>12 DEF OrderInv

\* The first message leaves the pipe, and what arrives of it is the last that came.
LEMMA OrderShorterPipe ==
  ASSUME TypeInv, OrderInv, pipe # <<>>, pipe' = Tail(pipe),
         Of(inbox') \subseteq Of(inbox) \cup Of(Head(pipe)),
         UNCHANGED <<part, outbox, dispatched>>
  PROVE  Unseen(dispatched', Of(inbox')) /\ PipeInv' /\ OutboxInv'
<1>1. /\ Len(pipe) \in Nat /\ 1 \in 1 .. Len(pipe) /\ Head(pipe) = pipe[1]
      /\ \A j \in 1 .. Len(pipe') : j + 1 \in 1 .. Len(pipe) /\ pipe'[j] = pipe[j + 1]
      /\ \A j \in 1 .. Len(pipe') : 1 < j + 1
      /\ \A i, j \in 1 .. Len(pipe') : i < j => i + 1 < j + 1
  <2>1. pipe \in Seq(Seq(Frames) \ {<<>>})
    BY DEF TypeInv, TypeOK
  <2>2. /\ Len(pipe) \in Nat \ {0} /\ Head(pipe) = pipe[1] /\ Len(pipe') = Len(pipe) - 1
        /\ \A j \in 1 .. Len(pipe') : j + 1 \in 1 .. Len(pipe) /\ pipe'[j] = pipe[j + 1]
    BY <2>1, OfTail
  <2> QED
    BY <2>2
<1>2. Unseen(dispatched, Of(inbox'))
  BY <1>1 DEF OrderInv, InboxInv, PipeInv, Unseen
<1>3. ASSUME NEW j \in 1 .. Len(pipe')
      PROVE  DataLast(pipe'[j]) /\ Unseen(dispatched, Of(pipe'[j])) /\ Precede(Of(inbox'), Of(pipe'[j]))
  <2>1. /\ DataLast(pipe[j + 1]) /\ Unseen(dispatched, Of(pipe[j + 1]))
        /\ Precede(Of(inbox), Of(pipe[j + 1])) /\ Precede(Of(pipe[1]), Of(pipe[j + 1]))
    BY <1>1 DEF OrderInv, PipeInv
  <2> QED
    BY <1>1, <2>1 DEF Precede
<1>4. ASSUME NEW j \in 1 .. Len(pipe'), NEW i \in 1 .. Len(pipe'), i < j
      PROVE  Precede(Of(pipe'[i]), Of(pipe'[j]))
  <2>1. i + 1 \in 1 .. Len(pipe) /\ j + 1 \in 1 .. Len(pipe) /\ i + 1 < j + 1
    BY <1>1, <1>4
  <2>2. Precede(Of(pipe[i + 1]), Of(pipe[j + 1]))
    BY <2>1 DEF OrderInv, PipeInv
  <2> QED
    BY <1>1, <2>2
<1>5. PipeInv'
  BY <1>3, <1>4 DEF PipeInv, Unseen
<1>6. OutboxInv'
  <2>1. Precede(Of(inbox'), Of(outbox))
    BY <1>1 DEF OrderInv, OutboxInv, Precede
  <2>2. \A j \in 1 .. Len(pipe') : Precede(Of(pipe'[j]), Of(outbox))
    BY <1>1 DEF OrderInv, OutboxInv
  <2> QED
    BY <2>1, <2>2 DEF OrderInv, OutboxInv, Unseen
<1> QED
  BY <1>2, <1>5, <1>6 DEF Unseen

\* ZeroMQ moves a message on, or loses it.
LEMMA OrderNetworkStep ==
  ASSUME TypeInv, OrderInv, Arrive \/ Lose
  PROVE  OrderInv'
<1> DEFINE m == Head(pipe)
           r == Routed(m)
<1>0. TypeOK
  BY DEF TypeInv
<1>1. /\ pipe # <<>> /\ pipe' = Tail(pipe)
      /\ UNCHANGED <<part, outbox, dispatched>>
      /\ inbox' = inbox \o r \/ inbox' = inbox
  BY DEF Arrive, Lose, sender, receiver
<1>2. m \in Seq(Frames) /\ inbox \in Seq(Frames) /\ m = pipe[1] /\ 1 \in 1 .. Len(pipe)
  <2>1. pipe \in Seq(Seq(Frames) \ {<<>>})
    BY <1>0 DEF TypeOK
  <2>2. m \in Seq(Frames)
    BY <1>1, <2>1, HeadTailProperties
  <2>3. m = pipe[1] /\ Len(pipe) \in Nat \ {0}
    BY <1>1, <2>1, OfTail
  <2> QED
    BY <1>0, <2>2, <2>3 DEF TypeOK
<1> HIDE DEF m
<1>3. r \in Seq(Frames) /\ Of(r) \subseteq Of(m) /\ DataLast(r)
  BY <1>0, <1>2, RoutedFrames, RoutedTyped DEF OrderInv, PipeInv
<1> HIDE DEF r
<1>4. Of(inbox') \subseteq Of(inbox) \cup Of(m)
  BY <1>1, <1>2, <1>3, OfConcat
<1>5. Unseen(dispatched', Of(inbox')) /\ PipeInv' /\ OutboxInv'
  BY <1>1, <1>4, OrderShorterPipe DEF m
<1>6. ASSUME inbox' = inbox \o r,
             NEW k \in 1 .. Len(inbox'), NEW l \in 1 .. Len(inbox'), k < l,
             IsEnvelope(inbox'[k]), IsEnvelope(inbox'[l])
      PROVE  inbox'[k].msg < inbox'[l].msg
  <2>1. /\ Len(inbox) \in Nat /\ Len(r) \in Nat /\ Len(inbox') = Len(inbox) + Len(r)
        /\ \A j \in 1 .. Len(inbox) + Len(r) :
             inbox'[j] = IF j <= Len(inbox) THEN inbox[j] ELSE r[j - Len(inbox)]
    BY <1>2, <1>3, <1>6, ConcatProperties, LenProperties
  <2>2. CASE l <= Len(inbox)
    <3>1. k \in 1 .. Len(inbox) /\ l \in 1 .. Len(inbox) /\ k <= Len(inbox)
      BY <1>6, <2>1, <2>2
    <3>2. inbox'[k] = inbox[k] /\ inbox'[l] = inbox[l]
      BY <2>1, <2>2, <3>1
    <3> QED
      BY <1>6, <3>1, <3>2 DEF OrderInv, InboxInv
  <2>3. CASE k <= Len(inbox) /\ ~(l <= Len(inbox))
    <3>1. k \in 1 .. Len(inbox) /\ l - Len(inbox) \in 1 .. Len(r)
      BY <2>1, <2>3
    <3>2. inbox'[k] = inbox[k] /\ inbox'[l] = r[l - Len(inbox)]
      BY <2>1, <2>3
    <3>3. inbox'[k] \in Of(inbox) /\ inbox'[l] \in Of(m)
      BY <1>3, <3>1, <3>2 DEF Of
    <3> QED
      BY <1>2, <1>6, <3>3 DEF OrderInv, PipeInv, Precede
  <2>4. CASE ~(k <= Len(inbox)) /\ ~(l <= Len(inbox))
    <3>1. /\ k - Len(inbox) \in 1 .. Len(r) /\ l - Len(inbox) \in 1 .. Len(r)
          /\ k - Len(inbox) # l - Len(inbox)
      BY <1>6, <2>1, <2>4
    <3>2. inbox'[k] = r[k - Len(inbox)] /\ inbox'[l] = r[l - Len(inbox)]
      BY <2>1, <2>4
    <3> QED
      BY <1>3, <1>6, <3>1, <3>2 DEF DataLast, IsEnvelope
  <2> QED
    BY <1>6, <2>1, <2>2, <2>3, <2>4
<1>7. CASE inbox' = inbox \o r
  BY <1>5, <1>6, <1>7 DEF OrderInv, InboxInv
<1>8. CASE inbox' = inbox
  BY <1>5, <1>8 DEF OrderInv, InboxInv
<1> QED
  BY <1>1, <1>7, <1>8

\* receive() takes the first frame, and may dispatch it.
LEMMA OrderReceiveStep ==
  ASSUME TypeInv, OrderInv, Receive
  PROVE  OrderInv'
<1>1. /\ UNCHANGED <<pipe, part, outbox>>
      /\ \/ UNCHANGED <<inbox, dispatched>>
         \/ inbox # <<>> /\ inbox' = Tail(inbox) /\ UNCHANGED dispatched
         \/ /\ inbox # <<>> /\ inbox' = Tail(inbox) /\ IsEnvelope(Head(inbox))
            /\ dispatched' = Append(dispatched, Head(inbox).msg)
  BY DEF Receive, ReadSpacer, ReadNothing, ReadEnvelope, ReadRubbish, ReadObject,
     ReadIntoGarbage, ReadsData, IsEnvelope, sender
<1>2. CASE UNCHANGED <<inbox, dispatched>>
  BY <1>1, <1>2, OrderUnchanged
<1>3. CASE inbox # <<>> /\ inbox' = Tail(inbox)
  <2>1. /\ Head(inbox) = inbox[1] /\ inbox[1] \in Of(inbox) /\ Of(inbox') \subseteq Of(inbox)
        /\ \A k \in 1 .. Len(inbox') : k + 1 \in 1 .. Len(inbox) /\ inbox'[k] = inbox[k + 1]
        /\ Len(inbox) \in Nat \ {0} /\ Len(inbox') = Len(inbox) - 1
    BY <1>3, OfTail DEF TypeInv, TypeOK
  <2>2. \A k, l \in 1 .. Len(inbox') : k < l => k + 1 < l + 1
    BY <2>1
  <2>3. \A k \in 1 .. Len(inbox') : 1 < k + 1 /\ 1 \in 1 .. Len(inbox)
    BY <2>1
  <2>4. \A k, l \in 1 .. Len(inbox') :
          k < l /\ IsEnvelope(inbox'[k]) /\ IsEnvelope(inbox'[l]) => inbox'[k].msg < inbox'[l].msg
    BY <2>1, <2>2 DEF OrderInv, InboxInv
  <2>5. /\ Precede(Of(inbox'), Of(outbox))
        /\ \A j \in 1 .. Len(pipe) : Precede(Of(inbox'), Of(pipe[j]))
    BY <2>1 DEF OrderInv, PipeInv, OutboxInv, Precede
  <2>6. /\ Unseen(dispatched', Of(inbox')) /\ Unseen(dispatched', Of(outbox'))
        /\ \A j \in 1 .. Len(pipe) : Unseen(dispatched', Of(pipe[j]))
    <3>1. /\ Unseen(dispatched, Of(inbox')) /\ Unseen(dispatched, Of(outbox))
          /\ \A j \in 1 .. Len(pipe) : Unseen(dispatched, Of(pipe[j]))
      BY <2>1 DEF OrderInv, InboxInv, PipeInv, OutboxInv, Unseen
    <3>2. CASE UNCHANGED dispatched
      BY <1>1, <3>1, <3>2 DEF Unseen
    <3>3. CASE IsEnvelope(Head(inbox)) /\ dispatched' = Append(dispatched, Head(inbox).msg)
      <4>1. \A y \in Of(inbox') : IsEnvelope(y) => Head(inbox).msg < y.msg
        <5>1. ASSUME NEW k \in 1 .. Len(inbox'), IsEnvelope(inbox'[k])
              PROVE  Head(inbox).msg < inbox'[k].msg
          <6>1. /\ k + 1 \in 1 .. Len(inbox) /\ 1 \in 1 .. Len(inbox) /\ 1 < k + 1
                /\ Head(inbox) = inbox[1] /\ inbox'[k] = inbox[k + 1]
            BY <2>1, <2>3
          <6>2. IsEnvelope(inbox[1]) /\ IsEnvelope(inbox[k + 1])
            BY <3>3, <5>1, <6>1
          <6>3. inbox[1].msg < inbox[k + 1].msg
            BY <6>1, <6>2 DEF OrderInv, InboxInv
          <6> QED
            BY <6>1, <6>3
        <5> QED
          BY <5>1 DEF Of
      <4>2. \A y \in Of(outbox) : IsEnvelope(y) => Head(inbox).msg < y.msg
        BY <2>1, <3>3 DEF OrderInv, OutboxInv, Precede
      <4>3. \A j \in 1 .. Len(pipe) : \A y \in Of(pipe[j]) :
              IsEnvelope(y) => Head(inbox).msg < y.msg
        BY <2>1, <3>3 DEF OrderInv, PipeInv, Precede
      <4>4. \A k \in 1 .. Len(dispatched') :
              \/ k \in 1 .. Len(dispatched) /\ dispatched'[k] = dispatched[k]
              \/ dispatched'[k] = Head(inbox).msg
        <5>1. /\ dispatched \in Seq(1 .. Len(sent)) /\ Head(inbox).msg \in 1 .. Len(sent)
          <6>1. inbox \in Seq(Frames) /\ dispatched \in Seq(1 .. Len(sent))
            BY DEF TypeInv, TypeOK
          <6>2. Head(inbox) \in Frames
            BY <1>3, <6>1, HeadTailProperties
          <6> QED
            BY <6>1, <6>2 DEF Frames
        <5>2. /\ Len(dispatched) \in Nat /\ Len(dispatched') = Len(dispatched) + 1
              /\ \A k \in 1 .. Len(dispatched) : dispatched'[k] = dispatched[k]
              /\ dispatched'[Len(dispatched) + 1] = Head(inbox).msg
          BY <3>3, <5>1, AppendProperties, LenProperties
        <5> QED
          BY <5>2
      <4> QED
        BY <1>1, <3>1, <4>1, <4>2, <4>3, <4>4 DEF Unseen
    <3> QED
      BY <1>1, <3>2, <3>3, <1>3
  <2> QED
    BY <1>1, <2>4, <2>5, <2>6 DEF OrderInv, InboxInv, PipeInv, OutboxInv
<1> QED
  BY <1>1, <1>2, <1>3

\* At first there are no frames.
LEMMA OrderInit == Init => OrderInv
BY DEF Init, OrderInv, InboxInv, PipeInv, OutboxInv, Unseen, Precede, Of, DataLast

\* Every step keeps the order.
LEMMA OrderStep == TypeInv /\ OrderInv /\ [Next]_vars => OrderInv'
<1> SUFFICES ASSUME TypeInv, OrderInv, [Next]_vars PROVE OrderInv'
  OBVIOUS
<1>1. CASE PushSocketIdentity \/ ClearSocketIdentities \/ BeginReceive \/ UNCHANGED vars
  BY <1>1, OrderUnchanged DEF PushSocketIdentity, ClearSocketIdentities, BeginReceive, vars,
     sender, receiver
<1>2. CASE \E objects \in 0 .. setting.objects : BeginSend(objects)
  BY <1>2, OrderBeginSend
<1>3. CASE AcceptFrame \/ SkipFrame \/ SendFails
  BY <1>3, OrderShorterOutbox DEF AcceptFrame, SkipFrame, SendFails, receiver
<1>4. CASE AcceptData
  BY <1>4, OrderAcceptData
<1>5. CASE Arrive \/ Lose
  BY <1>5, OrderNetworkStep
<1>6. CASE Receive
  BY <1>6, OrderReceiveStep
<1> QED
  BY <1>1, <1>2, <1>3, <1>4, <1>5, <1>6 DEF Next

-----------------------------------------------------------------------------
(* The envelopes are a message stream.                                         *)

Announced == [n \in DOMAIN sent |-> <<>>]
Handed == [k \in DOMAIN dispatched |-> [msg |-> dispatched[k], objects |-> {}]]

\* An envelope is sent.
LEMMA SendIsSend ==
  ASSUME TypeInv, NEW objects \in 0 .. setting.objects, BeginSend(objects)
  PROVE  Envelopes!Send(<<>>)
<1> DEFINE item == [objects |-> objects, ids |-> identities]
           Items == [objects : 0 .. setting.objects, ids : 0 .. setting.routers]
<1>1. sent' = Append(sent, item) /\ dispatched' = dispatched /\ Len(sent) < MaxMessages
  BY DEF BeginSend, receiver
<1>2. sent \in Seq(Items) /\ item \in Items
  BY DEF TypeInv, TypeOK
<1> HIDE DEF item, Items
<1>3. /\ Len(sent) \in Nat /\ DOMAIN sent = 1 .. Len(sent)
      /\ Len(sent') = Len(sent) + 1 /\ DOMAIN sent' = 1 .. Len(sent) + 1
  BY <1>1, <1>2, AppendProperties, LenProperties
<1>4. /\ Announced \in Seq({<<>>}) /\ Len(Announced) = Len(sent)
      /\ \A k \in 1 .. Len(sent) : Announced[k] = <<>>
  BY <1>3 DEF Announced
<1>5. /\ Announced' \in Seq({<<>>}) /\ Len(Announced') = Len(sent) + 1
      /\ \A k \in 1 .. Len(sent) + 1 : Announced'[k] = <<>>
  BY <1>3 DEF Announced
<1> HIDE DEF Announced
<1>6. Announced' = Append(Announced, <<>>)
  <2>1. <<>> \in {<<>>}
    OBVIOUS
  <2>2. /\ Append(Announced, <<>>) \in Seq({<<>>})
        /\ Len(Append(Announced, <<>>)) = Len(sent) + 1
        /\ \A k \in 1 .. Len(sent) : Append(Announced, <<>>)[k] = <<>>
        /\ Append(Announced, <<>>)[Len(sent) + 1] = <<>>
    BY <1>4, <2>1, AppendProperties
  <2>3. \A k \in 1 .. Len(sent) + 1 : Announced'[k] = Append(Announced, <<>>)[k]
    BY <1>3, <1>5, <2>2
  <2> QED
    BY <1>5, <2>2, <2>3, SeqEqual
<1>7. Len(Announced) < MaxMessages /\ UNCHANGED Handed
  BY <1>1, <1>4 DEF Handed
<1> QED
  BY <1>6, <1>7 DEF Envelopes!Send, Announced, Handed

\* An envelope is dispatched.
LEMMA DispatchIsDeliver ==
  ASSUME TypeInv, OrderInv, ReadEnvelope
  PROVE  \E n \in DOMAIN Announced : Envelopes!Deliver(n)
<1>0. /\ inbox \in Seq(Frames) /\ dispatched \in Seq(1 .. Len(sent))
      /\ DOMAIN sent = 1 .. Len(sent) /\ inbox # <<>>
      /\ Head(inbox) \in Frames /\ Head(inbox) \in Of(inbox)
  <2>1. /\ inbox \in Seq(Frames) /\ dispatched \in Seq(1 .. Len(sent))
        /\ DOMAIN sent = 1 .. Len(sent) /\ inbox # <<>>
    BY LenProperties DEF TypeInv, TypeOK, ReadEnvelope, ReadsData
  <2> QED
    BY <2>1, HeadTailProperties, OfTail
<1>1. PICK n \in 1 .. Len(sent) : n = Head(inbox).msg
  BY <1>0 DEF Frames
<1> DEFINE x == [msg |-> n, objects |-> {}]
           D == [msg : 1 .. Len(sent), objects : {{}}]
<1>2. /\ IsEnvelope(Head(inbox)) /\ dispatched' = Append(dispatched, n) /\ sent' = sent
      /\ n \in DOMAIN Announced /\ Announced[n] = <<>>
  BY <1>0, <1>1 DEF ReadEnvelope, ReadsData, IsEnvelope, sender, Announced
<1>3. \A k \in 1 .. Len(dispatched) : dispatched[k] < n
  BY <1>0, <1>1, <1>2 DEF OrderInv, InboxInv, Unseen
<1>4. /\ Len(dispatched) \in Nat /\ DOMAIN dispatched = 1 .. Len(dispatched)
      /\ DOMAIN dispatched' = 1 .. Len(dispatched) + 1
      /\ \A k \in 1 .. Len(dispatched) : dispatched[k] \in 1 .. Len(sent) /\ dispatched'[k] = dispatched[k]
      /\ dispatched'[Len(dispatched) + 1] = n
  <2>1. dispatched' \in Seq(1 .. Len(sent))
    BY <1>0, <1>2, AppendProperties
  <2> QED
    BY <1>0, <1>2, <2>1, AppendProperties, LenProperties, ElementOfSeq
<1>5. /\ Handed \in Seq(D) /\ Len(Handed) = Len(dispatched) /\ DOMAIN Handed = 1 .. Len(dispatched)
      /\ \A k \in 1 .. Len(dispatched) : Handed[k] = [msg |-> dispatched[k], objects |-> {}]
  BY <1>4 DEF Handed
<1>6. /\ Handed' \in Seq(D) /\ Len(Handed') = Len(dispatched) + 1
      /\ \A k \in 1 .. Len(dispatched) : Handed'[k] = [msg |-> dispatched[k], objects |-> {}]
      /\ Handed'[Len(dispatched) + 1] = x
  <2>1. /\ DOMAIN Handed' = 1 .. Len(dispatched) + 1
        /\ \A k \in 1 .. Len(dispatched) + 1 : Handed'[k] = [msg |-> dispatched'[k], objects |-> {}]
        /\ Handed' = [k \in 1 .. Len(dispatched) + 1 |-> [msg |-> dispatched'[k], objects |-> {}]]
    BY <1>4 DEF Handed
  <2>2. \A k \in 1 .. Len(dispatched) + 1 : dispatched'[k] \in 1 .. Len(sent)
    BY <1>2, <1>4
  <2>3. Handed' \in Seq(D) /\ Len(Handed') = Len(dispatched) + 1
    BY <1>4, <2>1, <2>2
  <2>4. \A k \in 1 .. Len(dispatched) : k \in 1 .. Len(dispatched) + 1
    BY <1>4
  <2>5. Len(dispatched) + 1 \in 1 .. Len(dispatched) + 1
    BY <1>4
  <2>6. \A k \in 1 .. Len(dispatched) : Handed'[k] = [msg |-> dispatched[k], objects |-> {}]
    BY <1>4, <2>1, <2>4
  <2>7. Handed'[Len(dispatched) + 1] = x
    BY <1>4, <2>1, <2>5
  <2> QED
    BY <2>3, <2>6, <2>7
<1> HIDE DEF x, D
<1>7. Handed' = Append(Handed, x)
  <2>1. x \in D
    BY <1>2 DEF x, D
  <2>2. /\ Append(Handed, x) \in Seq(D) /\ Len(Append(Handed, x)) = Len(dispatched) + 1
        /\ \A k \in 1 .. Len(dispatched) : Append(Handed, x)[k] = Handed[k]
        /\ Append(Handed, x)[Len(dispatched) + 1] = x
    BY <1>5, <2>1, AppendProperties
  <2>3. \A k \in 1 .. Len(dispatched) + 1 : Handed'[k] = Append(Handed, x)[k]
    BY <1>4, <1>5, <1>6, <2>2
  <2> QED
    BY <1>6, <2>2, <2>3, SeqEqual
<1>8. x = [msg |-> n, objects |-> Envelopes!OwnObjects(n, Announced[n])]
  <2>1. DOMAIN Announced[n] = {}
    BY <1>2
  <2> QED
    BY <2>1 DEF Envelopes!OwnObjects, x
<1>9. \A k \in DOMAIN Handed : Handed[k].msg < n
  BY <1>3, <1>5
<1>10. UNCHANGED Announced
  BY <1>2 DEF Announced
<1>11. Envelopes!Deliver(n)
  BY <1>7, <1>8, <1>9, <1>10 DEF Envelopes!Deliver, Announced, Handed
<1> QED
  BY <1>2, <1>11

\* Every step of the channel is one of the message stream, or none.
LEMMA StreamStep ==
  TypeInv /\ OrderInv /\ [Next]_vars => [Envelopes!Next]_(Envelopes!vars)
<1> SUFFICES ASSUME TypeInv, OrderInv, [Next]_vars
             PROVE  [Envelopes!Next]_(Envelopes!vars)
  OBVIOUS
<1>1. CASE \E objects \in 0 .. setting.objects : BeginSend(objects)
  BY <1>1, SendIsSend DEF Envelopes!Next
<1>2. CASE ReadEnvelope
  BY <1>2, DispatchIsDeliver DEF Envelopes!Next, Announced
<1>3. CASE UNCHANGED <<sent, dispatched>>
  BY <1>3 DEF Envelopes!vars
<1>4. \/ \E objects \in 0 .. setting.objects : BeginSend(objects)
      \/ ReadEnvelope \/ UNCHANGED <<sent, dispatched>>
  BY DEF Next, vars, sender, receiver, PushSocketIdentity, ClearSocketIdentities, AcceptFrame,
     AcceptData, SkipFrame, SendFails, Arrive, Lose, BeginReceive, Receive, ReadSpacer,
     ReadNothing, ReadRubbish, ReadObject, ReadIntoGarbage, ReadsData
<1> QED
  BY <1>1, <1>2, <1>3, <1>4

\* Whatever frames are left out, taken for others or lost, the channel keeps the
\* promise of MessageStream for its envelopes.
THEOREM EnvelopesKeepOrder == Spec => EnvelopeStream
<1>1. Init => Envelopes!Init
  BY DEF Init, Envelopes!Init
<1>2. Init => TypeInv /\ OrderInv
  BY TypeInit, OrderInit
<1>3. TypeInv /\ OrderInv /\ [Next]_vars => (TypeInv /\ OrderInv)'
  BY TypeStep, OrderStep
<1> QED
  BY <1>1, <1>2, <1>3, StreamStep, PTL DEF Spec, EnvelopeStream, Envelopes!Spec

-----------------------------------------------------------------------------
(* A receiver that has read all that came is in step: a whole envelope that     *)
(* then arrives is the next data it reads.                                      *)

\* Where in the inbox the next data is that receive() reads.
NextData == IF at = "spacer" \/ (at = "idle" /\ setting.spaced) THEN 2 ELSE 1

InStep(n) ==
  /\ reading = NoMessage /\ at # "crashed"
  /\ NextData \in 1 .. Len(inbox) /\ inbox[NextData] = Frame("data", n, 0)

StepInv ==
  /\ at = "idle" => reading = NoMessage
  /\ \A n \in fresh : Dispatched(n) \/ InStep(n)

\* What is left of a whole envelope behind the routers.
LEMMA RoutedEnvelope ==
  ASSUME TypeOK, NEW n \in Nat
  PROVE  LET r == Routed(FramesOf(setting.routers, n, 0))
             size == IF setting.spaced THEN 2 ELSE 1
         IN  Len(r) = size /\ r[size] = Frame("data", n, 0)
<1> DEFINE ids == setting.routers
           f == FramesOf(ids, n, 0)
           size == IF setting.spaced THEN 2 ELSE 1
           S == [kind : Kinds, msg : {n}, piece : Nat]
<1>1. ids \in Nat /\ size \in 1 .. 2 /\ FrameCount(ids) = ids + size
  BY Setting DEF FrameCount
<1> HIDE DEF ids, size, S
<1>2. /\ f \in Seq(S) /\ Len(f) = ids + size /\ DOMAIN f = 1 .. ids + size
      /\ f[ids + size] = Frame("data", n, 0)
  <2>1. f \in Seq(S) /\ Len(f) = ids + size /\ f[ids + size] = Frame("data", n, 0)
    <3>1. 0 \in Nat
      OBVIOUS
    <3>2. f \in Seq([kind : Kinds, msg : {n}, piece : Nat])
      BY <1>1, <3>1, FramesOfProperties
    <3>3. Len(f) = FrameCount(ids) /\ f[FrameCount(ids)] = Frame("data", n, 0)
      BY <1>1, <3>1, FramesOfProperties
    <3> QED
      BY <1>1, <3>2, <3>3 DEF S
  <2> QED
    BY <2>1, LenProperties
<1>3. \A k \in 1 .. ids : f[k] = Frame("identity", n, 0)
  <2>1. 0 \in Nat
    OBVIOUS
  <2> QED
    BY <1>1, <2>1, FramesOfProperties
<1> HIDE DEF f
<1>4. \A k \in 1 .. ids : k \in DOMAIN f /\ f[k].kind = "identity"
  BY <1>1, <1>2, <1>3 DEF Frame
<1>5. Routed(f) = SubSeq(f, ids + 1, Len(f))
  BY <1>4 DEF Routed, ids
<1> DEFINE g == SubSeq(f, ids + 1, Len(f))
<1>6. Len(g) = size /\ g[size] = Frame("data", n, 0)
  <2>1. /\ ids + 1 \in Nat /\ Len(f) \in Nat
        /\ \A k \in ids + 1 .. Len(f) : k \in 1 .. Len(f) /\ f[k] \in S
    BY <1>1, <1>2, ElementOfSeq
  <2>2. /\ Len(g) = IF ids + 1 <= Len(f) THEN Len(f) - (ids + 1) + 1 ELSE 0
        /\ \A k \in 1 .. Len(f) - (ids + 1) + 1 : g[k] = f[(ids + 1) + k - 1]
    BY <2>1, SubSeqProperties
  <2> HIDE DEF g
  <2>3. /\ ids + 1 <= Len(f) /\ Len(f) - (ids + 1) + 1 = size
        /\ size \in 1 .. size /\ (ids + 1) + size - 1 = ids + size
    BY <1>1, <1>2
  <2> QED
    BY <1>2, <2>2, <2>3
<1> QED
  BY <1>5, <1>6 DEF f, ids, size

\* What was dispatched stays dispatched.
LEMMA DispatchedStays ==
  ASSUME TypeInv, NEW n, Dispatched(n),
         \/ dispatched' = dispatched
         \/ \E m \in 1 .. Len(sent) : dispatched' = Append(dispatched, m)
  PROVE  Dispatched(n)'
<1>1. CASE dispatched' = dispatched
  BY <1>1 DEF Dispatched
<1>2. ASSUME NEW m \in 1 .. Len(sent), dispatched' = Append(dispatched, m)
      PROVE  Dispatched(n)'
  <2>1. dispatched \in Seq(1 .. Len(sent))
    BY DEF TypeInv, TypeOK
  <2>2. /\ dispatched' \in Seq(1 .. Len(sent)) /\ Len(dispatched) \in Nat
        /\ Len(dispatched') = Len(dispatched) + 1
        /\ \A k \in 1 .. Len(dispatched) : dispatched'[k] = dispatched[k]
    BY <1>2, <2>1, AppendProperties, LenProperties
  <2>3. DOMAIN dispatched = 1 .. Len(dispatched) /\ DOMAIN dispatched' = 1 .. Len(dispatched) + 1
    BY <2>1, <2>2, LenProperties
  <2>4. \A k \in DOMAIN dispatched : k \in DOMAIN dispatched' /\ dispatched'[k] = dispatched[k]
    BY <2>2, <2>3
  <2> QED
    BY <2>4 DEF Dispatched
<1> QED
  BY <1>1, <1>2

\* A message arrives.
LEMMA InStepArrive ==
  ASSUME TypeInv, StepInv, Arrive
  PROVE  StepInv'
<1> DEFINE m == Head(pipe)
           r == Routed(m)
<1>0. TypeOK
  BY DEF TypeInv
<1>1. /\ pipe # <<>> /\ inbox' = inbox \o r
      /\ UNCHANGED <<setting, at, reading, dispatched>>
      /\ \/ fresh' = fresh
         \/ /\ at = "idle" /\ inbox = <<>> /\ m = FramesOf(setting.routers, Last(m).msg, 0)
            /\ fresh' = fresh \cup {Last(m).msg}
  BY DEF Arrive, receiver
<1>2. inbox \in Seq(Frames) /\ m \in Seq(Frames) /\ m # <<>> /\ Last(m).msg \in Nat
  <2>1. pipe \in Seq(Seq(Frames) \ {<<>>}) /\ inbox \in Seq(Frames)
    BY <1>0 DEF TypeOK
  <2>2. m \in Seq(Frames) /\ m # <<>>
    BY <1>1, <2>1, HeadTailProperties
  <2> HIDE DEF m
  <2>3. Len(m) \in 1 .. Len(m)
    BY <2>2, EmptySeq
  <2>4. m[Len(m)] \in Frames
    BY <2>2, <2>3, ElementOfSeq
  <2> QED
    BY <2>1, <2>2, <2>4 DEF Last, Frames
<1> HIDE DEF m
<1>3. r \in Seq(Frames)
  BY <1>0, <1>2, RoutedTyped
<1>4. /\ Len(inbox) \in Nat /\ Len(r) \in Nat /\ Len(inbox') = Len(inbox) + Len(r)
      /\ \A k \in 1 .. Len(inbox) + Len(r) :
           inbox'[k] = IF k <= Len(inbox) THEN inbox[k] ELSE r[k - Len(inbox)]
  BY <1>1, <1>2, <1>3, ConcatProperties, LenProperties
<1> HIDE DEF r
<1>5. NextData' = NextData /\ NextData \in 1 .. 2
  BY <1>1 DEF NextData
<1>6. ASSUME NEW n \in fresh
      PROVE  Dispatched(n)' \/ InStep(n)'
  <2>1. CASE Dispatched(n)
    BY <1>0, <1>1, <2>1, DispatchedStays
  <2>2. CASE InStep(n)
    <3>1. NextData \in 1 .. Len(inbox) + Len(r) /\ NextData <= Len(inbox)
      BY <1>4, <1>5, <2>2 DEF InStep
    <3>2. inbox'[NextData] = inbox[NextData]
      BY <1>4, <3>1
    <3>3. NextData' \in 1 .. Len(inbox') /\ inbox'[NextData'] = Frame("data", n, 0)
      BY <1>4, <1>5, <2>2, <3>1, <3>2 DEF InStep
    <3> QED
      BY <1>1, <2>2, <3>3 DEF InStep
  <2> QED
    BY <2>1, <2>2 DEF StepInv
<1>7. ASSUME at = "idle", inbox = <<>>, NEW n \in Nat, m = FramesOf(setting.routers, n, 0)
      PROVE  InStep(n)'
  <2>1. Len(r) = NextData /\ r[NextData] = Frame("data", n, 0)
    <3>1. NextData = IF setting.spaced THEN 2 ELSE 1
      BY <1>7 DEF NextData
    <3> QED
      BY <1>0, <1>7, <3>1, RoutedEnvelope DEF r
  <2>2. Len(inbox) = 0
    BY <1>7
  <2>3. /\ NextData \in 1 .. Len(inbox) + Len(r) /\ ~(NextData <= Len(inbox))
        /\ NextData - Len(inbox) = NextData
    BY <1>5, <2>1, <2>2
  <2>4. inbox'[NextData] = r[NextData]
    BY <1>4, <2>3
  <2>5. reading = NoMessage /\ at # "crashed"
    BY <1>7 DEF StepInv
  <2>6. NextData' \in 1 .. Len(inbox') /\ inbox'[NextData'] = Frame("data", n, 0)
    BY <1>4, <1>5, <2>1, <2>3, <2>4
  <2> QED
    BY <1>1, <2>5, <2>6 DEF InStep
<1>8. \A n \in fresh' : Dispatched(n)' \/ InStep(n)'
  BY <1>1, <1>2, <1>6, <1>7
<1> QED
  BY <1>1, <1>8 DEF StepInv

\* receive() goes on.
LEMMA InStepReceive ==
  ASSUME TypeInv, StepInv, BeginReceive \/ Receive
  PROVE  StepInv'
<1>0. TypeOK
  BY DEF TypeInv
<1>1. (at = "idle" => reading = NoMessage)' /\ fresh' = fresh /\ setting' = setting
  BY DEF StepInv, BeginReceive, FirstRead, Receive, ReadSpacer, ReadNothing, ReadEnvelope,
     ReadRubbish, ReadObject, ReadIntoGarbage, ReadsData, ReturnFromReceive, sender
<1>2. inbox # <<>> =>
        /\ Head(inbox) = inbox[1] /\ Head(inbox).msg \in 1 .. Len(sent)
        /\ Len(inbox) \in Nat /\ Len(Tail(inbox)) = Len(inbox) - 1
        /\ \A k \in 1 .. Len(Tail(inbox)) : Tail(inbox)[k] = inbox[k + 1]
  <2> SUFFICES ASSUME inbox # <<>>
               PROVE  /\ Head(inbox) = inbox[1] /\ Head(inbox).msg \in 1 .. Len(sent)
                      /\ Len(inbox) \in Nat /\ Len(Tail(inbox)) = Len(inbox) - 1
                      /\ \A k \in 1 .. Len(Tail(inbox)) : Tail(inbox)[k] = inbox[k + 1]
    OBVIOUS
  <2>1. inbox \in Seq(Frames)
    BY <1>0 DEF TypeOK
  <2>2. Head(inbox) \in Frames
    BY <2>1, HeadTailProperties
  <2> QED
    BY <2>1, <2>2, OfTail DEF Frames
<1>3. \/ dispatched' = dispatched
      \/ \E n \in 1 .. Len(sent) : dispatched' = Append(dispatched, n)
  BY <1>2 DEF BeginReceive, Receive, ReadSpacer, ReadNothing, ReadEnvelope, ReadRubbish,
     ReadObject, ReadIntoGarbage, ReadsData
<1>4. ASSUME NEW n, InStep(n)
      PROVE  Dispatched(n)' \/ InStep(n)'
  <2>1. CASE BeginReceive
    <3>1. NextData' = NextData
      BY <2>1 DEF BeginReceive, FirstRead, NextData
    <3> QED
      BY <1>4, <2>1, <3>1 DEF BeginReceive, FirstRead, InStep
  <2>2. CASE ReadSpacer
    <3>1. NextData = 2 /\ NextData' = 1 /\ 2 \in 1 .. Len(inbox)
      BY <1>4, <2>2 DEF ReadSpacer, NextData, InStep
    <3>2. inbox # <<>> /\ inbox' = Tail(inbox)
      BY <2>2, <3>1 DEF ReadSpacer
    <3>3. 1 \in 1 .. Len(inbox') /\ inbox'[1] = inbox[2]
      BY <1>2, <3>1, <3>2
    <3> QED
      BY <1>4, <2>2, <3>1, <3>3 DEF ReadSpacer, InStep
  <2>3. CASE ReadEnvelope
    <3>1. inbox # <<>> /\ dispatched' = Append(dispatched, Head(inbox).msg) /\ at = "data"
      BY <2>3 DEF ReadEnvelope, ReadsData
    <3>2. inbox[1] = Frame("data", n, 0)
      BY <1>4, <3>1 DEF NextData, InStep
    <3>3. n = Head(inbox).msg /\ n \in 1 .. Len(sent)
      BY <1>2, <3>1, <3>2 DEF Frame
    <3>4. DOMAIN dispatched' = 1 .. Len(dispatched) + 1 /\ dispatched'[Len(dispatched) + 1] = n
          /\ Len(dispatched) \in Nat
      <4>1. dispatched \in Seq(1 .. Len(sent)) /\ dispatched' = Append(dispatched, n)
        BY <1>0, <3>1, <3>3 DEF TypeOK
      <4>2. dispatched' \in Seq(1 .. Len(sent)) /\ Len(dispatched') = Len(dispatched) + 1
            /\ dispatched'[Len(dispatched) + 1] = n /\ Len(dispatched) \in Nat
        BY <3>3, <4>1, AppendProperties, LenProperties
      <4> QED
        BY <4>2, LenProperties
    <3>5. Len(dispatched) + 1 \in DOMAIN dispatched'
      BY <3>4
    <3> QED
      BY <3>4, <3>5 DEF Dispatched
  <2>4. ~ReadNothing /\ ~ReadRubbish /\ ~ReadObject /\ ~ReadIntoGarbage
    <3>1. CASE at = "data" /\ inbox # <<>>
      <4>1. Head(inbox) = Frame("data", n, 0)
        BY <1>2, <1>4, <3>1 DEF NextData, InStep
      <4> QED
        BY <1>4, <3>1, <4>1
           DEF ReadNothing, ReadRubbish, ReadObject, ReadIntoGarbage, InStep, Frame
    <3>2. CASE at = "data" /\ inbox = <<>>
      <4>1. NextData = 1 /\ Len(inbox) = 0
        BY <3>2 DEF NextData
      <4> QED
        BY <1>4, <4>1 DEF InStep
    <3>3. CASE at # "data"
      BY <3>3 DEF ReadNothing, ReadRubbish, ReadObject, ReadIntoGarbage, ReadsData
    <3> QED
      BY <3>1, <3>2, <3>3
  <2> QED
    BY <2>1, <2>2, <2>3, <2>4 DEF Receive
<1>5. \A n \in fresh : Dispatched(n)' \/ InStep(n)'
  BY <1>3, <1>4, DispatchedStays DEF StepInv
<1> QED
  BY <1>1, <1>5 DEF StepInv

\* Every step keeps the receiver in step with what is fresh.
LEMMA InStepStep == TypeInv /\ StepInv /\ [Next]_vars => StepInv'
<1> SUFFICES ASSUME TypeInv, StepInv, [Next]_vars PROVE StepInv'
  OBVIOUS
<1>1. CASE Arrive
  BY <1>1, InStepArrive
<1>2. CASE BeginReceive \/ Receive
  BY <1>2, InStepReceive
<1>3. CASE UNCHANGED <<setting, inbox, receiver, fresh>>
  BY <1>3 DEF StepInv, InStep, NextData, Dispatched, receiver
<1> QED
  BY <1>1, <1>2, <1>3 DEF Next, vars, PushSocketIdentity, ClearSocketIdentities, BeginSend,
     AcceptFrame, AcceptData, SkipFrame, SendFails, Lose

\* No envelope that arrived whole while receive() had nothing left to read is
\* overtaken by a later one.
THEOREM FreshNotOvertaken == Spec => []BackInStep
<1>1. Init => TypeInv /\ OrderInv /\ StepInv
  <2>1. Init => StepInv
    BY DEF Init, StepInv
  <2> QED
    BY <2>1, TypeInit, OrderInit
<1>2. TypeInv /\ OrderInv /\ StepInv /\ [Next]_vars => (TypeInv /\ OrderInv /\ StepInv)'
  BY TypeStep, OrderStep, InStepStep
<1>3. TypeInv /\ OrderInv /\ StepInv => BackInStep
  <2> SUFFICES ASSUME TypeInv, OrderInv, StepInv,
                      NEW n \in fresh, NEW k \in DOMAIN dispatched, dispatched[k] > n
               PROVE  Dispatched(n)
    BY DEF BackInStep
  <2>1. n \in Nat /\ dispatched[k] \in Nat /\ k \in 1 .. Len(dispatched)
    <3>1. dispatched \in Seq(1 .. Len(sent)) /\ fresh \subseteq 1 .. Len(sent)
      BY DEF TypeInv, TypeOK
    <3> QED
      BY <3>1, LenProperties, ElementOfSeq
  <2>2. ASSUME InStep(n) PROVE FALSE
    <3>1. Frame("data", n, 0) \in Of(inbox) /\ IsEnvelope(Frame("data", n, 0))
      BY <2>2 DEF InStep, Of, IsEnvelope, Frame
    <3>2. dispatched[k] < Frame("data", n, 0).msg
      BY <2>1, <3>1 DEF OrderInv, InboxInv, Unseen
    <3> QED
      BY <2>1, <3>2 DEF Frame
  <2> QED
    BY <2>2 DEF StepInv
<1> QED
  BY <1>1, <1>2, <1>3, PTL DEF Spec

-----------------------------------------------------------------------------
(* The order of socket identities: for any bytes and any capacity.             *)

\* Bytes are integers.
LEMMA BytesAreIntegers ==
  ASSUME NEW x \in Identities, NEW i \in 0 .. Capacity
  PROVE  x.data[i] \in Int
BY IdentityAssumption DEF Identities

\* No identity precedes itself.
THEOREM Irreflexive == \A x \in Identities : ~Less(x, x)
BY IdentityAssumption, BytesAreIntegers DEF Less, Identities

(* The order is transitive: with the next theorem, a strict weak order.        *)
THEOREM Transitive ==
  ASSUME NEW x \in Identities, NEW y \in Identities, NEW z \in Identities,
         Less(x, y), Less(y, z)
  PROVE  Less(x, z)
<1>1. x.size \in Nat /\ y.size \in Nat /\ z.size \in Nat
      /\ x.size <= Capacity /\ y.size <= Capacity /\ z.size <= Capacity
  BY IdentityAssumption DEF Identities
<1>2. CASE x.size < z.size
  BY <1>2 DEF Less
<1>3. CASE x.size >= z.size
  <2>1. x.size = y.size /\ y.size = z.size
    BY <1>1, <1>3 DEF Less
  <2>2. PICK i \in 0 .. x.size - 1 :
          x.data[i] < y.data[i] /\ \A k \in 0 .. i - 1 : x.data[k] = y.data[k]
    BY <1>1, <2>1 DEF Less
  <2>3. PICK j \in 0 .. x.size - 1 :
          y.data[j] < z.data[j] /\ \A k \in 0 .. j - 1 : y.data[k] = z.data[k]
    BY <1>1, <2>1 DEF Less
  <2>4. \A k \in 0 .. x.size - 1 :
          x.data[k] \in Int /\ y.data[k] \in Int /\ z.data[k] \in Int
    BY <1>1, BytesAreIntegers, IdentityAssumption
  <2>5. CASE i <= j
    <3>1. x.data[i] < z.data[i]
      <4>1. CASE i < j
        BY <1>1, <2>2, <2>3, <2>4, <4>1
      <4>2. CASE i = j
        BY <1>1, <2>2, <2>3, <2>4, <4>2
      <4>3. QED
        BY <1>1, <2>5, <4>1, <4>2
    <3>2. \A k \in 0 .. i - 1 : x.data[k] = z.data[k]
      BY <1>1, <2>2, <2>3, <2>5
    <3>3. QED
      BY <2>1, <3>1, <3>2 DEF Less
  <2>6. CASE j < i
    <3>1. x.data[j] < z.data[j] /\ \A k \in 0 .. j - 1 : x.data[k] = z.data[k]
      BY <1>1, <2>2, <2>3, <2>6
    <3>2. QED
      BY <2>1, <3>1 DEF Less
  <2>7. QED
    BY <1>1, <2>5, <2>6
<1>4. QED
  BY <1>1, <1>2, <1>3

(* Of two identities one precedes the other, or they are the same for          *)
(* operator==, and never two of the three.                                     *)
THEOREM Trichotomy ==
  ASSUME NEW x \in Identities, NEW y \in Identities
  PROVE  Same(x, y) <=> ~Less(x, y) /\ ~Less(y, x)
<1>1. /\ x.size \in 0 .. Capacity /\ y.size \in 0 .. Capacity
      /\ \A i \in 0 .. Capacity : x.data[i] \in Int /\ y.data[i] \in Int
  BY BytesAreIntegers DEF Identities
<1>2. ASSUME Same(x, y) PROVE ~Less(x, y) /\ ~Less(y, x)
  BY <1>1, <1>2, IdentityAssumption DEF Same, Less
<1>3. ASSUME ~Same(x, y), x.size = y.size PROVE Less(x, y) \/ Less(y, x)
  <2> DEFINE Differ == {i \in 0 .. x.size - 1 : x.data[i] # y.data[i]}
  <2>1. Differ # {} /\ Differ \subseteq Nat
    BY <1>1, <1>3, IdentityAssumption DEF Same
  <2>2. PICK i \in Differ : \A j \in Differ : ~(<<j, i>> \in OpToRel(<, Nat))
    BY <2>1, WFMin, NatLessThanWellFounded
  <2>3. \A j \in Differ : ~(j < i)
    BY <2>1, <2>2 DEF OpToRel
  <2>4. \A j \in 0 .. i - 1 : x.data[j] = y.data[j] /\ y.data[j] = x.data[j]
    BY <1>1, <2>1, <2>3, IdentityAssumption
  <2>5. x.data[i] < y.data[i] \/ y.data[i] < x.data[i]
    BY <1>1, IdentityAssumption
  <2>6. QED
    BY <1>3, <2>4, <2>5 DEF Less
<1>4. ASSUME x.size # y.size PROVE (Less(x, y) \/ Less(y, x)) /\ ~Same(x, y)
  BY <1>1, <1>4, IdentityAssumption DEF Less, Same
<1>5. QED
  BY <1>2, <1>3, <1>4

-----------------------------------------------------------------------------
\* The loop keeps its invariant, one step per action.
LEMMA LoopStep == LoopInv /\ [Compare]_comparison => LoopInv'
<1> SUFFICES ASSUME LoopInv, [Compare]_comparison PROVE LoopInv'
  OBVIOUS
<1> USE IdentityAssumption
<1>0. a.size \in 0 .. Capacity /\ b.size \in 0 .. Capacity
  BY DEF LoopInv, Identities
<1>1. CASE CompareSizes
  <2>1. CASE a.size # b.size
    <3>1. /\ less' = (a.size < b.size) /\ pc' = "done"
          /\ a' = a /\ b' = b /\ index' = index
      BY <1>1, <2>1 DEF CompareSizes
    <3>2. Less(a, b) <=> a.size < b.size
      BY <1>0, <2>1 DEF Less
    <3>3. ReturnsLess'
      BY <3>1, <3>2 DEF ReturnsLess, Less
    <3>4. QED
      BY <1>1, <3>1, <3>3 DEF LoopInv, CompareSizes
  <2>2. CASE a.size = b.size
    BY <1>0, <1>1, <2>2 DEF LoopInv, CompareSizes, ReturnsLess
  <2>3. QED
    BY <2>1, <2>2
<1>2. CASE NextByte
  BY <1>0, <1>2 DEF LoopInv, NextByte, ReturnsLess
<1>3. CASE StopAtDifference
  BY <1>0, <1>3 DEF LoopInv, StopAtDifference, ReturnsLess
<1>4. CASE Decide
  <2>1. less' = (index < a.size /\ a.data[index] < b.data[index]) /\ pc' = "done"
    BY <1>4 DEF Decide
  <2>2. Less(a, b) <=> (index < a.size /\ a.data[index] < b.data[index])
    <3>1. \A i \in 0 .. Capacity : a.data[i] \in Int /\ b.data[i] \in Int
      BY BytesAreIntegers DEF LoopInv
    <3>2. CASE index < a.size
      <4>1. /\ index \in 0 .. a.size - 1 /\ a.size = b.size
            /\ a.data[index] # b.data[index]
            /\ \A i \in 0 .. index - 1 : a.data[i] = b.data[i]
        BY <1>0, <1>4, <3>2 DEF LoopInv, Decide
      <4>2. ASSUME NEW i \in 0 .. a.size - 1, a.data[i] < b.data[i],
                   \A j \in 0 .. i - 1 : a.data[j] = b.data[j]
            PROVE  i = index
        BY <1>0, <3>1, <4>1, <4>2
      <4>3. QED
        BY <1>0, <3>2, <4>1, <4>2 DEF Less
    <3>3. CASE ~(index < a.size)
      <4>1. a.size = b.size /\ \A i \in 0 .. a.size - 1 : a.data[i] = b.data[i]
        BY <1>0, <1>4, <3>3 DEF LoopInv, Decide
      <4>2. QED
        BY <1>0, <3>1, <3>3, <4>1 DEF Less
    <3>4. QED
      BY <3>2, <3>3
  <2>3. ReturnsLess'
    BY <1>4, <2>1, <2>2 DEF ReturnsLess, Less, Decide
  <2>4. QED
    BY <1>4, <2>1, <2>3 DEF LoopInv, Decide
<1>5. CASE UNCHANGED comparison
  BY <1>5 DEF LoopInv, ReturnsLess, Less, comparison
<1>6. QED
  BY <1>1, <1>2, <1>3, <1>4, <1>5 DEF Compare

(* operator< returns the order that is meant for identities of every size and  *)
(* whatever byte the loop reads behind them                                    *)
(* (zmqcommunicatorchannel.cpp:109-126).                                       *)
THEOREM ComparisonRight ==
  Comparison => [](LoopInv /\ ReturnsLess /\ OrderAgreesWithEquality)
<1>1. Begin => LoopInv
  <2> SUFFICES ASSUME Begin PROVE LoopInv
    OBVIOUS
  <2>1. index \in 0 .. Capacity + 1
    BY IdentityAssumption DEF Begin
  <2>2. less \in BOOLEAN /\ pc = "size" /\ index = 0
    BY DEF Begin
  <2>3. QED
    BY <2>1, <2>2 DEF Begin, LoopInv, ReturnsLess
<1>2. LoopInv => ReturnsLess /\ OrderAgreesWithEquality
  BY Trichotomy DEF LoopInv, ReturnsLess, OrderAgreesWithEquality
<1>3. QED
  BY <1>1, <1>2, LoopStep, PTL DEF Comparison

(* Two identities that the map of sockets takes for one key are the same for   *)
(* operator== (zmqcommunicatorchannel.cpp:102-126).                            *)
THEOREM KeysAreIdentities == Comparison => []OrderAgreesWithEquality
BY ComparisonRight, PTL

(* Where the loop is, everything before it was equal: the inductive invariant  *)
(* (zmqcommunicatorchannel.cpp:109-126).                                       *)
THEOREM LoopStaysRight == Comparison => []LoopInv
BY ComparisonRight, PTL

=============================================================================
