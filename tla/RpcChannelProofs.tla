-------------------------- MODULE RpcChannelProofs --------------------------
(* Theorems about RpcChannel, for every value of its constants: the typing     *)
(* invariant, that two peers do not block each other in send(), the inductive  *)
(* invariant CallInv with the safety theorems that follow from it, and the     *)
(* refinement of RpcContract.                                                  *)

EXTENDS RpcChannel, SequenceTheorems, FiniteSetTheorems, TLAPS

\* The other end of the other end is the peer itself.
LEMMA Others ==
  ASSUME NEW p \in Peers
  PROVE  /\ Other(p) \in Peers
         /\ Other(p) # p
         /\ Other(Other(p)) = p
         /\ \A q \in Peers : q # p => q = Other(p)
BY ChannelAssumption DEF ChannelAssumption, Peers, Other

\* Taking the last element off a sequence keeps the others.
LEMMA PopProperties ==
  ASSUME NEW S, NEW s \in Seq(S), s # <<>>
  PROVE  /\ Pop(s) \in Seq(S)
         /\ Len(Pop(s)) = Len(s) - 1
         /\ \A k \in 1 .. Len(Pop(s)) : Pop(s)[k] = s[k]
         /\ Top(s) \in S
         /\ Len(s) \in 1 .. Len(s)
<1>1. Len(s) \in Nat \ {0}
  BY EmptySeq
<1>2. \A k \in 1 .. Len(s) - 1 : s[k] \in S
  BY <1>1, ElementOfSeq
<1>3. /\ Pop(s) \in Seq(S)
      /\ Len(Pop(s)) = IF 1 <= Len(s) - 1 THEN Len(s) - 1 - 1 + 1 ELSE 0
      /\ \A k \in 1 .. Len(s) - 1 - 1 + 1 : Pop(s)[k] = s[1 + k - 1]
  <2>1. 1 \in Int /\ Len(s) - 1 \in Int
    BY <1>1
  <2> QED
    BY <1>2, <2>1, SubSeqProperties DEF Pop
<1>4. Top(s) \in S
  BY <1>1, ElementOfSeq DEF Top
<1>5. Len(Pop(s)) = Len(s) - 1
  <2>1. Len(Pop(s)) = IF 1 <= Len(s) - 1 THEN Len(s) - 1 - 1 + 1 ELSE 0
    BY <1>3
  <2> DEFINE n == Len(s)
  <2>2. n \in Nat /\ n >= 1
    BY <1>1
  <2> HIDE DEF n
  <2>3. (IF 1 <= n - 1 THEN n - 1 - 1 + 1 ELSE 0) = n - 1
    BY <2>2
  <2> QED
    BY <2>1, <2>3 DEF n
<1>6. ASSUME NEW k \in 1 .. Len(Pop(s))
      PROVE  Pop(s)[k] = s[k]
  <2>1. k \in 1 .. Len(s) - 1 - 1 + 1 /\ 1 + k - 1 = k
    BY <1>1, <1>5
  <2> QED
    BY <2>1, <1>3
<1>7. Len(s) \in 1 .. Len(s)
  BY <1>1
<1> QED
  BY <1>3, <1>4, <1>5, <1>6, <1>7, Zenon

\* What a rejected message leaves is at most one element, its debris.
LEMMA LeftoverProperties ==
  ASSUME NEW m \in Messages
  PROVE  /\ Leftover(m) \in Seq(Messages)
         /\ Len(Leftover(m)) \in {0, 1}
         /\ \A k \in 1 .. Len(Leftover(m)) : Leftover(m)[k].type = "debris"
<1>1. [m EXCEPT !.type = "debris"] \in Messages
  BY DEF Messages
<1>2. [m EXCEPT !.type = "debris"].type = "debris"
  BY DEF Messages
<1>3. CASE m.method \in Attached /\ m.whole
  <2> DEFINE d == [m EXCEPT !.type = "debris"]
  <2>1. Leftover(m) = <<d>>
    BY <1>3 DEF Leftover
  <2>2. d \in Messages /\ d.type = "debris"
    BY <1>1, <1>2
  <2> HIDE DEF d
  <2>3. <<d>> \in Seq(Messages) /\ Len(<<d>>) = 1 /\ <<d>>[1] = d
    BY <2>2
  <2> QED
    BY <2>1, <2>2, <2>3
<1>4. CASE ~(m.method \in Attached /\ m.whole)
  <2>1. Leftover(m) = <<>>
    BY <1>4 DEF Leftover
  <2> QED
    BY <2>1, EmptySeq
<1> QED
  BY <1>3, <1>4

\* The message being read is the head of the other side's wire.
LEMMA ArrivingProperties ==
  ASSUME TypeOK, NEW p \in Peers, NEW m \in Arriving(p)
  PROVE  /\ m \in Messages
         /\ wire[Other(p)] \in Seq(Messages)
         /\ wire[Other(p)] # <<>>
         /\ m = wire[Other(p)][1]
         /\ Len(wire[Other(p)]) \in Nat \ {0}
<1>1. Other(p) \in Peers /\ wire[Other(p)] \in Seq(Messages)
  BY Others DEF TypeOK
<1>2. wire[Other(p)] # <<>> /\ m = Head(wire[Other(p)])
  BY DEF Arriving
<1> QED
  BY <1>1, <1>2, HeadTailProperties, EmptySeq

\* A message sent goes to the end of the sender's wire, or nowhere.
LEMMA SentTyped ==
  ASSUME TypeOK, NEW p \in Peers, NEW m \in Messages
  PROVE  Sent(p, m) \in [Peers -> Seq(Messages)]
<1>1. Append(wire[p], m) \in Seq(Messages)
  BY AppendProperties DEF TypeOK
<1> QED
  BY <1>1 DEF Sent, TypeOK

-----------------------------------------------------------------------------
(* Typing.                                                                     *)

\* Adding and erasing a callback keep the table a table.
LEMMA TableTyped ==
  ASSUME NEW table \in [Ids -> Calls \cup {NoEntry}], NEW i \in Ids, NEW c \in Calls
  PROVE  /\ Enrolled(table, i, c) \in [Ids -> Calls \cup {NoEntry}]
         /\ Erased(table, i) \in [Ids -> Calls \cup {NoEntry}]
BY DEF Enrolled, Erased

\* A reply is a message with the id, the method and the call of its request.
LEMMA ReplyTyped ==
  ASSUME NEW r \in Messages
  PROVE  /\ ReplyTo(r) \in Messages
         /\ ReplyTo(r).type = "response"
         /\ ReplyTo(r).id = r.id /\ ReplyTo(r).method = r.method
         /\ ReplyTo(r).call = r.call
         /\ r.call \in Calls /\ r.id \in Ids /\ r.method \in Methods
BY DEF Messages, ReplyTo

\* TypeOK is inductive together with IdsTaken, which bounds the ids.
TypeInv == TypeOK /\ IdsTaken

\* TypeInv holds initially.
LEMMA TypeInit == Init => TypeInv
<1>1. NoEntry \in Calls \cup {NoEntry} /\ 0 \in Ids /\ 0 \in 0 .. MaxCalls /\ 0 \in Nat
  BY ChannelAssumption DEF ChannelAssumption, Ids
<1>2. NoBindings \in [Methods -> Bindings]
  BY DEF NoBindings, Bindings
<1>3. <<>> \in Seq(Messages)
  BY EmptySeq
<1> QED
  BY <1>1, <1>2, <1>3 DEF Init, TypeInv, TypeOK, IdsTaken

\* The numbers a proxy with a reply takes while calls are left.
LEMMA NextNumbers ==
  ASSUME TypeInv, NEW p \in Peers, issued[p] < MaxCalls
  PROVE  /\ currentRequestId[p] \in Ids /\ currentRequestId[p] + 1 \in Ids
         /\ issued[p] + 1 \in Calls /\ issued[p] + 1 \in 0 .. MaxCalls
         /\ currentRequestId[p] + 1 <= issued[p] + 1
<1>1. /\ currentRequestId[p] \in 0 .. MaxCalls /\ issued[p] \in 0 .. MaxCalls
      /\ currentRequestId[p] <= issued[p]
  BY DEF TypeInv, TypeOK, IdsTaken, Ids
<1>2. MaxCalls \in Nat
  BY ChannelAssumption DEF ChannelAssumption
<1> QED
  BY <1>1, <1>2 DEF Calls, Ids

\* The calls of user code preserve TypeInv.
LEMMA TypeUserStep ==
  ASSUME TypeInv, NEW p \in Peers
  PROVE  /\ \A d \in Dispatchers : RegisterService(p, d) => TypeInv'
         /\ \A m \in Methods : ProxyCall(p, m) \/ ProxyNotify(p, m) => TypeInv'
         /\ \A a \in ReceiveArgs : EnterReceive(p, a) => TypeInv'
         /\ \A r \in pending[p] : Reply(p, r) => TypeInv'
         /\ ReturnService(p) \/ ReturnCallback(p) => TypeInv'
<1> USE DEF TypeInv, TypeOK, IdsTaken, channelVars, history
<1>1. ASSUME NEW d \in Dispatchers, RegisterService(p, d)
      PROVE  TypeInv'
  <2>1. Registered(dispatcherMap[p], d) \in [Methods -> Bindings]
    BY DEF Registered, Bindings
  <2> QED
    BY <1>1, <2>1 DEF RegisterService
<1>2. ASSUME NEW m \in Methods, ProxyCall(p, m)
      PROVE  TypeInv'
  <2> DEFINE i == currentRequestId[p]
             c == issued[p] + 1
  <2>1. i \in Ids /\ c \in Calls /\ c \in 0 .. MaxCalls /\ i + 1 \in Ids /\ i + 1 <= c
    <3>1. issued[p] < MaxCalls
      BY <1>2 DEF ProxyCall
    <3> QED
      BY <3>1, NextNumbers
  <2>2. Request(i, m, c) \in Messages
    BY <2>1 DEF Request, Messages
  <2>3. Sent(p, Request(i, m, c)) \in [Peers -> Seq(Messages)]
    BY <2>2, SentTyped
  <2>4. Enrolled(responseCallbacks[p], i, c) \in [Ids -> Calls \cup {NoEntry}]
    BY <2>1, TableTyped
  <2>5. currentRequestId' = [currentRequestId EXCEPT ![p] = i + 1]
    BY <1>2 DEF ProxyCall, NextRequestId
  <2>6. /\ responseCallbacks' = [responseCallbacks EXCEPT ![p] = Enrolled(@, i, c)]
        /\ wire' = Sent(p, Request(i, m, c))
        /\ issued' = [issued EXCEPT ![p] = c]
        /\ UNCHANGED <<dispatcherMap, link, mode, stack, pending, live, served,
                       replied, completed>>
    BY <1>2 DEF ProxyCall
  <2> HIDE DEF i, c
  <2>7. TypeOK'
    BY <2>1, <2>3, <2>4, <2>5, <2>6
  <2>8. IdsTaken'
    BY <2>1, <2>5, <2>6
  <2> QED
    BY <2>7, <2>8
<1>3. ASSUME NEW m \in Methods, ProxyNotify(p, m)
      PROVE  TypeInv'
  <2>1. issued[p] + 1 \in Calls /\ issued[p] + 1 \in 0 .. MaxCalls /\ 0 \in Ids
    BY <1>3, ChannelAssumption DEF ProxyNotify, ChannelAssumption, Calls, Ids
  <2>2. Request(0, m, issued[p] + 1) \in Messages
    BY <2>1 DEF Request, Messages
  <2>3. Sent(p, Request(0, m, issued[p] + 1)) \in [Peers -> Seq(Messages)]
    BY <2>2, SentTyped
  <2>4. TypeOK'
    BY <1>3, <2>1, <2>3 DEF ProxyNotify
  <2>5. IdsTaken'
    BY <1>3, <2>1 DEF ProxyNotify, Ids
  <2> QED
    BY <2>4, <2>5
<1>4. ASSUME NEW a \in ReceiveArgs, EnterReceive(p, a)
      PROVE  TypeInv'
  <2>1. a \in {"run", "poll", "block"}
    BY ChannelAssumption DEF ChannelAssumption
  <2> QED
    BY <1>4, <2>1 DEF EnterReceive
<1>5. ASSUME NEW r \in pending[p], Reply(p, r)
      PROVE  TypeInv'
  <2>1. r \in Messages /\ ReplyTo(r) \in Messages /\ r.call \in Calls
    <3>1. r \in Messages
      OBVIOUS
    <3> QED
      BY <3>1, ReplyTyped
  <2>2. Sent(p, ReplyTo(r)) \in [Peers -> Seq(Messages)]
    BY <2>1, SentTyped
  <2>3. Other(p) \in Peers
    BY Others
  <2>4. replied[Other(p)][r.call] + 1 \in Nat
    BY <2>1, <2>3
  <2>5. replied' \in [Peers -> [Calls -> Nat]]
    BY <1>5, <2>1, <2>3, <2>4 DEF Reply
  <2> QED
    BY <1>5, <2>1, <2>2, <2>5 DEF Reply
<1>6. ASSUME ReturnService(p)
      PROVE  TypeInv'
  <2>1. Pop(stack[p]) \in Seq(Messages)
    BY <1>6, PopProperties DEF ReturnService
  <2> QED
    BY <1>6, <2>1 DEF ReturnService
<1>7. ASSUME ReturnCallback(p)
      PROVE  TypeInv'
  <2>1. Pop(stack[p]) \in Seq(Messages) /\ Top(stack[p]) \in Messages
    BY <1>7, PopProperties DEF ReturnCallback
  <2>2. Top(stack[p]).id \in Ids
    BY <2>1 DEF Messages
  <2>3. Erased(responseCallbacks[p], Top(stack[p]).id) \in [Ids -> Calls \cup {NoEntry}]
    BY <2>2 DEF Erased
  <2> QED
    BY <1>7, <2>1, <2>3 DEF ReturnCallback
<1> QED
  BY <1>1, <1>2, <1>3, <1>4, <1>5, <1>6, <1>7

\* Receiving takes one message off the wire and may leave its objects there.
LEMMA WireTyped ==
  ASSUME TypeOK, NEW p \in Peers, NEW m \in Arriving(p)
  PROVE  /\ [wire EXCEPT ![Other(p)] = Tail(@)] \in [Peers -> Seq(Messages)]
         /\ [wire EXCEPT ![Other(p)] = Leftover(m) \o Tail(@)]
              \in [Peers -> Seq(Messages)]
<1>1. m \in Messages /\ wire[Other(p)] \in Seq(Messages) /\ wire[Other(p)] # <<>>
  BY ArrivingProperties
<1>2. Tail(wire[Other(p)]) \in Seq(Messages)
  BY <1>1, HeadTailProperties
<1>3. Leftover(m) \o Tail(wire[Other(p)]) \in Seq(Messages)
  BY <1>1, <1>2, LeftoverProperties, ConcatProperties
<1> QED
  BY <1>2, <1>3 DEF TypeOK

\* What receive() does with a message preserves TypeInv.
LEMMA TypeReceiveStep ==
  ASSUME TypeInv, NEW p \in Peers, Receive(p)
  PROVE  TypeInv'
<1> USE DEF TypeInv, TypeOK, IdsTaken, channelVars, history
<1>1. ASSUME ReceiveFails(p)
      PROVE  TypeInv'
  BY <1>1 DEF ReceiveFails
<1>2. ASSUME NEW m \in Arriving(p),
             \/ RejectMessage(p, m) \/ DispatchRequest(p, m) \/ AbandonRequest(p, m)
             \/ RunCallback(p, m) \/ AbandonResponse(p, m) \/ ReceiveDebris(p, m)
      PROVE  TypeInv'
  <2>1. /\ m \in Messages /\ m.id \in Ids /\ m.call \in Calls /\ m.method \in Methods
        /\ Other(p) \in Peers
    <3>1. m \in Messages /\ Other(p) \in Peers
      BY ArrivingProperties, Others
    <3> QED
      BY <3>1, ReplyTyped
  <2>2. /\ [wire EXCEPT ![Other(p)] = Tail(@)] \in [Peers -> Seq(Messages)]
        /\ [wire EXCEPT ![Other(p)] = Leftover(m) \o Tail(@)]
             \in [Peers -> Seq(Messages)]
    BY WireTyped
  <2>3. [live EXCEPT ![p] = Kept(@, m)] \in [Peers -> SUBSET Messages]
    BY <2>1 DEF Kept
  <2>4. [mode EXCEPT ![p] = "run"] \in [Peers -> {"run", "poll", "block"}]
    OBVIOUS
  <2>5. [stack EXCEPT ![p] = Append(@, m)] \in [Peers -> Seq(Messages)]
    BY <2>1, AppendProperties
  <2>6. CASE RejectMessage(p, m)
    <3>1. AfterLookup(dispatcherMap[p], m.method) \in [Methods -> Bindings]
      BY <2>1 DEF AfterLookup, Lookup, Bindings
    <3>2. dispatcherMap' \in [Peers -> [Methods -> Bindings]]
      BY <2>6, <3>1 DEF RejectMessage
    <3> QED
      BY <2>6, <2>2, <2>3, <2>4, <3>2 DEF RejectMessage
  <2>7. CASE DispatchRequest(p, m)
    <3>1. pending' \in [Peers -> SUBSET Messages]
      BY <2>7, <2>1 DEF DispatchRequest
    <3>2. served' \in [Peers -> [Calls -> Nat]]
      <4>1. served[Other(p)][m.call] + 1 \in Nat
        BY <2>1
      <4> QED
        BY <2>7, <2>1, <4>1 DEF DispatchRequest
    <3> QED
      BY <2>7, <2>2, <2>3, <2>4, <2>5, <3>1, <3>2 DEF DispatchRequest
  <2>8. CASE AbandonRequest(p, m)
    BY <2>8, <2>2, <2>3, <2>4 DEF AbandonRequest
  <2>9. CASE RunCallback(p, m)
    <3>1. responseCallbacks[p][m.id] \in Calls
      BY <2>9, <2>1 DEF RunCallback
    <3>2. completed' \in [Peers -> [Calls -> Nat]]
      BY <2>9, <3>1 DEF RunCallback
    <3> QED
      BY <2>9, <2>2, <2>3, <2>4, <2>5, <3>2 DEF RunCallback
  <2>10. CASE AbandonResponse(p, m)
    <3>1. Erased(responseCallbacks[p], m.id) \in [Ids -> Calls \cup {NoEntry}]
      BY <2>1 DEF Erased
    <3> QED
      BY <2>10, <2>2, <2>4, <3>1 DEF AbandonResponse
  <2>11. CASE ReceiveDebris(p, m)
    BY <2>11, <2>2, <2>4 DEF ReceiveDebris
  <2> QED
    BY <1>2, <2>6, <2>7, <2>8, <2>9, <2>10, <2>11
<1> QED
  BY <1>1, <1>2 DEF Receive

\* Failures of the connection preserve TypeInv.
LEMMA TypeFailureStep ==
  ASSUME TypeInv
  PROVE  /\ Break => TypeInv'
         /\ \A p \in Peers : LoseMessage(p) \/ LoseObjects(p) => TypeInv'
<1> USE DEF TypeInv, TypeOK, IdsTaken, channelVars, history
<1>1. ASSUME Break
      PROVE  TypeInv'
  BY <1>1 DEF Break
<1>2. ASSUME NEW p \in Peers, LoseMessage(p)
      PROVE  TypeInv'
  <2>1. Pop(wire[p]) \in Seq(Messages)
    BY <1>2, PopProperties DEF LoseMessage
  <2> QED
    BY <1>2, <2>1 DEF LoseMessage
<1>3. ASSUME NEW p \in Peers, LoseObjects(p)
      PROVE  TypeInv'
  <2> DEFINE n == Len(wire[p])
             cut == [wire[p][n] EXCEPT !.whole = FALSE]
  <2>1. n \in 1 .. Len(wire[p]) /\ wire[p][n] \in Messages
    BY <1>3, PopProperties DEF LoseObjects, Top
  <2>2. cut \in Messages
    BY <2>1 DEF Messages
  <2>3. wire' = [wire EXCEPT ![p] = [@ EXCEPT ![n] = cut]]
    BY <1>3 DEF LoseObjects
  <2> HIDE DEF n, cut
  <2>4. [wire[p] EXCEPT ![n] = cut] \in Seq(Messages)
    BY <2>1, <2>2, ExceptSeq
  <2>5. wire' \in [Peers -> Seq(Messages)]
    BY <2>3, <2>4
  <2> QED
    BY <1>3, <2>5 DEF LoseObjects
<1> QED
  BY <1>1, <1>2, <1>3

\* Every step preserves TypeInv.
LEMMA TypeStep == TypeInv /\ [Next]_vars => TypeInv'
<1> SUFFICES ASSUME TypeInv, [Next]_vars PROVE TypeInv'
  OBVIOUS
<1>1. CASE Next
  BY <1>1, TypeUserStep, TypeReceiveStep, TypeFailureStep DEF Next
<1>2. CASE UNCHANGED vars
  BY <1>2 DEF vars, channelVars, history, TypeInv, TypeOK, IdsTaken
<1> QED
  BY <1>1, <1>2

\* The channels, tables, stacks and wires always have the shape TypeOK gives.
THEOREM Typing == Spec => []TypeOK
<1>1. TypeInv => TypeOK
  BY DEF TypeInv
<1> QED
  BY TypeInit, TypeStep, <1>1, PTL DEF Spec

-----------------------------------------------------------------------------
(* No two peers block each other in send(), for every capacity of the wire and *)
(* every bound, when one program makes calls and waits for each reply.         *)

\* The discipline of the Salutation client: one caller, one call at a time.
RequestReply == Callers = {Client} /\ OneWay = {} /\ MaxOutstanding = 1

Idle == \A i \in Ids : responseCallbacks[Client][i] = NoEntry
Quiet == wire[Client] = <<>> /\ wire[Server] = <<>> /\ pending[Server] = {}

\* At most one request, reply or leftover is on the wires or being served.
OneMessage ==
  /\ wire[Client] # <<>> =>
       Len(wire[Client]) = 1 /\ wire[Server] = <<>> /\ pending[Server] = {}
  /\ wire[Server] # <<>> =>
       Len(wire[Server]) = 1 /\ wire[Client] = <<>> /\ pending[Server] = {}
  /\ \A r, s \in pending[Server] : r = s

\* It belongs to a call that waits; there is none while its callback runs.
OneCall ==
  /\ pending[Client] = {}
  /\ \A k \in 1 .. Len(wire[Server]) : wire[Server][k].type # "request"
  /\ OneMessage
  /\ Idle => Quiet
  /\ stack[Client] # <<>> => Quiet /\ ~Idle /\ Len(stack[Client]) = 1

DeadlockInv == link = "up" => OneCall

\* A peer that is the client or the server.
LEMMA TwoPeers ==
  /\ Client \in Peers /\ Server \in Peers /\ Client # Server
  /\ Other(Client) = Server /\ Other(Server) = Client
  /\ \A p \in Peers : p = Client \/ p = Server
BY ChannelAssumption DEF ChannelAssumption, Peers, Other

\* The tail of a sequence of length one, also after what a message leaves.
LEMMA AfterOne ==
  ASSUME NEW s \in Seq(Messages), Len(s) = 1, NEW m \in Messages
  PROVE  /\ Tail(s) = <<>>
         /\ Leftover(m) \o Tail(s) = Leftover(m)
<1>1. s # <<>>
  BY EmptySeq
<1>2. Tail(s) \in Seq(Messages) /\ Len(Tail(s)) = 0
  BY <1>1, HeadTailProperties
<1>3. Tail(s) = <<>>
  BY <1>2, EmptySeq
<1>4. Leftover(m) \in Seq(Messages)
  BY LeftoverProperties
<1> QED
  BY <1>3, <1>4, ConcatEmptySeq

\* A program with no call outstanding has no entry in its table.
LEMMA NoneOutstanding ==
  ASSUME RequestReply, Outstanding(Client) < MaxOutstanding
  PROVE  Idle
<1> DEFINE entries == {i \in Ids : responseCallbacks[Client][i] # NoEntry}
<1>1. IsFiniteSet(entries)
  <2>1. IsFiniteSet(Ids)
    BY FS_Interval, ChannelAssumption DEF ChannelAssumption, Ids
  <2> QED
    BY <2>1, FS_Subset
<1>2. Cardinality(entries) \in Nat /\ (Cardinality(entries) = 0 <=> entries = {})
  BY <1>1, FS_CardinalityType, FS_EmptySet
<1>3. Cardinality(entries) < 1
  BY DEF RequestReply, Outstanding
<1>4. entries = {}
  BY <1>2, <1>3
<1> QED
  BY <1>4 DEF Idle

\* The invariant holds initially.
LEMMA DeadlockInit == Init => DeadlockInv
BY TwoPeers, EmptySeq DEF Init, DeadlockInv, OneCall, OneMessage, Quiet

\* What user code does preserves it.
LEMMA DeadlockUserStep ==
  ASSUME RequestReply, TypeInv, OneCall, link = "up", NEW p \in Peers
  PROVE  /\ \A d \in Dispatchers : RegisterService(p, d) => OneCall'
         /\ \A m \in Methods : ProxyCall(p, m) \/ ProxyNotify(p, m) => OneCall'
         /\ \A a \in ReceiveArgs : EnterReceive(p, a) => OneCall'
         /\ \A r \in pending[p] : Reply(p, r) => OneCall'
         /\ ReturnService(p) \/ ReturnCallback(p) => OneCall'
<1>1. ASSUME NEW d \in Dispatchers, RegisterService(p, d)
      PROVE  OneCall'
  BY <1>1 DEF RegisterService, channelVars, OneCall, OneMessage, Idle, Quiet
<1>2. ASSUME NEW m \in Methods, ProxyCall(p, m)
      PROVE  OneCall'
  <2> DEFINE i == currentRequestId[p]
             c == issued[p] + 1
             q == Request(i, m, c)
  <2>1. p = Client /\ Idle
    BY <1>2, NoneOutstanding DEF ProxyCall, RequestReply
  <2>2. Quiet /\ stack[Client] = <<>>
    BY <2>1 DEF OneCall
  <2>3. i \in Ids /\ c # NoEntry
    BY DEF TypeInv, TypeOK, NoEntry
  <2>4. responseCallbacks'[Client][i] = c
    <3>1. responseCallbacks[Client] \in [Ids -> Calls \cup {NoEntry}]
      BY TwoPeers DEF TypeInv, TypeOK
    <3>2. Enrolled(responseCallbacks[Client], i, c) = [responseCallbacks[Client] EXCEPT ![i] = c]
      BY <2>1, <2>3 DEF Idle, Enrolled
    <3>3. responseCallbacks'[Client] = Enrolled(responseCallbacks[Client], i, c)
      BY <1>2, <2>1, TwoPeers DEF ProxyCall, TypeInv, TypeOK
    <3> QED
      BY <3>1, <3>2, <3>3, <2>3
  <2>5. wire'[Client] = <<q>> /\ wire'[Server] = <<>>
    <3>1. wire' = [wire EXCEPT ![Client] = Append(@, q)]
      BY <1>2, <2>1 DEF ProxyCall, Sent
    <3> HIDE DEF q
    <3>2. wire'[Client] = Append(<<>>, q)
      BY <3>1, <2>2, TwoPeers DEF Quiet, TypeInv, TypeOK
    <3> QED
      BY <3>1, <3>2, <2>2, TwoPeers DEF Quiet, TypeInv, TypeOK
  <2>6. pending' = pending /\ stack' = stack
    BY <1>2 DEF ProxyCall
  <2> HIDE DEF q, c, i
  <2>7. Len(<<q>>) = 1 /\ Len(<<>>) = 0
    OBVIOUS
  <2>8. ~Idle'
    BY <2>3, <2>4 DEF Idle
  <2>9. OneMessage'
    BY <2>2, <2>5, <2>6, <2>7 DEF OneMessage, Quiet
  <2> QED
    BY <2>2, <2>5, <2>6, <2>7, <2>8, <2>9 DEF OneCall
<1>3. ASSUME NEW m \in Methods, ProxyNotify(p, m)
      PROVE  OneCall'
  BY <1>3 DEF ProxyNotify, RequestReply
<1>4. ASSUME NEW a \in ReceiveArgs, EnterReceive(p, a)
      PROVE  OneCall'
  BY <1>4 DEF EnterReceive, channelVars, OneCall, OneMessage, Idle, Quiet
<1>5. ASSUME NEW r \in pending[p], Reply(p, r)
      PROVE  OneCall'
  <2>1. p = Server
    BY TwoPeers DEF OneCall
  <2>2. wire[Client] = <<>> /\ wire[Server] = <<>> /\ ~Quiet
    BY <2>1 DEF OneCall, OneMessage, Quiet
  <2>3. ~Idle /\ stack[Client] = <<>>
    BY <2>2 DEF OneCall
  <2>4. wire'[Server] = <<ReplyTo(r)>> /\ wire'[Client] = <<>>
    <3>1. wire' = [wire EXCEPT ![Server] = Append(@, ReplyTo(r))]
      BY <1>5, <2>1 DEF Reply, Sent
    <3>2. wire'[Server] = Append(<<>>, ReplyTo(r))
      BY <3>1, <2>2, TwoPeers DEF TypeInv, TypeOK
    <3> QED
      BY <3>1, <3>2, <2>2, TwoPeers DEF TypeInv, TypeOK
  <2>5. pending'[Server] = {} /\ pending'[Client] = {}
    <3>1. pending' = [pending EXCEPT ![Server] = @ \ {r}]
      BY <1>5, <2>1 DEF Reply
    <3> QED
      BY <3>1, <2>1, TwoPeers DEF OneCall, OneMessage, TypeInv, TypeOK
  <2>6. ReplyTo(r).type = "response"
    BY ReplyTyped DEF TypeInv, TypeOK
  <2>7. ~Idle' /\ stack'[Client] = <<>>
    BY <1>5, <2>3 DEF Reply, channelVars, Idle
  <2>8. /\ Len(<<ReplyTo(r)>>) = 1
        /\ \A k \in 1 .. 1 : <<ReplyTo(r)>>[k] = ReplyTo(r)
    OBVIOUS
  <2>9. OneMessage'
    BY <2>4, <2>5, <2>8 DEF OneMessage
  <2> QED
    BY <2>4, <2>5, <2>6, <2>7, <2>8, <2>9 DEF OneCall
<1>6. ASSUME ReturnService(p) \/ ReturnCallback(p)
      PROVE  OneCall'
  <2>1. stack' = [stack EXCEPT ![p] = Pop(@)] /\ UNCHANGED <<wire, pending>>
    BY <1>6 DEF ReturnService, ReturnCallback
  <2>2. CASE p = Client
    <3>1. Quiet /\ stack[Client] # <<>> /\ Len(stack[Client]) = 1
      BY <1>6, <2>2 DEF ReturnService, ReturnCallback, OneCall
    <3>2. stack'[Client] = <<>>
      <4>1. Pop(stack[Client]) \in Seq(Messages) /\ Len(Pop(stack[Client])) = 0
        <5>1. stack[Client] \in Seq(Messages)
          BY TwoPeers DEF TypeInv, TypeOK
        <5>2. /\ Pop(stack[Client]) \in Seq(Messages)
              /\ Len(Pop(stack[Client])) = Len(stack[Client]) - 1
          BY <3>1, <5>1, PopProperties
        <5> QED
          BY <3>1, <5>2
      <4> QED
        BY <4>1, <2>1, <2>2, TwoPeers, EmptySeq DEF TypeInv, TypeOK
    <3> QED
      BY <2>1, <3>1, <3>2 DEF OneCall, OneMessage, Quiet
  <2>3. CASE p = Server
    <3>1. stack'[Client] = stack[Client]
      BY <2>1, <2>3, TwoPeers DEF TypeInv, TypeOK
    <3>2. Idle' <=> Idle
      BY <1>6, <2>3, TwoPeers DEF ReturnService, ReturnCallback, channelVars, Idle,
         TypeInv, TypeOK
    <3> QED
      BY <2>1, <3>1, <3>2 DEF OneCall, OneMessage, Quiet
  <2> QED
    BY <2>2, <2>3, TwoPeers
<1> QED
  BY <1>1, <1>2, <1>3, <1>4, <1>5, <1>6

\* What receive() does with a message preserves it.
LEMMA DeadlockReceiveStep ==
  ASSUME RequestReply, TypeInv, OneCall, link = "up", NEW p \in Peers, Receive(p)
  PROVE  OneCall'
<1>1. ASSUME ReceiveFails(p)
      PROVE  OneCall'
  BY <1>1 DEF ReceiveFails
<1>2. ASSUME NEW m \in Arriving(p),
             \/ RejectMessage(p, m) \/ DispatchRequest(p, m) \/ AbandonRequest(p, m)
             \/ RunCallback(p, m) \/ AbandonResponse(p, m) \/ ReceiveDebris(p, m)
      PROVE  OneCall'
  <2> DEFINE q == Other(p)
  <2>1. /\ m \in Messages /\ q \in Peers /\ wire[q] \in Seq(Messages)
        /\ wire[q] # <<>> /\ m = wire[q][1]
    BY ArrivingProperties, Others DEF TypeInv
  <2>2. (p = Client /\ q = Server) \/ (p = Server /\ q = Client)
    BY TwoPeers
  <2> HIDE DEF q
  <2>3. Len(wire[q]) = 1 /\ wire[p] = <<>> /\ pending[Server] = {} /\ ~Quiet
    BY <2>1, <2>2 DEF OneCall, OneMessage, Quiet
  <2>4. ~Idle /\ stack[Client] = <<>>
    BY <2>3 DEF OneCall
  <2>5. Tail(wire[q]) = <<>> /\ Leftover(m) \o Tail(wire[q]) = Leftover(m)
    BY <2>1, <2>3, AfterOne
  <2>6. p = Client => m.type # "request"
    BY <2>1, <2>2, <2>3 DEF OneCall
  <2>7. Len(<<>>) = 0 /\ <<>> \in Seq(Messages)
    BY EmptySeq
  <2>8. ASSUME wire'[q] = <<>>, wire'[p] = <<>>, pending'[Client] = {},
               \A r, s \in pending'[Server] : r = s,
               Idle' => pending'[Server] = {},
               \/ stack'[Client] = <<>>
               \/ pending'[Server] = {} /\ ~Idle' /\ Len(stack'[Client]) = 1
        PROVE  OneCall'
    BY <2>2, <2>7, <2>8 DEF OneCall, OneMessage, Quiet
  <2>9. ASSUME wire' = [wire EXCEPT ![q] = Tail(@)]
        PROVE  wire'[q] = <<>> /\ wire'[p] = <<>>
    BY <2>1, <2>2, <2>3, <2>5, <2>9, TwoPeers DEF TypeInv, TypeOK
  <2>10. CASE RejectMessage(p, m)
    <3>1. wire' = [wire EXCEPT ![q] = Leftover(m) \o Tail(@)]
      BY <2>10 DEF RejectMessage, q
    <3>2. wire'[q] = Leftover(m) /\ wire'[p] = <<>>
      BY <2>1, <2>2, <2>3, <2>5, <3>1, TwoPeers DEF TypeInv, TypeOK
    <3>3. /\ Leftover(m) \in Seq(Messages) /\ Len(Leftover(m)) \in {0, 1}
          /\ \A k \in 1 .. Len(Leftover(m)) : Leftover(m)[k].type = "debris"
      BY <2>1, LeftoverProperties
    <3>4. Leftover(m) # <<>> => Len(Leftover(m)) = 1
      BY <3>3, EmptySeq
    <3>5. UNCHANGED <<responseCallbacks, stack, pending>>
      BY <2>10 DEF RejectMessage, channelVars
    <3>6. ~Idle'
      BY <2>4, <3>5 DEF Idle
    <3>7. OneMessage'
      BY <2>2, <2>3, <3>2, <3>4, <3>5 DEF OneMessage
    <3>8. \A k \in 1 .. Len(wire'[Server]) : wire'[Server][k].type # "request"
      BY <2>2, <2>7, <3>2, <3>3
    <3> QED
      BY <2>4, <3>5, <3>6, <3>7, <3>8 DEF OneCall
  <2>11. CASE DispatchRequest(p, m)
    <3>1. p = Server
      BY <2>2, <2>6, <2>11 DEF DispatchRequest
    <3>2. wire' = [wire EXCEPT ![q] = Tail(@)] /\ UNCHANGED responseCallbacks
      BY <2>11 DEF DispatchRequest, channelVars, q
    <3>3. pending' = [pending EXCEPT ![Server] = @ \cup {m}]
      BY <2>11, <3>1 DEF DispatchRequest, RequestReply
    <3>4. pending'[Client] = {} /\ pending'[Server] = {m}
      BY <2>3, <3>3, TwoPeers DEF OneCall, TypeInv, TypeOK
    <3>5. stack'[Client] = <<>>
      BY <2>4, <2>11, <3>1, TwoPeers DEF DispatchRequest, TypeInv, TypeOK
    <3>6. ~Idle'
      BY <2>4, <3>2 DEF Idle
    <3> QED
      BY <2>8, <2>9, <3>2, <3>4, <3>5, <3>6
  <2>12. CASE AbandonRequest(p, m) \/ ReceiveDebris(p, m)
    <3>1. /\ wire' = [wire EXCEPT ![q] = Tail(@)]
          /\ UNCHANGED <<responseCallbacks, pending, stack>>
      BY <2>12 DEF AbandonRequest, ReceiveDebris, channelVars, q
    <3> QED
      BY <2>3, <2>4, <2>8, <2>9, <3>1 DEF OneCall
  <2>13. CASE RunCallback(p, m)
    <3>1. /\ wire' = [wire EXCEPT ![q] = Tail(@)]
          /\ stack' = [stack EXCEPT ![p] = Append(@, m)]
          /\ UNCHANGED <<responseCallbacks, pending>>
      BY <2>13 DEF RunCallback, channelVars, q
    <3>2. ~Idle'
      BY <2>4, <3>1 DEF Idle
    <3>3. stack'[Client] = <<>> \/ Len(stack'[Client]) = 1
      <4>1. CASE p = Client
        <5>1. stack'[Client] = Append(<<>>, m)
          BY <2>4, <3>1, <4>1, TwoPeers DEF TypeInv, TypeOK
        <5>2. Len(Append(<<>>, m)) = 1
          OBVIOUS
        <5> QED
          BY <5>1, <5>2
      <4>2. CASE p = Server
        BY <2>4, <3>1, <4>2, TwoPeers DEF TypeInv, TypeOK
      <4> QED
        BY <4>1, <4>2, TwoPeers
    <3> QED
      BY <2>3, <2>8, <2>9, <3>1, <3>2, <3>3 DEF OneCall
  <2>14. CASE AbandonResponse(p, m)
    <3>1. wire' = [wire EXCEPT ![q] = Tail(@)] /\ UNCHANGED <<pending, stack>>
      BY <2>14 DEF AbandonResponse, q
    <3> QED
      BY <2>3, <2>4, <2>8, <2>9, <3>1 DEF OneCall
  <2> QED
    BY <1>2, <2>10, <2>11, <2>12, <2>13, <2>14
<1> QED
  BY <1>1, <1>2 DEF Receive

\* Every step preserves the invariant; a broken connection stays broken.
LEMMA DeadlockStep ==
  ASSUME RequestReply, TypeInv, DeadlockInv, [Next]_vars
  PROVE  DeadlockInv'
<1> SUFFICES ASSUME link' = "up" PROVE OneCall'
  BY DEF DeadlockInv
<1>1. CASE UNCHANGED vars
  BY <1>1 DEF vars, channelVars, DeadlockInv, OneCall, OneMessage, Idle, Quiet
<1>2. ASSUME NEW p \in Peers, LoseMessage(p) \/ LoseObjects(p)
      PROVE  FALSE
  BY <1>2 DEF LoseMessage, LoseObjects
<1>3. CASE Break
  BY <1>3 DEF Break
<1>4. ASSUME NEW p \in Peers,
             \/ \E d \in Dispatchers : RegisterService(p, d)
             \/ \E m \in Methods : ProxyCall(p, m) \/ ProxyNotify(p, m)
             \/ \E a \in ReceiveArgs : EnterReceive(p, a)
             \/ ReturnService(p) \/ ReturnCallback(p)
             \/ \E r \in pending[p] : Reply(p, r)
      PROVE  OneCall'
  <2>1. link = "up"
    BY <1>4 DEF RegisterService, ProxyCall, ProxyNotify, EnterReceive, ReturnService,
       ReturnCallback, Reply
  <2> QED
    BY <1>4, <2>1, DeadlockUserStep DEF DeadlockInv
<1>5. ASSUME NEW p \in Peers, Receive(p)
      PROVE  OneCall'
  <2>1. link = "up"
    BY <1>5 DEF Receive, ReceiveFails, RejectMessage, DispatchRequest, AbandonRequest,
       RunCallback, AbandonResponse, ReceiveDebris
  <2> QED
    BY <1>5, <2>1, DeadlockReceiveStep DEF DeadlockInv
<1> QED
  BY <1>1, <1>2, <1>3, <1>4, <1>5 DEF Next

\* One of the peers is not stuck in send(), whatever the connection buffers:
\* a program that waits for its reply (client.cpp) cannot deadlock the two
\* blocking sends of the generated proxy and reply().
THEOREM RequestReplyDeadlockFree ==
  ASSUME RequestReply
  PROVE  Spec => []NoSendDeadlock
<1>1. TypeInv /\ DeadlockInv => NoSendDeadlock
  <2> SUFFICES ASSUME TypeInv, DeadlockInv, Stuck(Client), Stuck(Server) PROVE FALSE
    BY TwoPeers DEF NoSendDeadlock
  <2>1. OneMessage
    BY DEF Stuck, DeadlockInv, OneCall
  <2>2. Len(wire[Client]) > WireCap /\ Len(wire[Server]) > WireCap /\ WireCap \in Nat
    BY ChannelAssumption DEF Stuck, ChannelAssumption
  <2>3. wire[Client] \in Seq(Messages) /\ wire[Server] \in Seq(Messages)
    BY TwoPeers DEF TypeInv, TypeOK
  <2>4. wire[Client] # <<>> /\ wire[Server] # <<>>
    BY <2>2, <2>3, EmptySeq
  <2> QED
    BY <2>1, <2>4 DEF OneMessage
<1>2. TypeInv /\ DeadlockInv /\ [Next]_vars => TypeInv' /\ DeadlockInv'
  BY TypeStep, DeadlockStep
<1> QED
  BY TypeInit, DeadlockInit, <1>1, <1>2, PTL DEF Spec

-----------------------------------------------------------------------------
(* Calls.                                                                      *)

\* The fields of a message, and that a call number is never NoEntry.
LEMMA Fields ==
  ASSUME NEW m \in Messages
  PROVE  /\ m.type \in {"request", "response", "debris"}
         /\ m.id \in Ids /\ m.call \in Calls /\ m.method \in Methods
         /\ m.call # NoEntry
         /\ m.call \in Nat
BY ChannelAssumption DEF Messages, Calls, NoEntry, ChannelAssumption

\* Everything on a wire, on a stack or pending is a message.
LEMMA Elements ==
  ASSUME TypeOK, NEW p \in Peers
  PROVE  /\ Len(wire[p]) \in Nat /\ Len(stack[p]) \in Nat
         /\ \A k \in 1 .. Len(wire[p]) : wire[p][k] \in Messages
         /\ \A k \in 1 .. Len(stack[p]) : stack[p][k] \in Messages
         /\ \A r \in pending[p] : r \in Messages
BY ElementOfSeq, LenProperties DEF TypeOK

\* What was on the wires before a send is there after it; at most one is added.
LEMMA SentElements ==
  ASSUME TypeOK, NEW p \in Peers, NEW m \in Messages, wire' = Sent(p, m)
  PROVE  /\ \A q \in Peers : q # p => wire'[q] = wire[q]
         /\ Len(wire[p]) \in Nat /\ Len(wire'[p]) \in Nat
         /\ \A k \in 1 .. Len(wire'[p]) :
              \/ k \in 1 .. Len(wire[p]) /\ wire'[p][k] = wire[p][k]
              \/ k = Len(wire[p]) + 1 /\ wire'[p][k] = m
<1>1. wire[p] \in Seq(Messages) /\ Len(wire[p]) \in Nat
  BY Elements DEF TypeOK
<1>2. CASE link = "up"
  <2>1. wire' = [wire EXCEPT ![p] = Append(@, m)]
    BY <1>2 DEF Sent
  <2>2. wire'[p] = Append(wire[p], m) /\ \A q \in Peers : q # p => wire'[q] = wire[q]
    BY <2>1 DEF TypeOK
  <2>3. /\ Len(wire'[p]) = Len(wire[p]) + 1
        /\ \A k \in 1 .. Len(wire[p]) : wire'[p][k] = wire[p][k]
        /\ wire'[p][Len(wire[p]) + 1] = m
    BY <1>1, <2>2, AppendProperties
  <2> QED
    BY <1>1, <2>2, <2>3
<1>3. CASE link # "up"
  BY <1>1, <1>3 DEF Sent
<1> QED
  BY <1>2, <1>3

\* Popping a stack removes its last element.
LEMMA PoppedStack ==
  ASSUME TypeOK, NEW p \in Peers, stack[p] # <<>>,
         stack' = [stack EXCEPT ![p] = Pop(@)]
  PROVE  /\ \A a \in Peers : \A k \in 1 .. Len(stack'[a]) :
              k \in 1 .. Len(stack[a]) /\ stack'[a][k] = stack[a][k]
         /\ \A k \in 1 .. Len(stack'[p]) : k # Len(stack[p])
         /\ Len(stack[p]) \in 1 .. Len(stack[p])
<1>1. stack[p] \in Seq(Messages) /\ Len(stack[p]) \in Nat
  BY Elements DEF TypeOK
<1>2. /\ Len(Pop(stack[p])) = Len(stack[p]) - 1
      /\ \A k \in 1 .. Len(Pop(stack[p])) : Pop(stack[p])[k] = stack[p][k]
      /\ Len(stack[p]) \in 1 .. Len(stack[p])
  BY <1>1, PopProperties
<1>3. stack'[p] = Pop(stack[p]) /\ \A a \in Peers : a # p => stack'[a] = stack[a]
  BY DEF TypeOK
<1>4. \A k \in 1 .. Len(stack'[p]) : k \in 1 .. Len(stack[p]) /\ k # Len(stack[p])
  BY <1>1, <1>2, <1>3
<1> QED
  BY <1>2, <1>3, <1>4

\* Pushing on a stack adds one element after the others.
LEMMA PushedStack ==
  ASSUME TypeOK, NEW p \in Peers, NEW m \in Messages,
         stack' = [stack EXCEPT ![p] = Append(@, m)]
  PROVE  /\ \A a \in Peers : a # p => stack'[a] = stack[a]
         /\ Len(stack[p]) \in Nat
         /\ \A k \in 1 .. Len(stack'[p]) :
              \/ k \in 1 .. Len(stack[p]) /\ stack'[p][k] = stack[p][k]
              \/ k = Len(stack[p]) + 1 /\ stack'[p][k] = m
<1>1. stack[p] \in Seq(Messages) /\ Len(stack[p]) \in Nat
  BY Elements DEF TypeOK
<1>2. stack'[p] = Append(stack[p], m) /\ \A a \in Peers : a # p => stack'[a] = stack[a]
  BY DEF TypeOK
<1>3. /\ Len(stack'[p]) = Len(stack[p]) + 1
      /\ \A k \in 1 .. Len(stack[p]) : stack'[p][k] = stack[p][k]
      /\ stack'[p][Len(stack[p]) + 1] = m
  BY <1>1, <1>2, AppendProperties
<1> QED
  BY <1>1, <1>2, <1>3

\* Receiving takes the first element off the other side's wire.
LEMMA ReceivedWire ==
  ASSUME TypeOK, NEW p \in Peers, NEW m \in Arriving(p),
         wire' = [wire EXCEPT ![Other(p)] = Tail(@)]
  PROVE  /\ wire'[p] = wire[p]
         /\ Len(wire[Other(p)]) \in Nat
         /\ 1 \in 1 .. Len(wire[Other(p)]) /\ wire[Other(p)][1] = m
         /\ \A k \in 1 .. Len(wire'[Other(p)]) :
              k + 1 \in 1 .. Len(wire[Other(p)]) /\ wire'[Other(p)][k] = wire[Other(p)][k + 1]
<1> DEFINE q == Other(p)
<1>1. /\ q \in Peers /\ q # p /\ wire[q] \in Seq(Messages) /\ wire[q] # <<>>
      /\ m = wire[q][1] /\ Len(wire[q]) \in Nat \ {0}
  BY Others, ArrivingProperties
<1>2. /\ Len(Tail(wire[q])) = Len(wire[q]) - 1
      /\ \A k \in 1 .. Len(Tail(wire[q])) : Tail(wire[q])[k] = wire[q][k + 1]
  BY <1>1, HeadTailProperties
<1>3. wire'[q] = Tail(wire[q]) /\ wire'[p] = wire[p]
  BY <1>1 DEF TypeOK
<1>4. Len(wire[q]) \in Nat /\ 1 \in 1 .. Len(wire[q])
  BY <1>1
<1>5. \A k \in 1 .. Len(wire[q]) - 1 : k + 1 \in 1 .. Len(wire[q])
  BY <1>4
<1> HIDE DEF q
<1>6. /\ wire'[p] = wire[p]
      /\ Len(wire[q]) \in Nat
      /\ 1 \in 1 .. Len(wire[q]) /\ wire[q][1] = m
      /\ \A k \in 1 .. Len(wire'[q]) :
           k + 1 \in 1 .. Len(wire[q]) /\ wire'[q][k] = wire[q][k + 1]
  BY <1>1, <1>2, <1>3, <1>4, <1>5
<1> QED
  BY <1>6 DEF q

\* A proxy method with a reply keeps the invariant: the id it takes is fresh.
LEMMA ProxyCallStep ==
  ASSUME TypeInv, CallInv, NEW p \in Peers, NEW m \in Methods, ProxyCall(p, m)
  PROVE  CallInv'
<1> DEFINE i == currentRequestId[p]
           c == issued[p] + 1
           req == Request(i, m, c)
<1>0. TypeOK /\ IdsTaken
  BY DEF TypeInv
<1>1. /\ i \in Ids /\ c \in Calls /\ i + 1 <= c /\ issued[p] \in Nat /\ i \in Nat
      /\ c = issued[p] + 1 /\ c # NoEntry
  <2>1. i \in 0 .. MaxCalls /\ issued[p] \in 0 .. MaxCalls /\ i <= issued[p]
    BY <1>0 DEF Ids, TypeOK, IdsTaken
  <2>2. issued[p] < MaxCalls /\ MaxCalls \in Nat
    BY ChannelAssumption DEF ProxyCall, ChannelAssumption
  <2> QED
    BY <2>1, <2>2 DEF Calls, Ids, NoEntry
<1>2. req \in Messages /\ req.type = "request" /\ req.call = c /\ req.id = i
  BY <1>1 DEF Request, Messages
<1>3. responseCallbacks[p][i] = NoEntry
  BY <1>1 DEF CallInv, FreshAhead
<1>4. /\ currentRequestId' = [currentRequestId EXCEPT ![p] = i + 1]
      /\ responseCallbacks' = [responseCallbacks EXCEPT ![p] = [@ EXCEPT ![i] = c]]
      /\ wire' = Sent(p, req)
      /\ issued' = [issued EXCEPT ![p] = c]
      /\ UNCHANGED <<stack, pending, live, served, replied, completed>>
  BY <1>3 DEF ProxyCall, NextRequestId, Enrolled
<1> HIDE DEF i, c, req
<1>5. /\ \A q \in Peers : \A j \in Ids : \A d \in Calls :
           responseCallbacks[q][j] = d => responseCallbacks'[q][j] = d
      /\ \A j \in Ids : j # i => responseCallbacks'[p][j] = responseCallbacks[p][j]
      /\ responseCallbacks'[p][i] = c
      /\ \A q \in Peers : q # p => responseCallbacks'[q] = responseCallbacks[q]
  BY <1>0, <1>1, <1>3, <1>4 DEF TypeOK, NoEntry, Calls
<1>6. /\ \A q \in Peers : q # p => wire'[q] = wire[q]
      /\ Len(wire[p]) \in Nat /\ Len(wire'[p]) \in Nat
      /\ \A k \in 1 .. Len(wire'[p]) :
           \/ k \in 1 .. Len(wire[p]) /\ wire'[p][k] = wire[p][k]
           \/ k = Len(wire[p]) + 1 /\ wire'[p][k] = req
  BY <1>0, <1>2, <1>4, SentElements
<1>7. IdsTaken'
  BY <1>0, <1>1, <1>4 DEF IdsTaken, TypeOK
<1>8. AtMostOnce'
  BY <1>4 DEF CallInv, AtMostOnce
<1>9. FreshAhead'
  <2> SUFFICES ASSUME NEW q \in Peers
               PROVE  /\ \A j \in Ids : j >= currentRequestId'[q] =>
                           responseCallbacks'[q][j] = NoEntry
                      /\ \A d \in Calls : d > issued'[q] => served'[q][d] = 0
    BY DEF FreshAhead
  <2>1. CASE q = p
    <3>1. currentRequestId'[q] = i + 1 /\ issued'[q] = c /\ served' = served
      BY <1>0, <1>4, <2>1 DEF TypeOK
    <3>2. \A j \in Ids : j >= i + 1 => j >= i /\ j # i
      BY <1>1 DEF Ids
    <3>3. \A d \in Calls : d > c => d > issued[p]
      BY <1>1 DEF Calls
    <3> QED
      BY <2>1, <3>1, <3>2, <3>3, <1>5 DEF CallInv, FreshAhead, i
  <2>2. CASE q # p
    BY <1>0, <1>4, <1>5, <2>2 DEF CallInv, FreshAhead, TypeOK
  <2> QED
    BY <2>1, <2>2
<1>10. RequestsAhead'
  <2> SUFFICES ASSUME NEW q \in Peers, NEW k \in 1 .. Len(wire'[q]),
                      wire'[q][k].type = "request"
               PROVE  /\ wire'[q][k].call <= issued'[q]
                      /\ \A d \in Calls : d >= wire'[q][k].call => served'[q][d] = 0
                      /\ wire'[q][k].method \notin OneWay =>
                           responseCallbacks'[q][wire'[q][k].id] = wire'[q][k].call
                      /\ \A l \in 1 .. Len(wire'[q]) :
                           l > k /\ wire'[q][l].type = "request" =>
                             wire'[q][l].call > wire'[q][k].call
    BY DEF RequestsAhead
  <2>1. CASE q # p
    <3>1. wire'[q] = wire[q] /\ issued'[q] = issued[q] /\ served' = served
          /\ responseCallbacks'[q] = responseCallbacks[q]
      BY <1>0, <1>4, <1>5, <1>6, <2>1 DEF TypeOK
    <3> QED
      BY <3>1 DEF CallInv, RequestsAhead
  <2>2. CASE q = p /\ k \in 1 .. Len(wire[p]) /\ wire'[p][k] = wire[p][k]
    <3>1. wire[p][k] \in Messages
      BY <1>0, <2>2, Elements
    <3>2. wire[p][k].id \in Ids /\ wire[p][k].call \in Calls /\ wire[p][k].call \in Nat
      BY <3>1, Fields
    <3>3. /\ wire[p][k].call <= issued[p]
          /\ \A d \in Calls : d >= wire[p][k].call => served[p][d] = 0
          /\ wire[p][k].method \notin OneWay =>
               responseCallbacks[p][wire[p][k].id] = wire[p][k].call
          /\ \A l \in 1 .. Len(wire[p]) : l > k /\ wire[p][l].type = "request" =>
               wire[p][l].call > wire[p][k].call
      BY <2>2 DEF CallInv, RequestsAhead
    <3>4. issued'[p] = c /\ served' = served
      BY <1>0, <1>4 DEF TypeOK
    <3>5. wire[p][k].call < c
      BY <1>1, <3>2, <3>3
    <3>6. \A l \in 1 .. Len(wire'[p]) : l > k /\ wire'[p][l].type = "request" =>
            wire'[p][l].call > wire[p][k].call
      BY <1>2, <1>1, <1>6, <3>2, <3>3, <3>5
    <3>7. wire[p][k].call <= c
      BY <1>1, <3>2, <3>5
    <3>8. wire[p][k].method \notin OneWay =>
            responseCallbacks'[p][wire[p][k].id] = wire[p][k].call
      BY <1>5, <3>2, <3>3
    <3> QED
      BY <2>2, <3>3, <3>4, <3>6, <3>7, <3>8
  <2>3. CASE q = p /\ k = Len(wire[p]) + 1 /\ wire'[p][k] = req
    <3>1. issued'[p] = c /\ served' = served
      BY <1>0, <1>4 DEF TypeOK
    <3>2. \A d \in Calls : d >= c => served[p][d] = 0
      BY <1>1 DEF CallInv, FreshAhead, Calls
    <3>3. \A l \in 1 .. Len(wire'[p]) : ~(l > k)
      BY <1>6, <2>3
    <3> QED
      BY <1>1, <1>2, <1>5, <2>3, <3>1, <3>2, <3>3
  <2> QED
    BY <1>6, <2>1, <2>2, <2>3
<1>11. ResponsesAwaited'
  <2> SUFFICES ASSUME NEW q \in Peers, NEW k \in 1 .. Len(wire'[q]),
                      wire'[q][k].type = "response"
               PROVE  /\ responseCallbacks'[Other(q)][wire'[q][k].id] = wire'[q][k].call
                      /\ replied'[Other(q)][wire'[q][k].call] = 1
                      /\ completed'[Other(q)][wire'[q][k].call] = 0
                      /\ \A l \in 1 .. Len(wire'[q]) :
                           l # k /\ wire'[q][l].type = "response" =>
                             wire'[q][l].call # wire'[q][k].call
    BY DEF ResponsesAwaited
  <2>1. /\ k \in 1 .. Len(wire[q]) /\ wire'[q][k] = wire[q][k]
        /\ \A l \in 1 .. Len(wire'[q]) : wire'[q][l].type = "response" =>
             l \in 1 .. Len(wire[q]) /\ wire'[q][l] = wire[q][l]
    BY <1>2, <1>6
  <2>2. wire[q][k].id \in Ids /\ wire[q][k].call \in Calls /\ Other(q) \in Peers
    BY <1>0, <2>1, Elements, Fields, Others
  <2> QED
    BY <1>4, <1>5, <2>1, <2>2 DEF CallInv, ResponsesAwaited
<1>12. ClosuresAwaited'
  BY <1>0, <1>4, <1>5, Elements, Fields, Others DEF CallInv, ClosuresAwaited
<1>13. CallbacksHeld'
  BY <1>0, <1>4, <1>5, Elements, Fields DEF CallInv, CallbacksHeld
<1> QED
  BY <1>7, <1>8, <1>9, <1>10, <1>11, <1>12, <1>13 DEF CallInv

\* A proxy method without reply keeps the invariant.
LEMMA ProxyNotifyStep ==
  ASSUME TypeInv, CallInv, NEW p \in Peers, NEW m \in Methods, ProxyNotify(p, m)
  PROVE  CallInv'
<1> DEFINE c == issued[p] + 1
           req == Request(0, m, c)
<1>0. TypeOK /\ IdsTaken
  BY DEF TypeInv
<1>1. /\ c \in Calls /\ issued[p] \in Nat /\ c = issued[p] + 1
      /\ currentRequestId[p] \in Nat /\ currentRequestId[p] <= issued[p]
  <2>1. currentRequestId[p] \in 0 .. MaxCalls /\ issued[p] \in 0 .. MaxCalls
    BY <1>0 DEF Ids, TypeOK
  <2>2. issued[p] < MaxCalls /\ MaxCalls \in Nat
    BY ChannelAssumption DEF ProxyNotify, ChannelAssumption
  <2> QED
    BY <1>0, <2>1, <2>2 DEF Calls, IdsTaken
<1>2. /\ req \in Messages /\ req.type = "request" /\ req.call = c
      /\ req.method \in OneWay
  <2>1. 0 \in Ids
    BY ChannelAssumption DEF ChannelAssumption, Ids
  <2> QED
    BY <1>1, <2>1 DEF Request, Messages, ProxyNotify
<1>3. /\ wire' = Sent(p, req)
      /\ issued' = [issued EXCEPT ![p] = c]
      /\ UNCHANGED <<currentRequestId, responseCallbacks, stack, pending, live,
                     served, replied, completed>>
  BY DEF ProxyNotify, channelVars
<1> HIDE DEF c, req
<1>4. /\ \A q \in Peers : q # p => wire'[q] = wire[q] /\ issued'[q] = issued[q]
      /\ Len(wire[p]) \in Nat /\ Len(wire'[p]) \in Nat
      /\ \A k \in 1 .. Len(wire'[p]) :
           \/ k \in 1 .. Len(wire[p]) /\ wire'[p][k] = wire[p][k]
           \/ k = Len(wire[p]) + 1 /\ wire'[p][k] = req
      /\ issued'[p] = c
  <2>1. /\ \A q \in Peers : q # p => wire'[q] = wire[q]
        /\ Len(wire[p]) \in Nat /\ Len(wire'[p]) \in Nat
        /\ \A k \in 1 .. Len(wire'[p]) :
             \/ k \in 1 .. Len(wire[p]) /\ wire'[p][k] = wire[p][k]
             \/ k = Len(wire[p]) + 1 /\ wire'[p][k] = req
    BY <1>0, <1>2, <1>3, SentElements
  <2>2. issued'[p] = c /\ \A q \in Peers : q # p => issued'[q] = issued[q]
    BY <1>0, <1>3 DEF TypeOK
  <2> QED
    BY <2>1, <2>2
<1>5. IdsTaken'
  BY <1>0, <1>1, <1>3, <1>4 DEF IdsTaken
<1>6. AtMostOnce'
  BY <1>3 DEF CallInv, AtMostOnce
<1>7. FreshAhead'
  <2>1. \A d \in Calls : d > c => d > issued[p]
    BY <1>1 DEF Calls
  <2> QED
    BY <1>3, <1>4, <2>1 DEF CallInv, FreshAhead
<1>8. RequestsAhead'
  <2> SUFFICES ASSUME NEW q \in Peers, NEW k \in 1 .. Len(wire'[q]),
                      wire'[q][k].type = "request"
               PROVE  /\ wire'[q][k].call <= issued'[q]
                      /\ \A d \in Calls : d >= wire'[q][k].call => served'[q][d] = 0
                      /\ wire'[q][k].method \notin OneWay =>
                           responseCallbacks'[q][wire'[q][k].id] = wire'[q][k].call
                      /\ \A l \in 1 .. Len(wire'[q]) :
                           l > k /\ wire'[q][l].type = "request" =>
                             wire'[q][l].call > wire'[q][k].call
    BY DEF RequestsAhead
  <2>1. CASE q # p
    BY <1>3, <1>4, <2>1 DEF CallInv, RequestsAhead
  <2>2. CASE q = p /\ k \in 1 .. Len(wire[p]) /\ wire'[p][k] = wire[p][k]
    <3>1. wire[p][k].call \in Nat
      BY <1>0, <2>2, Elements, Fields
    <3>2. /\ wire[p][k].call <= issued[p]
          /\ \A d \in Calls : d >= wire[p][k].call => served[p][d] = 0
          /\ wire[p][k].method \notin OneWay =>
               responseCallbacks[p][wire[p][k].id] = wire[p][k].call
          /\ \A l \in 1 .. Len(wire[p]) : l > k /\ wire[p][l].type = "request" =>
               wire[p][l].call > wire[p][k].call
      BY <2>2 DEF CallInv, RequestsAhead
    <3>3. wire[p][k].call < c /\ wire[p][k].call <= c
      BY <1>1, <3>1, <3>2
    <3>4. \A l \in 1 .. Len(wire'[p]) : l > k /\ wire'[p][l].type = "request" =>
            wire'[p][l].call > wire[p][k].call
      BY <1>1, <1>2, <1>4, <3>1, <3>2, <3>3
    <3> QED
      BY <1>3, <1>4, <2>2, <3>2, <3>3, <3>4
  <2>3. CASE q = p /\ k = Len(wire[p]) + 1 /\ wire'[p][k] = req
    <3>1. \A d \in Calls : d >= c => served[p][d] = 0
      BY <1>1 DEF CallInv, FreshAhead, Calls
    <3>2. \A l \in 1 .. Len(wire'[p]) : ~(l > k)
      BY <1>4, <2>3
    <3> QED
      BY <1>1, <1>2, <1>3, <1>4, <2>3, <3>1, <3>2
  <2> QED
    BY <1>4, <2>1, <2>2, <2>3
<1>9. ResponsesAwaited'
  <2>1. \A q \in Peers : \A k \in 1 .. Len(wire'[q]) : wire'[q][k].type = "response" =>
          k \in 1 .. Len(wire[q]) /\ wire'[q][k] = wire[q][k]
    BY <1>2, <1>4
  <2>2. /\ responseCallbacks' = responseCallbacks
        /\ replied' = replied /\ completed' = completed
    BY <1>3
  <2> QED
    BY <2>1, <2>2 DEF CallInv, ResponsesAwaited
<1>10. ClosuresAwaited' /\ CallbacksHeld'
  BY <1>3 DEF CallInv, ClosuresAwaited, CallbacksHeld
<1> QED
  BY <1>5, <1>6, <1>7, <1>8, <1>9, <1>10 DEF CallInv

\* Running a `done` closure keeps the invariant: it is the only one of its call.
LEMMA ReplyStep ==
  ASSUME TypeInv, CallInv, NEW p \in Peers, NEW r \in pending[p], Reply(p, r)
  PROVE  CallInv'
<1> DEFINE q == Other(p)
           resp == ReplyTo(r)
<1>0. TypeOK
  BY DEF TypeInv
<1>1. /\ r \in Messages /\ r.call \in Calls /\ r.id \in Ids /\ q \in Peers
      /\ q # p /\ Other(q) = p
      /\ \A a \in Peers : a # p => a = q
  BY <1>0, Elements, Fields, Others
<1>2. /\ resp \in Messages /\ resp.type = "response" /\ resp.id = r.id
      /\ resp.call = r.call
  BY <1>1, ReplyTyped
<1>3. /\ r.type = "request"
      /\ responseCallbacks[q][r.id] = r.call
      /\ served[q][r.call] = 1 /\ replied[q][r.call] = 0
      /\ \A s \in pending[p] : s.call = r.call => s = r
  BY DEF CallInv, ClosuresAwaited
<1>4. completed[q][r.call] = 0
  <2>1. completed[q][r.call] <= replied[q][r.call] /\ completed[q][r.call] \in Nat
    BY <1>0, <1>1 DEF CallInv, AtMostOnce, TypeOK
  <2> QED
    BY <1>3, <2>1
<1>5. /\ wire' = Sent(p, resp)
      /\ pending' = [pending EXCEPT ![p] = @ \ {r}]
      /\ live' = [live EXCEPT ![p] = @ \ {r}]
      /\ replied' = [replied EXCEPT ![q][r.call] = @ + 1]
      /\ UNCHANGED <<currentRequestId, responseCallbacks, stack, issued, served, completed>>
  BY DEF Reply, channelVars
<1> HIDE DEF q, resp
<1>6. \A a \in Peers : \A d \in Calls :
        replied'[a][d] = IF a = q /\ d = r.call THEN 1 ELSE replied[a][d]
  <2>1. replied' = [replied EXCEPT ![q] = [replied[q] EXCEPT ![r.call] = replied[q][r.call] + 1]]
    BY <1>5
  <2>2. replied[q][r.call] + 1 = 1
    BY <1>3
  <2>3. replied \in [Peers -> [Calls -> Nat]]
    BY <1>0 DEF TypeOK
  <2> QED
    BY <1>1, <2>1, <2>2, <2>3
<1>7. /\ \A a \in Peers : a # p =>
           wire'[a] = wire[a] /\ pending'[a] = pending[a] /\ live'[a] = live[a]
      /\ pending'[p] = pending[p] \ {r} /\ live'[p] = live[p] \ {r}
      /\ Len(wire[p]) \in Nat /\ Len(wire'[p]) \in Nat
      /\ \A k \in 1 .. Len(wire'[p]) :
           \/ k \in 1 .. Len(wire[p]) /\ wire'[p][k] = wire[p][k]
           \/ k = Len(wire[p]) + 1 /\ wire'[p][k] = resp
  <2>1. /\ \A a \in Peers : a # p => wire'[a] = wire[a]
        /\ Len(wire[p]) \in Nat /\ Len(wire'[p]) \in Nat
        /\ \A k \in 1 .. Len(wire'[p]) :
             \/ k \in 1 .. Len(wire[p]) /\ wire'[p][k] = wire[p][k]
             \/ k = Len(wire[p]) + 1 /\ wire'[p][k] = resp
    BY <1>0, <1>2, <1>5, SentElements
  <2>2. /\ \A a \in Peers : a # p => pending'[a] = pending[a] /\ live'[a] = live[a]
        /\ pending'[p] = pending[p] \ {r} /\ live'[p] = live[p] \ {r}
    BY <1>0, <1>5 DEF TypeOK
  <2> QED
    BY <2>1, <2>2
<1>8. IdsTaken' /\ FreshAhead'
  BY <1>5 DEF CallInv, IdsTaken, FreshAhead
<1>9. AtMostOnce'
  BY <1>1, <1>3, <1>4, <1>5, <1>6 DEF CallInv, AtMostOnce
<1>10. RequestsAhead'
  <2>1. \A a \in Peers : \A k \in 1 .. Len(wire'[a]) : wire'[a][k].type = "request" =>
          k \in 1 .. Len(wire[a]) /\ wire'[a][k] = wire[a][k]
    BY <1>2, <1>7
  <2> QED
    BY <1>5, <2>1 DEF CallInv, RequestsAhead
<1>11. ResponsesAwaited'
  <2> SUFFICES ASSUME NEW a \in Peers, NEW k \in 1 .. Len(wire'[a]),
                      wire'[a][k].type = "response"
               PROVE  /\ responseCallbacks'[Other(a)][wire'[a][k].id] = wire'[a][k].call
                      /\ replied'[Other(a)][wire'[a][k].call] = 1
                      /\ completed'[Other(a)][wire'[a][k].call] = 0
                      /\ \A l \in 1 .. Len(wire'[a]) :
                           l # k /\ wire'[a][l].type = "response" =>
                             wire'[a][l].call # wire'[a][k].call
    BY DEF ResponsesAwaited
  <2>0. Other(p) = q
    BY DEF q
  <2>1. \A l \in 1 .. Len(wire[p]) : wire[p][l].type = "response" => wire[p][l].call # r.call
    BY <1>3, <2>0 DEF CallInv, ResponsesAwaited
  <2>2. CASE a # p
    <3>1. wire'[a] = wire[a] /\ Other(a) = p /\ wire[a][k].call \in Calls
      BY <1>0, <1>1, <1>7, <2>2, Elements, Fields
    <3> QED
      BY <1>1, <1>5, <1>6, <3>1 DEF CallInv, ResponsesAwaited
  <2>3. CASE a = p /\ k \in 1 .. Len(wire[p]) /\ wire'[p][k] = wire[p][k]
    <3>1. wire[p][k].call \in Calls /\ wire[p][k].call # r.call
      BY <1>0, <2>1, <2>3, Elements, Fields
    <3>2. \A l \in 1 .. Len(wire'[p]) : l # k /\ wire'[p][l].type = "response" =>
            wire'[p][l].call # wire[p][k].call
      BY <1>2, <1>7, <2>3, <3>1 DEF CallInv, ResponsesAwaited
    <3> QED
      BY <1>1, <1>5, <1>6, <2>0, <2>3, <3>1, <3>2 DEF CallInv, ResponsesAwaited
  <2>4. CASE a = p /\ k = Len(wire[p]) + 1 /\ wire'[p][k] = resp
    <3>1. \A l \in 1 .. Len(wire'[p]) : l # k /\ wire'[p][l].type = "response" =>
            wire'[p][l].call # r.call
      BY <1>7, <2>1, <2>4
    <3> QED
      BY <1>1, <1>2, <1>3, <1>4, <1>5, <1>6, <2>0, <2>4, <3>1
  <2> QED
    BY <1>7, <2>2, <2>3, <2>4
<1>12. ClosuresAwaited'
  <2> SUFFICES ASSUME NEW a \in Peers, NEW s \in pending'[a]
               PROVE  /\ s.type = "request" /\ s \in live'[a]
                      /\ responseCallbacks'[Other(a)][s.id] = s.call
                      /\ served'[Other(a)][s.call] = 1
                      /\ replied'[Other(a)][s.call] = 0
                      /\ \A t \in pending'[a] : t.call = s.call => t = s
    BY DEF ClosuresAwaited
  <2>1. s \in pending[a] /\ s.call \in Calls /\ Other(a) \in Peers
    BY <1>0, <1>7, Elements, Fields, Others
  <2>2. /\ s.type = "request" /\ s \in live[a]
        /\ responseCallbacks[Other(a)][s.id] = s.call
        /\ served[Other(a)][s.call] = 1
        /\ replied[Other(a)][s.call] = 0
        /\ \A t \in pending[a] : t.call = s.call => t = s
    BY <2>1 DEF CallInv, ClosuresAwaited
  <2>3. Other(a) = q => a = p /\ s.call # r.call
    BY <1>1, <1>3, <1>7, <2>1, Others DEF q
  <2>4. replied'[Other(a)][s.call] = 0
    BY <1>6, <2>1, <2>2, <2>3
  <2>5. s \in live'[a]
    BY <1>7, <2>2
  <2>6. \A t \in pending'[a] : t \in pending[a]
    BY <1>7
  <2> QED
    BY <1>5, <2>2, <2>4, <2>5, <2>6
<1>13. CallbacksHeld'
  <2>1. \A a \in Peers : \A k \in 1 .. Len(stack[a]) :
          stack[a][k].type = "response" /\ stack[a][k] \in live[a] => stack[a][k] \in live'[a]
    BY <1>3, <1>7
  <2> QED
    BY <1>5, <2>1 DEF CallInv, CallbacksHeld
<1> QED
  BY <1>8, <1>9, <1>10, <1>11, <1>12, <1>13 DEF CallInv

\* Returning from a service keeps the invariant.
LEMMA ReturnServiceStep ==
  ASSUME TypeInv, CallInv, NEW p \in Peers, ReturnService(p)
  PROVE  CallInv'
<1>0. TypeOK
  BY DEF TypeInv
<1>1. /\ stack' = [stack EXCEPT ![p] = Pop(@)]
      /\ UNCHANGED <<currentRequestId, responseCallbacks, wire, pending, live,
                     issued, served, replied, completed>>
  BY DEF ReturnService, channelVars, history
<1>2. \A a \in Peers : \A k \in 1 .. Len(stack'[a]) :
        k \in 1 .. Len(stack[a]) /\ stack'[a][k] = stack[a][k]
  BY <1>0, <1>1, PoppedStack DEF ReturnService
<1>3. CallbacksHeld'
  BY <1>1, <1>2 DEF CallInv, CallbacksHeld
<1>4. IdsTaken' /\ AtMostOnce' /\ FreshAhead'
  BY <1>1 DEF CallInv, IdsTaken, AtMostOnce, FreshAhead
<1>5. RequestsAhead'
  BY <1>1 DEF CallInv, RequestsAhead
<1>6. ResponsesAwaited'
  BY <1>1 DEF CallInv, ResponsesAwaited
<1>7. ClosuresAwaited'
  BY <1>1 DEF CallInv, ClosuresAwaited
<1> QED
  BY <1>3, <1>4, <1>5, <1>6, <1>7 DEF CallInv

\* Erasing the entry of a completed call touches no entry that is waited for.
LEMMA ReturnCallbackStep ==
  ASSUME TypeInv, CallInv, NEW p \in Peers, ReturnCallback(p)
  PROVE  CallInv'
<1> DEFINE n == Len(stack[p])
           m == stack[p][n]
<1>0. TypeOK
  BY DEF TypeInv
<1>1. /\ stack[p] # <<>> /\ m.type = "response"
      /\ responseCallbacks' = [responseCallbacks EXCEPT ![p] = [@ EXCEPT ![m.id] = NoEntry]]
      /\ live' = [live EXCEPT ![p] = @ \ {m}]
      /\ stack' = [stack EXCEPT ![p] = Pop(@)]
      /\ UNCHANGED <<currentRequestId, wire, pending, issued, served, replied, completed>>
  BY DEF ReturnCallback, Top, Erased, history
<1>2. /\ \A a \in Peers : \A k \in 1 .. Len(stack'[a]) :
           k \in 1 .. Len(stack[a]) /\ stack'[a][k] = stack[a][k]
      /\ \A k \in 1 .. Len(stack'[p]) : k # n
      /\ n \in 1 .. Len(stack[p])
  BY <1>0, <1>1, PoppedStack
<1>3. m \in Messages /\ m.id \in Ids /\ m.call \in Calls
  BY <1>0, <1>2, Elements, Fields
<1>4. /\ responseCallbacks[p][m.id] = m.call
      /\ completed[p][m.call] = 1
      /\ \A l \in 1 .. Len(stack[p]) :
           l # n /\ stack[p][l].type = "response" => stack[p][l].call # m.call
  BY <1>1, <1>2 DEF CallInv, CallbacksHeld
<1>5. replied[p][m.call] = 1 /\ served[p][m.call] = 1
  <2>1. /\ completed[p][m.call] <= replied[p][m.call]
        /\ replied[p][m.call] <= served[p][m.call] /\ served[p][m.call] <= 1
        /\ replied[p][m.call] \in Nat /\ served[p][m.call] \in Nat
    BY <1>0, <1>3 DEF CallInv, AtMostOnce, TypeOK
  <2> QED
    BY <1>4, <2>1
<1> HIDE DEF m, n
<1>6. /\ \A a \in Peers : a # p =>
           responseCallbacks'[a] = responseCallbacks[a] /\ live'[a] = live[a]
      /\ \A j \in Ids : responseCallbacks'[p][j] =
           IF j = m.id THEN NoEntry ELSE responseCallbacks[p][j]
      /\ live'[p] = live[p] \ {m}
  BY <1>0, <1>1, <1>3 DEF TypeOK
\* An entry of another call is at another id.
<1>7. \A j \in Ids : \A d \in Calls :
        responseCallbacks[p][j] = d /\ d # m.call => responseCallbacks'[p][j] = d
  BY <1>4, <1>6
<1>8. IdsTaken' /\ AtMostOnce'
  BY <1>1 DEF CallInv, IdsTaken, AtMostOnce
<1>9. FreshAhead'
  BY <1>1, <1>6 DEF CallInv, FreshAhead
<1>10. RequestsAhead'
  <2>1. \A k \in 1 .. Len(wire[p]) : wire[p][k].type = "request" =>
          /\ wire[p][k].call \in Calls /\ wire[p][k].id \in Ids
          /\ wire[p][k].call # m.call
    <3> SUFFICES ASSUME NEW k \in 1 .. Len(wire[p]), wire[p][k].type = "request"
                 PROVE  /\ wire[p][k].call \in Calls /\ wire[p][k].id \in Ids
                        /\ wire[p][k].call # m.call
      OBVIOUS
    <3>1. wire[p][k].call \in Calls /\ wire[p][k].id \in Ids /\ wire[p][k].call \in Nat
      BY <1>0, Elements, Fields
    <3>2. served[p][wire[p][k].call] = 0
      BY <3>1 DEF CallInv, RequestsAhead
    <3> QED
      BY <1>5, <3>1, <3>2
  <2> QED
    BY <1>1, <1>6, <1>7, <2>1 DEF CallInv, RequestsAhead
<1>11. ResponsesAwaited'
  <2>1. ASSUME NEW a \in Peers, NEW k \in 1 .. Len(wire[a]), wire[a][k].type = "response"
        PROVE  responseCallbacks'[Other(a)][wire[a][k].id] = wire[a][k].call
    <3>1. wire[a][k].call \in Calls /\ wire[a][k].id \in Ids /\ Other(a) \in Peers
      BY <1>0, Elements, Fields, Others
    <3>2. /\ completed[Other(a)][wire[a][k].call] = 0
          /\ responseCallbacks[Other(a)][wire[a][k].id] = wire[a][k].call
      BY <2>1 DEF CallInv, ResponsesAwaited
    <3> QED
      BY <1>4, <1>6, <1>7, <3>1, <3>2
  <2> QED
    BY <1>1, <2>1 DEF CallInv, ResponsesAwaited
<1>12. ClosuresAwaited'
  <2>1. ASSUME NEW a \in Peers, NEW s \in pending[a]
        PROVE  responseCallbacks'[Other(a)][s.id] = s.call /\ s \in live'[a]
    <3>1. s.call \in Calls /\ s.id \in Ids /\ Other(a) \in Peers
      BY <1>0, Elements, Fields, Others
    <3>2. /\ replied[Other(a)][s.call] = 0 /\ s.type = "request" /\ s \in live[a]
          /\ responseCallbacks[Other(a)][s.id] = s.call
      BY DEF CallInv, ClosuresAwaited
    <3>3. s # m
      BY <1>1, <3>2 DEF m
    <3> QED
      BY <1>5, <1>6, <1>7, <3>1, <3>2, <3>3
  <2> QED
    BY <1>1, <2>1 DEF CallInv, ClosuresAwaited
<1>13. CallbacksHeld'
  <2>1. ASSUME NEW a \in Peers, NEW k \in 1 .. Len(stack'[a]), stack[a][k].type = "response"
        PROVE  /\ stack[a][k] \in live'[a]
               /\ responseCallbacks'[a][stack[a][k].id] = stack[a][k].call
    <3>1. k \in 1 .. Len(stack[a])
      BY <1>2
    <3>2. stack[a][k].call \in Calls /\ stack[a][k].id \in Ids
      BY <1>0, <3>1, Elements, Fields
    <3>3. /\ stack[a][k] \in live[a]
          /\ responseCallbacks[a][stack[a][k].id] = stack[a][k].call
      BY <2>1, <3>1 DEF CallInv, CallbacksHeld
    <3>4. a = p => stack[a][k].call # m.call
      BY <1>2, <1>4, <2>1, <3>1
    <3> QED
      BY <1>6, <1>7, <3>2, <3>3, <3>4
  <2> QED
    BY <1>1, <1>2, <2>1 DEF CallInv, CallbacksHeld
<1> QED
  BY <1>8, <1>9, <1>10, <1>11, <1>12, <1>13 DEF CallInv

\* What the head of a wire is known to be when it is a response.
LEMMA HeadResponse ==
  ASSUME TypeInv, CallInv, NEW p \in Peers, NEW m \in Arriving(p), m.type = "response"
  PROVE  /\ responseCallbacks[p][m.id] = m.call
         /\ replied[p][m.call] = 1
         /\ served[p][m.call] = 1
         /\ completed[p][m.call] = 0
<1>0. TypeOK
  BY DEF TypeInv
<1>1. /\ m \in Messages /\ m.call \in Calls /\ Other(p) \in Peers /\ Other(Other(p)) = p
      /\ m = wire[Other(p)][1] /\ 1 \in 1 .. Len(wire[Other(p)])
  BY <1>0, ArrivingProperties, Fields, Others
<1>2. /\ responseCallbacks[p][m.id] = m.call
      /\ replied[p][m.call] = 1
      /\ completed[p][m.call] = 0
  BY <1>1 DEF CallInv, ResponsesAwaited
<1>3. /\ replied[p][m.call] <= served[p][m.call] /\ served[p][m.call] <= 1
      /\ served[p][m.call] \in Nat
  BY <1>0, <1>1 DEF CallInv, AtMostOnce, TypeOK
<1> QED
  BY <1>2, <1>3

\* What holds of the requests w that caller q still has on its wire after m was
\* taken off it.
RequestsLeft(m, q, w) ==
  \A k \in 1 .. Len(w) : w[k].type = "request" =>
    /\ w[k] \in Messages
    /\ w[k].call <= issued[q]
    /\ \A d \in Calls : d >= w[k].call => served[q][d] = 0
    /\ w[k].method \notin OneWay => responseCallbacks[q][w[k].id] = w[k].call
    /\ \A l \in 1 .. Len(w) : l > k /\ w[l].type = "request" => w[l].call > w[k].call
    /\ m.type = "request" => w[k].call > m.call

\* And of the responses to calls of p.
ResponsesLeft(m, p, w) ==
  \A k \in 1 .. Len(w) : w[k].type = "response" =>
    /\ w[k] \in Messages
    /\ responseCallbacks[p][w[k].id] = w[k].call
    /\ replied[p][w[k].call] = 1
    /\ completed[p][w[k].call] = 0
    /\ \A l \in 1 .. Len(w) : l # k /\ w[l].type = "response" => w[l].call # w[k].call
    /\ m.type = "response" => w[k].call # m.call

\* The requests left on a wire after receiving know what they knew, and are those
\* of later calls than the message received.
LEMMA ShiftedRequests ==
  ASSUME TypeInv, CallInv, NEW p \in Peers, NEW m \in Arriving(p),
         wire' = [wire EXCEPT ![Other(p)] = Tail(@)]
  PROVE  RequestsLeft(m, Other(p), wire'[Other(p)])
<1> DEFINE q == Other(p)
           w == wire'[q]
<1>0. TypeOK
  BY DEF TypeInv
<1>1. q \in Peers
  BY Others
<1>2. /\ Len(wire[q]) \in Nat
      /\ 1 \in 1 .. Len(wire[q]) /\ wire[q][1] = m
      /\ \A l \in 1 .. Len(w) : l + 1 \in 1 .. Len(wire[q]) /\ w[l] = wire[q][l + 1]
  BY <1>0, ReceivedWire
<1> HIDE DEF w, q
<1> SUFFICES ASSUME NEW k \in 1 .. Len(w), w[k].type = "request"
             PROVE  /\ w[k] \in Messages
                    /\ w[k].call <= issued[q]
                    /\ \A d \in Calls : d >= w[k].call => served[q][d] = 0
                    /\ w[k].method \notin OneWay =>
                         responseCallbacks[q][w[k].id] = w[k].call
                    /\ \A l \in 1 .. Len(w) : l > k /\ w[l].type = "request" =>
                         w[l].call > w[k].call
                    /\ m.type = "request" => w[k].call > m.call
  BY DEF w, q, RequestsLeft
<1>3. k \in 1 .. Len(w) /\ w[k].type = "request"
  OBVIOUS
<1>4. k \in Nat /\ k + 1 \in 1 .. Len(wire[q]) /\ k + 1 > 1 /\ w[k] = wire[q][k + 1]
  BY <1>2, <1>3
<1>5. wire[q][k + 1] \in Messages
  BY <1>0, <1>1, <1>4, Elements
<1>6. /\ w[k].call <= issued[q]
      /\ \A d \in Calls : d >= w[k].call => served[q][d] = 0
      /\ w[k].method \notin OneWay => responseCallbacks[q][w[k].id] = w[k].call
      /\ \A l \in 1 .. Len(wire[q]) :
           l > k + 1 /\ wire[q][l].type = "request" => wire[q][l].call > w[k].call
  BY <1>1, <1>3, <1>4 DEF CallInv, RequestsAhead
<1>7. \A l \in 1 .. Len(w) : l > k /\ w[l].type = "request" => w[l].call > w[k].call
  <2> SUFFICES ASSUME NEW l \in 1 .. Len(w), l > k, w[l].type = "request"
               PROVE  w[l].call > w[k].call
    OBVIOUS
  <2>1. l + 1 \in 1 .. Len(wire[q]) /\ w[l] = wire[q][l + 1]
    BY <1>2
  <2>2. l + 1 > k + 1
    BY <1>4
  <2> QED
    BY <1>6, <2>1, <2>2
<1>8. m.type = "request" => w[k].call > m.call
  BY <1>1, <1>2, <1>3, <1>4 DEF CallInv, RequestsAhead
<1>9. w[k] \in Messages
  BY <1>4, <1>5
<1> QED
  BY <1>6, <1>7, <1>8, <1>9

\* The responses left on a wire after receiving know what they knew, and are not
\* that of the call the message received answers.
LEMMA ShiftedResponses ==
  ASSUME TypeInv, CallInv, NEW p \in Peers, NEW m \in Arriving(p),
         wire' = [wire EXCEPT ![Other(p)] = Tail(@)]
  PROVE  ResponsesLeft(m, p, wire'[Other(p)])
<1> DEFINE q == Other(p)
           w == wire'[q]
<1>0. TypeOK
  BY DEF TypeInv
<1>1. q \in Peers /\ Other(q) = p
  BY Others
<1>2. /\ Len(wire[q]) \in Nat
      /\ 1 \in 1 .. Len(wire[q]) /\ wire[q][1] = m
      /\ \A l \in 1 .. Len(w) : l + 1 \in 1 .. Len(wire[q]) /\ w[l] = wire[q][l + 1]
  BY <1>0, ReceivedWire
<1> HIDE DEF w, q
<1> SUFFICES ASSUME NEW k \in 1 .. Len(w), w[k].type = "response"
             PROVE  /\ w[k] \in Messages
                    /\ responseCallbacks[p][w[k].id] = w[k].call
                    /\ replied[p][w[k].call] = 1
                    /\ completed[p][w[k].call] = 0
                    /\ \A l \in 1 .. Len(w) : l # k /\ w[l].type = "response" =>
                         w[l].call # w[k].call
                    /\ m.type = "response" => w[k].call # m.call
  BY DEF w, q, ResponsesLeft
<1>3. k \in 1 .. Len(w) /\ w[k].type = "response"
  OBVIOUS
<1>4. k \in Nat /\ k + 1 \in 1 .. Len(wire[q]) /\ k + 1 # 1 /\ w[k] = wire[q][k + 1]
  BY <1>2, <1>3
<1>5. w[k] \in Messages
  BY <1>0, <1>1, <1>4, Elements
<1>6. /\ responseCallbacks[p][w[k].id] = w[k].call
      /\ replied[p][w[k].call] = 1
      /\ completed[p][w[k].call] = 0
      /\ \A l \in 1 .. Len(wire[q]) :
           l # k + 1 /\ wire[q][l].type = "response" => wire[q][l].call # w[k].call
  BY <1>1, <1>3, <1>4 DEF CallInv, ResponsesAwaited
<1>7. \A l \in 1 .. Len(w) : l # k /\ w[l].type = "response" => w[l].call # w[k].call
  <2> SUFFICES ASSUME NEW l \in 1 .. Len(w), l # k, w[l].type = "response"
               PROVE  w[l].call # w[k].call
    OBVIOUS
  <2>1. l + 1 \in 1 .. Len(wire[q]) /\ w[l] = wire[q][l + 1]
    BY <1>2
  <2>2. l + 1 # k + 1
    BY <1>4
  <2> QED
    BY <1>6, <2>1, <2>2
<1>8. m.type = "response" => w[k].call # m.call
  BY <1>2, <1>4, <1>6
<1> QED
  BY <1>5, <1>6, <1>7, <1>8

\* Dropping a response that lost its objects erases its own entry only.
LEMMA AbandonResponseStep ==
  ASSUME TypeInv, CallInv, NEW p \in Peers, NEW m \in Arriving(p), AbandonResponse(p, m)
  PROVE  CallInv'
<1> DEFINE q == Other(p)
<1>0. TypeOK
  BY DEF TypeInv
<1>1. /\ m.type = "response"
      /\ responseCallbacks' = [responseCallbacks EXCEPT ![p] = [@ EXCEPT ![m.id] = NoEntry]]
      /\ wire' = [wire EXCEPT ![q] = Tail(@)]
      /\ UNCHANGED <<currentRequestId, stack, pending, live, issued, served, replied, completed>>
  BY DEF AbandonResponse, Erased, history
<1>2. /\ m \in Messages /\ m.id \in Ids /\ m.call \in Calls /\ q \in Peers
      /\ q # p /\ q = Other(p) /\ Other(q) = p /\ \A a \in Peers : a # p => a = q
  BY <1>0, ArrivingProperties, Fields, Others
<1>3. /\ responseCallbacks[p][m.id] = m.call
      /\ replied[p][m.call] = 1 /\ served[p][m.call] = 1 /\ completed[p][m.call] = 0
  BY <1>1, HeadResponse
<1>4. wire'[p] = wire[p]
  BY <1>0, <1>1, <1>2, ReceivedWire
<1>4a. RequestsLeft(m, q, wire'[q])
  BY <1>1, ShiftedRequests
<1>4b. ResponsesLeft(m, p, wire'[q])
  BY <1>1, ShiftedResponses
<1> USE DEF RequestsLeft, ResponsesLeft
<1> HIDE DEF q
<1>5. /\ \A a \in Peers : a # p => responseCallbacks'[a] = responseCallbacks[a]
      /\ \A j \in Ids : responseCallbacks'[p][j] =
           IF j = m.id THEN NoEntry ELSE responseCallbacks[p][j]
  BY <1>0, <1>1, <1>2 DEF TypeOK
<1>6. \A j \in Ids : \A d \in Calls :
        responseCallbacks[p][j] = d /\ d # m.call => responseCallbacks'[p][j] = d
  BY <1>3, <1>5
<1>7. IdsTaken' /\ AtMostOnce'
  BY <1>1 DEF CallInv, IdsTaken, AtMostOnce
<1>8. FreshAhead'
  BY <1>1, <1>5 DEF CallInv, FreshAhead
<1>9. RequestsAhead'
  <2>1. ASSUME NEW k \in 1 .. Len(wire[p]), wire[p][k].type = "request"
        PROVE  /\ wire[p][k].call \in Calls /\ wire[p][k].id \in Ids
               /\ wire[p][k].call # m.call
    <3>1. wire[p][k].call \in Calls /\ wire[p][k].id \in Ids /\ wire[p][k].call \in Nat
      BY <1>0, Elements, Fields
    <3>2. served[p][wire[p][k].call] = 0
      BY <2>1, <3>1 DEF CallInv, RequestsAhead
    <3> QED
      BY <1>3, <3>1, <3>2
  <2>2. ASSUME NEW a \in Peers, NEW k \in 1 .. Len(wire'[a]), wire'[a][k].type = "request"
        PROVE  /\ wire'[a][k].call <= issued[a]
               /\ \A d \in Calls : d >= wire'[a][k].call => served[a][d] = 0
               /\ wire'[a][k].method \notin OneWay =>
                    responseCallbacks'[a][wire'[a][k].id] = wire'[a][k].call
               /\ \A l \in 1 .. Len(wire'[a]) :
                    l > k /\ wire'[a][l].type = "request" => wire'[a][l].call > wire'[a][k].call
    <3>1. CASE a = p
      BY <1>4, <1>6, <2>1, <2>2, <3>1 DEF CallInv, RequestsAhead
    <3>2. CASE a = q
      BY <1>2, <1>5, <1>4a, <2>2, <3>2
    <3> QED
      BY <1>2, <3>1, <3>2
  <2> QED
    BY <1>1, <2>2 DEF RequestsAhead
<1>10. ResponsesAwaited'
  <2> SUFFICES ASSUME NEW a \in Peers, NEW k \in 1 .. Len(wire'[a]),
                      wire'[a][k].type = "response"
               PROVE  /\ responseCallbacks'[Other(a)][wire'[a][k].id] = wire'[a][k].call
                      /\ replied'[Other(a)][wire'[a][k].call] = 1
                      /\ completed'[Other(a)][wire'[a][k].call] = 0
                      /\ \A l \in 1 .. Len(wire'[a]) :
                           l # k /\ wire'[a][l].type = "response" =>
                             wire'[a][l].call # wire'[a][k].call
    BY DEF ResponsesAwaited
  <2>1. replied' = replied /\ completed' = completed
    BY <1>1
  <2>2. CASE a = p
    <3>1. Other(a) = q
      BY <2>2 DEF q
    <3> QED
      BY <1>2, <1>4, <1>5, <2>1, <2>2, <3>1 DEF CallInv, ResponsesAwaited
  <2>3. CASE a = q
    <3>1. /\ wire'[q][k] \in Messages
          /\ wire'[q][k].call # m.call
          /\ responseCallbacks[p][wire'[q][k].id] = wire'[q][k].call
      BY <1>1, <1>4b, <2>3
    <3>2. wire'[q][k].id \in Ids /\ wire'[q][k].call \in Calls
      BY <3>1, Fields
    <3> QED
      BY <1>2, <1>6, <1>4b, <2>1, <2>3, <3>1, <3>2
  <2> QED
    BY <1>2, <2>2, <2>3
<1>11. ClosuresAwaited'
  <2>1. ASSUME NEW a \in Peers, NEW s \in pending[a]
        PROVE  responseCallbacks'[Other(a)][s.id] = s.call
    <3>1. s.call \in Calls /\ s.id \in Ids /\ Other(a) \in Peers
      BY <1>0, Elements, Fields, Others
    <3>2. replied[Other(a)][s.call] = 0 /\ responseCallbacks[Other(a)][s.id] = s.call
      BY DEF CallInv, ClosuresAwaited
    <3> QED
      BY <1>3, <1>5, <1>6, <3>1, <3>2
  <2> QED
    BY <1>1, <2>1 DEF CallInv, ClosuresAwaited
<1>12. CallbacksHeld'
  <2>1. ASSUME NEW a \in Peers, NEW k \in 1 .. Len(stack[a]), stack[a][k].type = "response"
        PROVE  responseCallbacks'[a][stack[a][k].id] = stack[a][k].call
    <3>1. stack[a][k].call \in Calls /\ stack[a][k].id \in Ids
      BY <1>0, Elements, Fields
    <3>2. /\ completed[a][stack[a][k].call] = 1
          /\ responseCallbacks[a][stack[a][k].id] = stack[a][k].call
      BY <2>1 DEF CallInv, CallbacksHeld
    <3> QED
      BY <1>3, <1>5, <1>6, <3>1, <3>2
  <2> QED
    BY <1>1, <2>1 DEF CallInv, CallbacksHeld
<1> QED
  BY <1>7, <1>8, <1>9, <1>10, <1>11, <1>12 DEF CallInv

\* What the head of a wire is known to be when it is a request.
LEMMA HeadRequest ==
  ASSUME TypeInv, CallInv, NEW p \in Peers, NEW m \in Arriving(p), m.type = "request"
  PROVE  /\ m.call <= issued[Other(p)]
         /\ \A d \in Calls : d >= m.call => served[Other(p)][d] = 0
         /\ m.method \notin OneWay => responseCallbacks[Other(p)][m.id] = m.call
         /\ served[Other(p)][m.call] = 0
         /\ replied[Other(p)][m.call] = 0
<1>0. TypeOK
  BY DEF TypeInv
<1>1. /\ m \in Messages /\ m.call \in Calls /\ m.call \in Nat /\ Other(p) \in Peers
      /\ m = wire[Other(p)][1] /\ 1 \in 1 .. Len(wire[Other(p)])
  BY <1>0, ArrivingProperties, Fields, Others
<1>2. /\ m.call <= issued[Other(p)]
      /\ \A d \in Calls : d >= m.call => served[Other(p)][d] = 0
      /\ m.method \notin OneWay => responseCallbacks[Other(p)][m.id] = m.call
  BY <1>1 DEF CallInv, RequestsAhead
<1>3. served[Other(p)][m.call] = 0
  BY <1>1, <1>2
<1>4. replied[Other(p)][m.call] <= served[Other(p)][m.call]
      /\ replied[Other(p)][m.call] \in Nat
  BY <1>0, <1>1 DEF CallInv, AtMostOnce, TypeOK
<1>5. replied[Other(p)][m.call] = 0
  BY <1>3, <1>4
<1> QED
  BY <1>2, <1>3, <1>5

\* Giving a request to its service keeps the invariant.
LEMMA DispatchRequestStep ==
  ASSUME TypeInv, CallInv, NEW p \in Peers, NEW m \in Arriving(p), DispatchRequest(p, m)
  PROVE  CallInv'
<1> DEFINE q == Other(p)
<1>0. TypeOK
  BY DEF TypeInv
<1>1. /\ m.type = "request"
      /\ wire' = [wire EXCEPT ![q] = Tail(@)]
      /\ stack' = [stack EXCEPT ![p] = Append(@, m)]
      /\ pending' = IF m.method \in OneWay THEN pending
                    ELSE [pending EXCEPT ![p] = @ \cup {m}]
      /\ live' = [live EXCEPT ![p] = @ \cup {m}]
      /\ served' = [served EXCEPT ![q][m.call] = @ + 1]
      /\ UNCHANGED <<currentRequestId, responseCallbacks, issued, replied, completed>>
  BY DEF DispatchRequest, Kept, channelVars
<1>2. /\ m \in Messages /\ m.id \in Ids /\ m.call \in Calls /\ m.call \in Nat /\ q \in Peers
      /\ q # p /\ q = Other(p) /\ Other(q) = p /\ \A a \in Peers : a # p => a = q
  BY <1>0, ArrivingProperties, Fields, Others
<1>3. /\ m.call <= issued[q]
      /\ \A d \in Calls : d >= m.call => served[q][d] = 0
      /\ m.method \notin OneWay => responseCallbacks[q][m.id] = m.call
      /\ served[q][m.call] = 0 /\ replied[q][m.call] = 0
  BY <1>1, HeadRequest
<1>4. wire'[p] = wire[p]
  BY <1>0, <1>1, ReceivedWire
<1>5. RequestsLeft(m, q, wire'[q])
  BY <1>1, ShiftedRequests
<1>6. ResponsesLeft(m, p, wire'[q])
  BY <1>1, ShiftedResponses
<1> USE DEF RequestsLeft, ResponsesLeft
<1> HIDE DEF q
<1>7. \A a \in Peers : \A d \in Calls :
        served'[a][d] = IF a = q /\ d = m.call THEN 1 ELSE served[a][d]
  <2>1. served' = [served EXCEPT ![q] = [served[q] EXCEPT ![m.call] = served[q][m.call] + 1]]
    BY <1>1
  <2>2. served[q][m.call] + 1 = 1
    BY <1>3
  <2>3. served \in [Peers -> [Calls -> Nat]]
    BY <1>0 DEF TypeOK
  <2> QED
    BY <1>2, <2>1, <2>2, <2>3
<1>8. IdsTaken'
  BY <1>1 DEF CallInv, IdsTaken
<1>9. AtMostOnce'
  <2>1. completed[q][m.call] <= replied[q][m.call]
    BY <1>2 DEF CallInv, AtMostOnce
  <2> QED
    BY <1>1, <1>3, <1>7, <2>1 DEF CallInv, AtMostOnce
<1>10. FreshAhead'
  <2>1. \A d \in Calls : d > issued[q] => d # m.call
    <3>1. issued[q] \in 0 .. MaxCalls
      BY <1>0, <1>2 DEF TypeOK
    <3> QED
      BY <1>2, <1>3, <3>1 DEF Calls
  <2> QED
    BY <1>1, <1>7, <2>1 DEF CallInv, FreshAhead
<1>11. RequestsAhead'
  <2>1. ASSUME NEW a \in Peers, NEW k \in 1 .. Len(wire'[a]), wire'[a][k].type = "request"
        PROVE  /\ wire'[a][k].call <= issued[a]
               /\ \A d \in Calls : d >= wire'[a][k].call => served'[a][d] = 0
               /\ wire'[a][k].method \notin OneWay =>
                    responseCallbacks[a][wire'[a][k].id] = wire'[a][k].call
               /\ \A l \in 1 .. Len(wire'[a]) :
                    l > k /\ wire'[a][l].type = "request" => wire'[a][l].call > wire'[a][k].call
    <3>1. CASE a = p
      BY <1>2, <1>4, <1>7, <2>1, <3>1 DEF CallInv, RequestsAhead
    <3>2. CASE a = q
      <4>1. wire'[q][k] \in Messages /\ wire'[q][k].call > m.call
        BY <1>1, <1>5, <2>1, <3>2
      <4>2. wire'[q][k].call \in Nat
        BY <4>1, Fields
      <4>3. \A d \in Calls : d >= wire'[q][k].call => d # m.call
        BY <1>2, <4>1, <4>2 DEF Calls
      <4> QED
        BY <1>5, <1>7, <2>1, <3>2, <4>3
    <3> QED
      BY <1>2, <3>1, <3>2
  <2> QED
    BY <1>1, <2>1 DEF RequestsAhead
<1>12. ResponsesAwaited'
  <2> SUFFICES ASSUME NEW a \in Peers, NEW k \in 1 .. Len(wire'[a]),
                      wire'[a][k].type = "response"
               PROVE  /\ responseCallbacks'[Other(a)][wire'[a][k].id] = wire'[a][k].call
                      /\ replied'[Other(a)][wire'[a][k].call] = 1
                      /\ completed'[Other(a)][wire'[a][k].call] = 0
                      /\ \A l \in 1 .. Len(wire'[a]) :
                           l # k /\ wire'[a][l].type = "response" =>
                             wire'[a][l].call # wire'[a][k].call
    BY DEF ResponsesAwaited
  <2>1. /\ responseCallbacks' = responseCallbacks
        /\ replied' = replied /\ completed' = completed
    BY <1>1
  <2>2. CASE a = p
    BY <1>4, <2>1, <2>2 DEF CallInv, ResponsesAwaited
  <2>3. CASE a = q
    BY <1>2, <1>6, <2>1, <2>3
  <2> QED
    BY <1>2, <2>2, <2>3
<1>13. /\ \A a \in Peers : a # p => pending'[a] = pending[a]
       /\ \A s \in pending'[p] : s \in pending[p] \/ (s = m /\ m.method \notin OneWay)
       /\ \A a \in Peers : \A s \in live[a] : s \in live'[a]
       /\ m \in live'[p]
  <2>1. live'[p] = live[p] \cup {m} /\ \A a \in Peers : a # p => live'[a] = live[a]
    BY <1>0, <1>1 DEF TypeOK
  <2>2. CASE m.method \in OneWay
    <3>1. pending' = pending
      BY <1>1, <2>2
    <3> QED
      BY <2>1, <3>1
  <2>3. CASE m.method \notin OneWay
    <3>1. /\ pending'[p] = pending[p] \cup {m}
          /\ \A a \in Peers : a # p => pending'[a] = pending[a]
      BY <1>0, <1>1, <2>3 DEF TypeOK
    <3> QED
      BY <2>1, <2>3, <3>1
  <2> QED
    BY <2>2, <2>3
<1>14. ClosuresAwaited'
  <2>1. \A s \in pending[p] : s.call # m.call
    BY <1>2, <1>3 DEF CallInv, ClosuresAwaited
  <2> SUFFICES ASSUME NEW a \in Peers, NEW s \in pending'[a]
               PROVE  /\ s.type = "request" /\ s \in live'[a]
                      /\ responseCallbacks'[Other(a)][s.id] = s.call
                      /\ served'[Other(a)][s.call] = 1
                      /\ replied'[Other(a)][s.call] = 0
                      /\ \A t \in pending'[a] : t.call = s.call => t = s
    BY DEF ClosuresAwaited
  <2>2. CASE s \in pending[a]
    <3>1. s.call \in Calls /\ Other(a) \in Peers
      BY <1>0, <2>2, Elements, Fields, Others
    <3>2. \A t \in pending'[a] : t.call = s.call => t \in pending[a]
      BY <1>2, <1>13, <2>1, <2>2
    <3>3. served'[Other(a)][s.call] = 1
      BY <1>7, <2>2, <3>1 DEF CallInv, ClosuresAwaited
    <3> QED
      BY <1>1, <1>13, <2>2, <3>2, <3>3 DEF CallInv, ClosuresAwaited
  <2>3. CASE a = p /\ s = m /\ m.method \notin OneWay
    <3>1. \A t \in pending'[p] : t.call = m.call => t = m
      BY <1>13, <2>1
    <3> QED
      BY <1>1, <1>2, <1>3, <1>7, <1>13, <2>3, <3>1
  <2> QED
    BY <1>13, <2>2, <2>3
<1>15. CallbacksHeld'
  <2>1. /\ \A a \in Peers : a # p => stack'[a] = stack[a]
        /\ \A k \in 1 .. Len(stack'[p]) :
             \/ k \in 1 .. Len(stack[p]) /\ stack'[p][k] = stack[p][k]
             \/ k = Len(stack[p]) + 1 /\ stack'[p][k] = m
    BY <1>0, <1>1, <1>2, PushedStack
  <2>2. \A a \in Peers : \A k \in 1 .. Len(stack'[a]) : stack'[a][k].type = "response" =>
          k \in 1 .. Len(stack[a]) /\ stack'[a][k] = stack[a][k]
    BY <1>1, <2>1
  <2> QED
    BY <1>1, <1>13, <2>2 DEF CallInv, CallbacksHeld
<1> QED
  BY <1>8, <1>9, <1>10, <1>11, <1>12, <1>14, <1>15 DEF CallInv

\* Running a callback keeps the invariant: its call had not been completed.
LEMMA RunCallbackStep ==
  ASSUME TypeInv, CallInv, NEW p \in Peers, NEW m \in Arriving(p), RunCallback(p, m)
  PROVE  CallInv'
<1> DEFINE q == Other(p)
<1>0. TypeOK
  BY DEF TypeInv
<1>1. m.type = "response"
  BY DEF RunCallback
<1>2. /\ m \in Messages /\ m.id \in Ids /\ m.call \in Calls /\ q \in Peers
      /\ q # p /\ q = Other(p) /\ Other(q) = p /\ \A a \in Peers : a # p => a = q
  BY <1>0, ArrivingProperties, Fields, Others
<1>3. /\ responseCallbacks[p][m.id] = m.call
      /\ replied[p][m.call] = 1 /\ completed[p][m.call] = 0
  BY <1>1, HeadResponse
<1>4. /\ wire' = [wire EXCEPT ![q] = Tail(@)]
      /\ stack' = [stack EXCEPT ![p] = Append(@, m)]
      /\ live' = [live EXCEPT ![p] = @ \cup {m}]
      /\ completed' = [completed EXCEPT ![p][m.call] = @ + 1]
      /\ UNCHANGED <<currentRequestId, responseCallbacks, pending, issued, served, replied>>
  BY <1>3 DEF RunCallback, Kept, channelVars
<1>5. wire'[p] = wire[p]
  BY <1>0, <1>4, ReceivedWire
<1>6. RequestsLeft(m, q, wire'[q])
  BY <1>4, ShiftedRequests
<1>7. ResponsesLeft(m, p, wire'[q])
  BY <1>4, ShiftedResponses
<1> USE DEF RequestsLeft, ResponsesLeft
<1> HIDE DEF q
<1>8. \A a \in Peers : \A d \in Calls :
        completed'[a][d] = IF a = p /\ d = m.call THEN 1 ELSE completed[a][d]
  <2>1. completed' = [completed EXCEPT ![p] =
                       [completed[p] EXCEPT ![m.call] = completed[p][m.call] + 1]]
    BY <1>4
  <2>2. completed[p][m.call] + 1 = 1
    BY <1>3
  <2>3. completed \in [Peers -> [Calls -> Nat]]
    BY <1>0 DEF TypeOK
  <2> QED
    BY <1>2, <2>1, <2>2, <2>3
<1>9. IdsTaken' /\ FreshAhead'
  BY <1>4 DEF CallInv, IdsTaken, FreshAhead
<1>10. AtMostOnce'
  BY <1>3, <1>4, <1>8 DEF CallInv, AtMostOnce
<1>11. RequestsAhead'
  <2>1. ASSUME NEW a \in Peers, NEW k \in 1 .. Len(wire'[a]), wire'[a][k].type = "request"
        PROVE  /\ wire'[a][k].call <= issued[a]
               /\ \A d \in Calls : d >= wire'[a][k].call => served[a][d] = 0
               /\ wire'[a][k].method \notin OneWay =>
                    responseCallbacks[a][wire'[a][k].id] = wire'[a][k].call
               /\ \A l \in 1 .. Len(wire'[a]) :
                    l > k /\ wire'[a][l].type = "request" => wire'[a][l].call > wire'[a][k].call
    <3>1. CASE a = p
      BY <1>5, <2>1, <3>1 DEF CallInv, RequestsAhead
    <3>2. CASE a = q
      BY <1>6, <2>1, <3>2
    <3> QED
      BY <1>2, <3>1, <3>2
  <2> QED
    BY <1>4, <2>1 DEF RequestsAhead
<1>12. ResponsesAwaited'
  <2> SUFFICES ASSUME NEW a \in Peers, NEW k \in 1 .. Len(wire'[a]),
                      wire'[a][k].type = "response"
               PROVE  /\ responseCallbacks'[Other(a)][wire'[a][k].id] = wire'[a][k].call
                      /\ replied'[Other(a)][wire'[a][k].call] = 1
                      /\ completed'[Other(a)][wire'[a][k].call] = 0
                      /\ \A l \in 1 .. Len(wire'[a]) :
                           l # k /\ wire'[a][l].type = "response" =>
                             wire'[a][l].call # wire'[a][k].call
    BY DEF ResponsesAwaited
  <2>1. responseCallbacks' = responseCallbacks /\ replied' = replied
    BY <1>4
  <2>2. CASE a = p
    <3>1. Other(p) = q /\ wire'[p][k] = wire[p][k] /\ k \in 1 .. Len(wire[p])
      BY <1>2, <1>5, <2>2
    <3>2. wire[p][k].call \in Calls
      BY <1>0, <3>1, Elements, Fields
    <3>3. completed'[q][wire[p][k].call] = completed[q][wire[p][k].call]
      BY <1>2, <1>8, <3>2
    <3> QED
      BY <1>5, <2>1, <2>2, <3>1, <3>3 DEF CallInv, ResponsesAwaited
  <2>3. CASE a = q
    <3>1. wire'[q][k] \in Messages /\ wire'[q][k].call # m.call
      BY <1>1, <1>7, <2>3
    <3>2. wire'[q][k].call \in Calls
      BY <3>1, Fields
    <3> QED
      BY <1>2, <1>7, <1>8, <2>1, <2>3, <3>1, <3>2
  <2> QED
    BY <1>2, <2>2, <2>3
<1>13. live'[p] = live[p] \cup {m} /\ \A a \in Peers : \A s \in live[a] : s \in live'[a]
  BY <1>0, <1>4 DEF TypeOK
<1>14. ClosuresAwaited'
  BY <1>4, <1>13 DEF CallInv, ClosuresAwaited
<1>15. CallbacksHeld'
  <2>1. /\ \A a \in Peers : a # p => stack'[a] = stack[a]
        /\ Len(stack[p]) \in Nat
        /\ \A k \in 1 .. Len(stack'[p]) :
             \/ k \in 1 .. Len(stack[p]) /\ stack'[p][k] = stack[p][k]
             \/ k = Len(stack[p]) + 1 /\ stack'[p][k] = m
    BY <1>0, <1>2, <1>4, PushedStack
  <2>2. \A k \in 1 .. Len(stack[p]) : stack[p][k].type = "response" =>
          stack[p][k].call # m.call
    BY <1>3 DEF CallInv, CallbacksHeld
  <2>3. responseCallbacks' = responseCallbacks
    BY <1>4
  <2>4. ASSUME NEW a \in Peers, NEW k \in 1 .. Len(stack'[a]), stack'[a][k].type = "response"
        PROVE  /\ stack'[a][k] \in live'[a]
               /\ responseCallbacks'[a][stack'[a][k].id] = stack'[a][k].call
               /\ completed'[a][stack'[a][k].call] = 1
               /\ \A l \in 1 .. Len(stack'[a]) :
                    l # k /\ stack'[a][l].type = "response" =>
                      stack'[a][l].call # stack'[a][k].call
    <3>1. CASE a # p
      <4>1. stack'[a] = stack[a] /\ stack[a][k].call \in Calls
        BY <1>0, <2>1, <3>1, Elements, Fields
      <4>2. completed'[a][stack[a][k].call] = completed[a][stack[a][k].call]
        BY <1>8, <3>1, <4>1
      <4> QED
        BY <1>13, <2>4, <2>3, <4>1, <4>2 DEF CallInv, CallbacksHeld
    <3>2. CASE a = p /\ k \in 1 .. Len(stack[p]) /\ stack'[p][k] = stack[p][k]
      <4>1. stack[p][k].call \in Calls /\ stack[p][k].type = "response"
        BY <1>0, <2>4, <3>2, Elements, Fields
      <4>2. completed'[p][stack[p][k].call] = 1
        BY <1>8, <2>4, <3>2, <4>1 DEF CallInv, CallbacksHeld
      <4>3. \A l \in 1 .. Len(stack'[p]) : l # k /\ stack'[p][l].type = "response" =>
              stack'[p][l].call # stack[p][k].call
        BY <2>1, <2>2, <3>2, <4>1 DEF CallInv, CallbacksHeld
      <4> QED
        BY <1>13, <2>3, <3>2, <4>1, <4>2, <4>3 DEF CallInv, CallbacksHeld
    <3>3. CASE a = p /\ k = Len(stack[p]) + 1 /\ stack'[p][k] = m
      <4>1. \A l \in 1 .. Len(stack'[p]) : l # k /\ stack'[p][l].type = "response" =>
              stack'[p][l].call # m.call
        BY <2>1, <2>2, <3>3
      <4> QED
        BY <1>2, <1>3, <1>8, <1>13, <2>3, <3>3, <4>1
    <3> QED
      BY <2>1, <3>1, <3>2, <3>3
  <2> QED
    BY <2>4 DEF CallbacksHeld
<1> QED
  BY <1>9, <1>10, <1>11, <1>12, <1>14, <1>15 DEF CallInv

(* Losing messages, or parts of them, keeps the invariant: every message that  *)
(* is left, debris apart, was there before, and their order is the same.       *)
LEMMA ThinnerWire ==
  ASSUME CallInv,
         UNCHANGED <<channelVars, stack, pending, history>>,
         \A a \in Peers : live[a] \subseteq live'[a],
         \A a \in Peers : \E s \in {0, 1} : \A k \in 1 .. Len(wire'[a]) :
           wire'[a][k].type # "debris" =>
             /\ k + s \in 1 .. Len(wire[a])
             /\ wire'[a][k].type = wire[a][k + s].type
             /\ wire'[a][k].id = wire[a][k + s].id
             /\ wire'[a][k].method = wire[a][k + s].method
             /\ wire'[a][k].call = wire[a][k + s].call
  PROVE  CallInv'
<1>1. UNCHANGED <<currentRequestId, responseCallbacks, stack, pending,
                  issued, served, replied, completed>>
  BY DEF channelVars, history
<1>2. IdsTaken' /\ AtMostOnce' /\ FreshAhead'
  BY <1>1 DEF CallInv, IdsTaken, AtMostOnce, FreshAhead
<1>3. RequestsAhead'
  <2>1. ASSUME NEW a \in Peers, NEW k \in 1 .. Len(wire'[a]), wire'[a][k].type = "request"
        PROVE  /\ wire'[a][k].call <= issued[a]
               /\ \A d \in Calls : d >= wire'[a][k].call => served[a][d] = 0
               /\ wire'[a][k].method \notin OneWay =>
                    responseCallbacks[a][wire'[a][k].id] = wire'[a][k].call
               /\ \A l \in 1 .. Len(wire'[a]) :
                    l > k /\ wire'[a][l].type = "request" => wire'[a][l].call > wire'[a][k].call
    <3>1. PICK s \in {0, 1} : \A j \in 1 .. Len(wire'[a]) :
            wire'[a][j].type # "debris" =>
              /\ j + s \in 1 .. Len(wire[a])
              /\ wire'[a][j].type = wire[a][j + s].type
              /\ wire'[a][j].id = wire[a][j + s].id
              /\ wire'[a][j].method = wire[a][j + s].method
              /\ wire'[a][j].call = wire[a][j + s].call
      OBVIOUS
    <3>2. /\ k + s \in 1 .. Len(wire[a]) /\ wire[a][k + s].type = "request"
          /\ wire'[a][k].id = wire[a][k + s].id
          /\ wire'[a][k].method = wire[a][k + s].method
          /\ wire'[a][k].call = wire[a][k + s].call
      BY <2>1, <3>1
    <3>3. /\ wire[a][k + s].call <= issued[a]
          /\ \A d \in Calls : d >= wire[a][k + s].call => served[a][d] = 0
          /\ wire[a][k + s].method \notin OneWay =>
               responseCallbacks[a][wire[a][k + s].id] = wire[a][k + s].call
          /\ \A l \in 1 .. Len(wire[a]) :
               l > k + s /\ wire[a][l].type = "request" =>
                 wire[a][l].call > wire[a][k + s].call
      BY <3>2 DEF CallInv, RequestsAhead
    <3>4. \A l \in 1 .. Len(wire'[a]) : l > k /\ wire'[a][l].type = "request" =>
            /\ l + s \in 1 .. Len(wire[a]) /\ wire[a][l + s].type = "request"
            /\ l + s > k + s
            /\ wire'[a][l].call = wire[a][l + s].call
      BY <3>1
    <3> QED
      BY <3>2, <3>3, <3>4
  <2> QED
    BY <1>1, <2>1 DEF RequestsAhead
<1>4. ResponsesAwaited'
  <2>1. ASSUME NEW a \in Peers, NEW k \in 1 .. Len(wire'[a]), wire'[a][k].type = "response"
        PROVE  /\ responseCallbacks[Other(a)][wire'[a][k].id] = wire'[a][k].call
               /\ replied[Other(a)][wire'[a][k].call] = 1
               /\ completed[Other(a)][wire'[a][k].call] = 0
               /\ \A l \in 1 .. Len(wire'[a]) :
                    l # k /\ wire'[a][l].type = "response" => wire'[a][l].call # wire'[a][k].call
    <3>1. PICK s \in {0, 1} : \A j \in 1 .. Len(wire'[a]) :
            wire'[a][j].type # "debris" =>
              /\ j + s \in 1 .. Len(wire[a])
              /\ wire'[a][j].type = wire[a][j + s].type
              /\ wire'[a][j].id = wire[a][j + s].id
              /\ wire'[a][j].method = wire[a][j + s].method
              /\ wire'[a][j].call = wire[a][j + s].call
      OBVIOUS
    <3>2. /\ k + s \in 1 .. Len(wire[a]) /\ wire[a][k + s].type = "response"
          /\ wire'[a][k].id = wire[a][k + s].id
          /\ wire'[a][k].call = wire[a][k + s].call
      BY <2>1, <3>1
    <3>3. /\ responseCallbacks[Other(a)][wire[a][k + s].id] = wire[a][k + s].call
          /\ replied[Other(a)][wire[a][k + s].call] = 1
          /\ completed[Other(a)][wire[a][k + s].call] = 0
          /\ \A l \in 1 .. Len(wire[a]) :
               l # k + s /\ wire[a][l].type = "response" =>
                 wire[a][l].call # wire[a][k + s].call
      BY <3>2 DEF CallInv, ResponsesAwaited
    <3>4. \A l \in 1 .. Len(wire'[a]) : l # k /\ wire'[a][l].type = "response" =>
            /\ l + s \in 1 .. Len(wire[a]) /\ wire[a][l + s].type = "response"
            /\ l + s # k + s
            /\ wire'[a][l].call = wire[a][l + s].call
      BY <3>1
    <3> QED
      BY <3>2, <3>3, <3>4
  <2> QED
    BY <1>1, <2>1 DEF ResponsesAwaited
<1>5. ClosuresAwaited'
  BY <1>1 DEF CallInv, ClosuresAwaited
<1>6. CallbacksHeld'
  BY <1>1 DEF CallInv, CallbacksHeld
<1> QED
  BY <1>2, <1>3, <1>4, <1>5, <1>6 DEF CallInv

\* Taking the head off a wire makes it thinner.
LEMMA ReceivedThinner ==
  ASSUME TypeOK, NEW p \in Peers, NEW m \in Arriving(p),
         wire' = [wire EXCEPT ![Other(p)] = Tail(@)]
  PROVE  \A a \in Peers : \E s \in {0, 1} : \A k \in 1 .. Len(wire'[a]) :
           k + s \in 1 .. Len(wire[a]) /\ wire'[a][k] = wire[a][k + s]
<1>1. /\ wire'[p] = wire[p]
      /\ \A k \in 1 .. Len(wire'[Other(p)]) :
           k + 1 \in 1 .. Len(wire[Other(p)]) /\ wire'[Other(p)][k] = wire[Other(p)][k + 1]
  BY ReceivedWire
<1>2. \A a \in Peers : a = p \/ a = Other(p)
  BY Others
<1> SUFFICES ASSUME NEW a \in Peers
             PROVE  \E s \in {0, 1} : \A k \in 1 .. Len(wire'[a]) :
                      k + s \in 1 .. Len(wire[a]) /\ wire'[a][k] = wire[a][k + s]
  OBVIOUS
<1>3. CASE a = p
  <2>1. \A k \in 1 .. Len(wire'[a]) : k \in 1 .. Len(wire[a]) /\ wire'[a][k] = wire[a][k]
    BY <1>1, <1>3
  <2>2. Len(wire[a]) \in Nat
    BY Elements
  <2>3. \A k \in 1 .. Len(wire[a]) : k + 0 = k
    BY <2>2
  <2> QED
    BY <2>1, <2>3
<1>4. CASE a = Other(p)
  BY <1>1, <1>4
<1> QED
  BY <1>2, <1>3, <1>4

\* What is on a's wire, but for debris, was s places further on it, behind its head.
Behind(a, s) ==
  \A k \in 1 .. Len(wire'[a]) : wire'[a][k].type # "debris" =>
    /\ k + s \in 1 .. Len(wire[a])
    /\ wire'[a][k] = wire[a][k + s]
    /\ k + s > 1

\* A rejected message leaves what followed it, behind its debris or not.
LEMMA RejectedRest ==
  ASSUME TypeOK, NEW p \in Peers, NEW m \in Arriving(p),
         wire' = [wire EXCEPT ![Other(p)] = Leftover(m) \o Tail(@)]
  PROVE  /\ wire'[p] = wire[p]
         /\ \E s \in {0, 1} : Behind(Other(p), s)
<1> DEFINE q == Other(p)
           n == Len(Leftover(m))
<1>1. /\ q \in Peers /\ q # p /\ wire[q] \in Seq(Messages) /\ wire[q] # <<>>
      /\ m \in Messages /\ Len(wire[q]) \in Nat \ {0}
      /\ \A a \in Peers : a = p \/ a = q
  BY Others, ArrivingProperties
<1>2. /\ Leftover(m) \in Seq(Messages) /\ n \in {0, 1}
      /\ \A k \in 1 .. n : Leftover(m)[k].type = "debris"
  BY <1>1, LeftoverProperties
<1>3. /\ Tail(wire[q]) \in Seq(Messages)
      /\ Len(Tail(wire[q])) = Len(wire[q]) - 1
      /\ \A k \in 1 .. Len(Tail(wire[q])) : Tail(wire[q])[k] = wire[q][k + 1]
  BY <1>1, HeadTailProperties
<1>4. wire'[q] = Leftover(m) \o Tail(wire[q]) /\ wire'[p] = wire[p]
  BY <1>1 DEF TypeOK
<1> HIDE DEF q
<1>5. /\ Len(wire'[q]) = n + Len(wire[q]) - 1
      /\ \A k \in 1 .. n + Len(wire[q]) - 1 :
           wire'[q][k] = IF k <= n THEN Leftover(m)[k] ELSE Tail(wire[q])[k - n]
  <2> HIDE DEF n
  <2>1. /\ Len(wire'[q]) = n + Len(Tail(wire[q]))
        /\ \A k \in 1 .. n + Len(Tail(wire[q])) :
             wire'[q][k] = IF k <= n THEN Leftover(m)[k] ELSE Tail(wire[q])[k - n]
    BY <1>2, <1>3, <1>4, ConcatProperties DEF n
  <2> QED
    BY <1>1, <1>2, <1>3, <2>1
<1> HIDE DEF n
<1>6. \A k \in 1 .. Len(wire'[q]) : wire'[q][k].type # "debris" =>
        /\ k + (1 - n) \in 1 .. Len(wire[q]) /\ wire'[q][k] = wire[q][k + (1 - n)]
        /\ k + (1 - n) > 1
  <2> SUFFICES ASSUME NEW k \in 1 .. Len(wire'[q]), wire'[q][k].type # "debris"
               PROVE  /\ k + (1 - n) \in 1 .. Len(wire[q])
                      /\ wire'[q][k] = wire[q][k + (1 - n)]
                      /\ k + (1 - n) > 1
    OBVIOUS
  <2>1. ~(k <= n)
    BY <1>1, <1>2, <1>5
  <2>2. k - n \in 1 .. Len(Tail(wire[q])) /\ k + (1 - n) = (k - n) + 1
        /\ k + (1 - n) \in 1 .. Len(wire[q]) /\ k + (1 - n) > 1
    BY <1>1, <1>2, <1>3, <1>5, <2>1
  <2>3. wire'[q][k] = Tail(wire[q])[k - n]
    BY <1>1, <1>2, <1>5, <2>1
  <2> QED
    BY <1>3, <2>2, <2>3
<1>7. \E s \in {0, 1} : Behind(q, s)
  <2>1. 1 - n \in {0, 1}
    BY <1>2
  <2>2. Behind(q, 1 - n)
    BY <1>6 DEF Behind
  <2> QED
    BY <2>1, <2>2
<1> QED
  BY <1>4, <1>7 DEF q

\* So rejecting makes it thinner, but for the debris.
LEMMA RejectedThinner ==
  ASSUME TypeOK, NEW p \in Peers, NEW m \in Arriving(p),
         wire' = [wire EXCEPT ![Other(p)] = Leftover(m) \o Tail(@)]
  PROVE  \A a \in Peers : \E s \in {0, 1} : \A k \in 1 .. Len(wire'[a]) :
           wire'[a][k].type # "debris" =>
             k + s \in 1 .. Len(wire[a]) /\ wire'[a][k] = wire[a][k + s]
<1>1. \A a \in Peers : a = p \/ a = Other(p)
  BY Others
<1> SUFFICES ASSUME NEW a \in Peers
             PROVE  \E s \in {0, 1} : \A k \in 1 .. Len(wire'[a]) :
                      wire'[a][k].type # "debris" =>
                        k + s \in 1 .. Len(wire[a]) /\ wire'[a][k] = wire[a][k + s]
  OBVIOUS
<1>2. CASE a = p
  <2>1. \A k \in 1 .. Len(wire'[a]) : k \in 1 .. Len(wire[a]) /\ wire'[a][k] = wire[a][k]
    BY <1>2, RejectedRest
  <2>2. Len(wire[a]) \in Nat
    BY Elements
  <2>3. \A k \in 1 .. Len(wire[a]) : k + 0 = k
    BY <2>2
  <2> QED
    BY <2>1, <2>3
<1>3. CASE a = Other(p)
  <2>1. PICK s \in {0, 1} : Behind(a, s)
    BY <1>3, RejectedRest
  <2> WITNESS s \in {0, 1}
  <2> QED
    BY <2>1 DEF Behind
<1> QED
  BY <1>1, <1>2, <1>3

\* Receiving without effect on calls keeps the invariant.
LEMMA UselessReceiveStep ==
  ASSUME TypeInv, CallInv, NEW p \in Peers, NEW m \in Arriving(p),
         RejectMessage(p, m) \/ AbandonRequest(p, m) \/ ReceiveDebris(p, m)
  PROVE  CallInv'
<1>0. TypeOK
  BY DEF TypeInv
<1>1. UNCHANGED <<channelVars, stack, pending, history>>
  BY DEF RejectMessage, AbandonRequest, ReceiveDebris
<1>2. \A a \in Peers : live[a] \subseteq live'[a]
  <2>1. live' = live \/ live' = [live EXCEPT ![p] = live[p] \cup {m}]
    BY DEF RejectMessage, AbandonRequest, ReceiveDebris, Kept
  <2>2. \A a \in Peers : live'[a] = live[a] \/ live'[a] = live[a] \cup {m}
    BY <1>0, <2>1 DEF TypeOK
  <2> QED
    BY <2>2
<1>3. \A a \in Peers : \E s \in {0, 1} : \A k \in 1 .. Len(wire'[a]) :
        wire'[a][k].type # "debris" =>
          k + s \in 1 .. Len(wire[a]) /\ wire'[a][k] = wire[a][k + s]
  <2>1. CASE RejectMessage(p, m)
    <3>1. wire' = [wire EXCEPT ![Other(p)] = Leftover(m) \o Tail(@)]
      BY <2>1 DEF RejectMessage
    <3> QED
      BY <1>0, <3>1, RejectedThinner
  <2>2. CASE AbandonRequest(p, m) \/ ReceiveDebris(p, m)
    <3>1. wire' = [wire EXCEPT ![Other(p)] = Tail(@)]
      BY <2>2 DEF AbandonRequest, ReceiveDebris
    <3>2. \A a \in Peers : \E s \in {0, 1} : \A k \in 1 .. Len(wire'[a]) :
            k + s \in 1 .. Len(wire[a]) /\ wire'[a][k] = wire[a][k + s]
      BY <1>0, <3>1, ReceivedThinner
    <3> QED
      BY <3>2
  <2> QED
    BY <2>1, <2>2
<1>4. \A a \in Peers : \E s \in {0, 1} : \A k \in 1 .. Len(wire'[a]) :
        wire'[a][k].type # "debris" =>
          /\ k + s \in 1 .. Len(wire[a])
          /\ wire'[a][k].type = wire[a][k + s].type
          /\ wire'[a][k].id = wire[a][k + s].id
          /\ wire'[a][k].method = wire[a][k + s].method
          /\ wire'[a][k].call = wire[a][k + s].call
  <2> SUFFICES ASSUME NEW a \in Peers
               PROVE  \E s \in {0, 1} : \A k \in 1 .. Len(wire'[a]) :
                        wire'[a][k].type # "debris" =>
                          /\ k + s \in 1 .. Len(wire[a])
                          /\ wire'[a][k].type = wire[a][k + s].type
                          /\ wire'[a][k].id = wire[a][k + s].id
                          /\ wire'[a][k].method = wire[a][k + s].method
                          /\ wire'[a][k].call = wire[a][k + s].call
    OBVIOUS
  <2>1. PICK s \in {0, 1} : \A k \in 1 .. Len(wire'[a]) : wire'[a][k].type # "debris" =>
          k + s \in 1 .. Len(wire[a]) /\ wire'[a][k] = wire[a][k + s]
    BY <1>3
  <2> WITNESS s \in {0, 1}
  <2> QED
    BY <2>1
<1> QED
  BY <1>1, <1>2, <1>4, ThinnerWire

\* Losing the last message sent, or its objects, makes a wire thinner.
LEMMA LostThinner ==
  ASSUME TypeOK, NEW p \in Peers, LoseMessage(p) \/ LoseObjects(p)
  PROVE  \A a \in Peers : \E s \in {0, 1} : \A k \in 1 .. Len(wire'[a]) :
          wire'[a][k].type # "debris" =>
            /\ k + s \in 1 .. Len(wire[a])
            /\ wire'[a][k].type = wire[a][k + s].type
            /\ wire'[a][k].id = wire[a][k + s].id
            /\ wire'[a][k].method = wire[a][k + s].method
            /\ wire'[a][k].call = wire[a][k + s].call
<1>1. Len(wire[p]) \in Nat /\ wire[p] \in Seq(Messages) /\ wire[p] # <<>>
  BY Elements DEF TypeOK, LoseMessage, LoseObjects
<1>2. \A k \in 1 .. Len(wire'[p]) :
        /\ k \in 1 .. Len(wire[p])
        /\ wire'[p][k].type = wire[p][k].type
        /\ wire'[p][k].id = wire[p][k].id
        /\ wire'[p][k].method = wire[p][k].method
        /\ wire'[p][k].call = wire[p][k].call
  <2>1. CASE LoseMessage(p)
    <3>1. wire'[p] = Pop(wire[p])
      BY <2>1 DEF LoseMessage, TypeOK
    <3>2. /\ Len(Pop(wire[p])) = Len(wire[p]) - 1
          /\ \A k \in 1 .. Len(Pop(wire[p])) : Pop(wire[p])[k] = wire[p][k]
      BY <1>1, PopProperties
    <3>3. \A k \in 1 .. Len(wire[p]) - 1 : k \in 1 .. Len(wire[p])
      BY <1>1
    <3> QED
      BY <3>1, <3>2, <3>3
  <2>2. CASE LoseObjects(p)
    <3> DEFINE n == Len(wire[p])
               cut == [wire[p][n] EXCEPT !.whole = FALSE]
    <3>1. n \in 1 .. Len(wire[p]) /\ wire[p][n] \in Messages
      BY <1>1, PopProperties DEF Top
    <3>2. /\ cut \in Messages /\ cut.type = wire[p][n].type /\ cut.id = wire[p][n].id
          /\ cut.method = wire[p][n].method /\ cut.call = wire[p][n].call
      BY <3>1 DEF Messages
    <3>3. wire'[p] = [wire[p] EXCEPT ![n] = cut]
      BY <2>2 DEF LoseObjects, TypeOK
    <3> HIDE DEF cut
    <3>4. /\ Len(wire'[p]) = Len(wire[p])
          /\ \A k \in 1 .. Len(wire[p]) : wire'[p][k] = IF k = n THEN cut ELSE wire[p][k]
      BY <1>1, <3>1, <3>2, <3>3, ExceptSeq
    <3> QED
      BY <3>2, <3>4
  <2> QED
    BY <2>1, <2>2
<1>3. \A a \in Peers : a # p => wire'[a] = wire[a]
  BY DEF LoseMessage, LoseObjects, TypeOK
<1> SUFFICES ASSUME NEW a \in Peers
             PROVE  \A k \in 1 .. Len(wire'[a]) :
                      wire'[a][k].type # "debris" =>
                        /\ k + 0 \in 1 .. Len(wire[a])
                        /\ wire'[a][k].type = wire[a][k + 0].type
                        /\ wire'[a][k].id = wire[a][k + 0].id
                        /\ wire'[a][k].method = wire[a][k + 0].method
                        /\ wire'[a][k].call = wire[a][k + 0].call
  OBVIOUS
<1>4. Len(wire[a]) \in Nat
  BY Elements
<1>5. \A k \in 1 .. Len(wire[a]) : k + 0 = k
  BY <1>4
<1>6. CASE a = p
  BY <1>2, <1>5, <1>6
<1>7. CASE a # p
  BY <1>3, <1>5, <1>7
<1> QED
  BY <1>6, <1>7
\* Losing the last message sent, or its objects, keeps the invariant.
LEMMA LossStep ==
  ASSUME TypeInv, CallInv, NEW p \in Peers, LoseMessage(p) \/ LoseObjects(p)
  PROVE  CallInv'
<1>1. UNCHANGED <<channelVars, stack, pending, history>> /\ live' = live
  BY DEF LoseMessage, LoseObjects
<1>2. \A a \in Peers : live[a] \subseteq live'[a]
  BY <1>1
<1> QED
  BY <1>1, <1>2, LostThinner, ThinnerWire DEF TypeInv

\* The other steps change nothing the invariant is about.
LEMMA OtherSteps ==
  ASSUME CallInv,
         UNCHANGED <<channelVars, wire, stack, pending, live, history>>
  PROVE  CallInv'
BY DEF CallInv, IdsTaken, AtMostOnce, FreshAhead, RequestsAhead, ResponsesAwaited,
       ClosuresAwaited, CallbacksHeld, channelVars, history

\* CallInv holds initially ...
LEMMA CallInit == Init => CallInv
<1> SUFFICES ASSUME Init PROVE CallInv
  OBVIOUS
<1>1. \A p \in Peers : wire[p] = <<>> /\ stack[p] = <<>> /\ pending[p] = {}
  BY DEF Init
<1>2. \A p \in Peers : 1 .. Len(wire[p]) = {} /\ 1 .. Len(stack[p]) = {}
  BY <1>1
<1>3. IdsTaken /\ AtMostOnce /\ FreshAhead
  BY DEF Init, IdsTaken, AtMostOnce, FreshAhead
<1>4. RequestsAhead /\ ResponsesAwaited /\ CallbacksHeld
  BY <1>2 DEF RequestsAhead, ResponsesAwaited, CallbacksHeld
<1>5. ClosuresAwaited
  BY <1>1 DEF ClosuresAwaited
<1> QED
  BY <1>3, <1>4, <1>5 DEF CallInv

\* ... and every step keeps it.
LEMMA CallStep == TypeInv /\ CallInv /\ [Next]_vars => CallInv'
<1> SUFFICES ASSUME TypeInv, CallInv, [Next]_vars PROVE CallInv'
  OBVIOUS
<1>1. ASSUME NEW p \in Peers, Receive(p)
      PROVE  CallInv'
  <2>1. CASE ReceiveFails(p)
    BY <2>1, OtherSteps DEF ReceiveFails
  <2>2. ASSUME NEW m \in Arriving(p),
               \/ RejectMessage(p, m)
               \/ DispatchRequest(p, m) \/ AbandonRequest(p, m)
               \/ RunCallback(p, m) \/ AbandonResponse(p, m)
               \/ ReceiveDebris(p, m)
        PROVE  CallInv'
    BY <2>2, UselessReceiveStep, DispatchRequestStep, RunCallbackStep, AbandonResponseStep
  <2> QED
    BY <1>1, <2>1, <2>2 DEF Receive
<1>2. ASSUME NEW p \in Peers, NEW d \in Dispatchers, RegisterService(p, d)
      PROVE  CallInv'
  BY <1>2, OtherSteps DEF RegisterService
<1>3. ASSUME NEW p \in Peers, NEW a \in ReceiveArgs, EnterReceive(p, a)
      PROVE  CallInv'
  BY <1>3, OtherSteps DEF EnterReceive
<1>4. CASE Break
  BY <1>4, OtherSteps DEF Break
<1>5. CASE UNCHANGED vars
  BY <1>5, OtherSteps DEF vars
<1>6. ASSUME NEW p \in Peers,
             \/ \E m \in Methods : ProxyCall(p, m) \/ ProxyNotify(p, m)
             \/ ReturnService(p) \/ ReturnCallback(p)
             \/ \E r \in pending[p] : Reply(p, r)
             \/ LoseMessage(p) \/ LoseObjects(p)
      PROVE  CallInv'
  BY <1>6, ProxyCallStep, ProxyNotifyStep, ReturnServiceStep, ReturnCallbackStep,
     ReplyStep, LossStep
<1> QED
  BY <1>1, <1>2, <1>3, <1>4, <1>5, <1>6 DEF Next

-----------------------------------------------------------------------------
(* The invariant, and what follows from it.                                    *)

\* Every place a call can be in agrees with the tables, with the counters and
\* with the other places, in every reachable state (rpcchannel.cpp:165-240 and
\* the generated proxies, dispatchers and handlers).
THEOREM CallsConsistent == Spec => []CallInv
<1>1. Init => TypeInv /\ CallInv
  BY TypeInit, CallInit
<1>2. TypeInv /\ CallInv /\ [Next]_vars => (TypeInv /\ CallInv)'
  BY TypeStep, CallStep
<1> QED
  BY <1>1, <1>2, PTL DEF Spec

\* Nothing is served, replied to or completed twice, or before its cause: a
\* callback that re-enters receive() does not run again (rpcchannel.cpp:227-231).
THEOREM CallsAtMostOnce == Spec => []AtMostOnce
<1>1. CallInv => AtMostOnce
  BY DEF CallInv
<1> QED
  BY <1>1, CallsConsistent, PTL

\* No response is unexpected and none reaches the handler of another call
\* (rpcchannel.cpp:194-240), whatever is pipelined, deferred, nested or lost.
THEOREM ResponsesFindTheirCalls == Spec => []ResponseFindsItsCall
<1>1. CallInv => ResponseFindsItsCall
  BY DEF CallInv, ResponsesAwaited, ResponseFindsItsCall
<1> QED
  BY <1>1, CallsConsistent, PTL

\* The iterator that handleResponse erases through after the callback returned
\* is valid and is that call's (rpcchannel.cpp:227-231).
THEOREM IteratorsStayValid == Spec => []IteratorsValid
<1>1. CallInv => IteratorsValid
  BY DEF CallInv, CallbacksHeld, IteratorsValid
<1> QED
  BY <1>1, CallsConsistent, PTL

\* No `done` closure and no running callback has lost its envelope
\* (rpcgenerator.cpp:547-567, rpcchannel.cpp:237).
THEOREM EnvelopesStayLive == Spec => []EnvelopesLive
<1>1. CallInv => EnvelopesLive
  BY DEF CallInv, ClosuresAwaited, CallbacksHeld, EnvelopesLive
<1> QED
  BY <1>1, CallsConsistent, PTL

-----------------------------------------------------------------------------
(* What is left allocated.  A live response is one whose callback runs; a live *)
(* request is waited for, one-way, or was never served, and then never will be: *)
(* no request of its call, or of an earlier one, is on the wire any more.       *)

\* q's calls up to c were made, and their requests have left q's wire.
Past(q, c) ==
  /\ c <= issued[q]
  /\ \A k \in 1 .. Len(wire[q]) : wire[q][k].type = "request" => wire[q][k].call > c

Explained(p, m) ==
  \/ /\ m.type = "response"
     /\ \E k \in 1 .. Len(stack[p]) : stack[p][k] = m
  \/ /\ m.type = "request"
     /\ Past(Other(p), m.call)
     /\ m \in pending[p] \/ m.method \in OneWay \/ served[Other(p)][m.call] = 0

LeakInv == \A p \in Peers : \A m \in live[p] : Explained(p, m)

\* Every request on a wire after a step of no proxy was on it before.
LEMMA OldRequests ==
  ASSUME TypeInv, NEW p \in Peers,
         \/ \E d \in Dispatchers : RegisterService(p, d)
         \/ \E a \in ReceiveArgs : EnterReceive(p, a)
         \/ Receive(p)
         \/ ReturnService(p) \/ ReturnCallback(p)
         \/ \E r \in pending[p] : Reply(p, r)
         \/ LoseMessage(p) \/ LoseObjects(p)
  PROVE  /\ issued' = issued
         /\ \A a \in Peers : \A k \in 1 .. Len(wire'[a]) : wire'[a][k].type = "request" =>
              \E l \in 1 .. Len(wire[a]) :
                wire[a][l].type = "request" /\ wire[a][l].call = wire'[a][k].call
<1> DEFINE Old == \A a \in Peers : \A k \in 1 .. Len(wire'[a]) :
             wire'[a][k].type = "request" =>
               \E l \in 1 .. Len(wire[a]) :
                 wire[a][l].type = "request" /\ wire[a][l].call = wire'[a][k].call
<1>0. TypeOK /\ issued' = issued
  BY DEF TypeInv, RegisterService, EnterReceive, Receive, ReceiveFails, RejectMessage,
     DispatchRequest, AbandonRequest, RunCallback, AbandonResponse, ReceiveDebris,
     ReturnService, ReturnCallback, Reply, LoseMessage, LoseObjects, history
<1> SUFFICES Old
  BY <1>0
<1>1. ASSUME wire' = wire PROVE Old
  BY <1>1
<1>2. ASSUME \A a \in Peers : \E s \in {0, 1} : \A k \in 1 .. Len(wire'[a]) :
               wire'[a][k].type # "debris" =>
                 /\ k + s \in 1 .. Len(wire[a])
                 /\ wire'[a][k].type = wire[a][k + s].type
                 /\ wire'[a][k].call = wire[a][k + s].call
      PROVE  Old
  BY <1>2
<1>3. CASE \E m \in Arriving(p) : RejectMessage(p, m)
  <2>1. PICK m \in Arriving(p) : RejectMessage(p, m)
    BY <1>3
  <2>2. wire' = [wire EXCEPT ![Other(p)] = Leftover(m) \o Tail(@)]
    BY <2>1 DEF RejectMessage
  <2>3. wire'[p] = wire[p] /\ \A a \in Peers : a # p => a = Other(p)
    BY <1>0, <2>2, RejectedRest, Others
  <2>4. PICK s \in {0, 1} : Behind(Other(p), s)
    BY <1>0, <2>2, RejectedRest
  <2>5. \A k \in 1 .. Len(wire'[Other(p)]) : wire'[Other(p)][k].type = "request" =>
          \E l \in 1 .. Len(wire[Other(p)]) : wire[Other(p)][l] = wire'[Other(p)][k]
    BY <2>4 DEF Behind
  <2> QED
    BY <2>3, <2>5
<1>4. CASE \E m \in Arriving(p) :
             \/ DispatchRequest(p, m) \/ AbandonRequest(p, m)
             \/ RunCallback(p, m) \/ AbandonResponse(p, m) \/ ReceiveDebris(p, m)
  <2>1. PICK m \in Arriving(p) :
          \/ DispatchRequest(p, m) \/ AbandonRequest(p, m)
          \/ RunCallback(p, m) \/ AbandonResponse(p, m) \/ ReceiveDebris(p, m)
    BY <1>4
  <2>2. wire' = [wire EXCEPT ![Other(p)] = Tail(@)]
    BY <2>1 DEF DispatchRequest, AbandonRequest, RunCallback, AbandonResponse, ReceiveDebris
  <2> QED
    BY <1>0, <1>2, <2>2, ReceivedThinner
<1>5. CASE \E r \in pending[p] : Reply(p, r)
  <2>1. PICK r \in pending[p] : Reply(p, r)
    BY <1>5
  <2>2. ReplyTo(r) \in Messages /\ ReplyTo(r).type = "response"
    BY <1>0, Elements, ReplyTyped
  <2>3. wire' = Sent(p, ReplyTo(r))
    BY <2>1 DEF Reply
  <2>4. /\ \A q \in Peers : q # p => wire'[q] = wire[q]
        /\ \A k \in 1 .. Len(wire'[p]) :
             \/ k \in 1 .. Len(wire[p]) /\ wire'[p][k] = wire[p][k]
             \/ wire'[p][k] = ReplyTo(r)
    BY <1>0, <2>2, <2>3, SentElements
  <2> QED
    BY <2>2, <2>4
<1>6. CASE LoseMessage(p) \/ LoseObjects(p)
  BY <1>0, <1>2, <1>6, LostThinner
<1>7. CASE \/ \E d \in Dispatchers : RegisterService(p, d)
           \/ \E a \in ReceiveArgs : EnterReceive(p, a)
           \/ ReceiveFails(p) \/ ReturnService(p) \/ ReturnCallback(p)
  BY <1>1, <1>7 DEF RegisterService, EnterReceive, ReceiveFails, ReturnService, ReturnCallback
<1> QED
  BY <1>3, <1>4, <1>5, <1>6, <1>7 DEF Receive

\* A call whose request left the wire does not come back to it.
LEMMA PastStays ==
  ASSUME TypeInv, [Next]_vars, NEW q \in Peers, NEW c \in Calls, Past(q, c)
  PROVE  Past(q, c)'
<1>0. TypeOK /\ c \in Nat /\ issued[q] \in Nat
  <2>1. issued[q] \in 0 .. MaxCalls
    BY DEF TypeInv, TypeOK
  <2> QED
    BY <2>1, ChannelAssumption DEF TypeInv, Calls, ChannelAssumption
<1>1. ASSUME NEW p \in Peers, NEW m \in Methods, ProxyCall(p, m) \/ ProxyNotify(p, m)
      PROVE  Past(q, c)'
  <2>1. PICK i \in Ids : wire' = Sent(p, Request(i, m, issued[p] + 1))
    BY <1>1, ChannelAssumption
       DEF ProxyCall, ProxyNotify, TypeInv, TypeOK, Ids, ChannelAssumption
  <2>2. /\ issued' = [issued EXCEPT ![p] = @ + 1]
        /\ issued[p] < MaxCalls /\ issued[p] \in 0 .. MaxCalls /\ MaxCalls \in Nat
    BY <1>0, <1>1, ChannelAssumption DEF ProxyCall, ProxyNotify, TypeOK, ChannelAssumption
  <2> DEFINE req == Request(i, m, issued[p] + 1)
  <2>3. req \in Messages /\ req.call = issued[p] + 1
    BY <2>2 DEF Request, Messages, Calls
  <2> HIDE DEF req
  <2>4. /\ \A a \in Peers : a # p => wire'[a] = wire[a]
        /\ \A k \in 1 .. Len(wire'[p]) :
             \/ k \in 1 .. Len(wire[p]) /\ wire'[p][k] = wire[p][k]
             \/ wire'[p][k] = req
    BY <1>0, <2>1, <2>3, SentElements DEF req
  <2>5. issued'[q] = IF q = p THEN issued[q] + 1 ELSE issued[q]
    BY <1>0, <2>2 DEF TypeOK
  <2>6. c <= issued'[q]
    BY <1>0, <2>5 DEF Past
  <2>7. CASE q = p
    <3>1. req.call > c
      BY <1>0, <2>3, <2>7 DEF Past
    <3> QED
      BY <2>4, <2>6, <2>7, <3>1 DEF Past
  <2>8. CASE q # p
    BY <2>4, <2>6, <2>8 DEF Past
  <2> QED
    BY <2>7, <2>8
<1>2. ASSUME NEW p \in Peers,
             \/ \E d \in Dispatchers : RegisterService(p, d)
             \/ \E a \in ReceiveArgs : EnterReceive(p, a)
             \/ Receive(p)
             \/ ReturnService(p) \/ ReturnCallback(p)
             \/ \E r \in pending[p] : Reply(p, r)
             \/ LoseMessage(p) \/ LoseObjects(p)
      PROVE  Past(q, c)'
  <2>1. /\ issued' = issued
        /\ \A k \in 1 .. Len(wire'[q]) : wire'[q][k].type = "request" =>
             \E l \in 1 .. Len(wire[q]) :
               wire[q][l].type = "request" /\ wire[q][l].call = wire'[q][k].call
    BY <1>2, OldRequests
  <2> QED
    BY <2>1 DEF Past
<1>3. CASE Break \/ UNCHANGED vars
  BY <1>3 DEF Break, vars, history, Past
<1> QED
  BY <1>1, <1>2, <1>3 DEF Next

\* The call of a request that is received is past.
LEMMA ReceivedPast ==
  ASSUME TypeInv, CallInv, NEW p \in Peers, NEW m \in Arriving(p), m.type = "request",
         RejectMessage(p, m) \/ DispatchRequest(p, m) \/ AbandonRequest(p, m)
  PROVE  Past(Other(p), m.call)' /\ served[Other(p)][m.call] = 0
<1> DEFINE q == Other(p)
<1>0. TypeOK /\ q \in Peers
  BY Others DEF TypeInv
<1>1. m.call <= issued'[q] /\ served[q][m.call] = 0
  <2>1. issued' = issued
    BY DEF RejectMessage, DispatchRequest, AbandonRequest, history
  <2> QED
    BY <2>1, HeadRequest
<1>2. CASE RejectMessage(p, m)
  <2>1. m = wire[q][1] /\ 1 \in 1 .. Len(wire[q])
    BY <1>0, ArrivingProperties
  <2>2. \A l \in 1 .. Len(wire[q]) : l > 1 /\ wire[q][l].type = "request" =>
          wire[q][l].call > m.call
    BY <1>0, <2>1 DEF CallInv, RequestsAhead
  <2>3. PICK s \in {0, 1} : Behind(q, s)
    <3>1. wire' = [wire EXCEPT ![q] = Leftover(m) \o Tail(@)]
      BY <1>2 DEF RejectMessage
    <3> QED
      BY <1>0, <3>1, RejectedRest
  <2> HIDE DEF q
  <2>4. \A k \in 1 .. Len(wire'[q]) : wire'[q][k].type = "request" => wire'[q][k].call > m.call
    BY <2>2, <2>3 DEF Behind
  <2> QED
    BY <1>1, <2>4 DEF Past, q
<1>3. CASE DispatchRequest(p, m) \/ AbandonRequest(p, m)
  <2>1. wire' = [wire EXCEPT ![q] = Tail(@)]
    BY <1>3 DEF DispatchRequest, AbandonRequest
  <2>2. RequestsLeft(m, q, wire'[q])
    BY <2>1, ShiftedRequests
  <2> QED
    BY <1>1, <2>2 DEF Past, RequestsLeft
<1> QED
  BY <1>1, <1>2, <1>3

\* What keeps the envelopes of p explained that were allocated before a step.
LEMMA ExplainedStays ==
  ASSUME TypeInv, [Next]_vars, NEW p \in Peers, NEW m \in live[p], Explained(p, m),
         m.type = "response" =>
           \A k \in 1 .. Len(stack[p]) : stack[p][k] = m =>
             k \in 1 .. Len(stack'[p]) /\ stack'[p][k] = m,
         m.type = "request" =>
           /\ m \in pending[p] => m \in pending'[p]
           /\ served[Other(p)][m.call] = 0 /\ Past(Other(p), m.call) =>
                served'[Other(p)][m.call] = 0
  PROVE  Explained(p, m)'
<1>1. m.call \in Calls /\ Other(p) \in Peers
  BY Fields, Others DEF TypeInv, TypeOK
<1>2. CASE m.type = "response"
  BY <1>2 DEF Explained
<1>3. CASE m.type = "request"
  <2>1. Past(Other(p), m.call) => Past(Other(p), m.call)'
    BY <1>1, PastStays
  <2> QED
    BY <1>3, <2>1 DEF Explained
<1> QED
  BY <1>2, <1>3 DEF Explained

\* Steps that neither give a request to a service nor allocate or return anything.
LEMMA LeakUserStep ==
  ASSUME TypeInv, LeakInv, [Next]_vars,
         UNCHANGED <<stack, pending, live, served>>
  PROVE  LeakInv'
<1>1. ASSUME NEW p \in Peers, NEW m \in live[p]
      PROVE  Explained(p, m)'
  BY <1>1, ExplainedStays DEF LeakInv
<1> QED
  BY <1>1 DEF LeakInv

\* Running `done` and returning from a service or a callback.
LEMMA LeakReturnStep ==
  ASSUME TypeInv, LeakInv, [Next]_vars, NEW p \in Peers,
         \/ \E r \in pending[p] : Reply(p, r)
         \/ ReturnService(p) \/ ReturnCallback(p)
  PROVE  LeakInv'
<1>0. TypeOK /\ served' = served
  BY DEF TypeInv, Reply, ReturnService, ReturnCallback, history
<1>1. CASE \E r \in pending[p] : Reply(p, r)
  <2>1. PICK r \in pending[p] : Reply(p, r)
    BY <1>1
  <2>2. /\ stack' = stack
        /\ pending' = [pending EXCEPT ![p] = @ \ {r}]
        /\ live' = [live EXCEPT ![p] = @ \ {r}]
    BY <2>1 DEF Reply
  <2>3. \A a \in Peers : \A m \in live'[a] :
          m \in live[a] /\ (m \in pending[a] => m \in pending'[a])
    BY <1>0, <2>2 DEF TypeOK
  <2> QED
    BY <1>0, <2>2, <2>3, ExplainedStays DEF LeakInv
<1>2. CASE ReturnService(p) \/ ReturnCallback(p)
  <2> DEFINE n == Len(stack[p])
  <2>1. /\ stack[p] # <<>> /\ pending' = pending
        /\ stack' = [stack EXCEPT ![p] = Pop(@)]
        /\ \/ live' = live /\ stack[p][n].type = "request"
           \/ live' = [live EXCEPT ![p] = @ \ {stack[p][n]}]
    BY <1>2 DEF ReturnService, ReturnCallback, Top
  <2>2. stack[p] \in Seq(Messages) /\ Len(stack[p]) \in Nat
    BY <1>0, Elements DEF TypeOK
  <2>3. /\ Len(Pop(stack[p])) = n - 1
        /\ \A k \in 1 .. Len(Pop(stack[p])) : Pop(stack[p])[k] = stack[p][k]
    BY <2>1, <2>2, PopProperties
  <2>4. stack'[p] = Pop(stack[p]) /\ \A a \in Peers : a # p => stack'[a] = stack[a]
    BY <1>0, <2>1 DEF TypeOK
  <2>5. \A k \in 1 .. n : k # n => k \in 1 .. Len(stack'[p]) /\ stack'[p][k] = stack[p][k]
    BY <2>2, <2>3, <2>4
  <2>6. /\ \A a \in Peers : live'[a] \subseteq live[a]
        /\ \A m \in live'[p] : m.type = "response" => m # stack[p][n]
    BY <1>0, <2>1 DEF TypeOK
  <2> HIDE DEF n
  <2>7. ASSUME NEW a \in Peers, NEW m \in live'[a], m.type = "response",
               NEW k \in 1 .. Len(stack[a]), stack[a][k] = m
        PROVE  k \in 1 .. Len(stack'[a]) /\ stack'[a][k] = m
    <3>1. CASE a = p
      BY <2>5, <2>6, <2>7, <3>1 DEF n
    <3>2. CASE a # p
      BY <2>4, <2>7, <3>2
    <3> QED
      BY <3>1, <3>2
  <2> QED
    BY <1>0, <2>1, <2>6, <2>7, ExplainedStays DEF LeakInv
<1> QED
  BY <1>1, <1>2

\* Receiving: what is allocated is explained by what is done with it.
LEMMA LeakReceiveStep ==
  ASSUME TypeInv, CallInv, LeakInv, [Next]_vars, NEW p \in Peers, NEW m \in Arriving(p),
         \/ RejectMessage(p, m) \/ DispatchRequest(p, m) \/ AbandonRequest(p, m)
         \/ RunCallback(p, m)
  PROVE  LeakInv'
<1> DEFINE q == Other(p)
<1>0. /\ TypeOK /\ m \in Messages /\ m.call \in Calls /\ m.call \in Nat /\ m.call # NoEntry
      /\ q \in Peers /\ m.type \in {"request", "response", "debris"}
  BY ArrivingProperties, Fields, Others DEF TypeInv
<1>1. live' = [live EXCEPT ![p] = @ \cup {m}]
  BY DEF RejectMessage, DispatchRequest, AbandonRequest, RunCallback, Kept
<1>2. /\ \A a \in Peers : pending[a] \subseteq pending'[a]
      /\ DispatchRequest(p, m) /\ m.method \notin OneWay => m \in pending'[p]
  <2>1. /\ pending' = pending \/ pending' = [pending EXCEPT ![p] = @ \cup {m}]
        /\ DispatchRequest(p, m) /\ m.method \notin OneWay =>
             pending' = [pending EXCEPT ![p] = @ \cup {m}]
    BY DEF RejectMessage, DispatchRequest, AbandonRequest, RunCallback, history
  <2>2. pending \in [Peers -> SUBSET Messages]
    BY <1>0 DEF TypeOK
  <2> QED
    BY <2>1, <2>2
<1>3. /\ stack' = stack \/ stack' = [stack EXCEPT ![p] = Append(@, m)]
      /\ RunCallback(p, m) => stack' = [stack EXCEPT ![p] = Append(@, m)]
  BY DEF RejectMessage, DispatchRequest, AbandonRequest, RunCallback
<1>4. /\ \A a \in Peers : \A k \in 1 .. Len(stack[a]) :
           k \in 1 .. Len(stack'[a]) /\ stack'[a][k] = stack[a][k]
      /\ RunCallback(p, m) => \E k \in 1 .. Len(stack'[p]) : stack'[p][k] = m
  <2>1. stack[p] \in Seq(Messages) /\ Len(stack[p]) \in Nat
    BY <1>0, Elements DEF TypeOK
  <2>2. /\ Len(Append(stack[p], m)) = Len(stack[p]) + 1
        /\ \A k \in 1 .. Len(stack[p]) : Append(stack[p], m)[k] = stack[p][k]
        /\ Append(stack[p], m)[Len(stack[p]) + 1] = m
    BY <1>0, <2>1, AppendProperties
  <2>3. ASSUME stack' = [stack EXCEPT ![p] = Append(@, m)]
        PROVE  /\ stack'[p] = Append(stack[p], m)
               /\ \A a \in Peers : a # p => stack'[a] = stack[a]
    BY <1>0, <2>3 DEF TypeOK
  <2>4. ASSUME stack' = [stack EXCEPT ![p] = Append(@, m)]
        PROVE  /\ \A a \in Peers : \A k \in 1 .. Len(stack[a]) :
                    k \in 1 .. Len(stack'[a]) /\ stack'[a][k] = stack[a][k]
               /\ \E k \in 1 .. Len(stack'[p]) : stack'[p][k] = m
    BY <2>1, <2>2, <2>3, <2>4
  <2> QED
    BY <1>3, <2>4
<1>5. ASSUME NEW a \in Peers, NEW s \in live[a], s.type = "request",
             Past(Other(a), s.call), served[Other(a)][s.call] = 0
      PROVE  served'[Other(a)][s.call] = 0
  <2>1. s.call \in Calls /\ s.call \in Nat /\ Other(a) \in Peers
    BY <1>0, Fields, Others DEF TypeOK
  <2>2. CASE DispatchRequest(p, m)
    <3>1. served' = [served EXCEPT ![q][m.call] = @ + 1] /\ m.type = "request"
      BY <2>2 DEF DispatchRequest
    <3>2. q = Other(a) => m.call > s.call
      <4>1. m = wire[q][1] /\ 1 \in 1 .. Len(wire[q])
        BY <1>0, ArrivingProperties
      <4> QED
        BY <1>5, <3>1, <4>1 DEF Past
    <3>3. ~(q = Other(a) /\ m.call = s.call)
      BY <2>1, <3>2
    <3> HIDE DEF q
    <3>4. served' = [served EXCEPT ![q] = [served[q] EXCEPT ![m.call] = served[q][m.call] + 1]]
      BY <3>1
    <3>5. served'[Other(a)][s.call] = served[Other(a)][s.call]
      BY <1>0, <2>1, <3>3, <3>4 DEF TypeOK
    <3> QED
      BY <1>5, <3>5
  <2>3. CASE ~DispatchRequest(p, m)
    BY <1>5, <2>3 DEF RejectMessage, AbandonRequest, RunCallback, history
  <2> QED
    BY <2>2, <2>3
<1>6. ASSUME NEW a \in Peers, NEW s \in live[a]
      PROVE  Explained(a, s)'
  BY <1>2, <1>4, <1>5, ExplainedStays DEF LeakInv
<1>7. Explained(p, m)'
  <2>1. CASE m.type = "response"
    <3>1. RunCallback(p, m)
      BY <1>0, <2>1, HeadResponse DEF RejectMessage, DispatchRequest, AbandonRequest
    <3> QED
      BY <1>4, <2>1, <3>1 DEF Explained
  <2>2. CASE m.type = "request"
    <3>1. RejectMessage(p, m) \/ DispatchRequest(p, m) \/ AbandonRequest(p, m)
      BY <2>2 DEF RunCallback
    <3>2. Past(q, m.call)' /\ served[q][m.call] = 0
      BY <2>2, <3>1, ReceivedPast
    <3>3. CASE DispatchRequest(p, m)
      BY <1>2, <2>2, <3>2, <3>3 DEF Explained
    <3>4. CASE ~DispatchRequest(p, m)
      <4>1. served' = served
        BY <3>1, <3>4 DEF RejectMessage, AbandonRequest, history
      <4> QED
        BY <2>2, <3>2, <4>1 DEF Explained
    <3> QED
      BY <3>3, <3>4
  <2>3. m.type # "debris"
    BY DEF RejectMessage, DispatchRequest, AbandonRequest, RunCallback
  <2> QED
    BY <1>0, <2>1, <2>2, <2>3
<1>8. \A a \in Peers : \A s \in live'[a] : s \in live[a] \/ (a = p /\ s = m)
  BY <1>0, <1>1 DEF TypeOK
<1> QED
  BY <1>6, <1>7, <1>8 DEF LeakInv

\* Every step keeps LeakInv.
LEMMA LeakStep ==
  TypeInv /\ CallInv /\ LeakInv /\ [Next]_vars => LeakInv'
<1> SUFFICES ASSUME TypeInv, CallInv, LeakInv, [Next]_vars PROVE LeakInv'
  OBVIOUS
<1>1. ASSUME NEW p \in Peers, Receive(p)
      PROVE  LeakInv'
  <2>1. CASE ReceiveFails(p)
    BY <2>1, LeakUserStep DEF ReceiveFails, history
  <2>2. ASSUME NEW m \in Arriving(p), AbandonResponse(p, m) \/ ReceiveDebris(p, m)
        PROVE  LeakInv'
    BY <2>2, LeakUserStep DEF AbandonResponse, ReceiveDebris, history
  <2>3. ASSUME NEW m \in Arriving(p),
               \/ RejectMessage(p, m) \/ DispatchRequest(p, m) \/ AbandonRequest(p, m)
               \/ RunCallback(p, m)
        PROVE  LeakInv'
    BY <2>3, LeakReceiveStep
  <2> QED
    BY <1>1, <2>1, <2>2, <2>3 DEF Receive
<1>2. ASSUME NEW p \in Peers,
             \/ \E r \in pending[p] : Reply(p, r)
             \/ ReturnService(p) \/ ReturnCallback(p)
      PROVE  LeakInv'
  BY <1>2, LeakReturnStep
<1>3. ASSUME NEW p \in Peers,
             \/ \E d \in Dispatchers : RegisterService(p, d)
             \/ \E m \in Methods : ProxyCall(p, m) \/ ProxyNotify(p, m)
             \/ \E a \in ReceiveArgs : EnterReceive(p, a)
             \/ LoseMessage(p) \/ LoseObjects(p)
      PROVE  LeakInv'
  BY <1>3, LeakUserStep DEF RegisterService, ProxyCall, ProxyNotify, EnterReceive,
     LoseMessage, LoseObjects, history
<1>4. CASE Break \/ UNCHANGED vars
  BY <1>4, LeakUserStep DEF Break, vars, history
<1> QED
  BY <1>1, <1>2, <1>3, <1>4 DEF Next

\* Every received envelope that is still allocated is waited for by a `done`
\* closure, is being run, is that of a one-way call or of one that was never
\* served: served calls with a reply leave nothing behind (rpcchannel.cpp:118-163).
THEOREM ServedCallsLeakNothing == Spec => []LeaksExplained
<1>1. Init => TypeInv /\ CallInv /\ LeakInv
  <2>1. Init => LeakInv
    BY DEF Init, LeakInv
  <2> QED
    BY <2>1, TypeInit, CallInit
<1>2. TypeInv /\ CallInv /\ LeakInv /\ [Next]_vars => (TypeInv /\ CallInv /\ LeakInv)'
  BY TypeStep, CallStep, LeakStep
<1>3. LeakInv => LeaksExplained
  BY DEF LeakInv, Explained, LeaksExplained
<1> QED
  BY <1>1, <1>2, <1>3, PTL DEF Spec

-----------------------------------------------------------------------------
(* Two connected RpcChannels implement RpcContract.                            *)

\* Making a call issues it.
LEMMA IssueStep ==
  ASSUME TypeInv, NEW p \in Peers, NEW m \in Methods, ProxyCall(p, m) \/ ProxyNotify(p, m)
  PROVE  Contract!Issue(p)
BY DEF ProxyCall, ProxyNotify, Contract!Issue

\* Giving a request to its service executes a call that is ahead of the others.
LEMMA ExecuteStep ==
  ASSUME TypeInv, CallInv, NEW p \in Peers, NEW m \in Arriving(p), DispatchRequest(p, m)
  PROVE  m.call \in Calls /\ Contract!Execute(Other(p), m.call)
<1> DEFINE q == Other(p)
<1>0. TypeOK
  BY DEF TypeInv
<1>1. /\ m.type = "request"
      /\ served' = [served EXCEPT ![q][m.call] = @ + 1]
      /\ UNCHANGED <<issued, completed>>
  BY DEF DispatchRequest
<1>2. /\ m.call \in Calls /\ q \in Peers
  BY <1>0, ArrivingProperties, Fields, Others
<1>3. /\ m.call <= issued[q]
      /\ \A d \in Calls : d >= m.call => served[q][d] = 0
      /\ served[q][m.call] = 0
  BY <1>1, HeadRequest
<1> HIDE DEF q
<1>4. served' = [served EXCEPT ![q][m.call] = 1]
  BY <1>1, <1>2, <1>3
<1>5. \A d \in Contract!Calls : d \in Calls
  BY DEF Contract!Calls, Calls
<1>6. m.call \in Calls /\ Contract!Execute(q, m.call)
  BY <1>1, <1>2, <1>3, <1>4, <1>5 DEF Contract!Execute
<1> QED
  BY <1>6 DEF q

\* Running a callback completes a call that was executed and not completed.
LEMMA CompleteStep ==
  ASSUME TypeInv, CallInv, NEW p \in Peers, NEW m \in Arriving(p), RunCallback(p, m)
  PROVE  m.call \in Calls /\ Contract!Complete(p, m.call)
<1>0. TypeOK
  BY DEF TypeInv
<1>1. /\ responseCallbacks[p][m.id] = m.call
      /\ served[p][m.call] = 1
      /\ completed[p][m.call] = 0
  BY HeadResponse DEF RunCallback
<1>2. /\ completed' = [completed EXCEPT ![p][m.call] = @ + 1]
      /\ UNCHANGED <<issued, served>>
  BY <1>1 DEF RunCallback
<1>3. m.call \in Calls
  BY <1>0, ArrivingProperties, Fields
<1>4. completed' = [completed EXCEPT ![p][m.call] = 1]
  BY <1>1, <1>2, <1>3
<1> QED
  BY <1>1, <1>2, <1>3, <1>4 DEF Contract!Complete

\* Every step of the channels is a step of the contract, or invisible in it.
LEMMA ContractStep ==
  TypeInv /\ CallInv /\ [Next]_vars => [Contract!Next]_(Contract!vars)
<1> SUFFICES ASSUME TypeInv, CallInv, [Next]_vars
             PROVE  [Contract!Next]_(Contract!vars)
  OBVIOUS
<1>1. ASSUME NEW p \in Peers, NEW m \in Methods, ProxyCall(p, m) \/ ProxyNotify(p, m)
      PROVE  Contract!Next
  BY <1>1, IssueStep DEF Contract!Next
<1>2. ASSUME NEW p \in Peers, NEW m \in Arriving(p), DispatchRequest(p, m)
      PROVE  Contract!Next
  <2>1. m.call \in Contract!Calls /\ Contract!Execute(Other(p), m.call) /\ Other(p) \in Peers
    BY <1>2, ExecuteStep, Others DEF Contract!Calls, Calls
  <2> QED
    BY <2>1 DEF Contract!Next
<1>3. ASSUME NEW p \in Peers, NEW m \in Arriving(p), RunCallback(p, m)
      PROVE  Contract!Next
  <2>1. m.call \in Contract!Calls /\ Contract!Complete(p, m.call)
    BY <1>3, CompleteStep DEF Contract!Calls, Calls
  <2> QED
    BY <2>1 DEF Contract!Next
<1>4. ASSUME NEW p \in Peers, Receive(p)
      PROVE  Contract!Next \/ UNCHANGED <<issued, served, completed>>
  BY <1>2, <1>3, <1>4 DEF Receive, ReceiveFails, RejectMessage, AbandonRequest,
     AbandonResponse, ReceiveDebris, history
<1>5. ASSUME NEW p \in Peers,
             \/ \E d \in Dispatchers : RegisterService(p, d)
             \/ \E a \in ReceiveArgs : EnterReceive(p, a)
             \/ ReturnService(p) \/ ReturnCallback(p)
             \/ \E r \in pending[p] : Reply(p, r)
             \/ LoseMessage(p) \/ LoseObjects(p)
      PROVE  UNCHANGED <<issued, served, completed>>
  BY <1>5 DEF RegisterService, EnterReceive, ReturnService, ReturnCallback, Reply,
     LoseMessage, LoseObjects, history
<1>6. CASE Break
  BY <1>6 DEF Break, history, Contract!vars
<1>7. CASE UNCHANGED vars
  BY <1>7 DEF vars, history, Contract!vars
<1> QED
  BY <1>1, <1>4, <1>5, <1>6, <1>7 DEF Next, Contract!vars

\* Every behaviour of the channels is one the contract allows: calls are executed
\* at most once and in the order they were issued, callbacks run at most once
\* and only for executed calls (rpcchannel.cpp, rpcgenerator.cpp).
THEOREM ContractKept == Spec => ContractSpec
<1>1. Init => Contract!Init
  BY DEF Init, Contract!Init, Contract!Calls, Calls
<1>2. Init => TypeInv /\ CallInv
  BY TypeInit, CallInit
<1>3. TypeInv /\ CallInv /\ [Next]_vars => (TypeInv /\ CallInv)'
  BY TypeStep, CallStep
<1> QED
  BY <1>1, <1>2, <1>3, ContractStep, PTL DEF Spec, ContractSpec, Contract!Spec

=============================================================================
