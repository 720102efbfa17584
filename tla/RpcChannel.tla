------------------------------ MODULE RpcChannel ------------------------------
(* Two peers, each with one RpcChannel, connected to each other.  A peer makes *)
(* calls through generated proxies and serves calls through generated          *)
(* dispatchers.  A peer is one thread of control: user code runs until it calls *)
(* receive(), and receive() runs user code again, a service or a completion    *)
(* callback, which may itself call proxies and receive().  The stack of such   *)
(* activations is a variable.                                                  *)
(*                                                                             *)
(* The grain is one message together with the VTK and external objects that    *)
(* follow it; VtkChannel.tla models the frames it is made of.                  *)

EXTENDS Naturals, Sequences, FiniteSets, DispatcherMap

CONSTANTS
  Client, Server,  \* the two peers; either may call and either may serve
  Callers,         \* the peers whose programs make calls
  Offers,          \* Offers[p]: the dispatchers p's program may register
  OneWay,          \* methods from Void to Void: no id, no reply
  Attached,        \* methods whose messages are followed by VTK/external objects
  MaxCalls,        \* bound: calls one peer makes
  MaxDepth,        \* bound: nested receive() calls of one peer
  MaxOutstanding,  \* bound: calls a program lets wait for their reply
  WireCap,         \* messages a direction of the connection buffers
  MayBreak,        \* whether the connection may fail
  MayDefer,        \* whether a service may return before it runs `done`
  ReceiveArgs      \* the arguments receive() is called with

Peers == {Client, Server}
Other(p) == IF p = Client THEN Server ELSE Client

ASSUME ChannelAssumption ==
  /\ Client # Server
  /\ Callers \subseteq Peers
  /\ Offers \in [Peers -> SUBSET Dispatchers]
  /\ OneWay \subseteq Methods
  /\ Attached \subseteq Methods
  /\ MaxCalls \in Nat /\ MaxDepth \in Nat /\ MaxOutstanding \in Nat
  /\ WireCap \in Nat
  /\ MayBreak \in BOOLEAN /\ MayDefer \in BOOLEAN
  /\ ReceiveArgs \subseteq {"poll", "block"}

VARIABLES
  currentRequestId,   \* m_currentRequestId of each peer's channel
  responseCallbacks,  \* m_responseCallbacks: the call waiting under each id
  dispatcherMap,      \* the ServiceManager singleton of each peer's process
  wire,               \* wire[p]: the messages p has sent and Other(p) has not read
  link,               \* the connection, "up" or "down"
  mode,               \* "run" in user code, else the argument of the receive() it is in
  stack,              \* the messages whose service or callback is being run
  pending,            \* the requests whose `done` closure has not been run
  live,               \* the received envelopes that are still allocated
  issued,             \* history: calls each peer has made
  served,             \* history: how often each call was given to a service
  replied,            \* history: how often its `done` closure ran
  completed           \* history: how often its completion callback ran

channelVars == <<currentRequestId, responseCallbacks>>
history == <<issued, served, replied, completed>>
vars == <<channelVars, dispatcherMap, wire, link, mode, stack, pending, live, history>>

-----------------------------------------------------------------------------
(* A call is named by its number among its caller's calls.  The number is not *)
(* part of a message: the program only has the request id, which one-way      *)
(* calls do not take.  It is carried here so that properties can say whose    *)
(* call a message belongs to.                                                 *)

Calls == 1 .. MaxCalls
Ids == 0 .. MaxCalls
NoEntry == 0     \* no ResponseCallbackEntry under this id

\* One envelope and, when `whole`, all the objects announced by it.  "debris" is
\* what is left of a rejected message: its objects, which nobody received.
Messages ==
  [type : {"request", "response", "debris"}, id : Ids, method : Methods,
   call : Calls, whole : BOOLEAN]

Request(i, m, c) ==
  [type |-> "request", id |-> i, method |-> m, call |-> c, whole |-> TRUE]

\* Mutant of ReplyTo: set_id is forgotten, the id is protobuf's default 0.
ReplyWithoutId(r) == [r EXCEPT !.type = "response", !.id = 0]

\* The response to a request: its id is the one in the request envelope.
ReplyTo(r) == [r EXCEPT !.type = "response"]

\* What stays on the wire when a message is rejected before its objects are read.
Leftover(m) ==
  IF m.method \in Attached /\ m.whole THEN <<[m EXCEPT !.type = "debris"]>> ELSE <<>>

\* Mutant of NextRequestId: the increment is lost.
SameRequestId(i) == i

\* Mutant of NextRequestId: every call takes two ids.
SkipRequestId(i) == i + 2

\* nextRequestId: a uint64 post-increment, which MaxCalls keeps from wrapping.
NextRequestId(i) == i + 1

\* Mutant of Enrolled: the proxy does not register its handler.
NotEnrolled(table, i, c) == table

\* registerResponseCallback: std::map::insert, which keeps an existing entry.
Enrolled(table, i, c) ==
  IF table[i] = NoEntry THEN [table EXCEPT ![i] = c] ELSE table

\* Mutant of Erased: the whole table is cleared.
ClearedTable(table, i) == [j \in Ids |-> NoEntry]

\* m_responseCallbacks.erase(it)
Erased(table, i) == [table EXCEPT ![i] = NoEntry]

\* Mutant of Kept: handleRequest deletes the envelope when dispatch returns.
NotKept(held, m) == held

\* The envelopes allocated after one more was received and not deleted.
Kept(held, m) == held \cup {m}

Top(s) == s[Len(s)]
Pop(s) == SubSeq(s, 1, Len(s) - 1)

-----------------------------------------------------------------------------
(* The connection.  send() returns when the frames are in the buffers of the  *)
(* connection: a peer that has filled them is stuck in send() until the other *)
(* side reads.  A failed send() leaves the wire as it is.                     *)

Sent(p, m) == IF link = "up" THEN [wire EXCEPT ![p] = Append(@, m)] ELSE wire

Stuck(p) == link = "up" /\ Len(wire[p]) > WireCap

\* p's user code is running.
Running(p) == mode[p] = "run" /\ ~Stuck(p)

\* The next message p reads, as a set: empty unless p is in receive() and there
\* is one.
Arriving(p) ==
  IF mode[p] # "run" /\ wire[Other(p)] # <<>> THEN {Head(wire[Other(p)])} ELSE {}

Outstanding(p) == Cardinality({i \in Ids : responseCallbacks[p][i] # NoEntry})

-----------------------------------------------------------------------------
Init ==
  /\ currentRequestId = [p \in Peers |-> 0]
  /\ responseCallbacks = [p \in Peers |-> [i \in Ids |-> NoEntry]]
  /\ dispatcherMap = [p \in Peers |-> NoBindings]
  /\ wire = [p \in Peers |-> <<>>]
  /\ link = "up"
  /\ mode = [p \in Peers |-> "run"]
  /\ stack = [p \in Peers |-> <<>>]
  /\ pending = [p \in Peers |-> {}]
  /\ live = [p \in Peers |-> {}]
  /\ issued = [p \in Peers |-> 0]
  /\ served = [p \in Peers |-> [c \in Calls |-> 0]]
  /\ replied = [p \in Peers |-> [c \in Calls |-> 0]]
  /\ completed = [p \in Peers |-> [c \in Calls |-> 0]]

\* The program registers a dispatcher.
RegisterService(p, d) ==
  /\ Running(p)
  /\ d \in Offers[p]
  /\ dispatcherMap' = [dispatcherMap EXCEPT ![p] = Registered(@, d)]
  /\ UNCHANGED <<channelVars, wire, link, mode, stack, pending, live, history>>

\* A generated proxy method with a reply: the handler is registered first, then
\* the request is sent.  If send() fails the proxy returns; the entry stays.
ProxyCall(p, m) ==
  /\ p \in Callers /\ m \notin OneWay
  /\ Running(p)
  /\ issued[p] < MaxCalls
  /\ Outstanding(p) < MaxOutstanding
  /\ LET i == currentRequestId[p]
         c == issued[p] + 1
     IN /\ currentRequestId' = [currentRequestId EXCEPT ![p] = NextRequestId(@)]
        /\ responseCallbacks' = [responseCallbacks EXCEPT ![p] = Enrolled(@, i, c)]
        /\ wire' = Sent(p, Request(i, m, c))
        /\ issued' = [issued EXCEPT ![p] = c]
  /\ UNCHANGED <<dispatcherMap, link, mode, stack, pending, live, served, replied, completed>>

\* A generated proxy method from Void to Void: no id is taken or set.
ProxyNotify(p, m) ==
  /\ p \in Callers /\ m \in OneWay
  /\ Running(p)
  /\ issued[p] < MaxCalls
  /\ wire' = Sent(p, Request(0, m, issued[p] + 1))
  /\ issued' = [issued EXCEPT ![p] = @ + 1]
  /\ UNCHANGED <<channelVars, dispatcherMap, link, mode, stack, pending, live,
                 served, replied, completed>>

\* User code calls receive(nonBlocking).  The argument changes nothing.
EnterReceive(p, a) ==
  /\ Running(p)
  /\ Len(stack[p]) < MaxDepth
  /\ mode' = [mode EXCEPT ![p] = a]
  /\ UNCHANGED <<channelVars, dispatcherMap, wire, link, stack, pending, live, history>>

\* handleMessage finds no dispatcher for a request, or no entry for a response:
\* receive() returns false, the envelope is leaked, its objects stay unread.
RejectMessage(p, m) ==
  /\ m \in Arriving(p)
  /\ \/ m.type = "request" /\ ~Served(dispatcherMap[p], m.method)
     \/ m.type = "response" /\ responseCallbacks[p][m.id] = NoEntry
  /\ dispatcherMap' = IF m.type = "request"
                      THEN [dispatcherMap EXCEPT ![p] = AfterLookup(@, m.method)]
                      ELSE dispatcherMap
  /\ wire' = [wire EXCEPT ![Other(p)] = Leftover(m) \o Tail(@)]
  /\ mode' = [mode EXCEPT ![p] = "run"]
  /\ live' = [live EXCEPT ![p] = Kept(@, m)]
  /\ UNCHANGED <<channelVars, link, stack, pending, history>>

\* handleRequest calls dispatch(), which reads the objects and calls the service
\* with a closure that replies, or, without output, with one that does nothing.
DispatchRequest(p, m) ==
  /\ m \in Arriving(p) /\ m.type = "request" /\ m.whole
  /\ Served(dispatcherMap[p], m.method)
  /\ wire' = [wire EXCEPT ![Other(p)] = Tail(@)]
  /\ mode' = [mode EXCEPT ![p] = "run"]
  /\ stack' = [stack EXCEPT ![p] = Append(@, m)]
  /\ pending' = IF m.method \in OneWay THEN pending
                ELSE [pending EXCEPT ![p] = @ \cup {m}]
  /\ live' = [live EXCEPT ![p] = Kept(@, m)]
  /\ served' = [served EXCEPT ![Other(p)][m.call] = @ + 1]
  /\ UNCHANGED <<channelVars, dispatcherMap, link, issued, replied, completed>>

\* dispatch() cannot read an announced object and returns: no service is called
\* and nothing is replied, yet receive() returns true.
AbandonRequest(p, m) ==
  /\ m \in Arriving(p) /\ m.type = "request" /\ ~m.whole
  /\ Served(dispatcherMap[p], m.method)
  /\ wire' = [wire EXCEPT ![Other(p)] = Tail(@)]
  /\ mode' = [mode EXCEPT ![p] = "run"]
  /\ live' = [live EXCEPT ![p] = Kept(@, m)]
  /\ UNCHANGED <<channelVars, dispatcherMap, link, stack, pending, history>>

\* handleResponse finds the entry and calls the generated handler, which reads
\* the objects and runs the user's callback.  The entry is still in the table.
RunCallback(p, m) ==
  /\ m \in Arriving(p) /\ m.type = "response" /\ m.whole
  /\ responseCallbacks[p][m.id] # NoEntry
  /\ wire' = [wire EXCEPT ![Other(p)] = Tail(@)]
  /\ mode' = [mode EXCEPT ![p] = "run"]
  /\ stack' = [stack EXCEPT ![p] = Append(@, m)]
  /\ live' = [live EXCEPT ![p] = Kept(@, m)]
  /\ completed' = [completed EXCEPT ![p][responseCallbacks[p][m.id]] = @ + 1]
  /\ UNCHANGED <<channelVars, dispatcherMap, link, pending, issued, served, replied>>

\* The handler cannot read an announced object and returns without running the
\* callback; handleResponse erases the entry all the same.
AbandonResponse(p, m) ==
  /\ m \in Arriving(p) /\ m.type = "response" /\ ~m.whole
  /\ responseCallbacks[p][m.id] # NoEntry
  /\ wire' = [wire EXCEPT ![Other(p)] = Tail(@)]
  /\ mode' = [mode EXCEPT ![p] = "run"]
  /\ responseCallbacks' = [responseCallbacks EXCEPT ![p] = Erased(@, m.id)]
  /\ UNCHANGED <<currentRequestId, dispatcherMap, link, stack, pending, live, history>>

\* An object is read where an envelope is expected: receive() returns false.
ReceiveDebris(p, m) ==
  /\ m \in Arriving(p) /\ m.type = "debris"
  /\ wire' = [wire EXCEPT ![Other(p)] = Tail(@)]
  /\ mode' = [mode EXCEPT ![p] = "run"]
  /\ UNCHANGED <<channelVars, dispatcherMap, link, stack, pending, live, history>>

\* The connection is gone and everything that was read: receive() returns false.
ReceiveFails(p) ==
  /\ mode[p] # "run" /\ link = "down" /\ wire[Other(p)] = <<>>
  /\ mode' = [mode EXCEPT ![p] = "run"]
  /\ UNCHANGED <<channelVars, dispatcherMap, wire, link, stack, pending, live, history>>

\* The innermost service returns, and with it dispatch() and receive().
ReturnService(p) ==
  /\ Running(p)
  /\ stack[p] # <<>> /\ Top(stack[p]).type = "request"
  /\ MayDefer \/ Top(stack[p]) \notin pending[p]
  /\ stack' = [stack EXCEPT ![p] = Pop(@)]
  /\ UNCHANGED <<channelVars, dispatcherMap, wire, link, mode, pending, live, history>>

\* Mutant of ReturnCallback: the envelope of the response is not deleted.
ReturnCallbackLeaking(p) ==
  /\ Running(p)
  /\ stack[p] # <<>> /\ Top(stack[p]).type = "response"
  /\ responseCallbacks' = [responseCallbacks EXCEPT ![p] = Erased(@, Top(stack[p]).id)]
  /\ stack' = [stack EXCEPT ![p] = Pop(@)]
  /\ UNCHANGED <<currentRequestId, dispatcherMap, wire, link, mode, pending, live, history>>

\* The innermost callback returns: the entry is erased through the iterator taken
\* before it ran, handler and envelope are deleted, receive() returns true.
ReturnCallback(p) ==
  /\ Running(p)
  /\ stack[p] # <<>> /\ Top(stack[p]).type = "response"
  /\ responseCallbacks' = [responseCallbacks EXCEPT ![p] = Erased(@, Top(stack[p]).id)]
  /\ live' = [live EXCEPT ![p] = @ \ {Top(stack[p])}]
  /\ stack' = [stack EXCEPT ![p] = Pop(@)]
  /\ UNCHANGED <<currentRequestId, dispatcherMap, wire, link, mode, pending, history>>

\* User code runs a `done` closure: the generated reply() sends the response and
\* deletes the request envelope, whether or not the send succeeded.
Reply(p, r) ==
  /\ Running(p)
  /\ r \in pending[p]
  /\ wire' = Sent(p, ReplyTo(r))
  /\ pending' = [pending EXCEPT ![p] = @ \ {r}]
  /\ live' = [live EXCEPT ![p] = @ \ {r}]
  /\ replied' = [replied EXCEPT ![Other(p)][r.call] = @ + 1]
  /\ UNCHANGED <<channelVars, dispatcherMap, link, mode, stack, issued, served, completed>>

\* The connection fails ...
Break ==
  /\ MayBreak /\ link = "up"
  /\ link' = "down"
  /\ UNCHANGED <<channelVars, dispatcherMap, wire, mode, stack, pending, live, history>>

\* ... and what was sent last may never arrive, a whole message ...
LoseMessage(p) ==
  /\ link = "down" /\ wire[p] # <<>>
  /\ wire' = [wire EXCEPT ![p] = Pop(@)]
  /\ UNCHANGED <<channelVars, dispatcherMap, link, mode, stack, pending, live, history>>

\* ... or only the objects after it.
LoseObjects(p) ==
  /\ link = "down" /\ wire[p] # <<>>
  /\ Top(wire[p]).type # "debris" /\ Top(wire[p]).method \in Attached
  /\ Top(wire[p]).whole
  /\ wire' = [wire EXCEPT ![p] = [@ EXCEPT ![Len(@)].whole = FALSE]]
  /\ UNCHANGED <<channelVars, dispatcherMap, link, mode, stack, pending, live, history>>

Receive(p) ==
  \/ ReceiveFails(p)
  \/ \E m \in Arriving(p) :
       \/ RejectMessage(p, m)
       \/ DispatchRequest(p, m) \/ AbandonRequest(p, m)
       \/ RunCallback(p, m) \/ AbandonResponse(p, m)
       \/ ReceiveDebris(p, m)

Next ==
  \/ \E p \in Peers :
       \/ \E d \in Dispatchers : RegisterService(p, d)
       \/ \E m \in Methods : ProxyCall(p, m) \/ ProxyNotify(p, m)
       \/ \E a \in ReceiveArgs : EnterReceive(p, a)
       \/ Receive(p)
       \/ ReturnService(p) \/ ReturnCallback(p)
       \/ \E r \in pending[p] : Reply(p, r)
       \/ LoseMessage(p) \/ LoseObjects(p)
  \/ Break

Spec == Init /\ [][Next]_vars

(* Programs keep calling receive(), services run `done` and return, callbacks *)
(* return: the event loop the README asks of clients and servers.             *)
FairSpec ==
  /\ Spec
  /\ \A p \in Peers :
       /\ WF_vars(\E a \in ReceiveArgs : EnterReceive(p, a))
       /\ WF_vars(Receive(p))
       /\ WF_vars(ReturnService(p))
       /\ WF_vars(ReturnCallback(p))
       /\ WF_vars(\E r \in pending[p] : Reply(p, r))

-----------------------------------------------------------------------------
TypeOK ==
  /\ currentRequestId \in [Peers -> Ids]
  /\ responseCallbacks \in [Peers -> [Ids -> Calls \cup {NoEntry}]]
  /\ dispatcherMap \in [Peers -> [Methods -> Bindings]]
  /\ wire \in [Peers -> Seq(Messages)]
  /\ link \in {"up", "down"}
  /\ mode \in [Peers -> {"run", "poll", "block"}]
  /\ stack \in [Peers -> Seq(Messages)]
  /\ pending \in [Peers -> SUBSET Messages]
  /\ live \in [Peers -> SUBSET Messages]
  /\ issued \in [Peers -> 0 .. MaxCalls]
  /\ served \in [Peers -> [Calls -> Nat]]
  /\ replied \in [Peers -> [Calls -> Nat]]
  /\ completed \in [Peers -> [Calls -> Nat]]

(* Every response on its way finds, under its id, the entry of the call it    *)
(* answers: handleResponse never reports an unexpected response and never     *)
(* hands a reply to another call's handler.                                   *)
ResponseFindsItsCall ==
  \A p \in Peers : \A k \in 1 .. Len(wire[p]) :
    wire[p][k].type = "response" =>
      responseCallbacks[Other(p)][wire[p][k].id] = wire[p][k].call

(* A call is served at most once, replied to at most once and only when it was *)
(* served, and its callback runs at most once and only when it was replied to. *)
AtMostOnce ==
  \A p \in Peers : \A c \in Calls :
    /\ completed[p][c] <= replied[p][c]
    /\ replied[p][c] <= served[p][c]
    /\ served[p][c] <= 1

(* While a callback runs, whatever it calls and receives, the iterator that    *)
(* handleResponse will erase through still points to the entry of that call.   *)
IteratorsValid ==
  \A p \in Peers : \A k \in 1 .. Len(stack[p]) :
    stack[p][k].type = "response" =>
      responseCallbacks[p][stack[p][k].id] = stack[p][k].call

(* The envelope a `done` closure will read the id from and delete, and the one *)
(* handleResponse will delete, are allocated until then: no closure is left    *)
(* with a dangling pointer, no envelope is deleted twice.                      *)
EnvelopesLive ==
  \A p \in Peers :
    /\ pending[p] \subseteq live[p]
    /\ \A k \in 1 .. Len(stack[p]) :
         stack[p][k].type = "response" => stack[p][k] \in live[p]

(* The channels keep what RpcContract promises.                               *)
Contract == INSTANCE RpcContract
ContractSpec == Contract!Spec

(* The two peers are never both stuck in send(), each waiting for the other to *)
(* read, when programs let one call wait for its reply at a time.              *)
NoSendDeadlock == \E p \in Peers : ~Stuck(p)

(* A request sent to a peer whose table has a dispatcher for its method is     *)
(* answered: its callback runs, unless the method is one-way.                  *)
BoundCallsComplete ==
  \A p \in Peers : \A c \in Calls :
    (\E k \in 1 .. Len(wire[p]) :
        /\ wire[p][k].type = "request" /\ wire[p][k].call = c
        /\ wire[p][k].method \notin OneWay
        /\ Served(dispatcherMap[Other(p)], wire[p][k].method))
      ~> completed[p][c] = 1

-----------------------------------------------------------------------------
(* The inductive invariant: what every place a call can be in knows about the *)
(* table, the counters and the other places.                                   *)

\* No more ids were taken than calls made.
IdsTaken == \A p \in Peers : currentRequestId[p] <= issued[p]

\* Ids that were not taken yet have no entry; calls not made yet were not served.
FreshAhead ==
  \A p \in Peers :
    /\ \A i \in Ids : i >= currentRequestId[p] => responseCallbacks[p][i] = NoEntry
    /\ \A c \in Calls : c > issued[p] => served[p][c] = 0

\* Requests are in the order of the calls and ahead of everything served.
RequestsAhead ==
  \A p \in Peers : \A k \in 1 .. Len(wire[p]) :
    wire[p][k].type = "request" =>
      /\ wire[p][k].call <= issued[p]
      /\ \A c \in Calls : c >= wire[p][k].call => served[p][c] = 0
      /\ wire[p][k].method \notin OneWay =>
           responseCallbacks[p][wire[p][k].id] = wire[p][k].call
      /\ \A l \in 1 .. Len(wire[p]) :
           l > k /\ wire[p][l].type = "request" => wire[p][l].call > wire[p][k].call

\* A response is that of a call which was replied to and not completed, whose
\* entry is in the table; no call has two.
ResponsesAwaited ==
  \A p \in Peers : \A k \in 1 .. Len(wire[p]) :
    wire[p][k].type = "response" =>
      /\ responseCallbacks[Other(p)][wire[p][k].id] = wire[p][k].call
      /\ replied[Other(p)][wire[p][k].call] = 1
      /\ completed[Other(p)][wire[p][k].call] = 0
      /\ \A l \in 1 .. Len(wire[p]) :
           l # k /\ wire[p][l].type = "response" => wire[p][l].call # wire[p][k].call

\* A `done` closure not run yet is that of a call which was served and not
\* replied to, whose entry is in its caller's table; no call has two.
ClosuresAwaited ==
  \A p \in Peers : \A r \in pending[p] :
    /\ r.type = "request" /\ r \in live[p]
    /\ responseCallbacks[Other(p)][r.id] = r.call
    /\ served[Other(p)][r.call] = 1
    /\ replied[Other(p)][r.call] = 0
    /\ \A s \in pending[p] : s.call = r.call => s = r

\* A callback being run is that of a completed call whose entry is in the table
\* and whose envelope is allocated; no call has two.
CallbacksHeld ==
  \A p \in Peers : \A k \in 1 .. Len(stack[p]) :
    stack[p][k].type = "response" =>
      /\ stack[p][k] \in live[p]
      /\ responseCallbacks[p][stack[p][k].id] = stack[p][k].call
      /\ completed[p][stack[p][k].call] = 1
      /\ \A l \in 1 .. Len(stack[p]) :
           l # k /\ stack[p][l].type = "response" => stack[p][l].call # stack[p][k].call

CallInv ==
  /\ IdsTaken
  /\ AtMostOnce
  /\ FreshAhead
  /\ RequestsAhead
  /\ ResponsesAwaited
  /\ ClosuresAwaited
  /\ CallbacksHeld

-----------------------------------------------------------------------------
(* rpcchannel.cpp:123 says that handle "will take ownership of the message".   *)
(* It does so for those it can bring to an end: a received envelope that is    *)
(* still allocated is the business of a `done` closure or of what is being     *)
(* run, or it is the request of a one-way call or one that no service was ever *)
(* given.  Served calls leave nothing behind.                                  *)
LeaksExplained ==
  \A p \in Peers : \A m \in live[p] :
    \/ m \in pending[p] \/ \E k \in 1 .. Len(stack[p]) : stack[p][k] = m
    \/ m.type = "request" /\ (m.method \in OneWay \/ served[Other(p)][m.call] = 0)

=============================================================================
