------------------------------- MODULE Session -------------------------------
(* A server process that serves one connection after another, the loop of the  *)
(* example and of the README: channel, service and dispatcher are on the stack *)
(* of one round of the loop, the ServiceManager keeps the dispatcher it was    *)
(* given first, and closures keep pointers to a dispatcher and to a channel.   *)
(* What the pointers of a round mean in a later one is the build's choice, the *)
(* constant Slot; the objects of a round are those whose address it has.       *)
(* Methods of WithObjects have VTK or external objects in their input.         *)

EXTENDS Naturals, Sequences, DispatcherMap

\* A dispatcher is the address it is at, that of the channel of its round as well.
CONSTANTS
  WithObjects,   \* methods whose requests are followed by objects
  Slot,          \* the address of dispatcher and channel in each round
  MaxRounds,     \* bound: rounds of the loop
  MaxCalls,      \* bound: calls of a client
  Keeps          \* where services keep closures: "nowhere", "in the service"
                 \* or "elsewhere"

ASSUME SessionAssumption ==
  /\ MaxRounds \in Nat /\ MaxCalls \in Nat
  /\ WithObjects \subseteq Methods
  /\ Slot \in [1 .. MaxRounds -> Dispatchers]
  /\ Keeps \in {"nowhere", "in the service", "elsewhere"}

VARIABLES
  table,         \* the manager's m_dispatcherMap: method -> address of a dispatcher
  at,            \* where the loop is: "accept", "receive", "service", "crashed"
  round,         \* the round of the loop, which is also the name of its client
  open,          \* whether the connection of this round is up
  calls,         \* how many calls its client has made
  requests,      \* the calls on their way to the server
  running,       \* the call whose service runs, with its closure not run yet
  kept,          \* closures of services that returned: <<call, address of channel>>
  outlived,      \* history: the calls whose closures were kept past their round
  unserved,      \* history: requests dropped without the service being called
  replies        \* history: replies that reached a client, and whether it took them

connection == <<open, calls, requests>>
histories == <<outlived, unserved, replies>>
sessionVars == <<table, at, round, connection, running, kept, histories>>

NoCall == [client |-> 0, id |-> 0]

\* Ids are those of the client's channel: every client counts from 1.
Call(id, m) == [client |-> round, id |-> id, method |-> m]

\* A call is known to its client by its id: ids of two clients may be equal.
SameId(call, other) == call.id = other.id

\* Some request of this connection was dropped: what comes next may not be what
\* the channel takes it for (VtkChannel says how far that goes).
OutOfStep == \E call \in unserved : call.client = round

\* An object of the current round is at this address, or none is.
Alive(address) == at # "accept" /\ Slot[round] = address

-----------------------------------------------------------------------------
SessionInit ==
  /\ table = NoBindings
  /\ at = "accept" /\ round = 0 /\ open = FALSE
  /\ calls = 0 /\ requests = <<>> /\ running = NoCall
  /\ kept = {} /\ outlived = {} /\ unserved = {} /\ replies = {}

\* WaitForConnection() returns, with a client or, after "Listen failure", with
\* none; channel, service and dispatcher are made and registered.
Accept ==
  /\ at = "accept" /\ round < MaxRounds
  /\ round' = round + 1
  /\ open' \in BOOLEAN
  /\ calls' = 0
  /\ table' = Registered(table, Slot[round'])
  /\ at' = "receive"
  /\ UNCHANGED <<requests, running, kept, histories>>

\* The client calls a proxy, also before the replies to earlier calls.
ClientCalls(m) ==
  /\ open /\ calls < MaxCalls
  /\ calls' = calls + 1
  /\ requests' = Append(requests, Call(calls + 1, m))
  /\ UNCHANGED <<table, at, round, open, running, kept, histories>>

ClientCloses ==
  /\ open
  /\ open' = FALSE
  /\ UNCHANGED <<table, at, round, calls, requests, running, kept, histories>>

\* receive() dispatches a request: through whatever is at the address now.
ReceiveRequest ==
  /\ at = "receive" /\ requests # <<>>
  /\ LET call == Head(requests)
         address == Lookup(table, call.method)
     IN  /\ address # Null
         /\ table' = AfterLookup(table, call.method)
         /\ IF Alive(address)
            THEN at' = "service" /\ running' = call
            ELSE at' = "crashed" /\ UNCHANGED running
  /\ requests' = Tail(requests)
  /\ UNCHANGED <<round, open, calls, kept, histories>>

\* dispatch() returns without calling the service, as an object of the request
\* did not come or was refused, or the request itself is read as such an object:
\* receive() returns true, there is no closure and no reply.
DropRequest ==
  /\ at = "receive" /\ requests # <<>>
  /\ LET call == Head(requests)
         address == Lookup(table, call.method)
     IN  /\ \/ OutOfStep
            \/ call.method \in WithObjects /\ address # Null /\ Alive(address)
         /\ unserved' = unserved \cup {call}
  /\ requests' = Tail(requests)
  /\ UNCHANGED <<table, at, round, open, calls, running, kept, outlived, replies>>

\* What the end of a round destroys: its objects, and what the service kept.
EndRound ==
  /\ at' = "accept" /\ open' = FALSE
  /\ kept' = IF Keeps = "elsewhere" THEN kept ELSE {}
  /\ outlived' = outlived \cup {closure[1] : closure \in kept'}
  /\ UNCHANGED <<round, calls, running, unserved, replies>>

\* Mutant of RejectRequest: the next round reads what is left of this connection.
LeaveRequests ==
  /\ at = "receive" /\ requests # <<>>
  /\ Lookup(table, Head(requests).method) = Null
  /\ table' = AfterLookup(table, Head(requests).method)
  /\ requests' = Tail(requests)
  /\ EndRound

\* Mutant of RejectRequest: the loop ignores what receive() returns.
KeepReceiving ==
  /\ at = "receive" /\ requests # <<>>
  /\ Lookup(table, Head(requests).method) = Null
  /\ table' = AfterLookup(table, Head(requests).method)
  /\ requests' = Tail(requests)
  /\ UNCHANGED <<at, round, open, calls, running, kept, histories>>

\* receive() returns false for a method without dispatcher: the loop ends and
\* closes the connection, whatever else is on it.
RejectRequest ==
  /\ at = "receive" /\ requests # <<>>
  /\ Lookup(table, Head(requests).method) = Null
  /\ table' = AfterLookup(table, Head(requests).method)
  /\ requests' = <<>>
  /\ EndRound

\* Mutant of ReceiveFails: receive() returns true.
ReceiveAgain ==
  /\ at = "receive" /\ requests = <<>> /\ ~open
  /\ UNCHANGED sessionVars

\* receive() returns false because the connection was closed.
ReceiveFails ==
  /\ at = "receive" /\ requests = <<>> /\ ~open
  /\ EndRound
  /\ UNCHANGED <<table, requests>>

\* receive() returns false for bytes that are no message.
RefuseBytes ==
  /\ at = "receive" /\ OutOfStep
  /\ requests' = <<>>
  /\ EndRound
  /\ UNCHANGED table

\* The client of this round takes a reply if it waits for one with that id.
Reply(call) ==
  [call |-> call, to |-> round,
   taken |-> /\ call.id <= calls
             /\ \A reply \in replies : reply.to = round /\ SameId(reply.call, call) => ~reply.taken]

\* The reply is sent on the channel at the address the closure kept, on the
\* connection that this channel is for.
ReplyOn(address, call) ==
  IF Alive(address)
  THEN /\ replies' = IF open THEN replies \cup {Reply(call)} ELSE replies
       /\ at' = "service"
  ELSE at' = "crashed" /\ UNCHANGED replies

\* The service runs its own closure, ...
RunDone ==
  /\ at = "service" /\ running # NoCall
  /\ running' = NoCall
  /\ ReplyOn(Slot[round], running)
  /\ UNCHANGED <<table, round, connection, kept, outlived, unserved>>

\* ... or keeps it for later, ...
KeepDone ==
  /\ at = "service" /\ running # NoCall /\ Keeps # "nowhere"
  /\ running' = NoCall
  /\ kept' = kept \cup {<<running, Slot[round]>>}
  /\ UNCHANGED <<table, at, round, connection, histories>>

\* ... or runs one it finds where it keeps them.
RunKept ==
  /\ at = "service"
  /\ \E closure \in kept :
       /\ kept' = kept \ {closure}
       /\ ReplyOn(closure[2], closure[1])
  /\ UNCHANGED <<table, round, connection, running, outlived, unserved>>

\* It returns, and receive() returns true: the loop goes on.
ServiceReturns ==
  /\ at = "service" /\ running = NoCall
  /\ at' = "receive"
  /\ UNCHANGED <<table, round, connection, running, kept, histories>>

Server ==
  \/ Accept \/ ReceiveRequest \/ DropRequest \/ RejectRequest \/ ReceiveFails
  \/ RunDone \/ KeepDone \/ RunKept \/ ServiceReturns

SessionNext ==
  \/ Server
  \/ \E m \in Methods : ClientCalls(m)
  \/ ClientCloses
  \/ RefuseBytes

SessionSpec == SessionInit /\ [][SessionNext]_sessionVars

\* The loop runs on, and services return.  Bytes out of step may come or not.
FairSession == SessionSpec /\ WF_sessionVars(Server)

-----------------------------------------------------------------------------
Rounds == 1 .. MaxRounds

Misdirected(reply) == reply.call.client # reply.to

(* A client gets the reply of another only from a closure kept past the end of *)
(* its connection, and only when a later channel is at the address of its own. *)
(* It takes it for an answer when its id is that of a call it waits for, and   *)
(* then refuses the answer to that call; no other answer to a call of its own  *)
(* is refused (server.cpp:20-34, servicedispatcher.h:30-33).                   *)
AnswersExplained ==
  \A reply \in replies :
    IF Misdirected(reply)
    THEN /\ reply.call \in outlived /\ reply.call.client < reply.to
         /\ Slot[reply.call.client] = Slot[reply.to]
    ELSE ~reply.taken => \E other \in replies :
           /\ Misdirected(other) /\ other.taken
           /\ other.to = reply.to /\ SameId(other.call, reply.call)

\* The call was made, answered, dropped, its closure kept, and its connection is over.
Made(client, id) == round = client /\ calls >= id
Is(call, client, id) == call.client = client /\ call.id = id
Answered(client, id) == \E reply \in replies : reply.to = client /\ reply.call.id = id /\ reply.taken
Unserved(client, id) == \E call \in unserved : Is(call, client, id)
Deferred(client, id) == \E closure \in kept : Is(closure[1], client, id)
Over(client) == round > client \/ (round = client /\ ~open)

(* A client that waits does so for a service that kept its closure, or for a   *)
(* request that was dropped with its objects or after such a one; otherwise    *)
(* each call is answered, or the connection closed, as it is after a request   *)
(* for a method nobody implements (server.cpp:31-33).  This although the       *)
(* manager keeps its pointer to the first round's dispatcher and ignores every *)
(* later registration (:26-29).                                                *)
WaitsExplained ==
  \A client \in Rounds, id \in 1 .. MaxCalls :
    Made(client, id) ~>
      \/ Answered(client, id) \/ Deferred(client, id) \/ Unserved(client, id)
      \/ Over(client)

(* The server comes back for the next client when one has closed its           *)
(* connection, whatever it left on it.                                         *)
NextClientServed ==
  \A client \in Rounds :
    (client < MaxRounds /\ round = client /\ ~open) ~> round > client

=============================================================================
