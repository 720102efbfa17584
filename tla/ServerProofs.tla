----------------------------- MODULE ServerProofs -----------------------------
(* A server process: what its ServiceManager answers, to whom its loop replies *)
(* and who deletes the objects it receives and sends, for any methods,         *)
(* dispatchers, rounds and objects.                                            *)

EXTENDS ServiceManager, Session, ObjectHolder, SequenceTheorems, TLAPS

\* An event appended to the log is behind all others, which stay as they are.
LEMMA LogAppended ==
  ASSUME ManagerTypes, NEW e \in Events, log' = Append(log, e)
  PROVE  /\ log' \in Seq(Events)
         /\ Len(log) \in Nat /\ Len(log') = Len(log) + 1
         /\ \A i \in 1 .. Len(log) : log'[i] = log[i]
         /\ log'[Len(log) + 1] = e
BY AppendProperties DEF ManagerTypes

\* It keeps the first event about every method there was one about ...
LEMMA FirstKept ==
  ASSUME ManagerTypes, NEW e \in Events, log' = Append(log, e),
         NEW m \in Methods, NEW j \in 1 .. Len(log), FirstAbout(j, m)
  PROVE  /\ j \in 1 .. Len(log')
         /\ log'[j] = log[j]
         /\ FirstAbout(j, m)'
<1>1. /\ Len(log) \in Nat /\ Len(log') = Len(log) + 1
      /\ \A i \in 1 .. Len(log) : log'[i] = log[i]
  BY LogAppended
<1>2. \A i \in 1 .. j - 1 : i \in 1 .. Len(log)
  BY <1>1
<1> QED
  BY <1>1, <1>2 DEF FirstAbout

\* ... and is itself the first about a method there was none about.
LEMMA FirstAdded ==
  ASSUME ManagerTypes, NEW e \in Events, log' = Append(log, e),
         NEW m \in e.methods, \A i \in 1 .. Len(log) : m \notin log[i].methods
  PROVE  \E j \in 1 .. Len(log') : log'[j] = e /\ FirstAbout(j, m)'
<1>1. /\ Len(log) \in Nat /\ Len(log') = Len(log) + 1
      /\ \A i \in 1 .. Len(log) : log'[i] = log[i]
      /\ log'[Len(log) + 1] = e
  BY LogAppended
<1>2. PICK n \in Nat : n = Len(log) + 1
  BY <1>1
<1>3. \A i \in 1 .. n - 1 : m \notin log'[i].methods
  <2>1. \A i \in 1 .. n - 1 : i \in 1 .. Len(log)
    BY <1>1, <1>2
  <2> QED
    BY <1>1, <2>1
<1>4. n \in 1 .. Len(log') /\ log'[n] = e
  BY <1>1, <1>2
<1>5. FirstAbout(n, m)'
  BY <1>3, <1>4 DEF FirstAbout
<1> QED
  BY <1>4, <1>5

\* The invariant: the table agrees with the log and so do the answers given.
ManagerInv == ManagerTypes /\ TableAgrees /\ FirstEventDecides

\* An event changes the table only for the methods it is the first about, and
\* binds those to its answer: the table still agrees with the log.
LEMMA AgreementKept ==
  ASSUME ManagerInv, NEW e \in Events, log' = Append(log, e),
         \A m \in Methods :
           dispatcherMap'[m] = IF m \in e.methods /\ dispatcherMap[m] = Absent
                               THEN e.answer ELSE dispatcherMap[m]
  PROVE  TableAgrees'
<1>0. ManagerTypes
  BY DEF ManagerInv
<1>1. /\ Len(log) \in Nat /\ Len(log') = Len(log) + 1
      /\ \A i \in 1 .. Len(log) : log'[i] = log[i]
      /\ log'[Len(log) + 1] = e
  BY <1>0, LogAppended
<1>2. e.answer # Absent
  BY DispatcherAssumption DEF Events, DispatcherAssumption
<1> SUFFICES ASSUME NEW m \in Methods
             PROVE  \/ /\ dispatcherMap'[m] = Absent
                       /\ \A i \in 1 .. Len(log') : m \notin log'[i].methods
                    \/ /\ dispatcherMap'[m] # Absent
                       /\ \E j \in 1 .. Len(log') :
                            FirstAbout(j, m)' /\ log'[j].answer = dispatcherMap'[m]
  BY DEF TableAgrees
<1>3. CASE dispatcherMap[m] # Absent
  <2>1. PICK j \in 1 .. Len(log) : FirstAbout(j, m) /\ log[j].answer = dispatcherMap[m]
    BY <1>3 DEF ManagerInv, TableAgrees
  <2>2. j \in 1 .. Len(log') /\ log'[j] = log[j] /\ FirstAbout(j, m)'
    BY <1>0, <2>1, FirstKept
  <2> QED
    BY <1>3, <2>1, <2>2
<1>4. CASE dispatcherMap[m] = Absent
  <2>1. \A i \in 1 .. Len(log) : m \notin log[i].methods
    BY <1>4 DEF ManagerInv, TableAgrees
  <2>2. CASE m \in e.methods
    <3>1. PICK j \in 1 .. Len(log') : log'[j] = e /\ FirstAbout(j, m)'
      BY <1>0, <2>1, <2>2, FirstAdded
    <3>2. dispatcherMap'[m] = e.answer
      BY <1>4, <2>2
    <3> QED
      BY <1>2, <3>1, <3>2
  <2>3. CASE m \notin e.methods
    <3>1. \A i \in 1 .. Len(log') : i \in 1 .. Len(log) \/ i = Len(log) + 1
      BY <1>1
    <3> QED
      BY <1>1, <1>4, <2>1, <2>3, <3>1
  <2> QED
    BY <2>2, <2>3
<1> QED
  BY <1>3, <1>4

\* Answers that were decided stay decided.
LEMMA DecisionsKept ==
  ASSUME ManagerInv, NEW e \in Events, log' = Append(log, e),
         e.op = "lookup" => \A m \in e.methods :
           \E j \in 1 .. Len(log') : FirstAbout(j, m)' /\ log'[j].answer = e.answer
  PROVE  FirstEventDecides'
<1>0. ManagerTypes
  BY DEF ManagerInv
<1>1. /\ Len(log) \in Nat /\ Len(log') = Len(log) + 1
      /\ \A i \in 1 .. Len(log) : log'[i] = log[i]
      /\ log'[Len(log) + 1] = e
  BY <1>0, LogAppended
<1>2. \A i \in 1 .. Len(log) : log[i].methods \subseteq Methods
  <2>1. \A i \in 1 .. Len(log) : log[i] \in Events
    BY <1>0, ElementOfSeq DEF ManagerTypes
  <2>2. \A x \in Events : x.methods \subseteq Methods
    BY DEF Events
  <2> QED
    BY <2>1, <2>2
<1> SUFFICES ASSUME NEW i \in 1 .. Len(log'), NEW m \in log'[i].methods,
                    log'[i].op = "lookup"
             PROVE  \E j \in 1 .. i : FirstAbout(j, m)' /\ log'[i].answer = log'[j].answer
  BY DEF FirstEventDecides
<1>3. CASE i \in 1 .. Len(log)
  <2>1. PICK j \in 1 .. i : FirstAbout(j, m) /\ log[i].answer = log[j].answer
    BY <1>1, <1>3 DEF ManagerInv, FirstEventDecides
  <2>2. j \in 1 .. Len(log) /\ m \in Methods
    BY <1>1, <1>2, <1>3
  <2>3. log'[j] = log[j] /\ FirstAbout(j, m)'
    BY <1>0, <2>1, <2>2, FirstKept
  <2> QED
    BY <1>1, <1>3, <2>1, <2>3
<1>4. CASE i = Len(log) + 1
  BY <1>1, <1>4
<1> QED
  BY <1>1, <1>3, <1>4

\* Registering a dispatcher keeps the invariant.
LEMMA RegisterStep ==
  ASSUME ManagerInv, NEW d \in Dispatchers, RegisterService(d)
  PROVE  ManagerInv'
<1> DEFINE e == [op |-> "register", methods |-> Implements[d], answer |-> d]
<1>0. ManagerTypes
  BY DEF ManagerInv
<1>1. e \in Events
  BY DispatcherAssumption DEF Events, DispatcherAssumption
<1>2. log' = Append(log, e) /\ dispatcherMap' = Registered(dispatcherMap, d)
  BY DEF RegisterService
<1>3. e.methods = Implements[d] /\ e.answer = d /\ e.op = "register"
  OBVIOUS
<1> HIDE DEF e
<1>4. \A m \in Methods :
        dispatcherMap'[m] = IF m \in e.methods /\ dispatcherMap[m] = Absent
                            THEN e.answer ELSE dispatcherMap[m]
  BY <1>2, <1>3 DEF Registered
<1>5. ManagerTypes'
  <2>1. dispatcherMap' \in [Methods -> Bindings]
    BY <1>0, <1>2 DEF ManagerTypes, Registered, Bindings
  <2> QED
    BY <1>0, <1>1, <1>2, <2>1, LogAppended DEF ManagerTypes
<1>6. TableAgrees'
  BY <1>1, <1>2, <1>4, AgreementKept
<1>7. FirstEventDecides'
  BY <1>1, <1>2, <1>3, DecisionsKept
<1> QED
  BY <1>5, <1>6, <1>7 DEF ManagerInv

\* Looking up a dispatcher keeps the invariant.
LEMMA LookupStep ==
  ASSUME ManagerInv, NEW m \in Methods, LookupServiceDispatcher(m)
  PROVE  ManagerInv'
<1> DEFINE e == [op |-> "lookup", methods |-> {m}, answer |-> Lookup(dispatcherMap, m)]
<1>0. ManagerTypes
  BY DEF ManagerInv
<1>1. e \in Events
  BY <1>0 DEF ManagerTypes, Events, Bindings, Lookup
<1>2. log' = Append(log, e) /\ dispatcherMap' = AfterLookup(dispatcherMap, m)
  BY DEF LookupServiceDispatcher
<1>3. e.methods = {m} /\ e.answer = Lookup(dispatcherMap, m)
  OBVIOUS
<1> HIDE DEF e
<1>4. \A n \in Methods :
        dispatcherMap'[n] = IF n \in e.methods /\ dispatcherMap[n] = Absent
                            THEN e.answer ELSE dispatcherMap[n]
  BY <1>0, <1>2, <1>3 DEF AfterLookup, Lookup, ManagerTypes
<1>5. ManagerTypes'
  <2>1. dispatcherMap' \in [Methods -> Bindings]
    BY <1>0, <1>2 DEF ManagerTypes, AfterLookup, Lookup, Bindings
  <2> QED
    BY <1>0, <1>1, <1>2, <2>1, LogAppended DEF ManagerTypes
<1>6. TableAgrees'
  BY <1>1, <1>2, <1>4, AgreementKept
<1>7. dispatcherMap'[m] = e.answer /\ e.answer # Absent
  BY <1>0, <1>2, <1>3, DispatcherAssumption DEF AfterLookup, Lookup, ManagerTypes, DispatcherAssumption
<1>8. \E j \in 1 .. Len(log') : FirstAbout(j, m)' /\ log'[j].answer = e.answer
  BY <1>6, <1>7 DEF TableAgrees
<1>9. FirstEventDecides'
  BY <1>1, <1>2, <1>3, <1>8, DecisionsKept
<1> QED
  BY <1>5, <1>6, <1>9 DEF ManagerInv

\* ManagerInv is an invariant: requests for a method are all given the answer the
\* first event about it decided (servicemanager.cpp:33-47).
THEOREM RoutingDecidedOnce == ManagerSpec => [](TableAgrees /\ FirstEventDecides)
<1>1. ManagerInit => ManagerInv
  <2> SUFFICES ASSUME ManagerInit PROVE ManagerInv
    OBVIOUS
  <2>1. Len(log) = 0 /\ log \in Seq(Events) /\ 1 .. Len(log) = {}
    BY DEF ManagerInit
  <2> QED
    BY <2>1 DEF ManagerInit, ManagerInv, ManagerTypes, TableAgrees, FirstEventDecides, NoBindings, Bindings
<1>2. ManagerInv /\ [ManagerNext]_managerVars => ManagerInv'
  <2> SUFFICES ASSUME ManagerInv, [ManagerNext]_managerVars PROVE ManagerInv'
    OBVIOUS
  <2>1. CASE UNCHANGED managerVars
    BY <2>1 DEF managerVars, ManagerInv, ManagerTypes, TableAgrees, FirstEventDecides, FirstAbout
  <2> QED
    BY <2>1, RegisterStep, LookupStep DEF ManagerNext
<1>3. ManagerInv => TableAgrees /\ FirstEventDecides
  BY DEF ManagerInv
<1> QED
  BY <1>1, <1>2, <1>3, PTL DEF ManagerSpec

\* The table always holds what the first events decided (servicemanager.cpp:33-47).
THEOREM TableStaysRight == ManagerSpec => []TableAgrees
BY RoutingDecidedOnce, PTL

-----------------------------------------------------------------------------
(* The loop of a server process: which client gets which reply, for any number *)
(* of rounds, calls, methods and addresses, wherever closures are kept.        *)

SameCall(call, other) == call.client = other.client /\ call.id = other.id

\* A client's calls are received in the order of their ids.
Received == calls - Len(requests)

\* This call was received, in this round or an earlier one.
Known(call) ==
  /\ call.client \in Nat /\ call.id \in Nat /\ call.client <= round
  /\ call.client = round => call.id <= Received

\* What is on the wire is what the client called last.  Between rounds there is nothing.
WireInv ==
  /\ round \in Nat /\ calls \in Nat
  /\ requests \in Seq([client : {round}, id : Nat, method : Methods])
  /\ Len(requests) <= calls
  /\ \A k \in 1 .. Len(requests) : requests[k].id = Received + k
  /\ at = "accept" => requests = <<>> /\ ~open

RunningInv ==
  /\ running = NoCall \/ (Known(running) /\ running.client = round)
  /\ at \in {"accept", "receive"} => running = NoCall

\* A closure has the channel of its call; that of an earlier round has outlived it.
KeptInv ==
  /\ \A closure \in kept :
       /\ Known(closure[1]) /\ closure[2] = Slot[closure[1].client]
       /\ (closure[1].client = round /\ at # "accept") \/ closure[1] \in outlived
       /\ running = NoCall \/ ~SameCall(running, closure[1])
  /\ \A closure, other \in kept : SameCall(closure[1], other[1]) => closure = other

\* No call that was replied to runs or is kept.
RepliesInv ==
  \A reply \in replies :
    /\ Known(reply.call)
    /\ running = NoCall \/ ~SameCall(running, reply.call)
    /\ \A closure \in kept : ~SameCall(closure[1], reply.call)

RoundInv == WireInv /\ RunningInv /\ KeptInv /\ RepliesInv /\ AnswersExplained

LEMMA InitRound == SessionInit => RoundInv
<1> SUFFICES ASSUME SessionInit PROVE RoundInv
  OBVIOUS
<1>1. /\ at = "accept" /\ round = 0 /\ open = FALSE /\ calls = 0 /\ requests = <<>>
      /\ running = NoCall /\ kept = {} /\ replies = {}
  BY DEF SessionInit
<1>2. WireInv
  BY <1>1 DEF WireInv
<1> QED
  BY <1>1, <1>2 DEF RoundInv, RunningInv, KeptInv, RepliesInv, AnswersExplained

\* What was received stays so while the round lasts and the wire loses its first calls.
LEMMA KnownStays ==
  ASSUME WireInv, WireInv', NEW call, Known(call),
         \/ round' = round /\ Received <= Received'
         \/ round' = round + 1
  PROVE  Known(call)'
<1>1. round \in Nat /\ round' \in Nat /\ Received \in Int /\ Received' \in Int
  BY LenProperties DEF WireInv, Received
<1> QED
  BY <1>1 DEF Known

\* Histories only grow.
LEMMA AnswersStay ==
  ASSUME AnswersExplained, replies' = replies, \A call \in outlived : call \in outlived'
  PROVE  AnswersExplained'
BY DEF AnswersExplained, Misdirected

\* A reply to a call that had none goes to its own client or is explained.
LEMMA ReplyExplained ==
  ASSUME RoundInv, NEW address, NEW call, ReplyOn(address, call), UNCHANGED outlived,
         at # "accept", Known(call), address = Slot[call.client],
         call.client = round \/ call \in outlived,
         \A reply \in replies : ~SameCall(call, reply.call)
  PROVE  /\ AnswersExplained'
         /\ \A reply \in replies' : reply \in replies \/ reply.call = call
<1>1. \A reply \in replies : reply \in replies' /\ (Misdirected(reply)' <=> Misdirected(reply))
  BY DEF ReplyOn, Misdirected
<1>2. CASE replies' = replies
  BY <1>2, AnswersStay DEF RoundInv
<1>3. CASE Alive(address) /\ replies' = replies \cup {Reply(call)}
  <2> DEFINE new == Reply(call)
  <2>1. new.call = call /\ new.to = round
        /\ new.taken = (/\ call.id <= calls
                        /\ \A reply \in replies :
                             reply.to = round /\ SameId(reply.call, call) => ~reply.taken)
    BY DEF Reply
  <2>2. Slot[round] = Slot[call.client]
    BY <1>3 DEF Alive
  <2> HIDE DEF new
  <2>3. CASE call.client # round
    <3>1. call \in outlived /\ call.client < round
      BY <2>3 DEF RoundInv, WireInv, Known
    <3>2. Misdirected(new) /\ new.call \in outlived' /\ new.call.client < new.to
          /\ Slot[new.call.client] = Slot[new.to]
      BY <2>1, <2>2, <2>3, <3>1 DEF Misdirected
    <3> QED
      BY <1>1, <1>3, <2>1, <3>2 DEF AnswersExplained, RoundInv, Misdirected, new
  <2>4. CASE call.client = round
    <3>1. call.id <= calls
      <4>1. Len(requests) \in Nat /\ calls \in Nat /\ call.id \in Nat /\ call.id <= Received
        BY <2>4, LenProperties DEF RoundInv, WireInv, Known
      <4> QED
        BY <4>1 DEF Received
    <3>2. ASSUME ~new.taken
          PROVE  \E other \in replies' :
                   /\ Misdirected(other) /\ other.taken
                   /\ other.to = new.to /\ SameId(other.call, new.call)
      <4>1. PICK other \in replies :
              other.to = round /\ SameId(other.call, call) /\ other.taken
        BY <2>1, <3>1, <3>2
      <4>2. Misdirected(other)
        BY <2>4, <4>1 DEF Misdirected, SameCall, SameId
      <4> QED
        BY <1>1, <2>1, <4>1, <4>2
    <3>3. ~Misdirected(new)
      BY <2>1, <2>4 DEF Misdirected
    <3> QED
      BY <1>1, <1>3, <2>1, <3>2, <3>3 DEF AnswersExplained, RoundInv, Misdirected, new
  <2> QED
    BY <2>1, <2>3, <2>4, <1>3 DEF new
<1> QED
  BY <1>2, <1>3 DEF ReplyOn

\* The wire loses its first call.
LEMMA WireShrinks ==
  ASSUME WireInv, requests # <<>>, requests' = Tail(requests), UNCHANGED <<round, open, calls>>,
         at # "accept", at' # "accept"
  PROVE  /\ WireInv' /\ Received' = Received + 1 /\ Received \in Nat
         /\ Head(requests).client = round /\ Head(requests).id = Received + 1
<1> DEFINE Calls == [client : {round}, id : Nat, method : Methods]
<1>1. requests \in Seq(Calls) /\ Len(requests) \in Nat /\ Len(requests) # 0 /\ calls \in Nat
  BY LenProperties, EmptySeq DEF WireInv
<1>2. /\ Head(requests) = requests[1] /\ requests[1] \in Calls
      /\ requests' \in Seq(Calls) /\ Len(requests') = Len(requests) - 1
      /\ \A k \in 1 .. Len(requests) - 1 : requests'[k] = requests[k + 1]
  <2>1. requests[1] \in Calls
    <3>1. 1 \in 1 .. Len(requests)
      BY <1>1
    <3> HIDE DEF Calls
    <3> QED
      BY <1>1, <3>1, ElementOfSeq
  <2> HIDE DEF Calls
  <2> QED
    BY <1>1, <2>1, HeadTailProperties
<1>3. Received' = Received + 1 /\ Received \in Nat
  BY <1>1, <1>2 DEF Received, WireInv
<1>4. ASSUME NEW k \in 1 .. Len(requests') PROVE requests'[k].id = Received' + k
  <2>1. k + 1 \in 1 .. Len(requests) /\ k \in 1 .. Len(requests) - 1
    BY <1>1, <1>2
  <2>2. requests[k + 1].id = Received + (k + 1)
    BY <2>1 DEF WireInv
  <2> QED
    BY <1>2, <1>3, <2>1, <2>2
<1>5. requests[1].id = Received + 1
  <2>1. 1 \in 1 .. Len(requests)
    BY <1>1
  <2> QED
    BY <2>1 DEF WireInv
<1>6. Len(requests') <= calls'
  BY <1>1, <1>2 DEF WireInv
<1> QED
  BY <1>2, <1>3, <1>4, <1>5, <1>6 DEF WireInv

\* Closures and replies are not disturbed by the wire.
LEMMA OthersStay ==
  ASSUME RoundInv, WireInv', UNCHANGED <<kept, replies>>, round' = round, Received <= Received',
         \A call \in outlived : call \in outlived',
         running' = NoCall \/ running' = running, at' # "accept"
  PROVE  KeptInv' /\ RepliesInv' /\ AnswersExplained'
<1>1. \A call : Known(call) => Known(call)'
  BY KnownStays DEF RoundInv
<1>2. KeptInv'
  BY <1>1 DEF RoundInv, WireInv, KeptInv, SameCall
<1>3. RepliesInv'
  BY <1>1 DEF RoundInv, RepliesInv, SameCall
<1> QED
  BY <1>2, <1>3, AnswersStay DEF RoundInv

LEMMA AcceptRound ==
  ASSUME RoundInv, Accept
  PROVE  RoundInv'
<1>1. /\ at = "accept" /\ round' = round + 1 /\ calls' = 0 /\ at' = "receive"
      /\ UNCHANGED <<requests, running, kept, outlived, replies>>
  BY DEF Accept, histories
<1>2. requests = <<>> /\ running = NoCall /\ round \in Nat
  BY <1>1 DEF RoundInv, WireInv, RunningInv
<1>3. WireInv'
  BY <1>1, <1>2 DEF WireInv
<1>4. \A call : Known(call) => Known(call)'
  BY <1>1, <1>3, KnownStays DEF RoundInv
<1>5. KeptInv'
  BY <1>1, <1>2, <1>4 DEF RoundInv, KeptInv, SameCall
<1>6. RepliesInv'
  BY <1>1, <1>2, <1>4 DEF RoundInv, RepliesInv, SameCall
<1> QED
  BY <1>1, <1>2, <1>3, <1>5, <1>6, AnswersStay DEF RoundInv, RunningInv

LEMMA ClientRound ==
  ASSUME RoundInv, NEW m \in Methods, ClientCalls(m)
  PROVE  RoundInv'
<1> DEFINE Calls == [client : {round}, id : Nat, method : Methods]
           call == Call(calls + 1, m)
<1>1. /\ open /\ calls' = calls + 1 /\ requests' = Append(requests, call)
      /\ UNCHANGED <<at, round, open, running, kept, outlived, replies>>
  BY DEF ClientCalls, histories
<1>2. requests \in Seq(Calls) /\ Len(requests) \in Nat /\ calls \in Nat /\ at # "accept"
  BY <1>1, LenProperties DEF RoundInv, WireInv
<1>3. call \in Calls /\ call.id = calls + 1
  BY <1>2 DEF Call
<1> HIDE DEF call
<1>4. /\ requests' \in Seq(Calls) /\ Len(requests') = Len(requests) + 1
      /\ \A k \in 1 .. Len(requests) : requests'[k] = requests[k]
      /\ requests'[Len(requests) + 1] = call
  BY <1>1, <1>2, <1>3, AppendProperties
<1>5. Received' = Received /\ Received \in Int
  BY <1>1, <1>2, <1>4 DEF Received
<1>6. ASSUME NEW k \in 1 .. Len(requests') PROVE requests'[k].id = Received' + k
  <2>1. CASE k \in 1 .. Len(requests)
    BY <1>4, <1>5, <2>1 DEF RoundInv, WireInv
  <2>2. CASE k = Len(requests) + 1
    <3>1. Received + k = calls + 1
      BY <1>2, <2>2 DEF Received
    <3> QED
      BY <1>3, <1>4, <1>5, <2>2, <3>1
  <2> QED
    BY <1>2, <1>4, <2>1, <2>2
<1>7. WireInv'
  <2>1. Len(requests) <= calls
    BY DEF RoundInv, WireInv
  <2>2. Len(requests') <= calls' /\ calls' \in Nat /\ round' \in Nat /\ at' # "accept"
    BY <1>1, <1>2, <1>4, <2>1 DEF RoundInv, WireInv
  <2> QED
    BY <1>1, <1>4, <1>6, <2>2 DEF WireInv
<1>8. RunningInv'
  BY <1>1, <1>5 DEF RoundInv, RunningInv, Known
<1> QED
  BY <1>1, <1>2, <1>5, <1>7, <1>8, OthersStay DEF RoundInv

LEMMA ReceiveRound ==
  ASSUME RoundInv, ReceiveRequest \/ DropRequest
  PROVE  RoundInv'
<1>1. /\ at = "receive" /\ requests # <<>> /\ requests' = Tail(requests)
      /\ UNCHANGED <<round, open, calls, kept, outlived, replies>>
      /\ at' \in {"receive", "service", "crashed"}
  BY DEF ReceiveRequest, DropRequest, histories
<1>2. \/ at' = "service" /\ running' = Head(requests)
      \/ running' = running
  BY DEF ReceiveRequest, DropRequest
<1>3. /\ WireInv' /\ Received' = Received + 1 /\ Received \in Nat
      /\ Head(requests).client = round /\ Head(requests).id = Received + 1
  BY <1>1, WireShrinks DEF RoundInv
<1>4. running = NoCall
  BY <1>1 DEF RoundInv, RunningInv
<1>5. CASE running' = running
  <2>1. RunningInv'
    BY <1>4, <1>5 DEF RunningInv
  <2> QED
    BY <1>1, <1>3, <1>5, <2>1, OthersStay DEF RoundInv
<1>6. CASE at' = "service" /\ running' = Head(requests)
  <2>1. Known(running)' /\ running'.client = round'
    <3>1. running'.client = round /\ running'.id = Received' /\ round' = round
          /\ round \in Nat /\ Received' \in Nat
      BY <1>1, <1>3, <1>6 DEF RoundInv, WireInv
    <3> QED
      BY <3>1 DEF Known
  <2>2. \A call : Known(call) => Known(call)' /\ ~SameCall(running', call)
    <3>1. \A call : Known(call) => Known(call)'
      BY <1>1, <1>3, KnownStays DEF RoundInv
    <3>2. ASSUME NEW call, Known(call) PROVE ~SameCall(running', call)
      <4>1. call.client = round => call.id <= Received /\ call.id \in Nat
        BY <3>2 DEF Known
      <4>2. running'.client = round /\ running'.id = Received + 1
        BY <1>3, <1>6
      <4> QED
        BY <1>3, <4>1, <4>2 DEF SameCall
    <3> QED
      BY <3>1, <3>2
  <2>3. RunningInv'
    BY <1>6, <2>1 DEF RunningInv
  <2>4. KeptInv'
    BY <1>1, <2>2 DEF RoundInv, KeptInv, SameCall
  <2>5. RepliesInv'
    BY <1>1, <2>2 DEF RoundInv, RepliesInv, SameCall
  <2> QED
    BY <1>1, <1>3, <2>3, <2>4, <2>5, AnswersStay DEF RoundInv
<1> QED
  BY <1>2, <1>5, <1>6

LEMMA EndedRound ==
  ASSUME RoundInv, RejectRequest \/ ReceiveFails \/ RefuseBytes
  PROVE  RoundInv'
<1>1. at = "receive" /\ EndRound /\ requests' = <<>>
  BY DEF RejectRequest, ReceiveFails, RefuseBytes
<1>2. /\ at' = "accept" /\ ~open' /\ UNCHANGED <<round, calls, running, replies>>
      /\ outlived' = outlived \cup {closure[1] : closure \in kept'}
      /\ \A closure \in kept' : closure \in kept
  BY <1>1 DEF EndRound
<1>3. running = NoCall /\ calls \in Nat /\ Len(requests) \in Nat
  BY <1>1, LenProperties DEF RoundInv, RunningInv, WireInv
<1>4. WireInv' /\ Received <= Received'
  <2>1. requests' \in Seq([client : {round'}, id : Nat, method : Methods]) /\ Len(requests') = 0
    BY <1>1
  <2>2. WireInv'
    BY <1>1, <1>2, <1>3, <2>1 DEF RoundInv, WireInv
  <2> QED
    BY <1>2, <1>3, <2>1, <2>2 DEF Received
<1>5. \A call : Known(call) => Known(call)'
  BY <1>2, <1>4, KnownStays DEF RoundInv
<1>6. KeptInv'
  <2>1. \A closure \in kept' : closure[1] \in outlived'
    BY <1>2
  <2> QED
    BY <1>2, <1>3, <1>5, <2>1 DEF RoundInv, KeptInv
<1>7. RepliesInv'
  BY <1>2, <1>3, <1>5 DEF RoundInv, RepliesInv
<1>8. AnswersExplained'
  BY <1>2, AnswersStay DEF RoundInv
<1> QED
  BY <1>2, <1>3, <1>4, <1>6, <1>7, <1>8 DEF RoundInv, RunningInv

\* A running service, or one it finds kept, replies.
LEMMA ReplyRound ==
  ASSUME RoundInv, RunDone \/ RunKept
  PROVE  RoundInv'
<1>1. at = "service" /\ UNCHANGED <<round, open, calls, requests, outlived>>
  BY DEF RunDone, RunKept, connection
<1>2. PICK call, address :
        /\ ReplyOn(address, call) /\ Known(call) /\ address = Slot[call.client]
        /\ call.client = round \/ call \in outlived
        /\ \A reply \in replies : ~SameCall(call, reply.call)
        /\ \A closure \in kept' : closure \in kept /\ ~SameCall(closure[1], call)
        /\ running' = NoCall \/ (running' = running /\ ~SameCall(running, call))
  <2>1. CASE RunDone
    <3>1. running # NoCall /\ running' = NoCall /\ ReplyOn(Slot[round], running) /\ kept' = kept
      BY <2>1 DEF RunDone
    <3>2. Known(running) /\ running.client = round
      BY <3>1 DEF RoundInv, RunningInv
    <3>3. /\ \A reply \in replies : ~SameCall(running, reply.call)
          /\ \A closure \in kept' : closure \in kept /\ ~SameCall(closure[1], running)
      BY <3>1 DEF RoundInv, KeptInv, RepliesInv, SameCall
    <3> QED
      BY <3>1, <3>2, <3>3
  <2>2. CASE RunKept
    <3>1. PICK closure \in kept :
            kept' = kept \ {closure} /\ ReplyOn(closure[2], closure[1]) /\ running' = running
      BY <2>2 DEF RunKept
    <3>2. /\ Known(closure[1]) /\ closure[2] = Slot[closure[1].client]
          /\ closure[1].client = round \/ closure[1] \in outlived
          /\ running = NoCall \/ ~SameCall(running, closure[1])
      BY DEF RoundInv, KeptInv
    <3>3. \A reply \in replies : ~SameCall(closure[1], reply.call)
      BY DEF RoundInv, RepliesInv
    <3>4. \A other \in kept' : other \in kept /\ ~SameCall(other[1], closure[1])
      BY <3>1 DEF RoundInv, KeptInv
    <3> QED
      BY <3>1, <3>2, <3>3, <3>4
  <2> QED
    BY <2>1, <2>2
<1>3. /\ AnswersExplained'
      /\ \A reply \in replies' : reply \in replies \/ reply.call = call
  BY <1>1, <1>2, ReplyExplained
<1>4. at' \in {"service", "crashed"}
  BY <1>2 DEF ReplyOn
<1>5. WireInv'
  BY <1>1, <1>4 DEF RoundInv, WireInv, Received
<1>6. \A c : Known(c) => Known(c)'
  BY <1>1 DEF Known, Received
<1>7. RunningInv'
  BY <1>1, <1>2, <1>4, <1>6 DEF RoundInv, RunningInv
<1>8. KeptInv'
  BY <1>1, <1>2, <1>4, <1>6 DEF RoundInv, KeptInv, SameCall
<1>9. RepliesInv'
  <2> SUFFICES ASSUME NEW reply \in replies'
               PROVE  /\ Known(reply.call)
                      /\ running' = NoCall \/ ~SameCall(running', reply.call)
                      /\ \A closure \in kept' : ~SameCall(closure[1], reply.call)
    BY <1>6 DEF RepliesInv, SameCall
  <2>1. CASE reply \in replies
    BY <1>2, <2>1 DEF RoundInv, RepliesInv, SameCall
  <2>2. CASE reply.call = call
    BY <1>2, <2>2
  <2> QED
    BY <1>3, <2>1, <2>2
<1> QED
  BY <1>3, <1>5, <1>7, <1>8, <1>9 DEF RoundInv

LEMMA KeepRound ==
  ASSUME RoundInv, KeepDone
  PROVE  RoundInv'
<1>1. /\ at = "service" /\ at' = at /\ running # NoCall /\ running' = NoCall
      /\ kept' = kept \cup {<<running, Slot[round]>>}
      /\ UNCHANGED <<round, open, calls, requests, outlived, replies>>
  BY DEF KeepDone, connection, histories
<1>2. Known(running) /\ running.client = round
  BY <1>1 DEF RoundInv, RunningInv
<1>3. WireInv'
  BY <1>1 DEF RoundInv, WireInv, Received
<1>4. \A c : Known(c) => Known(c)'
  BY <1>1 DEF Known, Received
<1>5. KeptInv'
  <2> DEFINE new == <<running, Slot[round]>>
  <2>1. new[1] = running /\ new[2] = Slot[round]
    OBVIOUS
  <2>2. \A closure \in kept : ~SameCall(running, closure[1])
    BY <1>1 DEF RoundInv, KeptInv
  <2> HIDE DEF new
  <2>3. \A closure \in kept' : closure \in kept \/ closure = new
    BY <1>1 DEF new
  <2>4. ASSUME NEW closure \in kept'
        PROVE  /\ Known(closure[1])' /\ closure[2] = Slot[closure[1].client]
               /\ (closure[1].client = round' /\ at' # "accept") \/ closure[1] \in outlived'
    BY <1>1, <1>2, <1>4, <2>1, <2>3 DEF RoundInv, KeptInv
  <2>5. ASSUME NEW closure \in kept', NEW other \in kept', SameCall(closure[1], other[1])
        PROVE  closure = other
    BY <2>1, <2>2, <2>3, <2>5 DEF RoundInv, KeptInv, SameCall
  <2>6. \A closure, other \in kept' : SameCall(closure[1], other[1])' => closure = other
    BY <2>5 DEF SameCall
  <2> QED
    BY <1>1, <2>4, <2>6 DEF KeptInv
<1>6. RepliesInv'
  <2>1. \A reply \in replies : ~SameCall(running, reply.call)
    BY <1>1 DEF RoundInv, RepliesInv
  <2> QED
    BY <1>1, <1>4, <2>1 DEF RoundInv, RepliesInv, SameCall
<1> QED
  BY <1>1, <1>3, <1>5, <1>6, AnswersStay DEF RoundInv, RunningInv

\* Steps that leave calls, closures and replies alone.
LEMMA OtherRound ==
  ASSUME RoundInv, ClientCloses \/ ServiceReturns \/ UNCHANGED sessionVars
  PROVE  RoundInv'
<1>1. /\ UNCHANGED <<round, calls, requests, running, kept, outlived, replies>>
      /\ open' => open
      /\ at' = at \/ (at = "service" /\ at' = "receive" /\ running = NoCall)
  BY DEF ClientCloses, ServiceReturns, sessionVars, connection, histories
<1>2. WireInv'
  BY <1>1 DEF RoundInv, WireInv, Received
<1>3. \A c : Known(c) => Known(c)'
  BY <1>1 DEF Known, Received
<1>4. RunningInv'
  BY <1>1, <1>3 DEF RoundInv, RunningInv
<1>5. KeptInv' /\ RepliesInv'
  BY <1>1, <1>3 DEF RoundInv, KeptInv, RepliesInv, SameCall
<1> QED
  BY <1>1, <1>2, <1>4, <1>5, AnswersStay DEF RoundInv

(* A client gets another's reply only from a closure that was kept past the    *)
(* end of its connection, on a channel at the same address, and is refused the *)
(* answer to a call of its own only when such a reply took its place           *)
(* (server.cpp:20-34, servicedispatcher.h:30-33).                              *)
THEOREM RepliesExplained == SessionSpec => []AnswersExplained
<1>1. RoundInv => AnswersExplained
  BY DEF RoundInv
<1>2. RoundInv /\ [SessionNext]_sessionVars => RoundInv'
  BY AcceptRound, ClientRound, ReceiveRound, EndedRound, ReplyRound, KeepRound, OtherRound
  DEF SessionNext, Server
<1> QED
  BY <1>1, <1>2, InitRound, PTL DEF SessionSpec

-----------------------------------------------------------------------------
(* The objects of a process: for any number of them, whatever programs set and *)
(* whatever fails, the count of an object goes wrong only in a step that gets  *)
(* it wrong for this very object: no slip ever reaches another one.            *)

\* What is sent with a reply is the request's object or something the user keeps.
HolderInv ==
  /\ HolderTypes
  /\ CountsExact
  /\ \A m \in Messages : holder[m].owns => holder[m].object \in Objects
  /\ stage = "none" => holder["request"] = Empty /\ holder["reply"] = Empty
  /\ stage # "none" => holder["request"].owns
  /\ \A m \in Messages \ {"request"} :
       ~holder[m].owns =>
         \/ holder[m].object = NULL
         \/ m = "reply" /\ holder[m].object = holder["request"].object
         \/ user[holder[m].object] > 0

\* Owners is a sum of numbers.
LEMMA OwnersNat ==
  ASSUME HolderTypes, NEW o \in Objects
  PROVE  /\ user[o] \in {0, 1}
         /\ \A m \in Messages : Owned(holder[m], o) \in {0, 1}
         /\ Owners(o) = user[o] + Owned(holder["request"], o)
                          + Owned(holder["reply"], o) + Owned(holder["response"], o)
BY DEF HolderTypes, Owned, Owners, Messages

LEMMA InitInv == HolderInit => HolderInv
BY HolderAssumption
DEF HolderInit, HolderInv, HolderTypes, CountsExact, Owners, Owned, Empty, Messages

\* User code makes and deletes objects of its own.
LEMMA UserStep ==
  ASSUME HolderInv, NEW o \in Objects, UserNew(o) \/ UserDelete(o)
  PROVE  HolderInv'
<1> USE HolderAssumption
<1>1. /\ refs \in [Objects -> Int] /\ user \in [Objects -> {0, 1}]
      /\ UNCHANGED <<holder, stage, slipped>>
  BY DEF HolderInv, HolderTypes, UserNew, UserDelete
<1>2. /\ refs' \in [Objects -> Int] /\ user' \in [Objects -> {0, 1}]
      /\ \A p \in Objects \ slipped : refs'[p] - user'[p] = refs[p] - user[p]
  <2>1. CASE UserNew(o)
    <3>1. o \notin slipped => refs[o] = 0 /\ user[o] = 0
      BY <2>1, OwnersNat DEF UserNew, HolderInv, CountsExact, Messages
    <3>2. QED
      BY <1>1, <2>1, <3>1 DEF UserNew
  <2>2. CASE UserDelete(o)
    <3>1. user[o] = 1
      BY <1>1, <2>2 DEF UserDelete
    <3>2. QED
      BY <1>1, <2>2, <3>1 DEF UserDelete, Deleted
  <2>3. QED
    BY <2>1, <2>2
<1>3. HolderTypes'
  BY <1>1, <1>2 DEF HolderInv, HolderTypes
<1>4. CountsExact'
  <2>1. SUFFICES ASSUME NEW p \in Objects \ slipped PROVE refs'[p] = Owners(p)'
    BY <1>1 DEF CountsExact
  <2>2. \A m \in Messages : Owned(holder[m], p)' = Owned(holder[m], p)
    BY <1>1 DEF Owned
  <2>3. refs[p] = Owners(p)
    BY DEF HolderInv, CountsExact
  <2>4. HolderTypes
    BY DEF HolderInv
  <2>5. Owners(p)' = user'[p] + Owned(holder["request"], p)'
                    + Owned(holder["reply"], p)' + Owned(holder["response"], p)'
    BY DEF Owners
  <2>6. refs'[p] - user'[p] = refs[p] - user[p] /\ refs'[p] \in Int /\ user'[p] \in {0, 1}
    BY <1>2
  <2>7. QED
    BY <1>1, <2>2, <2>3, <2>4, <2>5, <2>6, OwnersNat DEF Messages
<1>5. \A m \in Messages \ {"request"} :
        ~holder[m].owns /\ holder[m].object # NULL
        /\ user[holder[m].object] > 0 => user'[holder[m].object] > 0
  <2>1. CASE UserNew(o)
    BY <1>1, <2>1 DEF UserNew, HolderInv, HolderTypes
  <2>2. CASE UserDelete(o)
    BY <1>1, <2>2 DEF UserDelete, Lent, HolderInv, HolderTypes
  <2>3. QED
    BY <2>1, <2>2
<1>6. QED
  BY <1>1, <1>3, <1>4, <1>5 DEF HolderInv

\* User code fills a holder: the counts of what the holder owned, and of what it
\* seizes, have slipped.
LEMMA SetsStep ==
  ASSUME HolderInv, NEW m \in {"reply", "response"}, Sets(m),
         UNCHANGED <<refs, stage>>, m = "reply" => stage = "service"
  PROVE  HolderInv'
<1> USE HolderAssumption
<1>1. HolderTypes /\ m \in Messages /\ m # "request"
  BY DEF HolderInv, Messages
<1>2. PICK o \in Objects :
        /\ user[o] > 0
        /\ \/ /\ holder' = [holder EXCEPT ![m] = Set(@, o)]
              /\ slipped' = slipped \cup Overwritten(m) \cup Seized(m, o)
              /\ UNCHANGED user
           \/ /\ ~Lent(o)
              /\ holder' = [holder EXCEPT ![m] = SetAllocated(@, o)]
              /\ user' = [user EXCEPT ![o] = @ - 1]
              /\ slipped' = slipped \cup Overwritten(m)
  BY DEF Sets
<1>3. slipped' \subseteq Objects
  BY <1>1, <1>2 DEF HolderInv, HolderTypes, Overwritten, Seized
<1>4. \A p \in Objects \ slipped' : p \notin slipped /\ Owned(holder[m], p) = 0
  BY <1>2 DEF Overwritten, Owned
<1>5. CASE /\ holder' = [holder EXCEPT ![m] = Set(@, o)]
           /\ slipped' = slipped \cup Overwritten(m) \cup Seized(m, o)
           /\ UNCHANGED user
  <2>1. holder'[m].object = o /\ holder'[m].owns = holder[m].owns
        /\ \A n \in Messages \ {m} : holder'[n] = holder[n]
    BY <1>1, <1>5 DEF HolderTypes, Set
  <2>2. HolderTypes'
    BY <1>1, <1>3, <1>5 DEF HolderTypes, Set
  <2>3. \A p \in Objects \ slipped' : Owned(holder[m], p)' = 0
    BY <1>5, <2>1 DEF Seized, Owned
  <2>4. CountsExact'
    BY <1>1, <1>4, <1>5, <2>1, <2>3 DEF HolderInv, CountsExact, Owners, Owned, Messages
  <2>5. QED
    BY <1>1, <1>2, <1>5, <2>1, <2>2, <2>4 DEF HolderInv, Messages
<1>6. CASE /\ ~Lent(o)
           /\ holder' = [holder EXCEPT ![m] = SetAllocated(@, o)]
           /\ user' = [user EXCEPT ![o] = @ - 1]
           /\ slipped' = slipped \cup Overwritten(m)
  <2>1. holder'[m].object = o /\ holder'[m].owns
        /\ \A n \in Messages \ {m} : holder'[n] = holder[n]
    BY <1>1, <1>6 DEF HolderTypes, SetAllocated
  <2>2. user[o] = 1 /\ user' = [user EXCEPT ![o] = 0]
    <3>1. user[o] = 1
      BY <1>1, <1>2 DEF HolderTypes
    <3>2. 1 - 1 = 0
      OBVIOUS
    <3>3. QED
      BY <1>6, <3>1, <3>2
  <2>3. HolderTypes'
    BY <1>1, <1>3, <1>6, <2>2 DEF HolderTypes, SetAllocated
  <2>4. CountsExact'
    <3>1. SUFFICES ASSUME NEW p \in Objects \ slipped' PROVE refs[p] = Owners(p)'
      BY DEF CountsExact
    <3>2. Owned(holder[m], p) = 0
          /\ Owned(holder[m], p)' = IF p = o THEN 1 ELSE 0
      BY <1>4, <2>1 DEF Owned
    <3>3. \A n \in Messages \ {m} : Owned(holder[n], p)' = Owned(holder[n], p)
      BY <2>1 DEF Owned
    <3>4. user'[p] = IF p = o THEN user[p] - 1 ELSE user[p]
      BY <1>1, <2>2 DEF HolderTypes
    <3>5. refs[p] = user[p] + Owned(holder["request"], p)
                      + Owned(holder["reply"], p) + Owned(holder["response"], p)
      BY <1>4 DEF HolderInv, CountsExact, Owners
    <3>6. Owners(p)' = user'[p] + Owned(holder["request"], p)'
                      + Owned(holder["reply"], p)' + Owned(holder["response"], p)'
      BY DEF Owners
    <3>7. QED
      BY <1>1, <3>2, <3>3, <3>4, <3>5, <3>6, OwnersNat DEF Messages
  <2>5. \A n \in Messages \ {"request", m} :
          ~holder[n].owns => holder[n].object # o
    BY <1>6 DEF Lent
  <2>6. \A n \in Messages \ {"request", m} :
          ~holder[n].owns =>
            \/ holder[n].object = NULL
            \/ n = "reply" /\ holder[n].object = holder["request"].object
            \/ user'[holder[n].object] > 0
    BY <1>1, <2>2, <2>5 DEF HolderInv, HolderTypes
  <2>7. QED
    BY <1>1, <1>2, <1>6, <2>1, <2>3, <2>4, <2>6 DEF HolderInv, Messages
<1>7. QED
  BY <1>2, <1>5, <1>6

\* An empty holder receives a new object, which the message owns afterwards.
LEMMA ReceivesStep ==
  ASSUME HolderInv, NEW m \in {"request", "response"}, ReceivesNew(m),
         \/ m = "request" /\ stage = "none" /\ stage' = "service"
         \/ m = "response" /\ UNCHANGED stage
  PROVE  HolderInv'
<1> USE HolderAssumption
<1>1. PICK o \in Objects :
        /\ refs[o] = 0
        /\ refs' = [refs EXCEPT ![o] = 1]
        /\ holder' = [holder EXCEPT ![m] = SetAllocated(@, o)]
  BY DEF ReceivesNew
<1>2. HolderTypes /\ m \in Messages /\ holder[m].object = NULL /\ UNCHANGED <<user, slipped>>
  BY DEF HolderInv, Messages, ReceivesNew
<1>3. holder'[m].object = o /\ holder'[m].owns
      /\ \A n \in Messages \ {m} : holder'[n] = holder[n]
  BY <1>1, <1>2 DEF HolderTypes, SetAllocated
<1>4. HolderTypes'
  BY <1>1, <1>2 DEF HolderTypes, SetAllocated
<1>5. CountsExact'
  <2>1. SUFFICES ASSUME NEW p \in Objects \ slipped PROVE refs'[p] = Owners(p)'
    BY <1>2 DEF CountsExact
  <2>2. Owned(holder[m], p) = 0 /\ Owned(holder[m], p)' = IF p = o THEN 1 ELSE 0
    BY <1>2, <1>3 DEF Owned
  <2>3. \A n \in Messages \ {m} : Owned(holder[n], p)' = Owned(holder[n], p)
    BY <1>3 DEF Owned
  <2>4. refs[p] = Owners(p) /\ refs'[p] = IF p = o THEN refs[p] + 1 ELSE refs[p]
    BY <1>1, <1>2 DEF HolderInv, CountsExact, HolderTypes
  <2>5. Owners(p)' = user'[p] + Owned(holder["request"], p)'
                    + Owned(holder["reply"], p)' + Owned(holder["response"], p)'
    BY DEF Owners
  <2>6. QED
    BY <1>2, <2>2, <2>3, <2>4, <2>5, OwnersNat DEF Messages
<1>6. CASE m = "response"
  BY <1>2, <1>3, <1>4, <1>5, <1>6 DEF HolderInv, Messages
<1>7. CASE m = "request"
  <2>1. holder["reply"].object = NULL /\ stage = "none" /\ stage' = "service"
    BY <1>7 DEF HolderInv, Empty
  <2>2. QED
    BY <1>2, <1>3, <1>4, <1>5, <1>7, <2>1 DEF HolderInv, Messages
<1>8. QED
  BY <1>6, <1>7

\* An object that cannot be received changes no count but its own.
LEMMA FailsStep ==
  ASSUME HolderInv, NEW m \in Messages, FailsNew(m) \/ FailsExisting(m), UNCHANGED stage
  PROVE  HolderInv'
<1>1. /\ HolderTypes /\ UNCHANGED <<user, holder>>
      /\ refs' \in [Objects -> Int] /\ slipped \subseteq slipped' /\ slipped' \subseteq Objects
      /\ \A p \in Objects \ slipped' : refs'[p] = refs[p]
  <2>1. CASE FailsNew(m)
    BY <2>1 DEF FailsNew, HolderInv, HolderTypes
  <2>2. CASE FailsExisting(m)
    BY <2>2 DEF FailsExisting, Deleted, HolderInv, HolderTypes
  <2>3. QED
    BY <2>1, <2>2
<1>2. HolderTypes'
  BY <1>1 DEF HolderTypes
<1>3. CountsExact'
  BY <1>1 DEF HolderInv, CountsExact, Owners
<1>4. QED
  BY <1>1, <1>2, <1>3 DEF HolderInv

\* The destructors of a set of messages give back what they own.
LEMMA DestroyStep ==
  ASSUME HolderInv, NEW Gone \in SUBSET Messages,
         "request" \in Gone <=> "reply" \in Gone,
         "request" \in Gone => stage' = "none",
         "request" \notin Gone => stage' = stage,
         UNCHANGED <<user, slipped>>,
         refs' \in [Objects -> Int],
         \A o \in Objects :
           refs'[o] = refs[o]
             - (IF "request" \in Gone THEN Owned(holder["request"], o) ELSE 0)
             - (IF "reply" \in Gone THEN Owned(holder["reply"], o) ELSE 0)
             - (IF "response" \in Gone THEN Owned(holder["response"], o) ELSE 0),
         holder' = [m \in Messages |-> IF m \in Gone THEN Empty ELSE holder[m]]
  PROVE  HolderInv'
<1> USE HolderAssumption
<1>1. HolderTypes /\ HolderTypes'
  BY DEF HolderInv, HolderTypes, Empty
<1>2. \A m \in Messages : holder'[m] = IF m \in Gone THEN Empty ELSE holder[m]
  OBVIOUS
<1>3. CountsExact'
  <2>1. SUFFICES ASSUME NEW o \in Objects \ slipped PROVE refs'[o] = Owners(o)'
    BY DEF CountsExact
  <2>2. \A m \in Messages :
          Owned(holder[m], o)' = IF m \in Gone THEN 0 ELSE Owned(holder[m], o)
    BY <1>2 DEF Owned, Empty
  <2>3. Owners(o)' = user'[o] + Owned(holder["request"], o)'
                    + Owned(holder["reply"], o)' + Owned(holder["response"], o)'
    BY DEF Owners
  <2>4. refs[o] = Owners(o)
    BY DEF HolderInv, CountsExact
  <2>5. QED
    BY <1>1, <2>2, <2>3, <2>4, OwnersNat DEF Messages
<1>4. QED
  BY <1>1, <1>2, <1>3 DEF HolderInv, Messages, Empty, HolderTypes

LEMMA StepInv == HolderInv /\ [HolderNext]_holderVars => HolderInv'
<1> SUFFICES ASSUME HolderInv, [HolderNext]_holderVars PROVE HolderInv'
  OBVIOUS
<1> USE HolderAssumption
<1>0. HolderTypes
  BY DEF HolderInv
<1>1. ASSUME NEW o \in Objects, UserNew(o) \/ UserDelete(o) PROVE HolderInv'
  BY <1>1, UserStep
<1>2. CASE ServeRequest
  BY <1>2, ReceivesStep DEF ServeRequest
<1>3. CASE AbandonRequest
  BY <1>3, FailsStep DEF AbandonRequest, Messages
<1>4. CASE ServiceSets
  BY <1>4, SetsStep DEF ServiceSets
<1>5. CASE ServiceSetsRequestObject
  <2>1. holder["request"].owns /\ stage = "service" /\ UNCHANGED <<refs, user, stage>>
    BY <1>5 DEF ServiceSetsRequestObject, HolderInv
  <2>2. /\ holder'["reply"].object = holder["request"].object
        /\ holder'["reply"].owns = holder["reply"].owns
        /\ \A m \in Messages \ {"reply"} : holder'[m] = holder[m]
    BY <1>0, <1>5 DEF ServiceSetsRequestObject, HolderTypes, Set, Messages
  <2>3. /\ holder["request"].object \in Objects
        /\ holder["reply"].owns => holder["reply"].object \in Objects
    BY <2>1 DEF HolderInv, Messages
  <2>4. slipped' \subseteq Objects
    BY <1>0, <1>5, <2>3 DEF ServiceSetsRequestObject, HolderTypes, Overwritten, Seized
  <2>5. HolderTypes'
    BY <1>0, <1>5, <2>1, <2>4 DEF ServiceSetsRequestObject, HolderTypes, Set, Messages
  <2>6. \A p \in Objects \ slipped' :
          p \notin slipped /\ Owned(holder["reply"], p) = 0 /\ Owned(holder["reply"], p)' = 0
    BY <1>5, <2>2 DEF ServiceSetsRequestObject, Overwritten, Seized, Owned
  <2>7. CountsExact'
    BY <2>1, <2>2, <2>6 DEF HolderInv, CountsExact, Owners, Owned, Messages
  <2>8. QED
    BY <2>1, <2>2, <2>3, <2>5, <2>7 DEF HolderInv, Messages
<1>6. CASE SendReply
  BY <1>6 DEF SendReply, HolderInv, HolderTypes, CountsExact, Owners
<1>7. CASE ReplyReturns
  <2>1. refs' \in [Objects -> Int]
    BY <1>0, <1>7, OwnersNat DEF ReplyReturns, HolderTypes, Messages
  <2>2. holder' = [m \in Messages |->
                     IF m \in {"request", "reply"} THEN Empty ELSE holder[m]]
    BY <1>0, <1>7 DEF ReplyReturns, HolderTypes, Messages
  <2>3. \A o \in Objects :
          refs'[o] = refs[o] - Owned(holder["request"], o) - Owned(holder["reply"], o) - 0
    BY <1>0, <1>7, OwnersNat DEF ReplyReturns, HolderTypes, Messages
  <2>4. stage' = "none" /\ UNCHANGED <<user, slipped>>
    BY <1>7 DEF ReplyReturns
  <2>5. {"request", "reply"} \in SUBSET Messages
    BY DEF Messages
  <2>6. QED
    BY <2>1, <2>2, <2>3, <2>4, <2>5, DestroyStep
<1>8. CASE CallerSets
  BY <1>8, SetsStep DEF CallerSets
<1>9. CASE HandleResponse
  <2>1. CASE ReceivesNew("response")
    BY <1>9, <2>1, ReceivesStep DEF HandleResponse
  <2>2. CASE ReceivesExisting("response")
    BY <1>9, <2>2 DEF HandleResponse, ReceivesExisting, HolderInv, HolderTypes, CountsExact, Owners
  <2>3. CASE FailsNew("response") \/ FailsExisting("response")
    BY <1>9, <2>3, FailsStep DEF HandleResponse, Messages
  <2>4. QED
    BY <1>9, <2>1, <2>2, <2>3 DEF HandleResponse
<1>10. CASE DeleteResponse
  <2>1. refs' \in [Objects -> Int]
    BY <1>0, <1>10, OwnersNat DEF DeleteResponse, HolderTypes, Messages
  <2>2. holder' = [m \in Messages |-> IF m \in {"response"} THEN Empty ELSE holder[m]]
    BY <1>0, <1>10 DEF DeleteResponse, HolderTypes, Messages
  <2>3. \A o \in Objects : refs'[o] = refs[o] - 0 - 0 - Owned(holder["response"], o)
    BY <1>0, <1>10, OwnersNat DEF DeleteResponse, HolderTypes, Messages
  <2>4. UNCHANGED <<user, stage, slipped>>
    BY <1>10 DEF DeleteResponse
  <2>5. {"response"} \in SUBSET Messages
    BY DEF Messages
  <2>6. QED
    BY <2>1, <2>2, <2>3, <2>4, <2>5, DestroyStep
<1>11. CASE UNCHANGED holderVars
  BY <1>11 DEF holderVars, HolderInv, HolderTypes, CountsExact, Owners
<1>12. QED
  BY <1>1, <1>2, <1>3, <1>4, <1>5, <1>6, <1>7, <1>8, <1>9, <1>10, <1>11 DEF HolderNext

\* The object of a reply is the request's, or the user keeps it, or the reply has it.
LEMMA SentIsThere == HolderInv => NothingDeletedIsSent
<1> DEFINE o == holder["reply"].object
<1> SUFFICES ASSUME HolderInv, stage = "reply", o \notin slipped, o # NULL
             PROVE  refs[o] > 0
  BY DEF NothingDeletedIsSent
<1>1. HolderTypes /\ o \in Objects /\ refs[o] = Owners(o)
  BY DEF HolderInv, HolderTypes, CountsExact, Messages
<1>2. \/ Owned(holder["reply"], o) = 1
      \/ Owned(holder["request"], o) = 1
      \/ user[o] > 0
  BY DEF HolderInv, Messages, Owned
<1>3. QED
  BY <1>1, <1>2, OwnersNat DEF Messages

(* The ownership of objects is exact and what is sent is there.                *)
LEMMA HolderSafety == HolderSpec => [](CountsExact /\ NothingDeletedIsSent)
<1>1. HolderInv /\ [HolderNext]_holderVars => HolderInv'
  BY StepInv
<1>2. HolderInv => CountsExact /\ NothingDeletedIsSent
  BY SentIsThere DEF HolderInv
<1>3. QED
  BY <1>1, <1>2, InitInv, PTL DEF HolderSpec

(* Every reference to an object has one owner, which gives it back once,       *)
(* except for the very objects a step miscounts (rpcplugin.cpp:262-287,        *)
(* 363-387).                                                                   *)
THEOREM OwnershipExact == HolderSpec => []CountsExact
BY HolderSafety, PTL

(* What the generated code sends was not deleted before                        *)
(* (rpcgenerator.cpp:628-667, 901-945).                                        *)
THEOREM SendsLiveObjects == HolderSpec => []NothingDeletedIsSent
BY HolderSafety, PTL

=============================================================================
