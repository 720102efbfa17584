---------------------------- MODULE ServiceManager ----------------------------
(* The ServiceManager singleton of one process: programs register dispatchers *)
(* whenever they like, also several that implement the same method and the     *)
(* same one again, while RpcChannels look up the dispatcher of each request.   *)

EXTENDS Naturals, Sequences, DispatcherMap

CONSTANT MaxEvents  \* bound: registrations and lookups made

ASSUME ManagerAssumption == MaxEvents \in Nat

VARIABLES
  dispatcherMap,    \* m_dispatcherMap
  log               \* history: the registrations and the answers of lookups

managerVars == <<dispatcherMap, log>>

ManagerInit ==
  /\ dispatcherMap = NoBindings
  /\ log = <<>>

\* registerService(d): all methods of d in one call.
RegisterService(d) ==
  /\ Len(log) < MaxEvents
  /\ dispatcherMap' = Registered(dispatcherMap, d)
  /\ log' = Append(log, [op |-> "register", methods |-> Implements[d], answer |-> d])

\* lookupServiceDispatcher(m), called by handleRequest.
LookupServiceDispatcher(m) ==
  /\ Len(log) < MaxEvents
  /\ dispatcherMap' = AfterLookup(dispatcherMap, m)
  /\ log' = Append(log, [op |-> "lookup", methods |-> {m},
                         answer |-> Lookup(dispatcherMap, m)])

ManagerNext ==
  \/ \E d \in Dispatchers : RegisterService(d)
  \/ \E m \in Methods : LookupServiceDispatcher(m)

ManagerSpec == ManagerInit /\ [][ManagerNext]_managerVars

-----------------------------------------------------------------------------
Events ==
  [op : {"register", "lookup"}, methods : SUBSET Methods, answer : Dispatchers \cup {Null}]

ManagerTypes ==
  /\ dispatcherMap \in [Methods -> Bindings]
  /\ log \in Seq(Events)

\* log[i] is the first event about method m.
FirstAbout(i, m) ==
  /\ m \in log[i].methods
  /\ \A j \in 1 .. i - 1 : m \notin log[j].methods

(* Requests for a method are all given to the same dispatcher, the one that    *)
(* registered it first; but if a request came before any registration, none of *)
(* them is ever served.  Later registrations never redirect a method, and no   *)
(* registration is lost half way through its methods (servicemanager.cpp:33-47). *)
FirstEventDecides ==
  \A i \in 1 .. Len(log) : \A m \in log[i].methods :
    log[i].op = "lookup" =>
      \E j \in 1 .. i : FirstAbout(j, m) /\ log[i].answer = log[j].answer

\* The manager's table agrees with the first event about each method.
TableAgrees ==
  \A m \in Methods :
    \/ /\ dispatcherMap[m] = Absent
       /\ \A i \in 1 .. Len(log) : m \notin log[i].methods
    \/ /\ dispatcherMap[m] # Absent
       /\ \E j \in 1 .. Len(log) : FirstAbout(j, m) /\ log[j].answer = dispatcherMap[m]

=============================================================================
