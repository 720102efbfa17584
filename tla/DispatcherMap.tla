---------------------------- MODULE DispatcherMap ----------------------------
(* The table ServiceManager keeps from method ids to dispatchers, as a data   *)
(* structure: what registration and lookup do to it.  The table is total here; *)
(* a key std::map does not hold yet is bound to Absent, a key it holds with a *)
(* NULL pointer is bound to Null.                                              *)

CONSTANTS
  Methods,      \* the method ids the generated services use
  Dispatchers,  \* the dispatchers of a program, one per generated service
  Implements,   \* what implements() returns: the methods of each dispatcher
  Null,         \* the NULL pointer
  Absent        \* no entry under this key

ASSUME DispatcherAssumption ==
  /\ Implements \in [Dispatchers -> SUBSET Methods]
  /\ Null \notin Dispatchers
  /\ Absent \notin Dispatchers
  /\ Null # Absent

Bindings == Dispatchers \cup {Null, Absent}

\* The table of a new ServiceManager.
NoBindings == [m \in Methods |-> Absent]

\* Mutant of Registered: insert replaced by an assignment through operator[].
RegisteredByAssignment(map, d) ==
  [m \in Methods |-> IF m \in Implements[d] THEN d ELSE map[m]]

\* registerService: insert one entry per implemented method.  std::map::insert
\* keeps an entry that is there already, whatever it holds.
Registered(map, d) ==
  [m \in Methods |-> IF m \in Implements[d] /\ map[m] = Absent THEN d ELSE map[m]]

\* What lookupServiceDispatcher returns ...
Lookup(map, m) == IF map[m] = Absent THEN Null ELSE map[m]

\* Mutant of AfterLookup: find() in the place of operator[].
AfterFind(map, m) == map

\* ... and the table it leaves behind: operator[] inserts NULL on a miss.
AfterLookup(map, m) == [map EXCEPT ![m] = Lookup(map, m)]

\* The lookup finds a dispatcher to call.
Served(map, m) == Lookup(map, m) # Null

=============================================================================
