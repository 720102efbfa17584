----------------------------- MODULE ObjectHolder -----------------------------
(* Who deletes the VTK and external objects that generated messages point to.  *)
(* A process serves requests with an object and makes calls that return one:   *)
(* it has the request and the reply of the call it serves, and the response of *)
(* its own calls, which it may use again for the next.  An object is a         *)
(* reference count, which for external objects never exceeds one; `user' says  *)
(* how many of the references user code has not given away.                    *)
(* What becomes of an object whose count is wrong, and is used after it was    *)
(* deleted, is not defined: the model only lets the rest of the program go on. *)

EXTENDS Integers

CONSTANTS
  Objects,   \* places for objects
  NULL

ASSUME HolderAssumption == NULL \notin Objects

VARIABLES
  refs,      \* object -> references to it; 0 when it was deleted, or never made
  user,      \* object -> references of user code
  holder,    \* message -> its m_object and m_owns
  stage,     \* of the call it serves: "none", "service" or "reply"
  slipped    \* history: the objects whose count the code has got wrong itself

holderVars == <<refs, user, holder, stage, slipped>>

Messages == {"request", "reply", "response"}

Empty == [object |-> NULL, owns |-> FALSE]

\* set() of a message
Set(h, o) == [h EXCEPT !.object = o]

\* set_allocated()
SetAllocated(h, o) == [object |-> o, owns |-> TRUE]

\* The reference that the destructor of a holder gives back, if any.
Owned(h, o) == IF h.owns /\ h.object = o THEN 1 ELSE 0

Deleted(o) == [refs EXCEPT ![o] = @ - 1]

\* User code has set the object in a message that does not own it: it neither
\* deletes it nor gives it away.
Lent(o) == \E m \in Messages : holder[m].object = o /\ ~holder[m].owns

\* What is lost when the object of message m is set: set() and set_allocated()
\* do not give back the reference the message owns.
Overwritten(m) == IF holder[m].owns THEN {holder[m].object} ELSE {}

\* And set() leaves m_owns as it is: the message owns the new object, too.
Seized(m, o) == IF holder[m].owns THEN {o} ELSE {}

\* User code fills the holder of message m.
Sets(m) ==
  \E o \in Objects :
    /\ user[o] > 0 /\ refs[o] > 0
    /\ \/ /\ holder' = [holder EXCEPT ![m] = Set(@, o)]
          /\ slipped' = slipped \cup Overwritten(m) \cup Seized(m, o)
          /\ UNCHANGED user
       \/ /\ ~Lent(o)
          /\ holder' = [holder EXCEPT ![m] = SetAllocated(@, o)]
          /\ user' = [user EXCEPT ![o] = @ - 1]
          /\ slipped' = slipped \cup Overwritten(m)

-----------------------------------------------------------------------------
HolderInit ==
  /\ refs = [o \in Objects |-> 0]
  /\ user = [o \in Objects |-> 0]
  /\ holder = [m \in Messages |-> Empty]
  /\ stage = "none"
  /\ slipped = {}

UserNew(o) ==
  /\ refs[o] = 0
  /\ refs' = [refs EXCEPT ![o] = 1]
  /\ user' = [user EXCEPT ![o] = 1]
  /\ UNCHANGED <<holder, stage, slipped>>

UserDelete(o) ==
  /\ user[o] > 0 /\ ~Lent(o)
  /\ refs' = Deleted(o)
  /\ user' = [user EXCEPT ![o] = @ - 1]
  /\ UNCHANGED <<holder, stage, slipped>>

\* An object is received into message m, whose holder is empty: a new one, which
\* the message owns afterwards.
ReceivesNew(m) ==
  /\ holder[m].object = NULL
  /\ \E o \in Objects :
       /\ refs[o] = 0
       /\ refs' = [refs EXCEPT ![o] = 1]
       /\ holder' = [holder EXCEPT ![m] = SetAllocated(@, o)]
  /\ UNCHANGED <<user, slipped>>

\* Or it cannot be received: a VTK object is deleted again, an external one
\* forgotten.
FailsNew(m) ==
  /\ holder[m].object = NULL
  /\ \/ UNCHANGED <<refs, slipped>>
     \/ \E o \in Objects :
          /\ refs[o] = 0
          /\ refs' = [refs EXCEPT ![o] = 1]
          /\ slipped' = slipped \cup {o}
  /\ UNCHANGED <<user, holder>>

\* Mutant of ReceivesExisting: what is received into is always set_allocated().
ReceivesAndOwns(m) ==
  /\ holder[m].object # NULL
  /\ holder' = [holder EXCEPT ![m] = SetAllocated(@, @.object)]
  /\ UNCHANGED <<refs, user, slipped>>

\* An object is received into the one that is there.
ReceivesExisting(m) ==
  /\ holder[m].object # NULL
  /\ UNCHANGED <<refs, user, holder, slipped>>

\* Or it cannot be: an external object stays, a VTK object is deleted, whoever it
\* belongs to.
FailsExisting(m) ==
  /\ holder[m].object # NULL
  /\ \/ UNCHANGED <<refs, slipped>>
     \/ /\ refs[holder[m].object] > 0
        /\ refs' = Deleted(holder[m].object)
        /\ slipped' = slipped \cup {holder[m].object}
  /\ UNCHANGED <<user, holder>>

\* A request and its object are received, and the service is called.
ServeRequest ==
  /\ stage = "none"
  /\ ReceivesNew("request")
  /\ stage' = "service"

\* Its object is not: dispatch() returns, the request is never deleted.
AbandonRequest ==
  /\ stage = "none"
  /\ FailsNew("request")
  /\ UNCHANGED stage

\* The service sets the object of the reply, ...
ServiceSets ==
  /\ stage = "service"
  /\ Sets("reply")
  /\ UNCHANGED <<refs, stage>>

\* ... perhaps that of the request, as the example does.
ServiceSetsRequestObject ==
  /\ stage = "service"
  /\ holder' = [holder EXCEPT !["reply"] = Set(@, holder["request"].object)]
  /\ slipped' = slipped \cup Overwritten("reply")
                        \cup Seized("reply", holder["request"].object)
  /\ UNCHANGED <<refs, user, stage>>

\* Mutant of SendReply: the request is deleted before the objects are sent.
SendWithoutRequest ==
  /\ stage = "service"
  /\ stage' = "reply"
  /\ refs' = [o \in Objects |-> refs[o] - Owned(holder["request"], o)]
  /\ holder' = [holder EXCEPT !["request"] = Empty]
  /\ UNCHANGED <<user, slipped>>

\* It runs done: reply() sends the objects of the reply ...
SendReply ==
  /\ stage = "service"
  /\ stage' = "reply"
  /\ UNCHANGED <<refs, user, holder, slipped>>

\* ... and deletes the request and the reply when it returns.
ReplyReturns ==
  /\ stage = "reply"
  /\ stage' = "none"
  /\ refs' = [o \in Objects |->
               refs[o] - Owned(holder["request"], o) - Owned(holder["reply"], o)]
  /\ holder' = [holder EXCEPT !["request"] = Empty, !["reply"] = Empty]
  /\ UNCHANGED <<user, slipped>>

\* The caller of a proxy sets an object in the response it passes ...
CallerSets == Sets("response") /\ UNCHANGED <<refs, stage>>

\* ... the handler receives the object of the response ...
HandleResponse ==
  /\ \/ ReceivesNew("response") \/ FailsNew("response")
     \/ ReceivesExisting("response") \/ FailsExisting("response")
  /\ UNCHANGED stage

\* ... and the caller deletes the response, or uses it for another call.
DeleteResponse ==
  /\ refs' = [o \in Objects |-> refs[o] - Owned(holder["response"], o)]
  /\ holder' = [holder EXCEPT !["response"] = Empty]
  /\ UNCHANGED <<user, stage, slipped>>

HolderNext ==
  \/ \E o \in Objects : UserNew(o) \/ UserDelete(o)
  \/ ServeRequest \/ AbandonRequest
  \/ ServiceSets \/ ServiceSetsRequestObject
  \/ SendReply \/ ReplyReturns
  \/ CallerSets \/ HandleResponse \/ DeleteResponse

HolderSpec == HolderInit /\ [][HolderNext]_holderVars

-----------------------------------------------------------------------------
HolderTypes ==
  /\ refs \in [Objects -> Int]
  /\ user \in [Objects -> {0, 1}]
  /\ holder \in [Messages -> [object : Objects \cup {NULL}, owns : BOOLEAN]]
  /\ stage \in {"none", "service", "reply"}
  /\ slipped \subseteq Objects

\* The references somebody will give back.
Owners(o) ==
  user[o] + Owned(holder["request"], o) + Owned(holder["reply"], o)
          + Owned(holder["response"], o)

(* Every reference to an object has exactly one owner, which will give it back *)
(* once: nothing is deleted twice and nothing is leaked, whatever objects are  *)
(* set in, received into and passed on from messages (rpcplugin.cpp:262-287,   *)
(* 363-387; rpcgenerator.cpp:566-567, 698-719, 1030-1059).  The exceptions are *)
(* the objects of the four steps that get the count wrong by themselves, and   *)
(* no others.                                                                  *)
CountsExact == \A o \in Objects \ slipped : refs[o] = Owners(o)

(* What reply() sends is there when it is sent: the object of the request that *)
(* a service passed on lives until the request is deleted, after sending       *)
(* (rpcgenerator.cpp:565-577; a reply's object is set as in                    *)
(* examples/salutation/server/service.cpp:54).                                 *)
NothingDeletedIsSent ==
  LET object == holder["reply"].object
  IN  (stage = "reply" /\ object \notin slipped) => object = NULL \/ refs[object] > 0

=============================================================================
