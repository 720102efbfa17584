----------------------------- MODULE RpcContract -----------------------------
(* What ProtoCall promises the users of two connected RpcChannels, with no     *)
(* ids, tables or messages in it: a call is executed by the other side at most *)
(* once, a peer's calls are executed in the order they were issued (calls that *)
(* reach no service are skipped, never executed late), and a completion        *)
(* callback runs at most once, for a call that was executed.                   *)

EXTENDS Naturals

CONSTANTS
  Peers,     \* the two ends of the connection
  MaxCalls   \* how many calls one peer issues

VARIABLES
  issued,     \* issued[p]: number of calls p has made; calls are numbered from 1
  served,     \* served[p][c]: how often p's call c has been given to a service
  completed   \* completed[p][c]: how often the callback of p's call c has run

vars == <<issued, served, completed>>

Calls == 1 .. MaxCalls

Init ==
  /\ issued = [p \in Peers |-> 0]
  /\ served = [p \in Peers |-> [c \in Calls |-> 0]]
  /\ completed = [p \in Peers |-> [c \in Calls |-> 0]]

Issue(p) ==
  /\ issued[p] < MaxCalls
  /\ issued' = [issued EXCEPT ![p] = @ + 1]
  /\ UNCHANGED <<served, completed>>

Execute(p, c) ==
  /\ c <= issued[p]
  /\ \A d \in Calls : d >= c => served[p][d] = 0
  /\ served' = [served EXCEPT ![p][c] = 1]
  /\ UNCHANGED <<issued, completed>>

Complete(p, c) ==
  /\ served[p][c] = 1
  /\ completed[p][c] = 0
  /\ completed' = [completed EXCEPT ![p][c] = 1]
  /\ UNCHANGED <<issued, served>>

Next ==
  \E p \in Peers :
    \/ Issue(p)
    \/ \E c \in Calls : Execute(p, c) \/ Complete(p, c)

Spec == Init /\ [][Next]_vars

=============================================================================
