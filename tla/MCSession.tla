------------------------------ MODULE MCSession ------------------------------
(* Instances of Session for TLC.                                               *)
EXTENDS Session

CONSTANTS Hello, Grid, Unknown, Stack

AllMethods == {Hello, Grid, Unknown}
Places == {Stack}
Implemented == [place \in Places |-> {Hello, Grid}]
Grids == {Grid}

\* The objects of every round are at the same place of the stack.
SameSlot == [r \in 1 .. MaxRounds |-> Stack]

=============================================================================
