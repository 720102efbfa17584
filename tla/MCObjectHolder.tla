---------------------------- MODULE MCObjectHolder ----------------------------
(* Instances of ObjectHolder for TLC.                                          *)
EXTENDS ObjectHolder, TLC

CONSTANTS o1, o2, o3, o4

\* One object for each of the three messages, and one of the user's.
Places == {o1, o2, o3, o4}

\* Objects are all alike.
Alike == Permutations(Places)

=============================================================================
