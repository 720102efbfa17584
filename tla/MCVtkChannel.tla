----------------------------- MODULE MCVtkChannel -----------------------------
(* Instances of VtkChannel for TLC.                                            *)
EXTENDS VtkChannel

Object == [kind |-> "object", value |-> "set"]
Array == [kind |-> "array", value |-> "set"]
External == [kind |-> "external", value |-> "set"]
NullObject == [Object EXCEPT !.value = "null"]
NullExternal == [External EXCEPT !.value = "null"]
BadExternal == [External EXCEPT !.value = "bad"]

\* Messages with different kinds of objects and with two of a kind, and such that
\* lack one object or two.  No message has both VTK and external fields: the code that is
\* generated to receive one declares `tmp' twice and does not compile.
AllShapes ==
  {<<>>, <<Object, Array>>, <<External, External>>,
   <<NullObject, Array>>, <<NullExternal, External, NullExternal>>, <<BadExternal>>}

=============================================================================
