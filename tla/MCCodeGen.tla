------------------------------ MODULE MCCodeGen ------------------------------
(* Services of one and two methods for TLC.                                    *)
EXTENDS CodeGen

\* Void, and messages without and with fields of every kind.
Types ==
  {Void, Message(<<>>), Message(<<"scalar", "vtk", "vtk">>),
   Message(<<"external", "scalar", "external">>), Message(<<"external", "vtk">>)}

Methods == [input : Types, output : Types]

AllServices == {<<m>> : m \in Methods} \cup {<<m, n>> : m, n \in Methods}

=============================================================================
