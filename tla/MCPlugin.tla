------------------------------ MODULE MCPlugin ------------------------------
(* Requests of up to three files for TLC.                                      *)
EXTENDS Plugin

File(name, types, services) ==
  [name |-> <<name>>, proto |-> TRUE, lite |-> FALSE, declares |-> {<<t>> : t \in Range(types)},
   types |-> types, external |-> FALSE, services |-> services]
Service(name, methods) == [name |-> name, methods |-> methods]
Method(full, output) == [full |-> full, output |-> output]

Vtk == File("vtk", <<"vtkTable">>, <<>>)
Foreign == [File("foo", <<"Bar">>, <<>>) EXCEPT !.external = TRUE]

\* Two methods return one type, one is a notification; the second service has
\* a method whose extension name is that of a method of the first.
Hello == File("hello", <<"Request", "Response">>,
  <<Service("Greet", <<Method(<<"Greet", ".", "all">>, "Response"),
                       Method(<<"Greet", ".", "set", "_", "name">>, "Response"),
                       Method(<<"Greet", ".", "note">>, "Void")>>)>>)
Name == File("name", <<"Answer">>,
  <<Service("Greet_set", <<Method(<<"Greet", "_", "set", ".", "name">>, "Answer")>>)>>)
Data == File("data", <<"Answer">>,
  <<Service("Data", <<Method(<<"Data", ".", "get">>, "Answer")>>)>>)

\* A message that has the name of an extension, files that have the name of the
\* extensions of another or are not called .proto, and one for the lite runtime.
Taken == [File("taken", <<"Other">>, <<>>)
            EXCEPT !.declares = {<<"Data", "_", "get", "_", "response">>}]
DataRpc == [File("data", <<"Other">>, <<>>) EXCEPT !.name = <<"data", "_rpc">>]
Plain == [File("plain", <<"Other">>, <<>>) EXCEPT !.proto = FALSE]
Twin == [File("data", <<"Other">>,
           <<Service("Twin", <<Method(<<"Twin", ".", "get">>, "Other")>>)>>) EXCEPT !.proto = FALSE]
Lite == [Data EXCEPT !.lite = TRUE]

\* Services that return a type of another file, and one named like its file.
Shares == File("shares", <<>>,
  <<Service("Shares", <<Method(<<"Shares", ".", "all">>, "Response")>>)>>)
Uses == File("uses", <<>>, <<Service("Uses", <<Method(<<"Uses", ".", "bar">>, "Bar")>>)>>)
Namesake == [Data EXCEPT !.name = <<"Data">>]

PluginRequests ==
  {<<Hello>>, <<Vtk, Hello>>, <<Vtk, Foreign, Data>>, <<Hello, Data>>, <<Hello, Name>>,
   <<Taken, Data>>, <<DataRpc, Data>>, <<Data, Plain>>, <<Data, Twin>>, <<Lite>>,
   <<Hello, Shares>>, <<Foreign, Uses>>, <<Namesake>>}

=============================================================================
