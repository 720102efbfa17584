------------------------------- MODULE CodeGen -------------------------------
(* What RpcGenerator writes for a service, as far as the parts must agree: the *)
(* names that are declared and used in which scope, the cases, the parameters  *)
(* and arguments, and the objects that are sent and received.  A service is a  *)
(* sequence of methods, a message is Void or a sequence of fields by kind; the *)
(* text itself, types, members, includes and class definitions are left out.   *)

EXTENDS Naturals, Sequences, SequencesExt

CONSTANTS
  Services   \* the services of which one is generated

Void == [void |-> TRUE, fields |-> <<>>]
Message(fields) == [void |-> FALSE, fields |-> fields]

Kinds == {"scalar", "vtk", "external"}
Messages == {Void} \cup [void : {FALSE}, fields : Seq(Kinds)]

ASSUME ServiceAssumption == Services \subseteq Seq([input : Messages, output : Messages])

VARIABLES
  service,   \* the service that is generated
  next,      \* what Generate() writes next
  written    \* what it has written: file -> items

vars == <<service, next, written>>

\* An item of generated code.  A scope is the path of the braces it is in: the
\* method or case, then the field.
Item(op, name, scope) == [op |-> op, name |-> name, scope |-> scope]
Declare(name, scope) == Item("declare", <<name>>, scope)
Use(name, scope) == Item("use", <<name>>, scope)
Items(op, names, scope) == [k \in DOMAIN names |-> Item(op, <<names[k]>>, scope)]

\* What a block writes for field i: a variable of its own in a scope of its own.
Own(op, name, i, scope) == Item(op, <<name, i>>, scope \o <<i>>)

FieldsOf(type, kind) ==
  FlattenSeq([i \in DOMAIN type.fields |-> IF type.fields[i] = kind THEN <<i>> ELSE <<>>])

ForFields(type, kind, Block(_)) ==
  LET fields == FieldsOf(type, kind)
  IN  FlattenSeq([k \in DOMAIN fields |-> Block(fields[k])])

-----------------------------------------------------------------------------
\* The parameters of a method, in the header and in the proxy.
MethodSignature(m) ==
  (IF m.input.void THEN <<>> ELSE <<"input">>)
    \o (IF m.output.void THEN <<>> ELSE <<"output">>) \o <<"done">>

\* generateSentVtkBlock and generateSentExternalBlock: what they declare, use and
\* send, not the classes and members they name.
SentVtkBlock(variable, type, scope) ==
  ForFields(type, "vtk", LAMBDA i :
    <<Item("use", variable, scope), Own("declare", "obj", i, scope),
      Own("use", "obj", i, scope), Item("send", <<i>>, scope)>>)

SentExternalBlock(variable, type, scope) ==
  ForFields(type, "external", LAMBDA i :
    <<Item("use", variable, scope), Own("declare", "obj", i, scope),
      Own("declare", "serializer", i, scope), Own("use", "obj", i, scope),
      Own("declare", "data", i, scope), Own("use", "serializer", i, scope),
      Item("send", <<i>>, scope), Own("use", "data", i, scope)>>)

\* generateReceiveVtkBlock and generateReceiveExternalBlock, likewise: the message
\* is made mutable in the scope of the block, if there is a field of the kind.
MutableMessage(variable, mutable, scope) ==
  <<Declare(mutable, scope), Use(variable, scope), Declare("tmp", scope), Use(mutable, scope)>>

ReceiveVtkBlock(variable, type, scope) ==
  IF FieldsOf(type, "vtk") = <<>> THEN <<>>
  ELSE MutableMessage(variable, "mut", scope) \o
       ForFields(type, "vtk", LAMBDA i :
         <<Use("tmp", scope), Own("declare", "obj", i, scope),
           Own("declare", "allocated", i, scope), Item("receive", <<i>>, scope),
           Own("use", "obj", i, scope), Own("use", "allocated", i, scope)>>)

ReceiveExternalBlock(variable, type, scope) ==
  IF FieldsOf(type, "external") = <<>> THEN <<>>
  ELSE MutableMessage(variable, "mutableRequest", scope) \o
       ForFields(type, "external", LAMBDA i :
         <<Use("tmp", scope), Own("declare", "data", i, scope),
           Item("receive", <<i>>, scope), Own("declare", "obj", i, scope),
           Own("declare", "allocated", i, scope),
           Own("declare", "deserializer", i, scope), Own("use", "obj", i, scope),
           Own("use", "deserializer", i, scope), Own("use", "data", i, scope),
           Own("use", "allocated", i, scope)>>)

\* A method of the proxy.  What registers a handler uses `output', whether the
\* method has one or not.
ProxyMethod(m, j) ==
  LET s == <<j>>
  IN  Items("declare", MethodSignature(m), s)
        \o <<Declare("msg", s), Declare("request", s), Use("msg", s)>>
        \o (IF m.input.void /\ m.output.void THEN <<>>
            ELSE <<Declare("id", s), Declare("handler", s), Item("register", <<j>>, s)>>
                   \o Items("use", <<"id", "output", "handler", "done">>, s))
        \o <<Declare("ext", s), Use("request", s)>>
        \o (IF m.input.void THEN <<>> ELSE Items("use", <<"ext", "input">>, s))
        \o <<Use("msg", s)>>
        \o SentVtkBlock(<<"input">>, m.input, s) \o SentExternalBlock(<<"input">>, m.input, s)

\* The parameters of dispatch(), reply() and handle().
Parameters(names) == Items("declare", names, <<>>)

\* Mutant of DispatchCase: external objects are received before VTK objects.
DispatchCaseExternalFirst(m, j) ==
  LET s == <<j>>
  IN  <<Item("case", <<j>>, s)>>
        \o (IF m.input.void THEN <<>>
            ELSE <<Declare("in", s), Use("request", s)>>
                   \o ReceiveExternalBlock("request", m.input, s)
                   \o Reverse(ReceiveVtkBlock("request", m.input, s)))

\* Mutant of DispatchCase: the arguments do not depend on the types.
DispatchCaseAllArguments(m, j) ==
  LET s == <<j>>
  IN  <<Item("case", <<j>>, s), Declare("in", s), Declare("out", s),
        Item("closure", <<j>>, s), Declare("done", s)>>
        \o Items("argument", <<"in", "out", "done">>, s)

\* A case of dispatch(): read the objects of the request, call the service.
DispatchCase(m, j) ==
  LET s == <<j>>
      reply == <<Declare("out", s), Declare("info", s)>>
                 \o Items("use", <<"info", "requestMessageEnvelope", "out", "replyChannel">>, s)
                 \o <<Item("closure", <<j>>, s)>>
      arguments == (IF m.input.void THEN <<>> ELSE <<"in">>)
                     \o (IF m.output.void THEN <<>> ELSE <<"out">>) \o <<"done">>
  IN  <<Item("case", <<j>>, s)>>
        \o (IF m.input.void THEN <<>>
            ELSE <<Declare("in", s), Use("request", s)>>
                   \o ReceiveVtkBlock("request", m.input, s)
                   \o ReceiveExternalBlock("request", m.input, s))
        \o (IF m.output.void THEN <<>> ELSE reply)
        \o <<Declare("done", s)>>
        \o Items("use", arguments, s) \o Items("argument", arguments, s)

\* A case of reply(), for a method with an output.
ReplyCase(m, j) ==
  LET s == <<j>>
      tmp == <<"tmp", j>>
  IN  IF m.output.void THEN <<>>
      ELSE <<Item("case", <<j>>, s), Declare("msg", s), Use("msg", s), Declare("response", s),
             Use("info", s), Declare("requestId", s)>>
             \o Items("use", <<"response", "requestId", "info">>, s)
             \o <<Item("declare", tmp, s), Item("use", tmp, s), Declare("request", s)>>
             \o Items("use", <<"request", "info", "msg">>, s)
             \o SentVtkBlock(tmp, m.output, s) \o SentExternalBlock(tmp, m.output, s)

\* Mutant of HandlerCase: it is left out for methods without an input.
HandlerCaseOfInput(m, j) ==
  IF m.input.void THEN <<>>
  ELSE <<Item("case", <<j>>, <<j>>)>>
         \o ReceiveVtkBlock("targetResponse", m.output, <<j>>)
         \o ReceiveExternalBlock("targetResponse", m.output, <<j>>)

\* Mutant of HandlerCase: the block of VTK objects reads its own variable.
HandlerCaseUndeclared(m, j) ==
  <<Item("case", <<j>>, <<j>>)>> \o ReceiveVtkBlock("response", m.output, <<j>>)

\* A case of handle(), for a method with an output.
HandlerCase(m, j) ==
  LET s == <<j>>
  IN  IF m.output.void THEN <<>>
      ELSE <<Item("case", <<j>>, s)>>
             \o Items("use", <<"targetResponse", "incomingResponse">>, s)
             \o <<Declare("mutableResponse", s), Use("targetResponse", s),
                  Declare("responseType", s), Use("mutableResponse", s)>>
             \o Items("use", <<"responseType", "errorCode", "errorString">>, s)
             \o ReceiveVtkBlock("targetResponse", m.output, s)
             \o ReceiveExternalBlock("targetResponse", m.output, s)
             \o <<Use("callback", s)>>

ForMethods(Code(_, _)) == FlattenSeq([j \in DOMAIN service |-> Code(service[j], j)])

-----------------------------------------------------------------------------
Files == {"header", "proxy", "dispatch", "reply", "implements", "handler"}

Init ==
  /\ service \in Services
  /\ next = "header"
  /\ written = [file \in Files |-> <<>>]

\* One of the functions Generate() calls writes its files.
Writes(from, to, items) ==
  /\ next = from /\ next' = to
  /\ written' = [file \in Files |-> IF file \in DOMAIN items THEN items[file]
                                    ELSE written[file]]
  /\ UNCHANGED service

GenerateServiceHeader ==
  Writes("header", "proxy",
    [header |-> ForMethods(LAMBDA m, j : Items("parameter", MethodSignature(m), <<j>>))])

GenerateServiceProxyCc ==
  Writes("proxy", "dispatcher", [proxy |-> ForMethods(ProxyMethod)])

GenerateDispatcherCc ==
  Writes("dispatcher", "handler",
    [dispatch |->
       Parameters(<<"methodId", "requestMessageEnvelope", "request", "replyChannel">>)
         \o ForMethods(DispatchCase),
     reply |-> Parameters(<<"info">>) \o ForMethods(ReplyCase),
     implements |-> ForMethods(LAMBDA m, j : <<Item("case", <<j>>, <<>>)>>)])

GenerateResponseHandler ==
  Writes("handler", "done",
    [handler |->
       Parameters(<<"channel", "methodId", "incomingResponse", "targetResponse",
                    "errorCode", "errorString", "callback">>)
         \o ForMethods(HandlerCase)])

Next ==
  \/ GenerateServiceHeader \/ GenerateServiceProxyCc
  \/ GenerateDispatcherCc \/ GenerateResponseHandler

Spec == Init /\ [][Next]_vars

-----------------------------------------------------------------------------
\* The names of the items of a kind in a scope, in order.
NamesOf(items, op, scope) ==
  FlattenSeq([k \in DOMAIN items |->
    IF items[k].op = op /\ items[k].scope = scope THEN <<items[k].name>> ELSE <<>>])
Names(file, op, scope) == NamesOf(written[file], op, scope)

Visible(items, k) ==
  \E i \in 1 .. k - 1 :
    /\ items[i].op = "declare" /\ items[i].name = items[k].name
    /\ IsPrefix(items[i].scope, items[k].scope)

Redeclared(items, k) ==
  \E i \in 1 .. k - 1 :
    items[i].op = "declare" /\ items[i].name = items[k].name /\ items[i].scope = items[k].scope

\* Wrong local variables and parameters, and where: those that are used without
\* being declared before, in a scope around their use, or declared twice in one.
Errors ==
  UNION {LET items == written[file]
             wrong == {k \in DOMAIN items :
                         \/ items[k].op = "use" /\ ~Visible(items, k)
                         \/ items[k].op = "declare" /\ Redeclared(items, k)}
         IN  {<<file, items[k].name[1], items[k].scope>> : k \in wrong} : file \in Files}

IsNotification(m) == ~m.input.void /\ m.output.void
HasBothKinds(type) == FieldsOf(type, "vtk") # <<>> /\ FieldsOf(type, "external") # <<>>

(* Whatever fields and methods a service has, the functions generated for it   *)
(* declare the parameters and local variables they use, once in a scope, with  *)
(* two exceptions that are always there: the proxy of a method with an input   *)
(* and no output passes on an `output' that it is not given                    *)
(* (rpcgenerator.cpp:241; README.md:131 has such notifications), and a message *)
(* with VTK and external objects is received by two blocks that declare the    *)
(* same `tmp' (730 and 1068; the comments at 403 and 407 have messages with    *)
(* both).  Classes, members and includes are not the subject: serializers are  *)
(* used that no include declares (927, 1041), and has_x() of repeated fields.  *)
LocalErrorsKnown ==
  next = "done" =>
    Errors = {<<"proxy", "output", <<j>>>> : j \in {i \in DOMAIN service :
                                                  IsNotification(service[i])}}
       \cup {<<"dispatch", "tmp", <<j>>>> : j \in {i \in DOMAIN service :
                                                  HasBothKinds(service[i].input)}}
       \cup {<<"handler", "tmp", <<j>>>> : j \in {i \in DOMAIN service :
                                                  HasBothKinds(service[i].output)}}

\* Case j of a file.
Cases(file) == {item \in Range(written[file]) : item.op = "case"}
HasCase(file, j) == \E item \in Cases(file) : item.name = <<j>>

(* What one generated function starts another one ends: each method whose      *)
(* proxy compiles is dispatched where implements() names it; a proxy that      *)
(* registers a handler gets a reply only if dispatch() makes a closure for it, *)
(* reply() has a case for the closure and handle() one for the response        *)
(* (rpcgenerator.cpp:235, 415-427, 529, 594-626, 829).                         *)
EveryCallReturns ==
  next = "done" =>
    \A j \in {i \in DOMAIN service : ~IsNotification(service[i])} :
      /\ HasCase("dispatch", j) /\ HasCase("implements", j)
      /\ LET registers == Names("proxy", "register", <<j>>) # <<>>
             closure == Names("dispatch", "closure", <<j>>) # <<>>
         IN  /\ registers => closure
             /\ closure => HasCase("reply", j) /\ HasCase("handler", j)
             /\ closure => registers

(* The objects of a request are received in the order in which the proxy sends *)
(* them, those of a response in the order in which reply() does                *)
(* (rpcgenerator.cpp:249-258 and 403-411, 570-577 and 846-853).                *)
ObjectsAgree ==
  next = "done" =>
    \A j \in DOMAIN service :
      /\ Names("proxy", "send", <<j>>) = Names("dispatch", "receive", <<j>>)
      /\ Names("reply", "send", <<j>>) = Names("handler", "receive", <<j>>)

\* The parameter an argument of dispatch() is for.
ParameterOf(argument) ==
  CASE argument = <<"in">> -> <<"input">>
    [] argument = <<"out">> -> <<"output">>
    [] argument = <<"done">> -> <<"done">>

(* dispatch() calls the service with the arguments of its signature, of which  *)
(* Void ones are left out (rpcgenerator.cpp:76-96, 429-444).                   *)
ArgumentsMatch ==
  next = "done" =>
    \A j \in DOMAIN service :
      LET arguments == Names("dispatch", "argument", <<j>>)
      IN  [k \in DOMAIN arguments |-> ParameterOf(arguments[k])]
            = Names("header", "parameter", <<j>>)

=============================================================================
