------------------------------- MODULE Plugin -------------------------------
(* One run of the protoc plugin, RpcPlugin::main: it loads the files of the    *)
(* request, adds an _rpc file with the extensions of the methods for each file *)
(* with services, calls both generators for all files and inserts the holders. *)
(* Files with services have no package and import protocall.proto, so that     *)
(* rpc.Request and rpc.Response are in the pool (README.md:35, 39).  The text  *)
(* of what is generated is in CodeGen and ObjectHolder; protobuf's pool,       *)
(* generator and insertion are external.                                       *)

EXTENDS Integers, FiniteSets, SequencesExt

CONSTANTS
  Requests,       \* the sequences of files that protoc sends
  Hashes,         \* checksums of method names
  MinNumber, MaxNumber,       \* minExtensionNumber, maxExtensionNumber
  FirstReserved, LastReserved,
  UintMax

ASSUME NumberAssumption ==
  /\ MinNumber \in Nat /\ MaxNumber \in Nat /\ FirstReserved \in Nat /\ LastReserved \in Nat
  /\ MinNumber < FirstReserved /\ FirstReserved <= LastReserved /\ LastReserved < MaxNumber
  /\ UintMax \in Nat \ {0} /\ Hashes \subseteq 0 .. UintMax

VARIABLES
  request,          \* the request: the files
  hash,             \* the checksum of each method name
  pc,               \* where main is
  i,                \* the file it is at
  fileDescriptors,  \* m_fileDescriptors
  symbols,          \* the names in m_pool
  parsedFiles,      \* the files to generate, NULL among them
  warned,           \* "Invalid extension number generated." was printed
  error,            \* a generator failed
  response          \* files and insertions

vars == <<request, hash, pc, i, fileDescriptors, symbols, parsedFiles, warned, error,
          response>>

NULL == [name |-> <<>>]
Reserved == FirstReserved .. LastReserved
Available == MaxNumber - MinNumber + 1 - Cardinality(Reserved)

MethodsOf(file) ==
  FlattenSeq([k \in DOMAIN file.services |-> file.services[k].methods])
Methods == UNION {{m.full : m \in Range(MethodsOf(file))} : file \in Range(request)}

Services == [name : STRING, methods : Seq([full : Seq(STRING), output : STRING])]

\* The name of a file is what is in front of ".proto", if it has that.  What it
\* declares are the names of types, services and packages, in words; it may be
\* for the lite runtime.
FileTypes == [name : Seq(STRING), proto : BOOLEAN, lite : BOOLEAN,
              declares : SUBSET Seq(STRING), types : Seq(STRING), external : BOOLEAN,
              services : Seq(Services)]

\* protoc has built the files: their names and those of types and methods differ.
ASSUME RequestAssumption ==
  \A files \in Requests :
    /\ files \in Seq(FileTypes)
    /\ \A k, l \in DOMAIN files : k # l =>
         /\ files[k].name # files[l].name \/ files[k].proto # files[l].proto
         /\ Range(files[k].types) \cap Range(files[l].types) = {}
    /\ \A k, l \in DOMAIN files :
         \A a \in DOMAIN MethodsOf(files[k]), b \in DOMAIN MethodsOf(files[l]) :
           MethodsOf(files[k])[a].full = MethodsOf(files[l])[b].full => k = l /\ a = b

-----------------------------------------------------------------------------
\* Mutant of IsValidExtensionNumber: reserved numbers pass.
IsInExtensionRange(number) == MinNumber < number /\ number < MaxNumber

IsValidExtensionNumber(number) ==
  MinNumber < number /\ number < MaxNumber /\ number \notin Reserved

\* Mutant of GenerateExtensionNumber: the reserved numbers are not subtracted.
NumberOfAllNumbers(h) == MinNumber + ((MaxNumber - MinNumber + 2) * h) \div UintMax

\* The checksum scaled to the numbers, without the rounding of the double.
GenerateExtensionNumber(h) == MinNumber + (Available * h) \div UintMax

\* A full name is a sequence of words with "." and "_" between them.
ToExtensionName(full) == [k \in DOMAIN full |-> IF full[k] = "." THEN "_" ELSE full[k]]

ExtensionName(full, direction) == ToExtensionName(full) \o <<"_", direction>>

\* The extensions of one method: of rpc.Request, and of rpc.Response.
MethodExtensions(m) ==
  LET Extension(direction) == [name |-> ExtensionName(m.full, direction),
                               extendee |-> direction,
                               number |-> GenerateExtensionNumber(hash[m.full])]
  IN  <<Extension("request")>>
        \o (IF m.output = "Void" THEN <<>> ELSE <<Extension("response")>>)

Extensions(file) ==
  LET methods == MethodsOf(file)
  IN  FlattenSeq([k \in DOMAIN methods |-> MethodExtensions(methods[k])])

RpcName(file) == Append(file.name, "_rpc")
RpcFile(file) ==
  [name |-> RpcName(file), proto |-> TRUE, lite |-> file.lite, declares |-> {},
   types |-> <<>>, external |-> FALSE, services |-> <<>>]

\* protobuf refuses reserved numbers, numbers out of range or used twice for one
\* message in a file, names that are taken, also by another file, and lite
\* extensions of messages that are not.
Refused(file, extensions) ==
  \/ \E k \in DOMAIN extensions : extensions[k].number \in Reserved
                                  \/ extensions[k].number \notin 1 .. MaxNumber
  \/ \E k \in DOMAIN extensions : extensions[k].name \in symbols
  \/ \E k, l \in DOMAIN extensions : k # l /\
       \/ extensions[k].name = extensions[l].name
       \/ /\ extensions[k].extendee = extensions[l].extendee
          /\ extensions[k].number = extensions[l].number
  \/ \E k \in DOMAIN parsedFiles :
       parsedFiles[k] # NULL /\ parsedFiles[k].proto /\ parsedFiles[k].name = RpcName(file)
  \/ file.lite /\ extensions # <<>>

-----------------------------------------------------------------------------
Generated(file, offers) == [file |-> file, point |-> <<>>, offers |-> offers]
Insertion(file, point) == [file |-> file, point |-> point, offers |-> {}]

\* Mutant of ToHeader: the suffix is appended, not put in the place of ".proto".
HeaderOfName(file) == file.name \o <<".proto", ".pb.h">>

\* The header the plugin inserts into; only of names with ".proto", see Abort.
ToHeader(file) == Append(file.name, ".pb.h")
ClassScope(t) == <<"class_scope", t>>

\* What CppGenerator, and RpcGenerator for each service, open.
CppFiles(file) ==
  <<Generated(Append(file.name, ".pb.h"), {<<"includes">>} \cup {ClassScope(t) : t \in Range(file.types)}),
    Generated(Append(file.name, ".pb.cc"), {})>>

ServiceFiles(file) ==
  LET suffixes == <<".pb.h", "_Proxy.pb.cc", "_Dispatcher.pb.h", "_Dispatcher.pb.cc",
                    "_Handler.pb.h", "_Handler.pb.cc">>
  IN  FlattenSeq([k \in DOMAIN file.services |->
        [s \in DOMAIN suffixes |-> Generated(<<file.services[k].name, suffixes[s]>>, {})]])

InsertsFor(file, types) ==
  FlattenSeq([k \in DOMAIN types |->
    <<Insertion(ToHeader(file), <<"includes">>),
      Insertion(ToHeader(file), ClassScope(types[k]))>>])

VtkFile == <<"vtk">>

\* The holders of VTK types, after an include of vtkNew.h.
VtkInserts ==
  FlattenSeq([k \in DOMAIN fileDescriptors |->
    IF fileDescriptors[k].name = VtkFile
    THEN <<Insertion(ToHeader(fileDescriptors[k]), <<"includes">>)>>
           \o InsertsFor(fileDescriptors[k], fileDescriptors[k].types)
    ELSE <<>>])

\* The holders of types in a package that begins with "external.".
ExternalInserts ==
  FlattenSeq([k \in DOMAIN fileDescriptors |->
    IF fileDescriptors[k].external
    THEN InsertsFor(fileDescriptors[k], fileDescriptors[k].types) ELSE <<>>])

ResponseTypesIn(file) ==
  LET methods == MethodsOf(file)
  IN  FlattenSeq([k \in DOMAIN methods |->
        IF methods[k].output = "Void" THEN <<>>
        ELSE <<Insertion(ToHeader(file), ClassScope(methods[k].output))>>])

AllResponseTypes ==
  FlattenSeq([k \in DOMAIN fileDescriptors |-> ResponseTypesIn(fileDescriptors[k])])

\* Mutant of ResponseErrorInserts: a type gets a holder for each method.
ResponseErrorInsertsAgain == AllResponseTypes

\* The error holder of each response type, in the header of the file of the
\* first service that uses it.
ResponseErrorInserts ==
  LET inserts == AllResponseTypes
  IN  FlattenSeq([k \in DOMAIN inserts |->
        IF \E l \in 1 .. k - 1 : inserts[l].point = inserts[k].point THEN <<>>
        ELSE <<inserts[k]>>])

-----------------------------------------------------------------------------
Init ==
  /\ request \in Requests
  /\ hash \in [Methods -> Hashes]
  /\ pc = "building" /\ i = 1
  /\ fileDescriptors = <<>> /\ symbols = {} /\ parsedFiles = <<>>
  /\ warned = FALSE /\ error = FALSE /\ response = <<>>

\* main cannot parse the request, or the pool refuses a file: it returns.
Fail ==
  /\ pc = "building" /\ i <= Len(request)
  /\ pc' = "failed"
  /\ UNCHANGED <<request, hash, i, fileDescriptors, symbols, parsedFiles, warned, error,
                 response>>

BuildFile ==
  /\ pc = "building" /\ i <= Len(request)
  /\ fileDescriptors' = Append(fileDescriptors, request[i])
  /\ symbols' = symbols \cup request[i].declares
  /\ i' = i + 1
  /\ UNCHANGED <<request, hash, pc, parsedFiles, warned, error, response>>

BuiltAll ==
  /\ pc = "building" /\ i > Len(request)
  /\ pc' = "extending" /\ i' = 1
  /\ parsedFiles' = fileDescriptors
  /\ UNCHANGED <<request, hash, fileDescriptors, symbols, warned, error, response>>

\* Build the _rpc file of a file; what the pool returns is pushed unchecked.
AddRpcMessageExtensions ==
  /\ pc = "extending" /\ i <= Len(fileDescriptors)
  /\ i' = i + 1
  /\ LET file == fileDescriptors[i]
         extensions == Extensions(file)
     IN  \/ /\ file.services = <<>>
            /\ UNCHANGED <<parsedFiles, symbols, warned>>
         \/ /\ file.services # <<>>
            /\ warned' = (warned \/ \E k \in DOMAIN extensions :
                                      ~IsValidExtensionNumber(extensions[k].number))
            /\ IF Refused(file, extensions)
               THEN /\ parsedFiles' = Append(parsedFiles, NULL)
                    /\ UNCHANGED symbols
               ELSE /\ parsedFiles' = Append(parsedFiles, RpcFile(file))
                    /\ symbols' = symbols \cup {e.name : e \in Range(extensions)}
  /\ UNCHANGED <<request, hash, pc, fileDescriptors, error, response>>

AddedAll ==
  /\ pc = "extending" /\ i > Len(fileDescriptors)
  /\ pc' = "generating" /\ i' = 1
  /\ UNCHANGED <<request, hash, fileDescriptors, symbols, parsedFiles, warned, error,
                 response>>

\* A round of callGenerators.
Generate ==
  /\ pc = "generating" /\ i <= Len(parsedFiles)
  /\ parsedFiles[i] # NULL
  /\ response' = response \o CppFiles(parsedFiles[i]) \o ServiceFiles(parsedFiles[i])
  /\ i' = i + 1
  /\ UNCHANGED <<request, hash, pc, fileDescriptors, symbols, parsedFiles, warned, error>>

\* CppGenerator does not understand the parameter.
GenerateFails ==
  /\ pc = "generating" /\ i <= Len(parsedFiles)
  /\ parsedFiles[i] # NULL
  /\ error' = TRUE /\ pc' = "inserting"
  /\ UNCHANGED <<request, hash, i, fileDescriptors, symbols, parsedFiles, warned, response>>

\* CppGenerator follows the NULL.
Crash ==
  /\ pc = "generating" /\ i <= Len(parsedFiles)
  /\ parsedFiles[i] = NULL
  /\ pc' = "crashed"
  /\ UNCHANGED <<request, hash, i, fileDescriptors, symbols, parsedFiles, warned, error,
                 response>>

GeneratedAll ==
  /\ pc = "generating" /\ i > Len(parsedFiles)
  /\ pc' = "inserting"
  /\ UNCHANGED <<request, hash, i, fileDescriptors, symbols, parsedFiles, warned, error,
                 response>>

\* toHeader() replaces what find() did not find in the name of some file, with
\* services or not, and throws: no response is written.
Abort ==
  /\ pc = "inserting" /\ pc' = "crashed"
  /\ \E k \in DOMAIN fileDescriptors : ~fileDescriptors[k].proto
  /\ UNCHANGED <<request, hash, i, fileDescriptors, symbols, parsedFiles, warned, error,
                 response>>

\* The insertions, also after an error, and the response is written.
Insert ==
  /\ pc = "inserting" /\ pc' = "done"
  /\ \A k \in DOMAIN fileDescriptors : fileDescriptors[k].proto
  /\ response' = response \o VtkInserts \o ExternalInserts \o ResponseErrorInserts
  /\ UNCHANGED <<request, hash, i, fileDescriptors, symbols, parsedFiles, warned, error>>

Next ==
  \/ BuildFile \/ Fail \/ BuiltAll \/ AddRpcMessageExtensions \/ AddedAll
  \/ Generate \/ GenerateFails \/ Crash \/ GeneratedAll \/ Abort \/ Insert

Spec == Init /\ [][Next]_vars

-----------------------------------------------------------------------------
SameExtensionName ==
  \E m, n \in Methods : m # n /\ ToExtensionName(m) = ToExtensionName(n)

SameNumber ==
  \E file \in Range(request) : \E m, n \in Range(MethodsOf(file)) :
    m.full # n.full /\ GenerateExtensionNumber(hash[m.full]) = GenerateExtensionNumber(hash[n.full])

NameDeclared ==
  \E m \in Methods, direction \in {"request", "response"} : \E file \in Range(request) :
    ExtensionName(m, direction) \in file.declares

SameRpcName ==
  \E file, other \in Range(request) : file.services # <<>> /\
    \/ other.proto /\ other.name = RpcName(file)
    \/ other # file /\ other.services # <<>> /\ RpcName(other) = RpcName(file)

LiteServices == \E file \in Range(request) : file.services # <<>> /\ file.lite

\* What protoc accepts and the pool refuses of the _rpc files.
Clash == SameExtensionName \/ SameNumber \/ NameDeclared \/ SameRpcName \/ LiteServices

(* The plugin dies without a word only when an _rpc file cannot be built, for  *)
(* a clash that can be seen in the request (rpcplugin.cpp:525-527), or when a  *)
(* file is not named .proto (utilities.cpp:111); a number that protobuf        *)
(* refuses, which is never one past the maximum, is reported before            *)
(* (rpcplugin.cpp:107-131).                                                    *)
CrashExplained ==
  pc = "crashed" => warned \/ Clash \/ \E file \in Range(request) : ~file.proto

(* Scaling the checksum gives numbers from the least to the greatest, both     *)
(* included, though it counts the reserved numbers out and does not step over  *)
(* them (rpcplugin.cpp:107-131).                                               *)
NumbersInRange ==
  \A m \in Methods : GenerateExtensionNumber(hash[m]) \in MinNumber .. MaxNumber

\* No service is named like another, or like a file or its _rpc file.
ServicesApart ==
  \A k, l \in DOMAIN request : \A a \in DOMAIN request[k].services :
    /\ <<request[k].services[a].name>>
         \notin {request[l].name, Append(request[l].name, "_rpc")}
    /\ \A b \in DOMAIN request[l].services :
         request[k].services[a].name = request[l].services[b].name => k = l /\ a = b

\* The error holder of a type that is not one of the file with the service.
HolderOfImported(e) ==
  \E file \in Range(request) : \E m \in Range(MethodsOf(file)) :
    /\ m.output \notin Range(file.types) \cup {"Void"}
    /\ e = Insertion(ToHeader(file), ClassScope(m.output))

\* Types of VTK's file and external ones have holders of objects.
HoldsObject(t) ==
  \E file \in Range(request) : (file.name = VtkFile \/ file.external) /\ t \in Range(file.types)

Succeeded == pc = "done" /\ ~error

(* protoc rejects the response only for the error holder of an imported type,  *)
(* which goes to the header of the file with the service and not to that of    *)
(* the type (rpcplugin.cpp:465-481), or for a service with the name of a file: *)
(* every other insertion has its point in a file written before, and no file   *)
(* is written twice (rpcplugin.cpp:199-217, 219-244, 304-358, 535-541).        *)
ResponseAccepted ==
  Succeeded => \A k \in DOMAIN response :
    IF response[k].point = <<>>
    THEN ServicesApart => \A l \in 1 .. k - 1 :
           response[l].point = <<>> => response[l].file # response[k].file
    ELSE \/ HolderOfImported(response[k])
         \/ \E l \in 1 .. k - 1 : /\ response[l].file = response[k].file
                                  /\ response[k].point \in response[l].offers

(* Every response type has one holder, that of errors, whichever methods of    *)
(* whichever files return it: the generated reply() and handle() use it        *)
(* (rpcplugin.cpp:453-487, rpcgenerator.cpp:550-558, 841-842).  Only types of  *)
(* VTK or external ones have another m_holder in the same class.               *)
ErrorHoldersOnce ==
  Succeeded =>
    \A file \in Range(request) : \A m \in Range(MethodsOf(file)) :
      m.output # "Void" /\ ~HoldsObject(m.output) =>
        Cardinality({k \in DOMAIN response : response[k].point = ClassScope(m.output)}) = 1

=============================================================================
