# A verification development of ProtoCall

ProtoCall is an RPC framework over Protocol Buffers. A `protoc` plugin generates, for each
service of a `.proto` file, a proxy, a dispatcher, a response handler and an abstract service;
a small runtime moves the messages. This directory models both: *at run time* the channels, the
tables they keep, the generated code that drives them, the frames it puts on a connection and the
objects it owns; *at build time* the plugin's run, the numbers it gives to methods and how far the
pieces of code it writes fit together. Paths below are relative to `src/`; `rpcchannel.cpp` and its
neighbours are in `protocall/runtime/`, `rpcgenerator.cpp` and `rpcplugin.cpp` in
`protocall/plugin/`, `crc.hpp` in `thirdparty/boost/`.

## 1. Inventory

| Component | State | Operations | What makes it correct |
|---|---|---|---|
| **RpcChannel** (`rpcchannel.cpp`) | `m_currentRequestId`, `m_responseCallbacks` (id → response, handler, `done`) | `nextRequestId`, `registerResponseCallback`, `send`, `receive(bool)`, `handleMessage`, `handleRequest`, `handleResponse` | a response finds the entry of its own call; a callback runs at most once; the iterator kept across the callback stays valid; envelopes are freed once and not while in use |
| **Generated proxy** (`rpcgenerator.cpp:201-263`) | none of its own | one method per RPC: take an id, register a handler, send the envelope, then its objects | nothing is sent under an id without entry |
| **Generated dispatcher** (`:378-463`, `:515-592`) | the service pointer; a closure per request holds envelope, response and channel | `dispatch`, `reply`, `implements` | a request is served at most once, `reply` uses the id of its own request |
| **Generated handler** (`:787-871`) | none | `handle`: copy the response, read objects, run the callback | reads the objects the sender sent, in the order it sent them |
| **ServiceManager** (`servicemanager.cpp`) | `m_dispatcherMap` (method → dispatcher), one per process | `registerService`, `lookupServiceDispatcher` | each method is always routed to the same dispatcher |
| **vtkCommunicatorChannel** (`vtkcommunicatorchannel.cpp`) | the socket communicator | `send`/`receive` of envelopes, raw data, `vtkDataObject`, `vtkDataArray`; `select` | frames are read back with the tags and in the order they were sent |
| **zmqCommunicatorChannel** (`zmqcommunicatorchannel.cpp`) | socket, `m_sendIdentities` | `push_socket_identity`, `clear_socket_identities`, `send` and `receive` with up to five tries a frame; comparison of `socketIdentity` | the frames of one message stay together, a receiver that lost its place finds it again; identities are ordered and equal ones are one key |
| **Object holders** (`rpcplugin.cpp:219-403`) | object pointer, `m_owns` | `set`, `set_allocated`, `get`, destructor; used by the generated receive blocks | an object is deleted once, by its owner, and not before it is sent |
| **Server and client loops** (`examples/salutation/`) | service, dispatcher, channel of one connection on the stack of one round | accept, register, `while (receive())`; call and wait | a client that waits for its replies gets them; who gets another's reply, or waits, does so for a reason |
| **Extension numbers** (`rpcplugin.cpp:108-131`, `crc.hpp`) | `crc_table_t`'s table, the remainder | checksum of a method name, scaled into protobuf's extension range | one value however it is computed; a valid number |
| **Code generator** (`rpcgenerator.cpp`) | files being written | which declarations, cases, parameters and blocks are generated for which method | local variables and parameters are declared once and before their use; signatures and bodies agree; sender's and receiver's blocks agree |
| **Plugin driver** (`rpcplugin.cpp:489-544`) | descriptor pool, list of files, response | load, add extensions, generate, insert | insertions have a place, each response type one error holder; no crash without a reason in the request |
| Boost configuration headers, build files, hooks | none | | not modelled, section 6 |

How they interact. A proxy registers a handler in the channel and sends. On the other side the
program's loop calls `receive()`, which looks the method up in the `ServiceManager` and calls the
dispatcher, which reads objects *from the same channel* and calls the service. The service runs
`done`, at once or later, which replies on the channel. Back at the caller, `receive()` looks the
id up, calls the handler, which reads objects from the channel and runs the completion callback;
the callback is user code and may call proxies and `receive()` again. There are no threads: all
concurrency is between the two processes, and all re-entrancy comes through `receive()`. At build
time `protoc` starts the plugin with the parsed files; the plugin numbers the methods and calls
the two generators for each file.

Hard to test, and where the models aim (the list with lines is `hazards` in `PROJECT.json`):

* **re-entrancy**: `handleResponse` keeps a map iterator across a callback that may change the map;
* **order**: replies come back in the order services run `done`, objects carry no field number;
* **partial failure**: the connection fails between an envelope and its objects, an object cannot
  be read, a frame cannot be sent and the next one is, the pool refuses a file of extensions;
* **stale state**: a lookup stores NULL for ever; closures and the manager's pointers outlive the
  round of the server's loop that made them;
* **blocking**: both peers may be in a blocking `send()`; `receive(true)` blocks as well;
* **losing one's place**: a refused message, a NULL object or a missing spacer leaves sender and
  receiver with different ideas of what comes next;
* **ownership**: four steps of generated code get the owner of an object wrong by themselves; what
  they must not do is to reach another object;
* **boundaries**: a loop that looks one byte past an identity, the ends of the range of numbers, a
  code in a register that is wider than it.

## 2. Modules

| Module | What it is |
|---|---|
| `RpcContract` | abstract: what callers and services are promised, without ids, tables or messages |
| `RpcChannel` | two peers, their channels, managers, generated code and user code |
| `DispatcherMap` | the manager's table as a data structure, used by `ServiceManager`, `RpcChannel` and `Session` |
| `ServiceManager` | the manager with every order of registrations and lookups |
| `MessageStream` | abstract: what one direction of a connection promises |
| `VtkChannel` | one direction of a `vtkCommunicatorChannel`, frame by frame |
| `ZmqChannel` | one direction of a `zmqCommunicatorChannel`, frame by frame |
| `SocketIdentity` | the comparison of two socket identities, byte by byte |
| `Session` | a server process over one connection after another |
| `ObjectHolder` | who deletes the objects that generated messages point to |
| `CodeGen` | what `RpcGenerator` writes for a service, as items that must agree |
| `Crc` | the cyclic redundancy code of method names, in its three forms |
| `Plugin` | one run of the plugin's `main` |
| `MC*` | instances for TLC |
| `RpcChannelProofs`, `VtkChannelProofs`, `CodeGenProofs`, `PluginProofs`, `CrcProofs` | theorems about the module of that name |
| `ZmqChannelProofs` | theorems about `ZmqChannel` and `SocketIdentity` |
| `ServerProofs` | theorems about `ServiceManager`, `Session` and `ObjectHolder`, whose specifications have names of their own (`ManagerSpec`, `SessionSpec`, `HolderSpec`) so that one module can extend all three |
| `FlattenLemmas` | induction up to a bound, and what `FlattenSeq` does, for `CodeGenProofs`, `PluginProofs` and `CrcProofs` |

`RpcChannel` uses `DispatcherMap` and is shown to implement `RpcContract`; `VtkChannel` and
`ZmqChannel` are shown to implement `MessageStream`. The grain of `RpcChannel` is a message *with*
its objects, `whole` or not. `VtkChannel` justifies it for messages whose objects are all there:
what is handed over is whole, in order and its own, whatever is refused in between. Messages that
announce a NULL or an unserializable object are sent only in `VtkChannel`, where the disagreement
they cause is visible. `Session` looks at a server through the other end: one round of its loop is
a life of the server's half of `RpcChannel`, of which it keeps only what may outlive the round.

### RpcChannel and the code

State: `currentRequestId` and `responseCallbacks` are `m_currentRequestId` and
`m_responseCallbacks`; `dispatcherMap` is the manager of each process; `wire[p]` is what `p` has
sent and the other has not read; `mode[p]` says whether user code runs or `receive()` waits;
`stack[p]` are the services and callbacks being run, innermost last, and so the C++ stack of nested
`receive()` calls; `pending[p]` are the closures that were not run; `live[p]` the envelopes
`receive(bool)` allocated and nobody deleted. `issued`, `served`, `replied` and `completed` are
histories; messages carry the number of their call only for the properties, no guard reads it.

| Action | Code |
|---|---|
| `RegisterService` | `ServiceManager::registerService` |
| `ProxyCall`, `ProxyNotify` | a generated proxy method with, and one without, a reply |
| `EnterReceive` | the program calls `receive(nonBlocking)` |
| `RejectMessage` | `handleMessage` with no dispatcher, or no entry: `false`, envelope leaked, objects unread |
| `DispatchRequest`, `AbandonRequest` | `handleRequest` and `dispatch`, up to the service; or up to an object that cannot be read |
| `RunCallback`, `AbandonResponse` | `handleResponse` up to the callback; or through a handler that cannot read an object |
| `ReceiveDebris`, `ReceiveFails` | `receive()` meets an object, or a closed connection |
| `ReturnService`, `ReturnCallback` | the rest of `handleRequest`, `handleResponse` when user code returns |
| `Reply` | a `done` closure: the generated `reply` |
| `Break`, `LoseMessage`, `LoseObjects` | TCP: after a failure a suffix of what was sent may be missing |

Abstractions. Request data, response data, `errorcode` and `errorstring` are not modelled. The
`uint64` request id is bounded by `MaxCalls` and never wraps. The objects left by a refused
message are one "debris" message; receiving it fails once, where the code fails once per frame.
A failed `send()` leaves nothing on the wire; what was half sent is a sent message of which
`LoseObjects` takes the objects. One-way methods are those from `Void` to `Void`: a proxy method
with an input and no output passes an undeclared `output` to `registerResponseCallback`
(`rpcgenerator.cpp:241`) and does not compile, so no program runs one (`CodeGen!LocalErrorsKnown`).

### DispatcherMap, ServiceManager and the code

`Absent` is a key the `std::map` does not hold, `Null` one it holds with a NULL pointer: `operator[]`
(`AfterLookup`) turns the first into the second, `insert` (`Registered`) replaces only the first.
Each operation is one action; `log` is a history of events with their answers.

### VtkChannel and the code

`outgoing` is the frame the running proxy or `reply` sends next, `buffer` holds those on the
connection, `expected` is the tag and the field of the frame the running `receive()` reads next,
`reading` the message whose envelope it read and `got` the objects it has. What is sent follows from
the shape of the message: `FrameAfter` is the size and data of the envelope, then VTK objects, then
external ones (`SentBefore`), of `SentFields` only: each if its pointer is set, up to the first that
fails to serialize. What is received is one object per field that is *present* (`LeftToReceive`), in
the order of the generated receive blocks (`ReceivedBefore`); `GoOn` expects the next or hands the
message over. Reading a frame with another tag consumes it and fails, as in VTK; bytes of an
external object never parse as an envelope, bytes of an envelope may be refused or accepted by a
user's deserializer.

### ZmqChannel, SocketIdentity and the code

`send()` is a sequence of frames in `outbox`, the identities, the spacer and the data, each tried
by an action of its own: `AcceptFrame` and `AcceptData` when ZeroMQ takes it, `SkipFrame` when
five tries fail and the result is ignored (`zmqcommunicatorchannel.cpp:164`), `SendFails` when it
is the data. `part` are the accepted frames of a message that is not complete, `pipe` the complete
messages. `receive()` is at `"spacer"` or at `"data"` and takes whatever frame is next in `inbox`;
`ReadIntoGarbage` is the receive of an object into a `zmq_msg_t` that was not initialized, whose
outcome the build decides. `setting` holds what a program uses the channel with and never changes.
ZeroMQ is external: messages arrive whole and in order or not at all, a full pipe refuses the first
frame of a message and never a later one, a router drops what does not start with an identity.
`fresh` is a history of the envelopes that came whole to a receiver with nothing to do.

`SocketIdentity` is the loop of `operator<` with the order of its tests: a byte is compared before
the index is tested, so the bytes from `size` on, which nobody wrote, are part of the state and
may be anything. Equality is one operator.

### Session and the code

`round` counts the server's `while(true)`; `Accept` is the code from `WaitForConnection()` to
`registerService()` (`server.cpp:21-29`); `ReceiveRequest`, `DropRequest`, `RejectRequest`,
`ReceiveFails` and `RefuseBytes` are the outcomes of `channel.receive()` on line 31, `EndRound` is the
end of the block, which destroys channel, service and dispatcher. `DropRequest` is `dispatch()`
returning without calling the service, because an object of the request did not come or was refused
(`rpcgenerator.cpp:403-410`, `:1046`), while `receive()` returns true and the connection stays open;
it concerns methods `WithObjects`, and after it every request of the connection, which may be read
as an object (`OutOfStep`) or refused as bytes that are no message (`RefuseBytes`). `Slot` gives the
address the objects of each round have, `Alive` says whether an object is there: the manager's
pointer to the dispatcher of the first round works in later ones because it is the same place of the
stack. `Keeps` says where services keep closures they have not run: nowhere, in the service (and so
no longer than a round) or elsewhere, the case that is run: such a closure replies on whatever
channel is at the address of its own, which is that of the next client. Calls carry ids that every
client counts from 1, so that a client may take such a reply for its own (`Reply`). `outlived`,
`unserved` and `replies` are histories: closures kept past their connection, requests dropped, and
what reached the clients, who took it or, finding no entry, did not.

### ObjectHolder and the code

`refs` is the reference count of an object, `holder` the `m_object` and `m_owns` of the holder in
the request, the reply and the response a process has at a time, `user` the references user code
has not given away. `Set` and `SetAllocated` are the generated methods (`rpcplugin.cpp:274-276`),
`Owned` is the destructor, `Receives*` and `Fails*` the branches of the generated receive blocks
with an empty and with a set holder. `stage` follows a served request: the request is deleted with
the reply after `reply()` has sent both (`rpcgenerator.cpp:565-577`). `slipped` is a history of the
objects whose count one step gets wrong for itself; no guard reads it.

### CodeGen, Crc, Plugin and the code

`CodeGen` keeps of generated text the items that other items depend on: declarations and uses of
variables with their scope, cases, parameters and arguments, registrations, closures, objects sent
and received. Each generating function is an operator of the same name, `Generate()` calls them
file by file. `Crc` keeps values as sets of the positions of their one bits, so that `^` is the
symmetric difference: `ProcessBits` is `crc_basic`, `Table` with `OptimalByte` is
`crc_table_t` with `crc_optimal` as the plugin uses it, `AugmentedByte` a round of `augmented_crc`;
one action feeds the same byte to all of them and to a second `crc_optimal` a different one.
`Plugin` follows `main` through `pc`: `BuildFile` and `Fail`, `AddRpcMessageExtensions` for each
file, `Generate`, `GenerateFails` or `Crash` for each, `Insert` for all insertions at the end, which
`main` makes also after an error, or `Abort` when `toHeader()` throws for a file name without
`.proto` (`utilities.cpp:109-114`). A file has a `name` in front of `.proto`, `types`, `services` and
what else it `declares`, and may be `lite` or `external`. `Refused` is when protobuf's pool returns
NULL for an `_rpc` file: a reserved or foreign number, a number used twice for one message in a
file, an extension name that is taken by another extension or by a declaration, the name of a file
that is there, extensions of `rpc.Request` or `rpc.Response` for the lite runtime. Extensions carry
no package, as ProtoCall allows none (`README.md:39`); types are in the pool, since protoc has built
the files; numbers that two *files* use for one message are not refused by a pool, and are not here.
protoc rejects insertions without a place and files written twice. Numbers are scaled without the
rounding of the double. `RequestAssumption` is what protoc has checked when it starts the plugin:
names of files, of types and of methods are not used twice.

## 3. Runs

| Run | Instance | Shows |
|---|---|---|
| `rpc_calls` | both peers call and serve, methods with an object and one-way, 2 dispatchers, 2 calls each, 2 outstanding, 3 nested `receive()`, connection may fail, services may defer | responses find their calls; calls run at most once; iterators and envelopes stay valid under nesting; what is leaked and what is not; the inductive invariant; the contract |
| `rpc_request_reply` | the example client: 3 calls, 1 outstanding, `send()` blocks at once, services reply before they return, blocking and polling receives | no two peers stuck in `send()`; every call to a registered method completes |
| `svc_manager` | 3 methods, 3 dispatchers that overlap, 5 events | the first event about a method decides |
| `vtk_stream` | 6 shapes of messages of which 3 lack an object, 3 messages, buffer of 2 frames, refusals and failures | messages are handed over once and in order, complete ones with exactly their own objects; one that is overtaken was refused, lacks objects, or comes at most as many messages after one that does as that one lacks; on a healthy connection all others arrive |
| `vtk_null` | the same shapes, 2 messages, no refusals, no failures | where the code disagrees with its comments, section 4 |
| `zmq_stream` | with and without a spacer, 0 to 2 routers, an object, loss, polling; 3 messages, pipe of 1 | envelopes are dispatched in order and at most once; a whole one that reaches an idle receiver is dispatched; behind routers each accepted one is |
| `zmq_identity` | all pairs of identities of up to 2 bytes of 3 values, with all bytes behind them | `operator<` is the order meant and agrees with `operator==` |
| `session_rounds` | 2 rounds, 2 calls a client, a method with objects, one nobody implements, closures kept past their connection | a client gets another's reply only from a kept closure, and refuses an answer of its own only after taking one; on an open connection it waits only for a closure its service keeps or after a request was dropped with its objects; the next client is served |
| `object_holder` | 4 objects, all orders of setting, giving away, receiving, failing and passing on | each reference is given back once but for objects a step miscounts itself; nothing deleted is sent |
| `codegen_agree` | every service of 1 or 2 methods over five types | which uses and declarations of local variables and parameters do not compile, exactly; each call gets its reply; objects and arguments in order |
| `crc_wide` | 4-bit code, bytes of 2 bits, registers of 5, 3 polynomials, all reflections | the three forms agree; near names differ |
| `plugin_run` | 13 requests of up to 3 files, with names taken in each of the ways the pool knows, types of imported files and a file not called `.proto`; numbers 2 to 13 with 5 and 6 reserved, 7 checksums | numbers in range; insertions placed but for the error holder of an imported type; one error holder for each response type; a crash has its reason in the request, or in a number that was reported |

Bounds. *Calls*: two each, with three nested receives, are the fewest with a callback inside a
callback inside a receive, with a reply that overtakes another and with a call made from a
callback; ids are never reused, so more calls only repeat these situations, and the theorems of
section 5 hold for every bound. `WireCap` 0 is the hardest value for blocking. *Frames*: three
messages let a refused or lacking one be followed by its victim and by one that shows recovery; a
message has up to six frames, so the buffer of two always fills. The shapes have each kind of
frame and two of one kind. VTK and external fields are never in one message, because code
generated to receive one does not compile. One ZeroMQ message of room makes every later one meet
a full pipe; two routers let identities be pushed, cleared and left out separately. *Identities*: two
bytes have a first, a last and one behind; three values are negative, zero and positive. *Rounds*:
two, a closure's own and a later one, with two calls each, so that ids of two clients are equal or
not and an answer may follow one that was taken in its place. *Objects*: one for each message and one of
the user's. *Services*: two methods, since the items of methods only meet by their cases. *Names*:
the window in which two names differ is as wide as the code, four bits and so two bytes. *Numbers*:
checksums at both ends, around the reserved numbers and at the maximum.

Deadlock is checked where a system never stops (`crc_wide`). Elsewhere counters are bounded or the
program ends, so runs end when calls, messages or files are used up; the deadlock that matters, both
peers in `send()`, is the invariant `NoSendDeadlock`, and waiting for ever is excluded by the
liveness properties. `NoSendDeadlock` is stated for programs that wait for each reply. Pipelined and
one-way calls *can* bring both peers there; the code does not exclude it and the docs do not
promise otherwise, so it is not a finding.

Fairness. `README.md:263-265` asks programs to call `receive()` in their event loop, whatever it
returned before. (The example's loop, `examples/salutation/server/server.cpp:31`, stops at the
first false; that loop is `Session`.) Hence weak fairness of
`EnterReceive` and `Receive` in `RpcChannel`. Services and callbacks that return, and services that
run `done`, are the obligation of users (`examples/salutation/server/service.cpp`): weak fairness of
`ReturnService`, `ReturnCallback`, `Reply`. No call and no failure is fair. `VtkChannel` has the
same: a sender goes on sending the frames of a message, a receiver goes on receiving, also after a
receive that failed; a program that stops at the first one gets nothing more. `ZmqChannel`
adds that a message on its way arrives or is lost. In `Session` the server's own steps are fair, a
loop without any other exit; clients are not: they may stay connected and silent.

## 4. Where code and text disagree

`vtk_null` is the one disagreement with a run of its own: `rpcgenerator.cpp:403` and `:407` say the
dispatcher reads objects "that might be on the wire". It reads one for every present field, also
when the sender skipped it because it is NULL (`:651`, `:924`) or stopped before it (`:933`), and
then hands the next message's envelope to a deserializer. `LossExplained`, `AllDelivered` and
`StreamSpec` of `vtk_stream` say how far the damage goes.

The others are part of what the models do, and properties of passing runs say how far they reach:

* `rpcchannel.cpp:123` says "handle will take ownership of the message". One-way requests and
  requests that no service was given are never deleted; `LeaksExplained` shows that nothing else
  is lost.
* `README.md:263-265` says `receive(true)` selects and returns. It ignores its argument and blocks
  (`vtkcommunicatorchannel.cpp:196`, `rpcchannel.cpp:115`); `EnterReceive` waits for both values.
* `README.md:257` says registration lets a service be used. After one early request it has no effect
  (`servicemanager.cpp:38`, `:46`); `FirstEventDecides` says so.
* `zmqcommunicatorchannel.h:28-33` lists the frames of a message, `:42` says a header is removed if
  there is one. Identities and spacer are left out when the pipe is full (`.cpp:164`), and what
  comes first is taken for the header whatever it is (`.cpp:227`); `EnvelopeStream`, `BackInStep`
  and `WholeDispatched` say what still holds.
* `README.md:212` lets a service run `done` when it likes. A closure that outlives its connection
  replies to the next client or on a destroyed channel (`servicedispatcher.h:32`), and the client
  may take the reply for an answer to its own call, whose id is equal; `AnswersExplained` says that
  nothing else does this, and what it costs.
* `README.md:480` offers `set_allocated()` to hand objects over. A later `set()` leaves `m_owns` as
  it was (`rpcplugin.cpp:274`), and a failed receive deletes an object that was there before
  (`rpcgenerator.cpp:713`); `CountsExact` names the objects concerned and excludes all others.
* `README.md:131` has notifications with an input and no output. Their proxy does not compile
  (`rpcgenerator.cpp:241`), nor does code that receives a message with VTK and external objects
  (`tmp` is declared at `:730` and at `:1068`); `LocalErrorsKnown` shows that these are the only
  faults *of local variables and parameters*. Three that it is not about, as `CodeGen` has neither
  includes nor members: a proxy that sends an external object uses a `<T>Serializer` (`:927`) which its
  file does not include (`:212-215`), a dispatcher that receives one uses a `<T>Deserializer` (`:1041`)
  and includes serializers (`:492`), and blocks for repeated object fields call a `has_x()` that
  protobuf does not generate (`:644`, `:917`).
* `rpcplugin.cpp:525-527` pushes what `BuildFile` returns on the list of files to generate. It is NULL
  for requests that protoc accepts; `CrashExplained` lists them. A type of an imported file that a
  method returns gets its error holder in the header of the wrong file (`rpcplugin.cpp:465-481`);
  `ResponseAccepted` says that no other insertion lacks its place.

## 5. Theorems

The proofs assume the named assumptions on the constants (`ChannelAssumption`,
`DispatcherAssumption`, `ManagerAssumption`, `IdentityAssumption`, `SessionAssumption`,
`HolderAssumption`, `StreamAssumption`, `ZmqAssumption`, `ServiceAssumption`, `NumberAssumption`,
`RequestAssumption`, `WidthAssumption`: peers differ, NULL is no dispatcher or object, buffers hold
something, bounds are natural numbers, services are sequences of methods and messages of fields,
reserved numbers lie between the others, protoc has built the files, a register holds a code and a
byte), which TLC evaluates in every run, and, for `NoSendDeadlock` only, a
discipline of the programs (`RequestReply`) that is written in the theorem.

* `RpcChannelProofs!Typing`: `Spec => []TypeOK`. One lemma per action. The request id stays in
  `Ids` because it never exceeds `issued`, so the induction is on `TypeOK /\ IdsTaken`.
* `RpcChannelProofs!CallsConsistent`: `Spec => []CallInv`. None of the properties is inductive: that
  a response finds its call needs that its closure's entry was there when it was sent, which needs
  the same of its request on the wire, that ids are fresh, and that no second response or callback
  of that call is about to erase the entry. `CallInv` says for each place a call can be in
  (request on the wire, closure, response on the wire, callback on the stack) what it knows about
  the table and the counters, and that no call is in one of the last three twice. The steps which only
  take things away from the wire (losses, refusals, debris) are handled together by a lemma on
  *thinner* wires, those that have an order-preserving map into the old one.
  From it: `CallsAtMostOnce`, `ResponsesFindTheirCalls`, `IteratorsStayValid`, `EnvelopesStayLive`.
* `RpcChannelProofs!ServedCallsLeakNothing`: `LeaksExplained`. `LeakInv` adds why a request that no
  service was given never will be: neither its call nor an earlier one is on the wire any more.
* `RpcChannelProofs!ContractKept`: `Spec => ContractSpec`, by showing with `CallInv` that each
  step is an `Issue`, an `Execute`, a `Complete` or a stutter of `RpcContract`.
* `RpcChannelProofs!RequestReplyDeadlockFree`: `NoSendDeadlock` for every capacity of the wire,
  under `RequestReply`: one program calls, has one call outstanding and makes no one-way calls. The
  strengthening is `OneCall`: while the connection is up, one outstanding call means at most one
  message, which is a request, a reply or what is left of one, on both wires and among the
  closures together, none while no call waits, and none while a callback runs.
* `ServerProofs!RoutingDecidedOnce`, `TableStaysRight`: `FirstEventDecides` and
  `TableAgrees` for any methods, dispatchers and number of events.
* `ZmqChannelProofs!ComparisonRight`, `KeysAreIdentities`, `LoopStaysRight`: for identities of any
  length and any bytes behind them. `LoopInv` says what the loop has seen: equal sizes, equal bytes up
  to the index, and a difference where it stopped inside. `Irreflexive`, `Transitive` and
  `Trichotomy` show that the order meant is strict and total.
* `ServerProofs!RepliesExplained`: `AnswersExplained` for any number of rounds, calls and methods, any
  addresses, and wherever services keep closures. `RoundInv` adds to it that what is on the wire are
  calls of the client of the round with consecutive ids (`WireInv`), that what runs is one of its calls
  (`RunningInv`), that a kept closure has the address of its own round's channel and is of this round
  or among those that outlived theirs (`KeptInv`), and that no call that was replied to runs or is kept
  (`RepliesInv`): so a reply that its own client refuses was preceded by one with its id that is not
  its own.
* `ServerProofs!OwnershipExact`, `SendsLiveObjects`: `CountsExact` and `NothingDeletedIsSent`
  for any number of objects. `HolderInv` adds to the counts what they rest on: an owning holder has
  an object, a served request owns its own, and what a holder does not own belongs to the request
  or to the user.
* `VtkChannelProofs!VtkTyping`, `LossesExplained`, `VtkKeepsPromise`: `TypeOK`, `LossExplained` and
  `Spec => StreamSpec` for any shapes of messages, with any number of fields that lack their
  objects, any number of messages and any buffer. `StreamInv` says that what has been sent is one
  chain: from any frame on the connection the rest of the stream follows, so the frame that comes
  next is all there is to know about the sender. `ReceiverInv` relates the receiver to that frame:
  `PairInv`, sizes and data are read in pairs; `StepInv`, a message that lacks nothing is read in
  step, and for one that does a count, that the objects still wanted and the messages already read
  are no more than the objects it lacks and those of its own that still come; `PassedInv`, every
  message before that frame is being read or accounted for. The order of the fields of a message is
  shown to be total, and its least element, which `CHOOSE` takes, to be unique, by well-founded
  induction.
* `ZmqChannelProofs!ZmqTyping`, `EnvelopesKeepOrder`, `FreshNotOvertaken`: `TypeOK`, `EnvelopeStream`
  and `BackInStep` for any identities, routers, objects, messages and high water mark. `OrderInv`
  says of every place frames are in (inbox, pipe, part of a message, outbox) that its envelopes come
  after those of the place before it and after all that were dispatched, and that data ends a
  message. `StepInv` says that a fresh envelope that was not dispatched is exactly the data that
  `receive()` reads next.
* `CodeGenProofs!CallsReturn`, `SameObjects`, `ArgumentsFit`: `EveryCallReturns`, `ObjectsAgree` and
  `ArgumentsMatch` for services of any number of methods, each over any messages with any fields.
  `GenInv` says that every file written so far is the text for the service, and what remains is
  about that text. It is put together with `FlattenSeq`, whose recursion is met in `FlattenLemmas` by an
  induction on a set of lengths (`Induction`, from the well-foundedness of `<`): what it does to one
  sequence among empty ones, to single elements, to two sequences joined, and (`FlattenPlaces`) which
  element of which sequence is found at a place of the result.
  `NamesOf` carries over from pieces of text to the whole (`NamesConcat`, `NamesFlatten`).
  `Confined` text has items of a few kinds only, in the scope of its method, so other methods and
  other pieces say nothing there (`NoNames`); the block and method lemmas (`SentVtk` to
  `DispatchText`) say what each generating function adds.
* `CodeGenProofs!LocalFaultsKnown`: `LocalErrorsKnown`, likewise for every service; it is about local
  variables and parameters, not about includes, classes and members (section 4). What the compiler says of an
  item depends on everything declared before it, so the lemmas are about pieces of text between two
  sets of states, `Checks(text, A, B, faults)`: whatever of `A` is declared before the text, the compiler
  rejects just these items of it, and what is declared after it is in `B`. Texts in sequence are put
  together as steps of a program are (`ChecksBoth`, `ChainChecks`). `Ready` is the state in front of a
  piece of method `j`: the parameters of the function, what the method has declared so far, the fields
  it has had, and anything in the scopes of methods before it, none of which is seen or redeclared
  (`Visibility`, `NextMethod`). The blocks for a field only declare in the scope of that field
  (`Tidy`). A use that nothing declares adds a fault in `ProxyChecks` (`output`), a second declaration in
  `ReceivedChecks` (`tmp`), and there is no other piece that adds one; `ErrorsAre` says that the faults
  of the texts are what `Errors` finds in the files.
* `PluginProofs!CrashHasReason`, `NumbersStayInRange`, `ResponseIsAccepted`, `EachTypeHasErrors`:
  `CrashExplained`, `NumbersInRange`, `ResponseAccepted` and `ErrorHoldersOnce` for any requests that
  protoc has built, any checksums and any range of numbers. `NamesInv` says of every name in the pool
  that a file declares it or which method of a file already passed it is from, and of every NULL among
  the parsed files that the plugin has reported a number by then or the request has a `Clash`: the text
  of an extension's name determines the name of its method and its ending, so a name is only taken
  when a file declares it or two methods agree in it; each other way to be refused is one of the other
  clashes (`RefusalExplained`). `ParsedInv` says that the parsed files are those of the request and
  after them `_rpc` files, no two with one name because the pool refuses the second, `ResponseInv` that
  the response so far is what the files before `i` write, one after the other. From there the argument
  is about one file at a time: what two files write has different names unless a service is named like
  one (`ServicesApart`), each insertion is in a header that was written and offers its place unless it
  is of a type that the file does not have (`HolderOfImported`), and of the insertions at one point the
  one with the least index stays (`Least`), which is at most one and, for a type that a method returns,
  at least one; the holders of objects (`HoldsObject`) are for types of other files.

* `CrcProofs!TableIsBitwise`, `NearNames`, `AugmentedIsPlain`: `ChecksumsAgree`, `NearNamesDiffer` and
  `AugmentedAgrees` for codes and bytes of any width, in registers of any width that holds them, for
  any polynomials, initial and final values and reflections (`AugmentedAgrees` for codes of whole
  bytes, which can be followed by whole zero bytes). `Fed` feeds `n` bits to a register, and the
  lemmas about it are its algebra, each by an induction on bits: it is linear (`FedDiffers`), `n`
  bits and then `m` are `n + m` bits (`FedJoins`), what a register holds above can be fed together
  with the bits, which is the trick of the table (`FedShifts`), and a polynomial with a constant term
  loses nothing (`FedNonzero`). `AgreeInv` says that the optimal remainder, reflected if the code is,
  has the bits of the bitwise one; only those of the code count, what is above in a wider register
  is never looked at. `NearInv` says that in the window the difference of two names is what their
  different bits leave in an empty register, which cannot vanish while they are no more than the
  code has, and that afterwards it is a difference that equal bytes keep. `AugmentedInv` says that the
  augmented remainder lacks as many zero bits as the code has.

Only model-checked:

* liveness (`BoundCallsComplete`, `AllDelivered`, `FreshDispatched`, `WholeDispatched`,
  `WaitsExplained`, `NextClientServed`), which needs `ENABLED`.

## 6. Not modelled

* *Boost's configuration, integer and type headers* (`thirdparty/boost/`, all but `crc.hpp`):
  preprocessor switches and typedefs for compilers and platforms, without state or behaviour. They
  are about two thirds of the lines of the repository, so that the share of lines that any model
  of it stands for is small. Of `crc.hpp`, accessors that return a member and work-arounds for
  old compilers are left out.
* *The text of generated code* apart from the items of `CodeGen`: includes, namespaces, class
  definitions and members, C++ types, comments, indentation. `CodeGen` judges the declarations and uses
  of local variables and parameters, not types; section 4 names the faults we know of in the rest.
* *protobuf, ZeroMQ and VTK themselves*: modelled by what the channels rely on. Request and response
  data, `errorcode` and `errorstring` are copied by the code and read by nobody in it.
* *`select()`* of `vtkCommunicatorChannel`: nothing in the repository calls it. With `receive(true)`
  it shares the hazard of a program that waits when it meant to poll, which no property covers:
  blocking is what the code does whatever the argument.
* *A service that uses its input after `done->Run()`*, which frees it (`rpcgenerator.cpp:566`): what
  services do with their input is not part of the program.
* *The rounding of the double* in `generateExtensionNumber`: TLC has no floating point. The scaling
  is by exact division, which can differ from the code's at a boundary between two numbers.
* *`VtkChannel` under `RpcChannel`*: the two meet in the grain of messages described in section 2. A
  composition frame by frame would show `send()` blocking between an envelope and its objects, which
  `vtk_stream` shows for one direction.
* *Build files and Git hooks*: no part of the program.
