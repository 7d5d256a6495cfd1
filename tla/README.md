# Verification of open62541-lua

TLA+ modules about the Lua binding of open62541: what its threads, connections, buffers and
caches do over time, model-checked with TLC on small instances and, for the connection
supervision, the pacing and the memory of the cyclic I/O, the type definitions, the serializer, the subscriptions of a
client, the node references and paths and the callbacks of a server, proved with TLAPS for all values of the constants. All definitions are read off the sources; `PROJECT.json` maps each to its lines.

## 1. The system

| Component | State it keeps | Operations | Talks to |
|---|---|---|---|
| Cyclic I/O thread, connection (`TOpcUA_IOThread::StateMachine`, `Execute`, `Init`) | `_state`, `_lasterr`, `_client`, `_connectRetries`, `_stateTicker` | one case per state: create client, connect, resolve nodes, first cycle, cyclic exchange, disconnect, wait, back off, drop client | open62541 client (blocking calls, `run_iterate`), Lua object (start, close) |
| Cyclic I/O thread, process image (`readwriteCyclic`, `SetOutputs`, `GetInputs`, `GetOutputs`, `initCyclicInfo`) | `_varWr`, `_varRd`, `varInitVal` of `_wr`, `_rd`, `_wrStatus`, `_rdStatus`, `_cs` | exchange by the thread, set and get by Lua | shared memory under a critical section, except where it is not held |
| Cyclic I/O thread, pacing (wait loop of case 30) | `_tLastRW`, `tEndTime` | exchange, poll and sleep | `GetTickCount` |
| Cyclic I/O type definitions (`readStructureDefinition`) | `SymbolDef` of `_wr`, `_rd`, `_typeDB` | read at connect; read by Lua for every (de)serialisation | server, Lua, without a lock |
| `UA_Client_CyclicIO` | `_ioThread`, `_params` | `start`, `getState`, `getInputs(Raw)`, `setOutputs(Raw)`, `getOutputs`, destructor | the thread |
| I/O thread parameters | certificates, time-outs | `UpdateConfig` | files; its status is ignored by the caller |
| Serializer | the Lua stack, a byte buffer | `Serialize`, `Deserialize`, `Dump` | type database |
| Type database (`TypeDB`, `TypeNode`) | `_types`, `_vars` | find (inserts), has, add, clear | serializer, client |
| Client proxy, type cache (`ClientNodeMgr`) | `_db` | `readStructureDefinition`, encode, decode, dump | server, nodes |
| Client proxy, subscriptions (`UA_Client_Proxy`) | `_subCallbackMap`, `_stateCallback` | create, subscribe, notification callbacks, `run_iterate`, destructor | library callbacks into Lua |
| Server proxy | `_running`, `_callbacks`, `_method_callbacks`, node contexts | run, startup, run_once, shutdown, add callbacks, destructor | library callbacks into Lua |
| Node objects | ids | browse, find children by name, add, delete, attributes | managers of client and server |
| Pass-throughs, value types, enumerations, DLL entry | none, or one flag | one library call each | |

What is hard in it: the Lua thread and the I/O thread share the process image and the type
definitions; the library reports a failure on some later call, and lets a disconnect finish in
later polls; a failure may hit every state; every pause is a difference of a tick count that
wraps; the closing of the Lua object and the unloading of the DLL can fall into any state; two
nodes are resolved one after the other and either may fail; buffers are shared by plain
assignment. What makes each part correct is listed, hazard by hazard, in `PROJECT.json`.

## 2. Modules

### CyclicIO: the connection state machine

One pass of `StateMachine` is two steps: `Poll` (the loop condition of `Execute` and the
`UA_Client_run_iterate` in front of the switch) and the action of the case `_state` selects. `thread`
says which of the two is next, or that the thread is in the loop of case 30 that waits for the end of the cycle, whose rounds are
steps of their own (`AwaitCycle`): the loop looks at the status of its polls and at the tick count, but not at `Terminated`. The actions:

| Action | Code |
|---|---|
| `Poll`, `EndThread`, `Idle` | `Execute` 80-90, `StateMachine` 129-137, case 0 |
| `CreateClient`, `Connect` | cases 1 and 10, `InitClientConfig` |
| `ResolveNodes`, `FirstCycle`, `CyclicExchange`, `AwaitCycle` | cases 20, 21, 30 and the `do ... while` in it |
| `Disconnect`, `AwaitClosed`, `Backoff`, `DropClient` | cases 99, 900, 910, 920 |
| `Start`, `CloseResume`, `CloseTerminate`, `CloseWaited` | `UA_Client_CyclicIO::start` and destructor |
| `DllUnload` | `DllEntryPoint`, `DLL_PROCESS_DETACH` |
| `LoseConnection`, `Stabilise`, `TimePasses` | the network and the clock (external) |

Abstractions. A status code is one of the three classes the code tells apart: GOOD, severe (the top
bit), or neither ("uncertain"). The members the constructor does not set start as zero, as the
memory of every VCL object does. The open62541 client is external: a service fails if the session is not
open or the connection is lost, otherwise it may return anything until the network is declared
`stable`; a failed connect may leave a channel open; a disconnect may need later polls; after a
lost connection only a new client works (the comment at `OpcUA_IOThread.cpp:335`). `resolved`,
`severe` and `paused` are history variables.

`ConnectionSupervisor` is what the thread promises, without state numbers: one connection at a time, an
exchange only when every node was prepared over it, a retry only when nothing of the failed
connection is left. `CyclicIO` implements it (`ImplementsSupervisor`; the mapping is `Phase`, "channel or
session not closed", and `resolved`).

### ProcessImage: the memory the two threads share

`_varWr` and `_varRd` are two words each (length, pointer), because case 20 assigns them word by word
outside the critical section while Lua copies them inside it. Buffers are explicit, so that
double frees, uses after a free and leaks are states. `io` is the thread's next access to shared memory
(`AssignWord`, `CheckOutputs`, `CopyOutputs`, ...), `outputs` what was last put into the outputs by Lua or by case 20, which replaces what Lua had set before the
connection was lost by the value it read from the server; `ImageHoldsOutputs` therefore says that outputs survive a failure and the time offline, and not that they
survive the next connect; `SetOutputs` is two steps, since its clear and its copy
are two, with the section held in between. `Gated` tells whether Lua calls only while `getState()` is true;
nothing in the code forces it to. Where a gated Lua is modelled, a call is assumed to end within the pause of at least a second before
a reconnect (the guard of `Reconnect`). `_wrStatus` and `_rdStatus`, which Lua only receives as the last
status, are left out. A read that is GOOD but no byte string is an error of the read.

### CyclePacing: the wait loop

Case 30 in unsigned tick arithmetic: `tEndTime`, the poll time as the signed reading of a DWORD
difference, the poll and the sleep, the comparison that ends the loop. The exchange may be longer than the cycle; `took` remembers how long it was. The loop's exit on an error
is in `CyclicIO`, whose `AwaitCycle` leaves the length of a round open.

### TypeDefinitions, Serializer, ExtensionObjects: structured values

`TypeDefinitions` is the walk over the definitions of structured types, one network read per structure.
`ClientNodeMgr::readStructureDefinition` and `TOpcUA_IOThread::readStructureDefinition` are the same recursion
around different stores, so one model serves both and `reader` says which of the two a behaviour
follows.

| State, action | Code |
|---|---|
| `types` | `_db._types`, by name of the type; nothing ever clears it |
| `symDef` | `SymbolDef` of `_wr`, `_rd` |
| `stack`, `call` | the frames of the recursion (type, name looked up, `TypeNode` so far, loop index) and what the outermost call returned |
| `Resolve`, `InitCyclic` | `UA_Node::resolveExtensionObjectType`, `initCyclicInfo` |
| `FindKnown`, `ReadDefinition`, `AddChild`, `Recurse`, `RejectField`, `Add`, `AssignSymbolDef` | the look into the cache, the read, the branches of the loop over the fields, the end |
| `EnterCyclic`, `LeaveCyclic` | case 20 goes on whatever the read returned; case 30 is left on an error |
| `PlcDownload`, `Connect`, `LoseConnection` | the PLC and the network (external): the program changes only while there is no connection |

A nested structure is looked up under the name of its field and stored under the name of its type. With field names and
type ids apart (`DefinitionsAssumption`: the ids of the types a PLC serves are strings such as `DT_"Motor"`) the cache
therefore never answers inside the recursion, and `CachedTypesAreWhole` says that this is what keeps the trees of two
programs apart: the mutant `RecurseByType`, the lookup one would expect, mixes them. The cache itself may be *old*: no code
clears `_db`, so after a download the tree is still the one of the program it was read under. `origin` remembers
that program.

`Serializer` has the two walks over a tree, `Deserialize` over the octets of a body and `Serialize` over the
Lua stack, octet by octet, because the property is about the octets. The recursion over nested structures is a function on
trees (`DeserWalk`, `SerWalk`), whose domain `Trees` the instance names; a tree is walked without its name (`Unnamed`), since the walk does not look at
it. A loop of the code is the sequence of its rounds, each a function of what the round before left, and `After` what the first i of them make
of the start: `Stations` are the addresses the items of a body begin at, `DeserStruct` and `SerStruct` the loops over the
children, `DeserArray` and `SerArray` those over elements. Reading behind the end of a body ends the walk at the address
`Over`, a Lua error is `raised`. `ExtensionObjects` composes both with the reader: `DecodeExtensionObject` and
`EncodeExtensionObject` on the cache, `GetInputs` and `SetOutputs` on `SymbolDef`. The reference they are compared
with, `RefBody`, is the OPC UA binary encoding from the definition, without a tree: in a structure with optional fields the mask has a bit for each *optional* field
that is there (`BitOf`, `MaskOf`), and a field that is not there has no octets. `Encoding` has it for every type, a nested structure's taken from its own
entry (`EncodingAssumption`). `Supported` lists the types the serializer cannot handle (unions, arrays of structures, structures without fields, mandatory fields in a structure with optional ones or more
than 30 of these, arrays without a size), `Fits` that the tree is that of the program the body belongs to.

`Sample` are the values the server may send, `Tables` the tables Lua may encode; `ValuesAssumption` says that numbers fit into their octets, that text and array lengths fit
into 31 bits, that a value has the Lua type of its field where a field is there, and that a value of the server has its mandatory fields. Optional fields may be omitted, and are in the
instance. The code does not handle these values: `deserialize` skips the mask ("we don't support optional elements at the moment"), `serialize` sets a bit for every child and writes a
zero for a missing one (a device wants it so, says the comment at `OpcUA_Serializer.cpp:497`). `DecodedIsSent` and `EncodedIsReference` therefore speak of `Regular` values only, and these are their limits:

* no optional field is omitted, at any depth;
* decoding: numbers are such that a `lua_Integer` holds them (`Keeps`: `lua_pushinteger` of a `UInt32` makes a negative number of a large one where a `lua_Integer` has 32 bits; `WideIntegers` tells
  whether it has more);
* encoding: `lua_next` goes through an array by index. Lua promises no order, so an array is a pair (`arr` by index, `next` in the order of `lua_next`), and what is written is `next`.

Of a table outside these limits it is still claimed that the Lua stack is as it was if its nested structures are there (`Structured`), and that an error is raised
if not (`NoBodyWithoutStructures`).

### ClientSubscriptions: one client object and its callbacks

All runs in Lua's thread, but the library calls back while it works on a call, and the callback may call the client again.
`stack` holds calls and callbacks in progress, the innermost last; Lua has control when it is empty or ends in a
callback. `_subCallbackMap`, `_stateCallback`, `object` and `mgr` (`_mgr`) are the members; `subs`, `items`, `queue` and `session` belong to
the library and `nextId` to the server, which may start again at 1. Actions: a `Begin` for every call Lua makes (`RunIterate`, `Connect`,
`Disconnect`, `CreateSubscription`, `SubscribeNode`), an `End...` for its return, `SetStateCallback`, `Dispatch` with
`HandleMonitoredItemChange`, `StateChanged` (`clientStateChangeCallback`), and `Collect` with `EndDelete` for `~UA_Client_Proxy`, during which the
session closes and the state callback runs once more.

Callbacks make any call the main program makes, `connect` and `run_iterate` included, and `SetStateCallback` assigns whenever Lua runs, also below a running state callback.
`RunningCallbackIsKept` says what is left of "no `sol::function` is assigned while it runs": the function of a notification stays in its entry until the session that called it ends, since ids are not reused
within a session and nothing erases entries. After that nothing protects it: a callback that connects again and creates a subscription may get its own id back from a restarted
server and replace itself (TLC shows it as soon as `~failed` is dropped). Nor is the state callback protected. The documents say of neither when it may be done, so there is no property to violate.
Calls that a callback makes while the object is being finalised are left out.

### NodeTree: node objects

An address space (external) as halves of references, and over it `AddNode`, `DeleteNode`, `AddReference`, `DeleteReference` of `UA_Node`
and the lookups `GetChildren`, `GetChild`, `GetPath` (`UA_Node_Iter`, `UA_Node_Finder`, the loop over a table of names). What the code
passes where counts: views have no type definition; `UA_Node_Finder` does not look at `isInverse`, so a parent may be found as a child; `deleteReference`
hands on the class of the target as `deleteBidirectional`.

### Server: a server object and its callbacks

`ctx` is the one context pointer the library keeps per node, `_proxy` the server a `UA_ValueCallback_Proxy` last was set at,
`collected` the callbacks Lua has freed while nodes still point to them. `SetVariableNode_valueCallback` and `SetMethodCallback` replace
the context first and may fail afterwards (`SetContext`); `ValueCallback` and `MethodCallback` are the functions the library calls, with the casts as they
are: a context of the other kind, a freed callback or a deleted server is `undefined`. `Startup`, `Run`, `Shutdown`, `CollectServer` are the
life cycle. `set`, `shared` and `crossed` are history. That `MethodCallback` looks for the function in the context of the object, where `SetMethodCallback` did not put it, is finding `server_method`.

### Composition

`CyclicIO`, `ProcessImage` and `CyclePacing` are views of the same thread. `CyclicIO` fixes the order of the states, and `ProcessImage`
follows it with `offline`, `resolveWr`, `resolveRd`, the exchange steps and `cyclic` (`_state = 30`);
`CyclePacing` refines the inside of case 30. They are checked separately, to keep time out of the memory
model and memory out of the time model. `TypeDefinitions` follows the same states in `running`, and
`ExtensionObjects` is its composition with `Serializer`. `ClientSubscriptions`, `NodeTree` and `Server` share no state with these or with each other.

## 3. Runs

| Run | Shows | Bounds |
|---|---|---|
| `cyclicio` | invariants, the paced reconnects, the refinement; closing ends, failures are recovered from | `RetryStep` 1, `RetryCap` 2, `SevereWait` 0, `CycleTime` 1, `TickMod` 5, `MaxLag` 1; every start value of the tick count, so each pause and each wait is also taken across a wrap |
| `image_safe` | memory safety, outputs kept and delivered, for a gated Lua | two contents, the server may also hold the empty string; a buffer for each of the four pointers |
| `image_torn`, `image_initval`, `image_leak` | the three findings about the image (expected violations) | as above, the first with `Gated` FALSE |
| `pacing` | neither early nor overdue, below the wrap | a cycle of 12 ticks in polls of at most 4, exchanges up to 12 (longer than the wait), overruns up to 3 |
| `pacing_wrap` | the finding about the wrap (expected violation) | start ticks just below the wrap |
| `types` | whole and current trees; decoding and encoding against the reference encoding; the walk ends | two types, Motor with a Point inside, under four programs: plain with every serializable type; nine optional fields; an unknown field behind a union; an array of structures beside other unsupported fields; values with optional fields omitted, tables without fields, with additional ones, with an array too long or out of order |
| `subscriptions` | notifications find their callback, callbacks are kept and find their object, notifications arrive | two ids, two callbacks, a state callback, four frames, one notification on its way; callbacks make every call |
| `nodes` | halves of references, paths of names | two nodes in one namespace under a root in another, two names, ten halves |
| `server` | which Lua function runs for a read or a write | two servers with two nodes and one, one value callback given to both, one function |
| `server_method` | the finding about method callbacks (expected violation) | as `server` |

The bounds are enough because the code compares ticks only with the pauses, which the constants keep apart from the wrap; `SevereWait` is 0, which still asks for a full tick in state 920 and
keeps the wrap, which must lie behind both pauses, small enough for all ten properties to be checked together (`Paced` is proved for every value); `connectRetries` is capped one above the value the code clamps; `paused` stops one
above the longest pause. Two contents are what it takes to pair a length with the wrong bytes. Two types are a nested structure met at two places and under
two programs; nine optional fields are the first that need a second octet of the mask (`MaskAssumption` compares the mask with the reference for
0 to 30 fields; it has no parameters, so that TLC's evaluation of it is a proof). Two subscriptions and a server that starts again are one id given out twice; four frames are a call
made by a callback during a call, with a callback of its own. Two nodes are equal names, cycles and stale halves; two servers with one value callback are the case `_proxy` is checked for.
Deadlock is not checked where the system may stop: after the object was closed, collected or freed (cyclic I/O, client, servers), and
at the horizon of the pacing model. `ProcessImage`, `ExtensionObjects` and `NodeTree` are checked for deadlock.

Fairness. `CyclicIO`: the thread is scheduled and each library call returns (`WF` of the thread's steps:
the calls have time-outs), so that a case goes on and the wait of case 30 comes to its next round, which is not to say to its last; time passes, the destructor's calls follow each other, and a disconnect polled
again and again completes (`SF` of `PollSettles`, since a poll that finds the peer's answer closes
the link, and only polls do). `CloseCompletes` has one exception: a thread that stays for ever in a wait whose end lies at the wrap of the tick count (`WaitsAtWrap`), the
behaviour of `pacing_wrap`; nothing else keeps the destructor waiting. No fairness on the owner, the network or the DLL. `ProcessImage`: the I/O thread runs and a
`SetOutputs` that was entered leaves; that Lua calls is not assumed. `ExtensionObjects`: the walk over a definition goes on (`WF`: it is one synchronous call, and
each of its reads has a time-out); nothing else. `ClientSubscriptions`: callbacks and calls return, Lua's main loop comes back to `run_iterate` as the one in
`test/sub_client.lua` does, and `run_iterate` handles what has arrived (`SF`, because each of these is disabled while a callback runs above it).
`NodeTree` and `Server` claim no liveness: what they do is done by single calls. Recovery is claimed only under
`stable`, delivery only as long as cyclic I/O lasts and Lua sets nothing else.

## 4. Findings

* `image_torn`: `_varWr` and `_varRd` are assigned at `OpcUA_IOThread.cpp:194,196` outside `_cs`; a Lua call during a
  reconnect can copy the length of one string with the bytes of another.
* `image_initval`: these assignments share the buffers of `varInitVal` with the image, which clears them;
  `~CyclicNode` then clears them again.
* `image_leak`: the comment at 884 promises that repeated calls leak nothing, but 889 is commented out and 908 forgets the old value.
* `pacing_wrap`: line 279 compares tick counts, not a difference, so a cycle that ends just below the wrap of `GetTickCount` does
  not end for a turn of the count (and the destructor, which waits for the thread, with it). The commented-out
  line 256 would not have this fault.

* `server_method`: `doc/SERVER.md:76` documents `setMethodCallback(methodNodeId, func)` as setting the function of a method. `module_server.cpp:666` stores it in the context of the method node, and
  `MethodCallback` (652) takes it from the context of the object: a call of the method does not run it, but casts a context that is null or something else.

The runs that pass also settle what the documents leave open or say differently. No run was spent on these:

* `module_node.hpp:429-430` says the type cache is invalidated on a reconnect; no code does it. `CachedTypesAreWhole` is therefore stated with `origin`, and
  decoding is claimed only where the tree fits the program. A stale type is whole: no property catches it.
* `doc/NODE.md:67` calls `getChild` a search among children; `module_node.cpp:31` does not test `isInverse`, so it finds parents as well. `PathsAreFound` says what must be found, and nothing of what else may be.
* `test/server.lua:147` expects `run()` to finish; nothing sets `_running` to false (`Run` has no way back).

## 5. Proofs

`CyclicIO_proofs` assumes only `ConstantsAssumption` (positive step and cap, all pauses together shorter than the wrap).
The invariants are not inductive alone. `IInv` adds what each group of states knows of the rest:
`NewIsSuspended`; `WaitsInCycle` (the wait belongs to state 30); `LinksMatchState` (both links closed in 0, 1, 10, 910 and 920, both open in 20, 21 and 30, none
closing in 99), without which neither `ConnectOnlyWhenClosed` nor the refinement survives `Poll`; `SevereIsLast` (while the
client is kept for now, a severe error it had is the one `_lasterr` holds), which carries `SevereErrorCostsClient` from 99 through 910; and
`PauseMeasured` (the tick difference is the time since the disconnect until that exceeds every pause), which makes the
unsigned subtraction exact before a wrap can matter. `TypeStep`, `LinkageStep` and `PauseStep` prove the three parts action
by action. From `Invariance` follow `TypeCorrect`, `ClientExistsWhereUsed`, `ExchangeIsResolved`, `ConnectsAlone`,
`SevereErrorsHandled`, `ErrorKnown`, `Paced` (the action property) and `Refinement`: `Spec => ImplementsSupervisor`.

`CyclePacing_proofs` proves types across the wrap, and `NotOverdue` and `NotEarly` under the hypothesis `NoWrap`; `pacing_wrap` shows that the hypothesis is needed.
`EndAhead` is the strengthening: the end compared with is the beginning of the cycle plus its length.

`ClientSubscriptions_proofs` assumes `SubscriptionsAssumption`, and nothing of what callbacks call. The
argument is about the shape of a step: every action either keeps a prefix of the stack (`Keeps`) or adds one frame (`Adds`), so that facts about frames need only be
shown for the frame added. `IInv` says what a frame of each kind holds (`FramesInv`), that a subscription of the library belongs to the session, has an id below `nextId` and its own entry in
the map (`SubsInv`: this is what makes a reused id harmless, as a new session starts with no subscriptions), and that nothing runs on an object that is gone (`ObjectInv`).
`NotifInv` adds that while a running notification's session lasts its id is below `nextId`, and its entry the function that runs: `EntriesKept` says that a session never assigns such an entry again. From them follow
`TypeCorrect`, `CallbackFound`, `ObjectFound` and `CallbacksKept`.

`Server_proofs` assumes `ServerAssumption`. Its invariant ties the one context pointer of a node to the history (`NodeInv`): that of a variable, if it is a value callback, is
the one Lua last set; a variable whose callback is installed has a value callback for a context unless it is crossed; a method context at anything but a method was left by a call with the
wrong node; and `_proxy` of a value callback is the server of every context it is in, or it was shared. `EntryReplaced` and `RowReplaced` reduce the updates of nested functions to facts about
single entries. From it follow `TypeCorrect`, `RightValueCallback` and `ValueCallbackRuns`.

`ProcessImage_proofs` assumes `SentinelsAssumption` and proves everything under `Gated`: without it `image_torn` is a counterexample. From case 20 on the image shares the buffers of
`varInitVal`, whose pointers later dangle and may name a buffer allocated anew for the image; so the invariant says nothing of them except between their read and their assignment (`InitialInv`), where
they are allocated and apart. It says of the image that each byte string is empty or has a buffer with as much as its length says (`Whole`), that the two never share one
(`Apart`), and what has been assigned so far while case 20 is at it (`AssignedInv`). `WhenInv` bounds where the thread can be while Lua is inside the critical section or may enter it.
`InitialRead`, `Installed` and `ImageReplaced` are the ways memory changes hands: reading an initial value, assigning it, replacing a byte string of the image. From the invariant follow `TypeCorrect`, `MemoryUsedSafely`, `OutputsHeld` and the action property `WriteMade`.

`TypeDefinitions_proofs` assumes `DefinitionsAssumption`. The recursion is a stack of frames; `StackOK` says that a frame before field k holds the first k - 1 children of the tree of
its type (`NodeAt`) and that the frame above it is for field k (`Link`), all under the program the read began with (`source`). `SameProgram` keeps that program the one of the server
while the connection of the read lasts, so that all frames agree; `OneReader` separates the cache of the client from `SymbolDef`. The cache is asked by the name of the field: as no
field has the name of a type (`DefinitionsAssumption`), only the outermost frame can be answered from it. From it follow `CacheWhole`, `SymbolWhole`, `ResolvedKnown` and `SymbolCurrent`.

`NodeTree_proofs` assumes `NodeTreeAssumption`. A half of a reference lies at a node that exists (`RefsInv`), and the set of halves is closed under the opposite half until a call
removes one half alone on purpose (`PairsInv`); each action adds or removes a closed set, or the halves of a node that goes. From it follow `TypeCorrect` and `Pairing`.
`PathsAreWalks` says what the loop over a table of names computes, for any number of names: the nodes that walks of single lookups reach, by induction on the
names. `PathsFound` follows from it and the invariant.

`ExtensionObjects_proofs` assumes `DefinitionsAssumption`, `NestingAssumption` (structures nest finitely deep: what the code's recursion needs to end), `ValuesAssumption`,
`EncodingAssumption`, `RegularAssumption`, `TreesAssumption` and `MaskAssumption`. It proves the serializer correct for all definitions, values and buffers, from the inside out:

* numbers: little-endian two's complement is inverted by `Signed` and `Unsigned` for 1, 2 and 4 octets (`SignedOctets`), and `AtReads` says what is read where a text lies in a buffer;
* loops: if every round reads (writes) its own text from where the last one ended, all of them read (write) the concatenation (`ItemsAreRead`, `TextsAreWritten`), and if one
  of them raises an error the loop does (`LoopFails`);
* the walks exist: a recursive function on trees is what its equation says only if the recursion is well-founded. It is built up level by level of the nesting (`DeserSolves`, `SerSolves`);
* fields and structures, with the header, the defaults and the cut of arrays, given that nested structures are read and written right (`StructIsRead`, `StructIsWritten`, `StructFails`);
* nesting, by induction on `Depth` (`Decodes`, `Encodes`).

`DecodesAnywhere`, `EncodesAnywhere` and `RoundTrip` are the results about the functions alone. Their hypotheses of substance are `Supported` and `Regular` (section 2): outside them the code does something
else than the encoding, as it does for a value without an optional field. `EncodesAnywhere` also speaks of tables that are not regular: they leave the stack as it was, or raise.
The specification's invariant `XInv` is that of `TypeDefinitions_proofs`, types, and `ResultOK` of the last result; it is inductive since a decode or encode is one step, and its case of that step is
`BodyIsDecoded` or `TableIsEncoded`. `TypesUndisturbed` (the composition implements `TypesSpec`) carries the four theorems of `TypeDefinitions_proofs` over.

Induction over numbers is done on sets (`SetInduction`: a set with 0 and every successor is all of `Nat`, from the least element of its
complement, `WFMin`), because the library's induction theorems take an operator as a parameter.

Only model-checked: the liveness properties `CloseCompletes`, `RecoversWhenStable`, `OutputsDelivered`, `CallsReturn` and `NotificationsArrive` (fairness is outside the
prover's logic), and the five expected violations. Every invariant and every action property of the passing runs is proved, those of `ProcessImage` for a gated Lua and those of `CyclePacing` below the wrap, as
they are checked.

## 6. Not modelled

* The pass-throughs of client, server and node objects: one library call each, no state of their own. The same for the attribute properties of nodes, the value
  types and the enumerations (registration tables and conversions), traces, statistics and certificates.
* `IOThread_Params`: straight-line configuration; its status is ignored by `Init`.
* Repeated callbacks and the configuration of the server. Data sources: Lua cannot construct a `UA_DataSource_Proxy`, and `addDataSourceVariable` would keep the address
  of a parameter passed by value.
* In the serializer: `GetTypeDef`, the dumps, fixed-length strings (no definition produces them), and the end of the 8192 octets the encoder reserves, which it does not check: bodies are
  unbounded here. That a number given for a text is written as a text, and a numeric text for a number as a number, is in `SerPrim`, but the tables of `ValuesAssumption` have the types of their fields. Numbers are those of 32 bits. The code departs from the encoding for what `Supported` excludes: a mandatory field in a structure with optional ones gets a bit of the mask, the mask for 31 optional fields
  is that of 32, an array of structures is walked as one structure, a field of a type without a serializer spoils the fields after it; `PROJECT.json` lists these as hazards with
  the reason why no property covers them.
* `_wrStatus`, `_rdStatus`, which Lua only receives. That Lua reads `SymbolDef` while the I/O thread assigns it, both without a lock: a `TypeNode` is handed out by reference, and
  what a torn assignment leaves cannot be told from the source.
* `sol/sol.hpp` and `sol_forward.hpp` are vendored and hold three quarters of all lines of the repository. Of what remains, most is registration tables and
  pass-throughs; this is why the mapped share of all lines is small although every part with a behaviour over time has a module.
