# TLA+ models of 3FD

3FD is a C++ framework for Windows and POSIX: a garbage collector for smart
pointers, pools of memory, a logger, and wrappers of the ISAM engine, SQLite, a
message broker over SQL Server, RPC, web services and OpenCL. This directory
holds TLA+ models of the parts of it whose correctness depends on the order in
which things happen, TLC configurations that check them on small instances, and
proofs that TLAPS checks for instances of every size.

Paths below are relative to `src/3FD` in the repository. `PROJECT.json` maps
every definition to the lines it models.

## 1. Inventory

| Component | State | Operations | Interacts with | Hard because |
|---|---|---|---|---|
| Lock-free queue (`utils_lockfreequeue.h`) | a linked list from `m_tail` to `m_head`, each element with a pointer to an entry | `Add` (any thread), `Remove` (one thread), destructor | queue of messages of the collector, queue of events of the logger, pool of SQLite connections | several writers link in two steps; the reader deletes elements |
| GC: graph (`gc_memorydigraph.cpp`, `gc_vertex*.cpp`, `gc_messages.cpp`) | vertices of memory blocks with their edges, elements of smart pointers | one `Execute` per kind of message: 7 of them | messages come from the collector's queue; releasing a block runs client code | cycles, pointers inside the blocks that are freed, vertices that outlive their block |
| GC: hash table (`gc_addresseshashtable.cpp`) | array of buckets, count, size | `Insert`, `Lookup`, two `Remove`, expand, shrink | used by the graph, which keeps references to elements | loops that end only when there is a vacant bucket; references across operations |
| GC: arrays of edges (`gc_arrayofedges.cpp`) | sorted array of predecessors, count of roots | add, remove, iterate | a vertex has one | a bag: the same predecessor several times |
| GC: collector and pointers (`gc_garbagecollector.cpp`, `sptr.h`, `gc_common.h`) | thread, event of termination, queue of messages | construction, copy, assignment, reset, destruction of pointers; construction of objects, which may throw; shutdown | every thread of the client, through the queue | what is true of the pointers is known to the collector only later |
| Memory pools (`utils_memorypool.cpp`, `utils_dynmempool.cpp`) | pools, stacks of returned blocks, queue of available pools | get a block, return one, shrink | vertices of the graph are allocated here | a pool is in the queue or not according to its history; pools are deleted |
| ISAM: instance, sessions, transactions (`isam_impl_*.cpp`) | table of attached databases with the count of their users, list of available sessions, behind a mutex; the session, database and transaction of each connection | open a connection (take or create a session, attach, create or open the database), begin, commit and end a transaction, close, destroy the instance | the storage engine | any step of opening may fail; the handlers run after the mutex is released |
| ISAM: tables, cursors, records | handles of the engine | marshalling of arguments | the storage engine | what matters is in the engine |
| Broker (`broker_impl*.cpp`) | two sessions of the database; for a write a future and the worker thread, for a read a statement and the vector it fills | write, rethrow, commit, roll back; read, step, take results, commit, roll back; destruction of both | SQL Server through ODBC; a thread of the library | statements that fail one by one, lost connections, objects that go while work goes on |
| RPC server (`rpc_impl_server.cpp`) | a state (not initialised, bound, listening ...), registrations | initialise, start, stop, resume, wait, finalise | the RPC run time | roll-back of a start that fails; waiting with a lock held |
| RPC client (`rpc_impl_client.cpp`, `rpc_impl_util.cpp`) | a binding handle | set-up, call with exception handling | the RPC run time | long calls of the system, no state |
| SQLite (`sqlite_*.cpp`) | a pool of connections, transactions, statements | take and give back a connection, begin, commit, step | SQLite, the lock-free queue | the queue has one reader, the pool has many |
| Web services (`web_wws_impl_*.cpp`) | handle of a host or a proxy, flag on hold | create, open, close, call | Windows Web Services | retries, concurrent calls on a proxy |
| OpenCL (`opencl_*.cpp`) | a command queue, events with counts of references, the tracker of what commands use | enqueue a fill, read, write, copy, kernel or map, in both forms; wait; finish | the OpenCL library, which runs commands in any order and callbacks in its own threads | callbacks before the call returns, events released by whoever comes last |
| Logger (`logger*.cpp`) | a queue of events, a thread | write, shut down | every component | a thread that ends |
| Runtime, configuration, exceptions, tracer | settings, a stack of frames per thread | start and end of a program or thread | every component | sequential |
| Command line (`cmdline.cpp`) | the expected arguments by ID, by character and by name, the ID of the argument for values, the results of the last line understood | declare (five overloads), parse, answer, print, destroy | the application | declarations that fail half-way, configurations behind a pointer to void, a line that fails after part of it has been accepted |
| Utilities (`utils_*.cpp`, `utils_algorithms.h`) | bits, shared mutex | search, set and get bits, lock | | sequential, but for the mutex, whose readers share a field |

What would make each of the core components correct:

- *Queue*: entries leave in the order of the exchanges of the head, each once;
  no element is used after its deletion and none leaks; what has been added
  leaves in the end.
- *Collector*: what the client can still reach is not freed; what it cannot
  reach is freed in the end, cycles included; the destructor of an object runs
  once, in the collector, if and only if it was constructed; the shutdown ends
  and leaves nothing.
- *Hash table*: it is a map; every probe ends; references the graph holds are
  to the elements it asked for.
- *RPC server*: a start is all or nothing; finalisation releases whatever was
  acquired, on every path; the mutex is given back; callbacks find the server.
- *ISAM*: a session is lent to one thread at a time and never lost, whatever
  step of opening fails; a database is detached when, and only when, its last
  user leaves; destruction ends every session.
- *Broker*: a batch enters the queue whole, and exactly when the writer has been
  told so; a message is delivered for good once; what a commit removes is what
  the client was given.
- *OpenCL*: a command does not overtake one that it clashes with; no event is
  used after its last release, and none outlives its users; every wait ends.
- *Pools*: a block has one user; a pool is deleted only when all its blocks are
  back; the queue of available pools has no dangling or repeated entry.

- *Command line*: a line is understood exactly when the declarations give it a
  meaning, gets that meaning, and otherwise leaves the results of the line before;
  a configuration is read as the type it was stored with; a declaration that
  fails takes nothing from those that were accepted.

The hazards, each at its line, are listed in `PROJECT.json`.

## 2. Modules

| Module | Models | State | Actions |
|---|---|---|---|
| `FifoQueue` | what a queue with `Add` and `Remove` promises (abstract) | the entries in the order they were added and removed, calls in progress | an entry takes its place, a call returns |
| `LockFreeQueue` | `utils_lockfreequeue.h` lines 26-142 | the linked list, a program counter for each thread in `Add` or `Remove` | one for every access to memory that threads share |
| `MemoryDigraph` | graph, vertices, edges and messages of the collector, as operators | a record: vertices, elements, what went wrong | none: `Execute(g, m)` is the graph after message `m` |
| `GarbageCollector` | `sptr.h`, `gc_garbagecollector.cpp`, `gc_common.h`, `Event::WaitFor` | pointers, heap, constructions in progress, queue of messages, the thread's loop | what the client does to a pointer; what the thread does |
| `MCGarbageCollector` | symmetry sets; the search of `IsReachable` as the code makes it, compared with `IsReachable` | | |
| `CollectorViews` | the invariants that the safety of the collector rests on | | |
| `GraphProofs` | theorems about the pools, lemmas about the graph | | |
| `CollectorProofs` | theorems about the collector | | |
| `AddressMap` | a map with insertion, lookup, update and removal (abstract) | a set of entries | |
| `AddressesHashTable` | `gc_addresseshashtable.cpp` | array of buckets, its size, the position of the loop that runs | one for a turn of each loop |
| `MCAddressesHashTable`, `AddressesHashTableProofs` | `XorFold` with real bits; theorems | | |
| `DynamicMemPool` | `utils_memorypool.cpp`, `utils_dynmempool.cpp` | pools, queue of available pools, owners of blocks | `GetFreeBlock` (two paths), `ReturnBlock`, `Shrink` |
| `MCDynamicMemPool` | symmetry (the theorems are in `GraphProofs`) | | |
| `RpcServer` | `rpc_impl_server.cpp` | the singleton, its state, the mutex and its owner, what the run-time library of RPC has registered, calls of clients | one for every function entered, one for every call of the library that may fail or block, the clients |
| `OrderedCommands` | what the tracker of a device is for (abstract) | commands with what they access, begun and ended | a command enters, starts, ends |
| `CommandTracker` | `opencl_impl_commandtracker.cpp`, as operators | its tables, as a set of entries | `GetDistinct`, `Remember` and `Forget` |
| `OpenCLDevice` | `opencl_impl_device.cpp`, events and actions of `opencl_impl.cpp` | the call in progress, the tracker, events with their status, counts and callbacks | one for each operation called, one for each step of it, callbacks, the library |
| `MCOpenCLDevice`, `OpenCLDeviceProofs` | an instance; theorems | | |
| `DatabaseLeases` | what an instance of ISAM promises (abstract) | who has which session and which database, what is mounted | take, give, mount, dismount, connect, create, disconnect |
| `IsamInstance` | `isam_impl_instance.cpp`, sessions, transactions, databases | the instance, its clients, the engine | one for each step under the mutex, each use of a connection, each handler |
| `IsamInstanceProofs` | | | theorems |
| `StableQueue` | what a broker queue promises (abstract) | batches stored, messages to deliver, messages delivered for good | store a batch, remove messages |
| `Broker` | `broker_impl_writer.cpp`, `broker_impl_reader.cpp`, `CheckConnection` | writes and their worker, the read in progress, two sessions, the database | one for each operation, each statement of the worker, each end of a step, a connection lost |
| `MCBroker` | two batches | | |
| `QueueProofs` | theorems about the lock-free queue and the broker | | |
| `LineMeaning` | what a line of arguments means, by the declarations (abstract) | declarations, the line, the results | declare, read, understand, reject, answer |
| `CommandLine` | `cmdline.cpp`, `cmdline.h` | the tables of arguments and labels, the call of `Parse` in progress, the results | each way in which a declaration ends, each turn of the loop of `Parse`, the answers, the destructor |
| `MCCommandLine`, `CommandLineProofs` | eleven declarations and 28 lines; theorems | | |
| `MCRpcServer`, `RpcServerProofs` | three objects, two with one interface; theorems | | |

How they compose. `GarbageCollector` extends `MemoryDigraph`: the thread's
action `ExecuteMessage` applies `Execute`. The graph uses a function from
pointers to elements where the code has the hash table; `AddressesHashTable` is
shown to implement exactly such a map (`AddressMap`), with the calls and the
order of calls that the messages make, so that the two levels need not be
explored at once. In the same way the queue of messages of the collector is a
sequence, and `LockFreeQueue` is shown to implement `FifoQueue`.

Conventions. The text of errors, logging and exception messages is left out;
that a call may fail is kept, as a disjunct. An undefined operation of the code
is recorded (`fault` in the graph, a use of a deleted element in the queue) and
an invariant says that there is none. Definitions with the comment "mutant" are
not part of a model: each is a plausible mistake in the code, and
`PROJECT.json` says which property notices it.

### 2.1 Correspondence, module by module

**LockFreeQueue.** `Add` is two accesses, the exchange of `m_head` and the link
from the old head (lines 86-92); between them an element is in the list and
cannot be reached. `Remove` loads the tail, its link, and, if there is a next
element, the entry, deletes the tail and moves it (lines 100-119); otherwise it
exchanges the entry of the last element for null (122-126). The destructor
walks the list (65-79). Elements are numbered in the order in which they were
created; `added` and `removed` are history. The class is documented for one
thread that removes: `SingleConsumer`, which the runs and the theorems assume.

**MemoryDigraph.** A vertex is a memory block with the bag of its predecessors
and a count of root edges, as `ArrayOfEdges` keeps them. The home of a pointer
is the block inside which it lies, as `GetContainerVertex` finds it by address.
`MakeReference`, `UnmakeReference` with its search (`IsReachable`), and the
seven messages are operators from a graph to a graph, composed in the order of
the code. Vertices have identities apart from their addresses, since a vertex
outlives the memory it represents while pointers inside are unregistered. The
search of the code recurses with a mark to cut cycles; `IsReachable` states what
that search answers: membership of the least set of vertices that is closed under
`LeadsBack`, by which a vertex leads back when a root holds it, or when all its
predecessors do and it has one. `MCGarbageCollector` has the search itself
(`Search`), and its assumption `SearchAgrees` makes TLC compare the two on every
graph of three vertices; that they agree on every graph is an induction over
data, which the prover cannot do.

**GarbageCollector.** A client thread constructs, copies, assigns, resets and
destroys pointers and calls `has()`, which allocates, constructs the members,
runs the constructor (which may use pointers and call `has()` in turn) and
either registers the object or, on an exception, aborts it. Each sends one
message. `Assign` is two actions, since the message is sent before the address
of the source is read (`sptr.h` 98-109). The collector's loop waits, drains the
queue, and when a message releases a block destroys the object: `FreeMemAddr`
runs the destructors of the pointers inside, which send messages again.
`Shutdown` signals; the thread drains and ends.

**AddressesHashTable.** A step is a turn of a loop, so that the table is seen
half-way through growing, shrinking and displacing. Which hash an address has is
chosen at the start, for each address any element of `Hashes`. `refs` are the
references that the graph keeps between a lookup and the end of the message.

**DynamicMemPool.** The class is used by the collector's thread alone, so its
operations are whole actions. Pools have addresses, which are used again after a
pool is deleted. Sizes are `uint16_t` in the code; `MaxSize` stands for its
largest value.

**RpcServer.** A thread first calls a function and waits for
`singletonAccessMutex`; then it takes it (`Enter`), proceeds by steps, and leaves.
Any call of the run-time library may fail in `Initialize`, `Start`, `Stop`,
`Resume` and `Wait`. `Start` is a loop over objects, a loop over interfaces and the
listener, each with a way into `OnStartFailureRollbackIntfReg`. The destructor is
a chain entered where `m_state` says. Calls of clients come and go while the
process listens; with authentication they pass through `callbackIntfAuthz`,
which reads `uniqueObject` without the mutex. The state of the listener and the
registrations is that of the run-time library, outside the repository: it
accepts calls when it listens, `RpcMgmtWaitServerListen` and `RpcServerUnregisterIf`
(with its wait flag) return when no call is left, and a procedure of the server
may stop the listener, as the one of the integration tests does
(`IntegrationTests/tests_rpc.cpp` 726-732).

**OpenCLDevice.** One thread calls a device; the library runs commands and
callbacks when it likes, in any order that the events they wait for allow when
the queue is out of order (`m_oooExecEnabled`, chosen at the start). An operation
is `Call`, a question to the tracker for each use of memory (`Ask`, `FindBlockers`),
the enqueuing, `RememberUse` for each use, `SetCallback`, `Release` of the locals and
`Return`. Callbacks (`OnGenericCommandCompleted`, `OnMapCommandCompleted`) may run as
soon as they are set. A map has a user event, which its callback sets and the
command that unmaps waits for. `ref` is the count that the library keeps of each
event. `CommandTracker` is a set of entries where the code has two tables
that index the same entries. Commands, events and callbacks of the library are
external, modelled as the code and its comments use them.

**IsamInstance.** `OpenDatabaseImpl` holds the mutex from `OpenDatabase` to the end of
opening, but the actions in between are steps, since each may fail; the handler
then runs without the mutex, as the `lock_guard` is inside the `try` block.
`HandlerReads` and `HandlerWrites` are the push as two accesses to the list, which is
what a push that overlaps a pop comes to. A connection then begins and ends
transactions; closing it (`CloseDatabase`) and giving the session back
(`ReleaseResource`, `DetachDatabase`, `ReturnSession`) follow the order in which the
objects are destroyed. Sessions, files, attached and open databases are the
engine's.

**Broker.** `WriteMessages` joins the last worker and starts another, which is
`Begin`, `Insert`, `Send`, `SetValue`, or `SetException` after a failure. `Commit`, `Rollback`
and the destructor wait for the future; a call that times out changes nothing
and is left out. `StepDone` is the procedure that receives, executed by a thread
of the library into `m_messages`. In the database, `staged` and `sent` are what the
writer's session has not committed, `received` what the reader's has taken from
`queue`. A session keeps its own idea of being in a transaction (`inTransaction`),
which a failure on the server or a lost connection does not change: `begin`
refuses while it lasts, and the destructors ask it. The session class and the
database are external: that is what the code relies on when it calls
`isTransaction` before `rollback`.

**CommandLine.** Names, characters, words and texts are values. A word of a line has
the label of an option or none, and with it a text or none, which is what the two
regular expressions find in it; and it is a text as a whole. The word after an option
with a value is taken as it is, without a look at its form (lines 1313-1330), so that
`-5`, which is the option `5` elsewhere, is an integer there. What `strtoll` and `strtod`
read in a text, if they read it to its end, is a constant (`ReadInteger`, `ReadFloat`):
nothing is assumed of it but that integers are integers, and floats, which stand for
their ranks, may be `NaN`. In the instance the empty text reads as zero, as it does in
the code, and texts that look like options are `-5` and a word. A declaration carries the overload it is
given to (`form`) and its configuration. `Coherent` is everything that is checked
before the tables change; then the character enters (`RefuseName` leaves it
there), the name (`RefuseLabelled`), `m_idValueTypeArg` (`RefuseId`) and, at last, the
declaration (`Accept`): the code enters each label as soon as it has found it free,
and takes nothing back. A turn of the loop is `ParseOption`, `ParseValue`, `ParseFails`,
`ParseDenied` or `ParseStray`. The last is the look-up by ID that gives the end of the
map, after which the model stops. `ParseDenied` is a line that assertions deny: an
option that names an argument for values (1336), and a value read for an argument
without a type of values (1090, 1175). The model is of a build without assertions,
which refuses it; that it occurs is in section 5 (12, 13). `optValueInSameArg` is what
the separator given to the constructor means for the loop. The answers are asked with the function for the type of the
argument, as their assertions demand. `threw` is history.

## 3. Runs

| Run | Instance | Expected | What it shows |
|---|---|---|---|
| `lock_free_queue` | 3 writers, 1 reader, 4 entries, 4 elements | pass | every interleaving of three additions, a removal and the destruction |
| `gc_graph` | 3 blocks, 2 roots, 1 pointer in a block, 2 threads, constructions nested twice; 1 message of the client waiting, or 2 while one block is in use | pass | chains and cycles of up to three blocks; the client runs ahead of the collector and nothing it holds is freed; counters agree with pointers; quiet means exact |
| `gc_liveness` | 2 blocks with 2 pointers each, 1 thread | pass | reclamation of all shapes of two blocks, and the shutdown |
| `gc_shared` | 3 blocks, usage `"shared"` | violation | section 5 |
| `hash_table` | 4 addresses, hashes 3 and 7, arrays of 2, 4, 8 | pass | collisions, wrap-around, displacement, doubling twice, halving |
| `dynamic_mem_pool` | 3 pools, sizes 3 then 2, 4 the largest size | pass | every history of allocation, return and shrinking |
| `rpc_server` | 3 threads, 3 objects, 2 interfaces, 2 calls | pass | failures at every step of a start, stops by clients, contention for the mutex |
| `opencl_device` | 1 buffer, 1 address, a kernel argument of both directions, 3 events, 1 fault | pass | every operation, against every order of commands and callbacks |
| `isam_instance` | 3 threads, 2 databases, at most 4 sessions | pass | every step of opening fails or not, connections come and go, the instance ends |
| `isam_race` | the same, usage `"race"` | violation | section 5 |
| `broker` | batches of 2 messages and of 1, steps of 2 | pass | statements and steps fail, both connections are lost |
| `command_line` | 11 declarations of 4 arguments, 28 lines of up to 4 words, both kinds of separator | pass | every order of declarations, of which each can fail at each point, lines that fail at each turn, and questions |

Why the bounds are enough. *Queue*: what can go wrong concerns an element, the
one after it and the one before; with four elements there is an unlinked element
between two others, and the tail can be behind it or before it; three writers
give two unfinished links at once. *Collector*: an edge goes between two blocks
or a root and a block; two roots allow one to be assigned while the other still
holds; three blocks are the least with a cycle that hangs on another block; a
message can wait behind another, and the destructors of a block send more.
Vertices are one more than blocks, so that a vertex that outlives its block
can exist; with two more there are no more states. `MaxLoad` bounds messages and
blocks together, beyond the first message: with one block in use the messages of
two threads wait together, as those of a copy and of the release of what it
copies; with more the client waits, but not the destructors, whose messages
always queue up behind the others. *Hash table*: at a threshold of 7/10, four elements take two arrays
past it, one of them while the element displaced is between buckets; hashes 3
and 7 collide in the small arrays and not in the largest. *Pools*: three pools
allow one at the front of the queue, one behind it and one outside. *RPC*: two
threads contend and a third waits behind them; three objects with two interfaces
make the two loops of `Start` of different lengths; with two calls one can be
before its callback and the other in its procedure. *OpenCL*: the tracker relates
pairs of commands; three events are a map with its user event and the command
that unmaps, or three commands of which one is forgotten before the last one
asks; one buffer is the case in which they clash. *ISAM*: two threads share a
database while the third closes one or waits; with one session more than
threads, a session that gets lost shows in the count. *Broker*: a batch of two
can be cut by a step or by a failure; a second write follows one that failed,
was rolled back or lost its connection; after a read that took part of the
queue another takes the rest. *Command line*: the declarations have each type,
form and limit, share a name, an ID and the place of the argument for values, and
include one that fails at each stage; the lines hold every kind of word, right
and wrong, before and after others, and the list of values one too many. Of the texts
there is one of each kind that the checks tell apart: integers inside and outside the
ranges, one of them with the form of an option that is also declared, a float, one that
is not a number, the empty text, and words, with that form and without.

Deadlock is checked in every run but three, whose behaviours really end: the one
of the queue, with its destruction or when the entries of the instance are used
up, the one of the command line, with its destruction or its undefined behaviour, and the one of OpenCL, when the application has used the events of the
instance and waits for nothing. The collector's thread that has ended stays as it is (`Stopped`), which is
an action of its own.

### 3.1 Properties

*Queue.* `NoUseAfterDelete`, `NothingLeaks`, `ImplementsFifo` (refinement), `EveryEntryLeaves`
(liveness), and the inductive invariant `IInv`.

*Collector.* `HeldIsAllocated`: what the client can reach by its pointers, or is
constructing, is neither destroyed nor freed, however late the messages.
`SourceIsAlive`: what `Assign` reads after it has sent its message exists.
`NoFault`: the graph does nothing undefined. `GraphConsistent`: every variable has
its type, edges and elements say the same between messages, and the assertions that do
not depend on the client hold. `AgreesWhenQuiet`: with nothing under way the
graph is the client's heap, and what is not held has been freed, hence no leak.
`NothingLeft` after the shutdown. `DestroyedAsConstructed`: a destructor runs for
an object whose constructor returned, memory is released once and after the
pointers in it are gone. `Reclaimed` and `ShutdownEnds` are liveness.

*Hash table.* `ImplementsMap` (refinement), `RefDenotesItsKey`, `RoomToProbe` (a
probe has a bucket to end at), `EveryCallReturns` (it does end), `IInv`.

*Pools.* `UniqueOwner`, `EveryBlockAccounted`, `QueueSound`.

*RPC server.* `StartIsAtomic`: outside the functions either everything or nothing
is registered. `NothingLeft` after the finalisation. `MutexIsReleased`: only
`Wait`, and only while clients let the server listen, keeps the mutex. `IInv`.

*OpenCL.* `ImplementsOrdered` (refinement): a command that uses memory does not
start before the earlier ones that use it in the opposite way have ended, though
the tracker may have forgotten them by then. `RefsAreCounted`: the count of
references of every event is the number of those who will release it.
`EveryCallReturns`: a call ends unless a map has been abandoned. `IInv`, of which
`NothingStale` is a part: the tracker has no entry of a command whose callback has run.

*ISAM.* `ImplementsLeases` (refinement): a session is lent to one thread, and a
database in use stays mounted. `IInv`: sessions are conserved, counts are right, and
transactions end before their session is lent again. That there are never more
sessions than threads, so that none is lost when a call fails (`SessionsBounded`), and
that the destructor ends them all (`NothingLeft`) follows from it; both are proved.

*Broker.* `ImplementsQueue` (refinement): a batch is stored whole and exactly when
`Commit` answers true; only the commit of a read removes messages. `GivenIsReceived`:
what that commit would remove is what the client has been given or can still ask
for. `EveryCallReturns`: writes and steps end, also when the connection is lost.
`BrokerInv`: background work has an object that waits for it (`WorkHasOwner`), what a write
has sent stays until its object ends it (`SentUntilEnded`), every message stored is
in one place (`MessagesConserved`).

*Command line.* `ImplementsMeaning` (refinement): as long as no declaration has failed,
`Parse` understands a line exactly when it has a meaning, which `LineMeaning` states
for the whole line and without a loop (which words are values of options, which
options are repeated, how many values are left, and whether each reads, as a whole, as
what its argument allows), and an answer is about the last
line understood. `LabelsLead`: a label that was declared leads to its argument,
however many declarations fail afterwards; none leads to the end of the map unless
one has failed. `ResultsFit`: what the answers read is allowed by the declarations,
through later failures of declarations and lines. `IInv`: these, the types, the loop half-way
(`Following`), and `CastsAreRight`: a configuration is of the type and the size as which the parser,
the answers and the destructor read it. `OnlyOptionsAreNamed`, `OnlyTypedAreRead` and
`RangesAreKept` are what the code says of itself and does not keep (section 5); the
properties above allow for it, and so do the theorems: a range of floats takes a value
that is not a number, and a line that an assertion denies has no meaning.

### 3.2 Fairness

Each liveness property assumes weak fairness of the threads the code starts or
runs, and of nothing that a client decides.
*Queue*: a writer that has begun `Add` finishes it, and the reader goes on
removing, as the loops of the collector and the logger do. *Collector*: its
thread is never blocked for ever, since `Event::WaitFor` has a time-out and the
loop takes no lock that others hold; the client owes
nothing. *Hash table*: the one thread that
calls it goes on. *RPC*: whoever owns the mutex goes on whenever the call of the
library it is in can return; calls of clients are authorised and complete. A
wait may end in an error, which is allowed and not assumed. *OpenCL*: the calling
thread goes on when it can, and the library runs the commands that it can start,
ends them and calls their callbacks, which it was flushed for. *Broker*: the
worker thread and the thread of the library go on; a lost connection makes
their statement fail. *ISAM*: no liveness, since a thread may keep its
connection for ever.

### 3.3 Uses excluded from the passing runs

`Usage` of `GarbageCollector` lists what a client may do beyond the plain use of
pointers. All four go wrong, which is why the passing runs exclude them: a block
kept by pointers in several other blocks (`"shared"`, run `gc_shared`), an
assignment from a pointer that only the target keeps alive (`"chase"`,
`SourceIsAlive`), a block that keeps itself (`"loop"`: the vertex is deleted while its
own edge is being removed, `gc_memorydigraph.cpp` 132-143, `NoFault`), and copying
`p` inside the constructor that `p.has()` runs (`"ctorcopy"`: the copy reads an
address that is not yet assigned, and `AgreesWhenQuiet` fails). The passing runs
are therefore statements about clients whose heap is a forest with cycles
through single keepers. `FinalizeAnytime` of `RpcServer` is of the same kind: the
passing run finalises a server with authentication only once it is stopped, as
the tests do.

`Usage` of `Broker` is again of this kind: `"outlive"` (the object of an earlier write
is destroyed while a later one goes on), `"overlap"` (a write starts before the last
one has ended), `"blind"` (`Commit` of a write that failed, without `Rethrow`), `"resume"` (a
read goes on after a step that failed: the client is given messages twice). The
tests do none of them: they call `Rethrow` first and destroy the objects in the
reverse order. `Faults` leaves out `"amid"`, a connection lost between the two
statements of a write. The five seconds that the destructors wait are taken to
be enough. `Usage` of `IsamInstance` has `"race"`: the handlers of a call that fails run
while other threads use the list. In the passing run they do not; a thread
has one connection at a time and one transaction in it, which ends before it.

The application is also assumed to respect the assertions of `RpcServer`: it
does not call `Start`, `Stop`, `Resume` or `Wait` before `Initialize` or after
`Finalize`, nor `Initialize` twice.

## 4. Proofs

All proofs are checked by TLAPS for every value of the constants that satisfies
the assumptions.

| Module | Theorems | Assumes |
|---|---|---|
| `QueueProofs`, lock-free queue | `Invariance`, `TypeCorrect`, `FifoOrder`, `MemorySafety`, `CompleteDestruction`, `Refinement` | one thread removes; null is not an entry |
| `QueueProofs`, broker | `BrokerInvariance`, `GivenAsReceived`, `BrokerRefinement` | no usage beyond the plain one, no fault `"amid"`; batches are disjoint and not empty |
| `AddressesHashTableProofs` | `Invariance`, `TypeCorrect`, `References`, `ProbesCanEnd`, `Refinement` | the fold gives an index of the array; the threshold is below one |
| `GraphProofs` | for the pools `PoolInvariance`, `PoolTypeCorrect`, `SingleUse`, `Accounting`, `QueueIntegrity` | no pool has size zero |
| `CollectorProofs` | `CollectorInvariance`, `CollectorTypeCorrect`, `GraphStaysConsistent`, `BlocksFreedInOrder` | pointers and vertices have different addresses, null is neither a block nor a vertex, a root is not inside a block; any usage of pointers |
| `CollectorProofs` | `ViewsInvariance`, `HeldStaysAllocated`, `SourceStaysAlive`, `ObjectsDestroyedAsConstructed`, `NothingIsCutOff` | the same, and the plain use of pointers (`Usage = {}`) |
| `CollectorProofs` | `GraphNeverFaults`, `GraphAgreesWhenQuiet`, `NothingIsLeft` | the same, and `PlacesSuffice`: the pool of vertices grows, or has more than two places for each pointer |
| `OpenCLDeviceProofs` | `Invariance`, `TypeCorrect`, `TrackerIsFresh`, `TrackerKeepsOrder`, `ReferencesCounted` | what the module states of its constants |
| `IsamInstanceProofs` | `Invariance`, `AllSessionsEnd`, `SessionsAreReused`, `Refinement` | no usage `"race"` |
| `CommandLineProofs` | `Invariance`, `LabelsAlwaysLead`, `CastsAreAlwaysRight`, `ResultsAlwaysFit`, `Refinement` | a line has fewer than 65535 arguments; characters are not names; the forms of declarations that exist; a text reads as an integer, as a float or `NaN`, or as neither, in any way; a configuration has no `NaN`; a build without assertions |
| `RpcServerProofs` | `Invariance`, `TypeCorrect`, `AtomicStart`, `CompleteFinalization` | there is an object; the interfaces are those of the objects |

*Queue.* The safety properties are not inductive: that the reader never touches
a deleted element depends on where every writer is. `LinkInv` says that element
`i` is linked to `i + 1` unless the writer of `i + 1` is between its two accesses;
`ValueInv` which entries are still in the list; `ConsumerInv` that what the
reader loaded is still true when it uses it, which holds because nobody else
moves the tail; `AheadInv` that the tail never passes an unmade link; `DeleteInv`
that what is deleted is what the tail or the cursor of the destructor has left.
With them each step of the list is a step of `FifoQueue` under the mapping in
`LockFreeQueue`, which gives `Refinement`.

*Hash table.* `CountInv`: the count is the number of occupied buckets, and below
the size by the arithmetic of the threshold. `KeysInv`: no address is in two
buckets, nor in one and being carried. `RehashInv`: the old array from the
position of the loop on, together with the new one, is the set of elements.
Room to probe follows by counting, and the refinement by following the set of
elements through each step.

*Pools.* `PoolIInv` is the conjunction of the checked properties: where a block is in
use, and how often it is on the stack of its pool, add up to one for a block that
has been given out and to zero for others; with `QueueSound` no pool that
`Shrink` deletes is still referred to. The proofs treat the pools one at a time
(`PoolByPool`).

*Collector.* An operation of the graph ends a reference and then makes another, and a
vertex may be released, or deleted, on the way. The proof follows one edge at a time:
the edges that a vertex counts are the pointers of the table that refer to it
(`EdgesMatchTable`), a step that removes or adds one changes both, and each message is
such steps in a row (`ExecuteFacts`). `IInv` of the collector adds `BlocksTracked`, which follows a block
from the message that announces it to its vertex and from there to the freeing of its
memory: these exclude each other, and the block is in use in all of them. Hence no
block gets a second vertex and none is freed twice, whatever the client does with its
pointers; the assertions of the graph that depend on this (`AssertionsHold`) cannot
fail.

*Collector and client.* That nothing the client holds is freed relates two heaps that
never agree while messages are on their way: the client's, and the graph's, which is
behind it by the queue. `SafetyInv` of `CollectorViews` puts a *view* between each
message and the next: what the graph will say of the pointers when the messages
before have been carried out. The first view is what the graph says now (`Founded`); each
message makes the next view out of the one before (`Linked`), and arrives where it is
`Allowed`; what the last view says of a pointer that can be reached in it is what the
client has in it, or is about to write to it (`Shows`); the client's own calls fit
together (`Fits`). A step of the client appends a message and with it a view; a message
that is carried out takes the first view away. The step that matters is the second
with a block released: the graph found no way to it from a root, hence the first view
does not reach it (`OneKeeper` makes one failing predecessor as good as all), a message
refers only to what its view reaches without it, hence no later view reaches it, hence
not the client; the views without that block (`Purged`) are views again. `HeldIsAllocated` and
`SourceIsAlive` follow from the last view, `NoFault` from `Allowed` at the first. A run of
TLC over the whole instance of `gc_graph`, with the views computed from the graph and
the queue, found these parts to hold before they were proved.

`AgreesWhenQuiet` and `NothingLeft` need the other direction, that nothing is forgotten.
`Complete`: what is in use is in the graph or about to enter it, and every block in the
graph is led to, through other blocks, from a pointer outside them (`Rooted`, a statement
about every set of blocks, so that it needs no paths). A message that cuts a block off
sees `IsReachable` fail for it, and what only that block held is held by its pointers until
their own messages arrive. When all is quiet there are no pointers in blocks that are
being freed, and the roots that are left are the client's.

These theorems are for any number of blocks, pointers, threads, messages and nested
constructions. `PlacesSuffice` is about the last pool of the model only: the
code's grows as it needs, and `GraphNeverFaults` bounds what it needs, since each vertex is
referred to by a pointer, is the container of one, or is about to be deleted. They
say nothing of the other usages (section 3.3), for each of which one of them is false.

*RPC.* `StateCovers`: whatever is registered, bound or listening is covered by
`m_state` and `m_regObjsByIntfHnd`, which are all that the rollback and the
destructor look at. `LifeInv`: who is inside, and whether there is a server.
`StepInv`: what each step of `Start` and of the destructor has behind it. The
first is what matters and is not inductive alone: that `Rollback` and the chain
of the destructor undo everything needs what `StepInv` says of the half-done
loops.

*OpenCL.* That commands which clash keep their order is not inductive: it needs
that a use is in the tracker, or about to be put there, until its command has
ended (`Tracked`), that what a call has looked up it will wait for (`Asked`), and that
commands which have not started wait for those they clash with
(`WaitsForClashes`). `UserEvents` and `Control` give each step what it relies on. For
`RefsAreCounted`, `Owned` says who holds a reference of each event: the locals of the call,
an `AsyncAction`, the entries of the tracker, a callback to come; `OrderInv` that nobody
releases one that is not there.

*ISAM.* `Control` says what a thread holds where it stands; `SessionsConserved` that the
list and the threads divide the sessions among them; `CountsAgree` that an entry
counts the threads that have its database; `EngineAgrees` that the engine has open
what the threads have. `SessionsBounded` then is a pigeonhole: a session is created
only when every other one is with another thread.

*Broker.* The refinement needs that `Commit` finds the whole batch in the session:
`SentUntilEnded` in `BrokerInv`, which rests on `OneWrite` (nobody else ends the transaction) and
`WorkHasOwner` (the worker is done). For the reader, `MessagesConserved` and
`GivenIsReceived` are inductive together.

*Command line.* The parts of `IInv` rest on one another: `ResultsFit` needs that the
call in progress fits (`CallFits`), which needs that a configuration has the elements
that the check of a value reads (`CastsAreRight`); that an accepted declaration
replaces nothing keeps all of them; and `LabelsLead` makes the argument for values
exist. For `Refinement`, `Following` says that a call which is half-way through a line has
read the words before its position as the whole line means them, and no others: each
option that precedes it denotes the one argument whose value has been set, and the
values have been appended in the order of the line (`OptionsRead`, `ValuesRead`). That
a word is the value of the option before it depends on whether that option is itself
such a value, and so on to the beginning of the line; that a line can be divided like
this at all is shown by the least position at which it could not (`Alternation`).

Every invariant, action property and refinement that a passing run checks is a
theorem, under the assumptions of the table. Only model-checked is liveness, since
the prover supports neither fairness nor `ENABLED`: `EveryEntryLeaves`, `Reclaimed`,
`ShutdownEnds`, `EveryCallReturns`, `MutexIsReleased`; and, on three vertices, that the search of
`IsReachable` answers what the model states of it (`SearchAgrees`).

## 5. Findings

With a run that ends in a counterexample, quoted with its line in
`PROJECT.json`:

1. `gc_shared`: `IsReachable` assigns `rootFound` anew for every predecessor and
   the iteration stops at the first that answers no (`gc_memorydigraph.cpp` 88), so
   a block with one unreachable predecessor may be declared unreachable and
   freed while another still holds it.
2. `isam_race`: the handlers of `OpenDatabaseImpl` push the session after the mutex
   has been released (`isam_impl_instance.cpp` 442, 449, 458); with a pop in another
   thread, two threads get one session.

Without a run of their own. Each can be reproduced from the models: set the
constant named, if there is one, in the configuration of the component, and check
the property.

3. `GarbageCollector`, `Usage = {"chase"}`, `SourceIsAlive`: `Assign` reads the source
   after it has sent the message (`sptr.h` 103); in `p = p->next` the block in which
   the source lies may be freed in between.
4. `DynamicMemPool`, `GrowsOnlyWhenEmpty`: when no pool is available, `ReturnBlock`
   pushes the pool of the block to the queue and, as it now is the front, pops it
   (`utils_dynmempool.cpp` 105): memory grows while there is a free block.
5. `RpcServer`, `FinalizeAnytime = TRUE`, `CallbackFindsServer`: `Finalize` makes the
   pointer null before the destructor stops the listener (`rpc_impl_server.cpp` 957);
   an authorisation callback in between uses a null pointer.
6. `RpcServer`, `ListeningServes`: the rollback of a start that fails leaves `m_state`
   (`rpc_impl_server.cpp` 605), so that `Resume` listens with nothing registered. Once
   a client has stopped the listener `m_state` is still `Listening`: `Resume` answers
   OKAY and `Start` FAIL though nothing listens, until `Stop` is called.
7. `OpenCLDevice`, `ConflictsAreOrdered`: a command that writes memory asks only for
   the readers of it, and one that reads only for plain writers
   (`opencl_impl_device.cpp` 242, 1207-1221), so that two writers, or a kernel
   argument of both directions and a plain use, do not wait for each other, where
   the comment (234-236) has the tracker prevent unsafe concurrent access. The
   callback of a map that ends abnormally, or whose client callback throws, leaves
   the user event unset (77-83), and `Finish` waits for good.
8. `Broker`, `Usage = {"outlive"}`, `ImplementsQueue`: the destructor of a write rolls
   back whatever transaction the session is in (`broker_impl_writer.cpp` 344); in
   `op = writer.WriteMessages(m)` with an `op` that was committed before, the new
   batch is lost and its `Commit` answers true in a release build.
9. `Broker`, `Faults` with `"amid"`, `ImplementsQueue`: a connection lost between the two
   statements of a write is made again by `CheckConnection` (543), the second
   statement finds nothing to send, and write and commit report success.
10. `Broker`, `TransactionEnds`: `TryWait` of a read throws once a step has failed, also
   in the destructor (`broker_impl_reader.cpp` 306), so that the transaction is never
   ended and every later `ReadMessages` fails. `Usage = {"blind"}`, `ImplementsQueue`:
   `Commit` of a write that failed answers true in a release build.
11. `CommandLine`, `LabelsLead` without its premise `~threw`: a declaration that fails
   after its labels have entered the tables leaves them (`cmdline.cpp` 199, 219), and
   an option with such a label makes `Parse` use the end of the map (1273), which an
   assertion denies (1274). An application that goes on after the exception meets it.
12. `CommandLine`, `OnlyOptionsAreNamed`: the name of an argument for values is a label
   like that of an option (`cmdline.cpp` 219), so that an option of the line can denote
   it, against the assertion "unexpected value type" (1336). No declaration has to fail
   for it: a debug build stops on what a user types, a release build refuses the line.
13. `CommandLine`, `OnlyTypedAreRead`: an option that requires a value and has
   `ArgValType::None` is accepted without a complaint, and reading its value denies the
   assertions of `ParseAndValidateValue` (1090, 1175), which "should only be called to
   parse values of arguments that expect and matched one" (1089). In a release build
   the option can never be used.
14. `CommandLine`, `RangesAreKept`: `strtod` reads `nan`, which is neither less than the
   one boundary of a range nor more than the other (1066), and so is accepted as a
   "range limited double precision floating point value" (`cmdline.h` 58).

Seen while reading `cmdline.cpp`, without a property: an enumeration gives its
default only when it has more than two values (1514), though by the comment of
`VerifyArgTypedValConfig` (376) the first is the default; a string option with an
empty configuration throws when it is absent (1457); `isPresent` is not set to true
for the argument that is a value (1439); `optCaseSensitive` has no effect on which
options are found, since the look-up is by exact text (1220); the last character
of a description decides whether it counts as blank (167); an argument
for a single value that is declared without a configuration is never recognised,
since the plain overload leaves `m_idValueTypeArg` (345-348); and the number of a text
out of the range of its type is the end of that range (988), which is then accepted.

## 6. Not modelled

Left out of the modelled parts: failure of allocation; `IsEmpty` of the queue and
the Windows queue, which wraps a list of the system; the order and the capacity
of the arrays of edges; secondary failures in the rollback and the destructor of
the RPC server and of the ISAM instance, which are logged and otherwise ignored;
the destruction of an OpenCL device; the end of conversations in the broker;
values returned to the caller where no state depends on them.

Exceptions that leave the execution of a message end the loop of the collector
(`gc_garbagecollector.cpp` 235), after which nothing is freed any more; a rollback of
the ISAM engine that fails in a destructor leaves the session in its transaction
(`isam_impl_transaction.cpp` 21); the destructor of the tracker of OpenCL reads its
table without the lock (`opencl_impl_commandtracker.cpp` 45). The printing of the
usage (`PrintArgsInfo`) is layout.

Not modelled at all: the components marked so in `PROJECT.json`. Most are
wrappers of calls of the system or of an engine outside the repository, or
sequential code over text. Those with a behaviour worth a model of their own:

- SQLite: the pool of connections takes from the lock-free queue in every thread
  that asks for one (`sqlite_dbconnpool.cpp` 51), though `Remove` is for one thread
  (`utils_lockfreequeue.h` 24-27); the theorems about the queue do not cover it.
  Transactions wait for locks and report a failed commit only to the log.
- `SharedMutex` (`utils_sharedmutex.cpp`): readers write the kind of the lock.
- Web services: the states of proxies and hosts are kept by Windows Web Services,
  which the repository only asks for them.
- `ArrayOfEdges` as a sorted array that implements the bag of `MemoryDigraph`.
