--------------------------- MODULE GarbageCollector ---------------------------
(***************************************************************************)
(* memory::GarbageCollector, the smart pointers of sptr.h and the objects  *)
(* they refer to. The threads of the client work on their pointers and     *)
(* tell the collector of every change by a message; the thread of the      *)
(* collector wakes now and then, takes the messages from the queue (see    *)
(* LockFreeQueue), carries them out on its graph (see MemoryDigraph) and   *)
(* frees what has become unreachable. The destructor of an object that is  *)
(* freed runs on that thread and sends messages of its own.                *)
(*                                                                         *)
(* A pointer is used by one thread at a time: a smart pointer is no more   *)
(* thread-safe than the raw one it replaces. What a message does to the    *)
(* queue is one step; what FifoQueue allows beyond that (a Remove that     *)
(* misses an Add that has not returned) only delays the collector.         *)
(***************************************************************************)
EXTENDS MemoryDigraph, Sequences

CONSTANTS
  Threads,   (* the threads of the client                                  *)
  MaxMsgs,   (* bound: the client sends no more while so many are waiting, *)
  MaxLoad,   (* or they and the blocks in use are more than these          *)
  MaxDepth,  (* bound: how many constructions a thread nests               *)
  Usage      (* the ways in which the client uses pointers, see below      *)

ASSUME BoundsAssumption == MaxMsgs \in Nat \ {0} /\ MaxLoad \in Nat /\ MaxDepth \in Nat

(***************************************************************************)
(* What a client may do beyond the plain use of pointers:                  *)
(*   "shared"   keep a block in pointers of more than one other block,     *)
(*   "loop"     keep a block in a pointer of its own,                      *)
(*   "ctorcopy" copy the pointer p inside the constructor of p.has(...),   *)
(*   "chase"    assign from a pointer that only the target keeps alive, as *)
(*              in p = p->next.                                            *)
(***************************************************************************)
ASSUME UsageAssumption == Usage \subseteq {"shared", "loop", "ctorcopy", "chase"}

VARIABLES
  ptr,       (* m_pointedAddress of each pointer                           *)
  alive,     (* the pointers that are constructed                          *)
  heap,      (* what each piece of memory holds                            *)
  frames,    (* the calls of has() each thread is in, innermost first      *)
  asgn,      (* the call of Assign each thread is in, if any               *)
  msgs,      (* m_messagesQueue                                            *)
  signal,    (* the flag of m_terminationEvent                             *)
  pc,        (* where the collector's thread is in its loop                *)
  terminate, (* its local variable                                         *)
  dying,     (* the block whose memory it is freeing, and the pointers in  *)
             (* it that the destructor has not destroyed yet               *)
  graph,     (* m_memoryDigraph                                            *)
  keeper     (* history: the one block whose pointers kept each block      *)

clientVars == <<frames, asgn>>
gcVars     == <<pc, terminate, dying, graph>>
vars == <<ptr, alive, heap, clientVars, msgs, signal, gcVars, keeper>>

Nobody == [block |-> Null, left |-> 0]
Gone == "gone"   (* the keeper has been freed *)

Init ==
  /\ ptr = [s \in Sptrs |-> Null]
  /\ alive = {}
  /\ heap = [b \in Blocks |-> "free"]
  /\ frames = [t \in Threads |-> << >>]
  /\ asgn = [t \in Threads |-> << >>]
  /\ msgs = << >>
  /\ signal = FALSE
  /\ pc = "wait" /\ terminate = FALSE
  /\ dying = Nobody
  /\ graph = EmptyGraph
  /\ keeper = [b \in Blocks |-> Null]

-----------------------------------------------------------------------------
(* What the client holds *)

FramesOf(t) == {frames[t][i] : i \in 1..Len(frames[t])}
Frames == UNION {FramesOf(t) : t \in Threads}
Targets == {f.sptr : f \in Frames}
Building == {f.block : f \in Frames}
Assigned == {asgn[t][1] : t \in {u \in Threads : asgn[u] # << >>}}
Sources == {asgn[t][2] : t \in {u \in Threads : asgn[u] # << >>}}

(* Where a pointer leads: while has() or Assign goes on, its target still  *)
(* has its old address, to a block the collector may free meanwhile. The   *)
(* client must not follow it, and reckons with the address that is to come. *)
Leads(p, s) ==
  CASE s \in Targets  -> (CHOOSE f \in Frames : f.sptr = s).block
    [] s \in Assigned -> p[(CHOOSE a \in {asgn[t] : t \in Threads} : a # << >> /\ a[1] = s)[2]]
    [] OTHER          -> p[s]

(* The blocks to which the pointers of a view lead, a view being what each *)
(* of some pointers refers to: the least set that holds the blocks of the  *)
(* roots and those of the pointers in its members.                         *)
Closed(view, S) ==
  \A s \in DOMAIN view : Home(s) \in S \cup {Null} /\ view[s] # Null => view[s] \in S

Reach(view) == {b \in Blocks : \A S \in SUBSET Blocks : Closed(view, S) => b \in S}

(* the view of the client with addresses p, of its pointers in `live' *)
Leading(p, live) == [s \in live |-> Leads(p, s)]
HeldBy(p, live) == Reach(Leading(p, live))

Held == HeldBy(ptr, alive)

(***************************************************************************)
(* The client keeps alive the pointers on which a call is in progress, and *)
(* not by pointers of an object whose constructor may throw before the     *)
(* call is over: one that another thread constructs, or the call itself.   *)
(***************************************************************************)
Unsure(t, i) ==
  {f.block : f \in (UNION {FramesOf(u) : u \in Threads \ {t}}) \cup {frames[t][j] : j \in 1..i}}

Lasting(t, i, live) == {s \in live : Home(s) \notin Unsure(t, i)}

Holds(t, i, S, p, live) ==
  \A s \in S : Home(s) # Null => Home(s) \in HeldBy(p, Lasting(t, i, live))

Keeps(p, live) ==
  \A t \in Threads :
    /\ asgn[t] # << >> => Holds(t, 0, {asgn[t][1], asgn[t][2]}, p, live)
    /\ \A i \in 1..Len(frames[t]) : Holds(t, i, {frames[t][i].sptr}, p, live)

(* Whether thread t is in the constructor of block b, past its members *)
InBody(t, b) ==
  /\ frames[t] # << >>
  /\ Head(frames[t]).block = b
  /\ Head(frames[t]).made = Slots
  /\ ~ Head(frames[t]).failing

(* The pointers a thread can use: those of the objects it can reach and of *)
(* the object it is constructing.                                          *)
Usable(t) ==
  LET held == Held \ Building IN
  {s \in alive \ (Targets \cup Assigned) :
     s \in Roots \/ Home(s) \in held \/ InBody(t, Home(s))}

(* A pointer to copy or assign from *)
Readable(t) ==
  Usable(t) \cup
    (IF "ctorcopy" \in Usage /\ frames[t] # << >> THEN {Head(frames[t]).sptr} ELSE {})

MayStore(s, b) ==
  Home(s) # Null /\ b # Null =>
    /\ "loop" \in Usage \/ b # Home(s)
    /\ "shared" \in Usage \/ keeper[b] \in {Null, Home(s)}

Store(s, b) ==
  keeper' = IF Home(s) # Null /\ b # Null /\ "shared" \notin Usage
            THEN [keeper EXCEPT ![b] = Home(s)] ELSE keeper

(* Not in a constructor that has still members to make or to unmake *)
Ready(t) == asgn[t] = << >> /\ (frames[t] = << >> \/ InBody(t, Head(frames[t]).block))

Used == {b \in Blocks : heap[b] # "free"}
Room == Len(msgs) < MaxMsgs /\ (msgs # << >> => Len(msgs) + Cardinality(Used) <= MaxLoad)
Send(m) == msgs' = Append(msgs, m)

Open == ~ signal /\ ~ terminate

-----------------------------------------------------------------------------
(* The client *)

(* the default constructor, of a pointer outside the managed memory *)
Construct(t, r) ==
  /\ Open /\ Ready(t)
  /\ r \notin alive
  /\ ptr' = [ptr EXCEPT ![r] = Null]
  /\ alive' = alive \cup {r}
  /\ Send(SptrRegistrationMsg(r))
  /\ UNCHANGED <<heap, clientVars, signal, gcVars, keeper>>

ConstructCopy(t, r, src) ==
  /\ Open /\ Ready(t)
  /\ r \notin alive
  /\ ptr' = [ptr EXCEPT ![r] = ptr[src]]
  /\ alive' = alive \cup {r}
  /\ Send(SptrCopyRegistrationMsg(r, src))
  /\ UNCHANGED <<heap, clientVars, signal, gcVars, keeper>>

Destroy(t, r) ==
  /\ Ready(t)
  /\ r \in alive \ (Targets \cup Assigned \cup Sources)
  /\ Keeps(ptr, alive \ {r})
  /\ alive' = alive \ {r}
  /\ ptr' = [ptr EXCEPT ![r] = Null]
  /\ Send(SptrUnregistrationMsg(r))
  /\ UNCHANGED <<heap, clientVars, signal, gcVars, keeper>>

(***************************************************************************)
(* Assign sends the message, and only then reads the address it copies.    *)
(***************************************************************************)
Assign(t, dst, src) ==
  /\ Ready(t)
  /\ dst # src /\ ptr[dst] # ptr[src]
  /\ dst \notin Sources
  /\ MayStore(dst, ptr[src])
  /\ LET after == [ptr EXCEPT ![dst] = ptr[src]] IN
     /\ Keeps(after, alive)
     /\ Holds(t, 0, {dst}, after, alive)
  /\ LET without == [ptr EXCEPT ![dst] = Null] IN
     "chase" \in Usage \/ Holds(t, 0, {src}, without, alive)
  /\ asgn' = [asgn EXCEPT ![t] = <<dst, src>>]
  /\ Store(dst, ptr[src])
  /\ Send(ReferenceUpdateMsg(dst, src))
  /\ UNCHANGED <<ptr, alive, heap, frames, signal, gcVars>>

AssignEnd(t) ==
  /\ asgn[t] # << >>
  /\ ptr' = [ptr EXCEPT ![asgn[t][1]] = ptr[asgn[t][2]]]
  /\ asgn' = [asgn EXCEPT ![t] = << >>]
  /\ UNCHANGED <<alive, heap, frames, msgs, signal, gcVars, keeper>>

Reset(t, s) ==
  /\ Ready(t)
  /\ s \notin Sources
  /\ Keeps([ptr EXCEPT ![s] = Null], alive)
  /\ ptr' = [ptr EXCEPT ![s] = Null]
  /\ Send(ReferenceReleaseMsg(s))
  /\ UNCHANGED <<alive, heap, clientVars, signal, gcVars, keeper>>

-----------------------------------------------------------------------------
(* s.has(...): allocate, construct, take the address *)

Has(t, s, b) ==
  /\ Ready(t)
  /\ Len(frames[t]) < MaxDepth
  /\ s \notin Sources
  /\ heap[b] = "free"
  /\ MayStore(s, b)
  /\ LET without == [ptr EXCEPT ![s] = Null] IN
     /\ Keeps(without, alive)
     /\ Holds(t, 0, {s}, without, alive)
  /\ heap' = [heap EXCEPT ![b] = "raw"]
  /\ frames' = [frames EXCEPT ![t] =
                  <<[sptr |-> s, block |-> b, made |-> 0, failing |-> FALSE]>> \o @]
  /\ Store(s, b)
  /\ Send(NewObjectMsg(s, b))
  /\ UNCHANGED <<ptr, alive, asgn, signal, gcVars>>

Constructing(t) == frames[t] # << >> /\ asgn[t] = << >> /\ ~ Head(frames[t]).failing
NextMember(f) == <<f.block, f.made + 1>>

(* The constructor of the object makes its pointers, empty or as copies.  *)
MakeMember(t) ==
  /\ Constructing(t) /\ Head(frames[t]).made < Slots
  /\ LET m == NextMember(Head(frames[t])) IN
     /\ alive' = alive \cup {m}
     /\ \/ /\ ptr' = [ptr EXCEPT ![m] = Null]
           /\ Send(SptrRegistrationMsg(m))
           /\ UNCHANGED keeper
        \/ \E src \in Readable(t) :
             /\ MayStore(m, ptr[src])
             /\ ptr' = [ptr EXCEPT ![m] = ptr[src]]
             /\ Send(SptrCopyRegistrationMsg(m, src))
             /\ Store(m, ptr[src])
  /\ frames' = [frames EXCEPT ![t][1].made = @ + 1]
  /\ UNCHANGED <<heap, asgn, signal, gcVars>>

HasEnd(t) ==
  /\ Ready(t) /\ frames[t] # << >>
  /\ LET f == Head(frames[t]) IN
     /\ ptr' = [ptr EXCEPT ![f.sptr] = f.block]
     /\ heap' = [heap EXCEPT ![f.block] = "live"]
  /\ frames' = [frames EXCEPT ![t] = Tail(@)]
  /\ UNCHANGED <<alive, asgn, msgs, signal, gcVars, keeper>>

(* The constructor throws, in its members or in its body. *)
Throw(t) ==
  /\ Constructing(t)
  /\ frames' = [frames EXCEPT ![t][1].failing = TRUE]
  /\ UNCHANGED <<ptr, alive, heap, asgn, msgs, signal, gcVars, keeper>>

UnmakeMember(t) ==
  /\ frames[t] # << >> /\ Head(frames[t]).failing /\ Head(frames[t]).made > 0
  /\ LET m == <<Head(frames[t]).block, Head(frames[t]).made>> IN
     /\ alive' = alive \ {m}
     /\ ptr' = [ptr EXCEPT ![m] = Null]
     /\ Send(SptrUnregistrationMsg(m))
  /\ frames' = [frames EXCEPT ![t][1].made = @ - 1]
  /\ UNCHANGED <<heap, asgn, signal, gcVars, keeper>>

(* The exception leaves has(); the constructor outside it may let it pass. *)
HasAbort(t) ==
  /\ frames[t] # << >> /\ Head(frames[t]).failing /\ Head(frames[t]).made = 0
  /\ ptr' = [ptr EXCEPT ![Head(frames[t]).sptr] = Null]
  /\ Send(AbortedObjectMsg(Head(frames[t]).sptr))
  /\ \E caught \in BOOLEAN :
       frames' = [frames EXCEPT ![t] =
         IF caught \/ Len(@) = 1 THEN Tail(@)
         ELSE [Tail(@) EXCEPT ![1].failing = TRUE]]
  /\ UNCHANGED <<alive, heap, asgn, signal, gcVars, keeper>>

(***************************************************************************)
(* GarbageCollector::Shutdown, which the end of the framework calls when   *)
(* the client has destroyed its pointers; it then waits for the thread.    *)
(***************************************************************************)
Shutdown ==
  /\ Open
  /\ alive \cap Roots = {}
  /\ \A t \in Threads : frames[t] = << >> /\ asgn[t] = << >>
  /\ signal' = TRUE
  /\ UNCHANGED <<ptr, alive, heap, clientVars, msgs, gcVars, keeper>>

-----------------------------------------------------------------------------
(* The thread of the collector. What follows a fault is not defined, and   *)
(* the model has it stop there.                                            *)

(* mutant: the answer of WaitFor is lost *)
WaitForDeaf ==
  /\ pc = "wait"
  /\ terminate' = FALSE
  /\ signal' \in {signal, FALSE}
  /\ pc' = "drain"
  /\ UNCHANGED <<ptr, alive, heap, clientVars, msgs, dying, graph, keeper>>

(* The wait ends at the time-out, or because the event has been signaled. *)
(* A flag that was set before the call of WaitFor is left as it is.       *)
WaitFor ==
  /\ pc = "wait"
  /\ terminate' = signal
  /\ signal' \in {signal, FALSE}
  /\ pc' = "drain"
  /\ UNCHANGED <<ptr, alive, heap, clientVars, msgs, dying, graph, keeper>>

ExecuteMessage ==
  /\ pc = "drain" /\ msgs # << >> /\ graph.fault = {}
  /\ graph' = Execute(graph, Head(msgs))
  /\ msgs' = Tail(msgs)
  /\ LET r == graph'.released IN
     IF r.block = Null
     THEN UNCHANGED <<pc, dying, heap>>
     ELSE /\ pc' = "free"
          /\ dying' = [block |-> r.block, left |-> IF r.dtion THEN Slots ELSE 0]
          /\ heap' = [heap EXCEPT ![r.block] = IF r.dtion THEN "destroyed" ELSE "dropped"]
  /\ UNCHANGED <<ptr, alive, clientVars, signal, terminate, keeper>>

(* The destructor destroys the pointers in the object, the last one first. *)
DestroyMember ==
  /\ pc = "free" /\ dying.left > 0
  /\ LET m == <<dying.block, dying.left>> IN
     /\ alive' = alive \ {m}
     /\ ptr' = [ptr EXCEPT ![m] = Null]
     /\ msgs' = Append(msgs, SptrUnregistrationMsg(m))
  /\ dying' = [dying EXCEPT !.left = @ - 1]
  /\ UNCHANGED <<heap, clientVars, signal, pc, terminate, graph, keeper>>

FreeMemory ==
  /\ pc = "free" /\ dying.left = 0
  /\ heap' = [heap EXCEPT ![dying.block] = "free"]
  /\ keeper' = [b \in Blocks |-> IF b = dying.block THEN Null
                                 ELSE IF keeper[b] = dying.block THEN Gone
                                 ELSE keeper[b]]
  /\ dying' = Nobody
  /\ pc' = "drain"
  /\ UNCHANGED <<ptr, alive, clientVars, msgs, signal, terminate, graph>>

(* mutant: the thread ends without emptying the queue *)
DrainedEarly ==
  /\ pc = "drain" /\ (msgs = << >> \/ terminate)
  /\ pc' = IF terminate THEN "ended" ELSE "wait"
  /\ UNCHANGED <<ptr, alive, heap, clientVars, msgs, signal, terminate, dying, graph, keeper>>

Drained ==
  /\ pc = "drain" /\ msgs = << >>
  /\ pc' = IF terminate THEN "ended" ELSE "wait"
  /\ UNCHANGED <<ptr, alive, heap, clientVars, msgs, signal, terminate, dying, graph, keeper>>

-----------------------------------------------------------------------------
(* After the shutdown nothing is left to do. *)
Stopped == pc = "ended" /\ UNCHANGED vars

UsePointers(t) ==
  LET usable == Usable(t)
      readable == Readable(t)
  IN \/ \E r \in Roots, src \in readable : ConstructCopy(t, r, src)
     \/ \E dst \in usable, src \in readable : Assign(t, dst, src)
     \/ \E s \in usable : Reset(t, s) \/ \E b \in Blocks : Has(t, s, b)

(* the calls of the client that send a message *)
Call(t) ==
  \/ \E r \in Roots : Construct(t, r) \/ Destroy(t, r)
  \/ UsePointers(t)
  \/ MakeMember(t) \/ UnmakeMember(t) \/ HasAbort(t)

Client(t) == (Room /\ Call(t)) \/ AssignEnd(t) \/ HasEnd(t) \/ Throw(t)

Collector == WaitFor \/ ExecuteMessage \/ DestroyMember \/ FreeMemory \/ Drained

Next == (\E t \in Threads : Client(t)) \/ Shutdown \/ Collector \/ Stopped

Spec == Init /\ [][Next]_vars

(* The collector's thread keeps running. *)
FairSpec == Spec /\ WF_vars(Collector)

-----------------------------------------------------------------------------
(* Properties *)

Frame == [sptr : Sptrs, block : Blocks, made : 0..Slots, failing : BOOLEAN]

(* Types: the queue holds messages, and the graph is well formed.          *)
TypeOK ==
  /\ ptr \in [Sptrs -> Blocks \cup {Null}]
  /\ alive \subseteq Sptrs
  /\ heap \in [Blocks -> {"free", "raw", "live", "destroyed", "dropped"}]
  /\ frames \in [Threads -> Seq(Frame)]
  /\ \A t \in Threads : Len(frames[t]) <= MaxDepth
  /\ asgn \in [Threads -> {<< >>} \cup (Sptrs \X Sptrs)]
  /\ msgs \in Seq(Messages)
  /\ signal \in BOOLEAN /\ terminate \in BOOLEAN
  /\ pc \in {"wait", "drain", "free", "ended"}
  /\ dying \in [block : Blocks \cup {Null}, left : 0..Slots]
  /\ GraphOK(graph)
  /\ keeper \in [Blocks -> Blocks \cup {Null, Gone}]

(***************************************************************************)
(* What the client holds is never destroyed or freed, whatever messages    *)
(* are still on their way (the purpose of the collector).                  *)
(***************************************************************************)
HeldIsAllocated == \A b \in Held : heap[b] \in {"raw", "live"}

(* The pointer Assign reads after sending its message still exists.        *)
SourceIsAlive ==
  \A t \in Threads : asgn[t] # << >> =>
    asgn[t][2] \in alive /\ (Home(asgn[t][2]) # Null => heap[Home(asgn[t][2])] # "free")

(* No assertion of the graph fails, no lookup goes on for ever, and no     *)
(* vertex is used or deleted after it was deleted.                         *)
NoFault == graph.fault = {}

(* The assertions of the graph that do not depend on what the client does  *)
(* hold: an object has one vertex, the vertex a pointer is made to refer   *)
(* to exists, and the edge that goes was there (AddVertex, MakeReference,  *)
(* RemoveEdge, DecrementOutgoingEdgeCount).                                *)
AssertionsHold ==
  graph.fault \cap {"vertex added twice", "collected too soon", "no such edge"} = {}

(* Everything is well formed, and between any two messages the counters    *)
(* agree with the table.                                                   *)
GraphConsistent ==
  /\ TypeOK
  /\ AssertionsHold
  /\ EdgesMatchTable(graph) /\ NoLostVertex(graph) /\ OneVertexPerBlock(graph)

(* A block that waits for its vertex, or has one, is allocated and is not  *)
(* the one being freed. Only a block that is in use is being freed.        *)
Announced == {i \in 1..Len(msgs) : msgs[i].type = "NewObject"}
NewBlocks == {msgs[i].block : i \in Announced}

BlocksTracked ==
  /\ \A i, j \in Announced : msgs[i].block = msgs[j].block => i = j
  /\ NewBlocks \cap BlocksOf(graph) = {}
  /\ \A b \in NewBlocks \cup BlocksOf(graph) : heap[b] \in {"raw", "live"} /\ b # dying.block
  /\ IF dying.block = Null THEN dying.left = 0 ELSE heap[dying.block] # "free"

(* The inductive invariant. *)
IInv == GraphConsistent /\ BlocksTracked /\ IsFiniteSet(DOMAIN graph.table)

(* When nothing is under way and the queue is empty, the graph shows what  *)
(* the client's pointers are, and what they do not lead to has been freed. *)
Quiet ==
  /\ msgs = << >> /\ pc \in {"wait", "ended"}
  /\ \A t \in Threads : frames[t] = << >> /\ asgn[t] = << >>

AgreesWhenQuiet ==
  Quiet =>
    /\ DOMAIN graph.table = alive
    /\ \A s \in alive :
         ptr[s] = LET v == graph.table[s].pointed IN
                  IF v = Null THEN Null ELSE graph.vertex[v].addr
    /\ {b \in Blocks : heap[b] # "free"} = Held

(* After the shutdown no memory is left and the graph is empty.            *)
NothingLeft ==
  pc = "ended" =>
    /\ \A b \in Blocks : heap[b] = "free"
    /\ DOMAIN graph.table = {} /\ DOMAIN graph.vertex = {}

(***************************************************************************)
(* The destructor runs for an object that was constructed, and for no      *)
(* other: when a constructor has thrown, its block is freed without, and   *)
(* by then the pointers in it have been destroyed. Memory is freed once.   *)
(***************************************************************************)
DestroyedAsConstructed ==
  [][\A b \in Blocks :
       /\ heap'[b] = "destroyed" /\ heap[b] # "destroyed" => heap[b] = "live"
       /\ heap'[b] = "dropped" /\ heap[b] # "dropped" => 
            /\ heap[b] = "raw" /\ b \notin Building
            /\ alive \cap MemberOf(b) = {}
       /\ heap'[b] = "free" /\ heap[b] # "free" =>
            heap[b] \in {"destroyed", "dropped"} /\ alive \cap MemberOf(b) = {}]_vars

(* What the client no longer holds is freed in the end, cycles included.   *)
Reclaimed ==
  \A b \in Blocks : heap[b] # "free" /\ b \notin Held ~> heap[b] = "free"

(* A shutdown ends. *)
ShutdownEnds == signal ~> pc = "ended"
=============================================================================
