---------------------------- MODULE MemoryDigraph ----------------------------
(***************************************************************************)
(* memory::MemoryDigraph: the graph in which the garbage collector keeps   *)
(* the connections between the smart pointers (sptr) of the client and the *)
(* pieces of memory it manages. Only the thread of the collector uses it,  *)
(* so that an operation is a function from a graph to a graph.             *)
(*                                                                         *)
(* A graph is a record of                                                  *)
(*   table    the hash table of the registered pointers: which vertex each *)
(*            refers to and which contains it (Null for a root pointer),   *)
(*   vertex   the Vertex objects that exist: the block each represents     *)
(*            (Null once the block is released; those with a block are the *)
(*            ones in the ordered set of VertexStore), how many edges come *)
(*            in from each origin, and how many go out,                    *)
(*   released the block the last operation gave back to the client's       *)
(*            callback, if any, and whether its destructor may run,        *)
(*   fault    what the operations did that the code does not define: an    *)
(*            assertion that fails, an object used after it was deleted.   *)
(***************************************************************************)
EXTENDS Integers, FiniteSets, Bags

CONSTANTS
  Blocks,    (* addresses of the pieces of memory to manage                *)
  Roots,     (* addresses of the pointers outside that memory              *)
  Slots,     (* how many pointers a piece of memory contains               *)
  Vertices,  (* the places in the pool of vertices                         *)
  Null       (* nullptr                                                    *)

ASSUME SlotsAssumption == Slots \in Nat
ASSUME NullAssumption == Null \notin Blocks \cup Vertices

MemberOf(b) == {<<b, i>> : i \in 1..Slots}
Members == UNION {MemberOf(b) : b \in Blocks}
Sptrs == Roots \cup Members
Home(s) == IF s \in Roots THEN Null ELSE s[1]

(* A root pointer is outside the memory to manage, and a pointer and a     *)
(* vertex are not at the same address.                                     *)
ASSUME RootsAssumption == Roots \cap Members = {}
ASSUME PlacesAssumption == Sptrs \cap Vertices = {}

Origins == Sptrs \cup Vertices
NoRelease == [block |-> Null, dtion |-> FALSE]

Element == [pointed : Vertices \cup {Null}, container : Vertices \cup {Null}]
(* ArrayOfEdges holds the origin of every edge that comes in, once for each. *)
IsVertex(x) ==
  /\ DOMAIN x = {"addr", "edges", "out"}
  /\ x.addr \in Blocks \cup {Null}
  /\ IsABag(x.edges) /\ BagToSet(x.edges) \subseteq Origins
  /\ x.out \in Nat

EmptyGraph == [table |-> << >>, vertex |-> << >>, released |-> NoRelease, fault |-> {}]

Faulty(g, kind) == [g EXCEPT !.fault = @ \cup {kind}]

-----------------------------------------------------------------------------
(* Vertices *)

HasRootEdges(g, v) == BagToSet(g.vertex[v].edges) \cap Sptrs # {}
Predecessors(g, v) == BagToSet(g.vertex[v].edges) \cap Vertices
HasAnyEdges(g, v) == BagToSet(g.vertex[v].edges) # {} \/ g.vertex[v].out > 0
Released(g, v) == g.vertex[v].addr = Null

DeleteVertex(g, v) ==
  [g EXCEPT !.vertex = [u \in DOMAIN g.vertex \ {v} |-> g.vertex[u]]]

(* The vertex of block b in the ordered set, or Null. *)
GetVertex(g, b) ==
  IF \E v \in DOMAIN g.vertex : g.vertex[v].addr = b
  THEN CHOOSE v \in DOMAIN g.vertex : g.vertex[v].addr = b
  ELSE Null

GetContainerVertex(g, s) == IF s \in Roots THEN Null ELSE GetVertex(g, Home(s))

AddRegularVertex(g, b) ==
  IF GetVertex(g, b) # Null THEN Faulty(g, "vertex added twice")
  ELSE IF Vertices \subseteq DOMAIN g.vertex THEN Faulty(g, "no place for a vertex")
  ELSE LET new == CHOOSE v \in Vertices : v \notin DOMAIN g.vertex
           fresh == [addr |-> b, edges |-> EmptyBag, out |-> 0]
       IN [g EXCEPT !.vertex = [v \in DOMAIN @ \cup {new} |->
                                  IF v = new THEN fresh ELSE @[v]]]

(***************************************************************************)
(* The search goes back along the edges from regular vertices, marking the *)
(* vertices on its path. The callback returns whether a root was found and *)
(* ForEachRegular goes on only while it returns true, so that the answer   *)
(* is yes only when every origin of an edge leads back to a root. It is    *)
(* yes for the least set of vertices with that property: a way back that   *)
(* meets a marked vertex leads to no root. (MCGarbageCollector compares    *)
(* this with the search itself.)                                           *)
(***************************************************************************)
LeadsBack(g, v, X) ==
  \/ HasRootEdges(g, v)
  \/ /\ Predecessors(g, v) # {}
     /\ \A u \in Predecessors(g, v) : ~ Released(g, u) /\ u \in X

IsReachable(g, memBlock) ==
  \A X \in SUBSET DOMAIN g.vertex :
    (\A v \in DOMAIN g.vertex : LeadsBack(g, v, X) => v \in X) => memBlock \in X

-----------------------------------------------------------------------------
(* References. An edge starts at the pointer if it is a root, otherwise at *)
(* the vertex that contains the pointer.                                   *)
Origin(g, s) == IF g.table[s].container = Null THEN s ELSE g.table[s].container

AddEdge(g, o, v) ==
  LET counted(u) == [g.vertex[u] EXCEPT !.edges = IF u = v THEN @ (+) SetToBag({o}) ELSE @,
                                        !.out   = IF u = o THEN @ + 1 ELSE @]
  IN [g EXCEPT !.vertex = [u \in DOMAIN @ |-> counted(u)]]

RemoveEdge(g, o, v) ==
  LET counted(u) == [g.vertex[u] EXCEPT !.edges = IF u = v THEN @ (-) SetToBag({o}) ELSE @,
                                        !.out   = IF u = o THEN @ - 1 ELSE @]
  IN [g EXCEPT !.vertex = [u \in DOMAIN @ |-> counted(u)]]

MakeReference(g, s, v) ==
  LET o == Origin(g, s) IN
  IF v = Null THEN Faulty(g, "collected too soon")
  ELSE IF {v, o} \cap Vertices \subseteq DOMAIN g.vertex
  THEN AddEdge([g EXCEPT !.table[s].pointed = v], o, v)
  ELSE Faulty(g, "vertex used after delete")

(* Release the block of a vertex that has become unreachable. *)
Collect(g, v, allowDtion) ==
  LET gone == [g EXCEPT !.vertex[v].addr = Null,
                        !.released = [block |-> g.vertex[v].addr, dtion |-> allowDtion]]
  IN IF HasAnyEdges(gone, v) THEN gone ELSE DeleteVertex(gone, v)

(* mutant: a released vertex is not deleted when its last edge goes *)
SettleKeeping(g, v, allowDtion) ==
  IF v \notin DOMAIN g.vertex THEN Faulty(g, "vertex used after delete")
  ELSE IF ~ Released(g, v) /\ ~ IsReachable(g, v) THEN Collect(g, v, allowDtion)
  ELSE g

(* mutants: only root edges to the block itself count; any edge to it counts *)
SettleByRoots(g, v, allowDtion) ==
  IF v \notin DOMAIN g.vertex THEN Faulty(g, "vertex used after delete")
  ELSE IF ~ Released(g, v)
  THEN IF HasRootEdges(g, v) THEN g ELSE Collect(g, v, allowDtion)
  ELSE IF HasAnyEdges(g, v) THEN g ELSE DeleteVertex(g, v)

SettleByEdges(g, v, allowDtion) ==
  IF v \notin DOMAIN g.vertex THEN Faulty(g, "vertex used after delete")
  ELSE IF ~ Released(g, v)
  THEN IF BagToSet(g.vertex[v].edges) # {} THEN g ELSE Collect(g, v, allowDtion)
  ELSE IF HasAnyEdges(g, v) THEN g ELSE DeleteVertex(g, v)

(* What becomes of the vertex that has lost an edge. *)
Settle(g, v, allowDtion) ==
  IF v \notin DOMAIN g.vertex THEN Faulty(g, "vertex used after delete")
  ELSE IF ~ Released(g, v)
  THEN IF IsReachable(g, v) THEN g ELSE Collect(g, v, allowDtion)
  ELSE IF HasAnyEdges(g, v) THEN g ELSE DeleteVertex(g, v)

(* mutant: the released vertex is deleted while it still has edges *)
LeaveOriginReleased(g, o) ==
  IF o \in Vertices /\ Released(g, o) THEN DeleteVertex(g, o) ELSE g

(* What becomes of the vertex at which a lost edge started. *)
LeaveOrigin(g, o) ==
  IF o \in Sptrs \/ HasAnyEdges(g, o) THEN g
  ELSE IF Released(g, o) THEN DeleteVertex(g, o)
  ELSE Faulty(g, "isolated but not released")

UnmakeReference(g, s, allowDtion) ==
  LET v == g.table[s].pointed
      o == Origin(g, s)
      unset == [g EXCEPT !.table[s].pointed = Null]
  IN IF v = Null THEN unset
     ELSE IF ~ ({v, o} \cap Vertices \subseteq DOMAIN g.vertex)
     THEN Faulty(unset, "vertex used after delete")
     ELSE IF ~ BagIn(o, g.vertex[v].edges) \/ (o \in Vertices /\ g.vertex[o].out = 0)
     THEN Faulty(unset, "no such edge")
     ELSE Settle(LeaveOrigin(RemoveEdge(unset, o, v), o), v, allowDtion)

-----------------------------------------------------------------------------
(* Operations. A lookup of a pointer that is not in the table never ends. *)

InsertPointer(g, s) ==
  LET element == [pointed |-> Null, container |-> GetContainerVertex(g, s)]
  IN [g EXCEPT !.table = [p \in DOMAIN @ \cup {s} |-> IF p = s THEN element ELSE @[p]]]

AddPointer(g, s) ==
  IF s \in DOMAIN g.table THEN Faulty(g, "pointer inserted twice")
  ELSE InsertPointer(g, s)

AddPointerOnCopy(g, left, right) ==
  IF left \in DOMAIN g.table THEN Faulty(g, "pointer inserted twice")
  ELSE IF right \notin DOMAIN g.table THEN Faulty(g, "lookup without end")
  ELSE LET v == g.table[right].pointed IN
       IF v = Null THEN InsertPointer(g, left)
       ELSE MakeReference(InsertPointer(g, left), left, v)

(* mutant: allowDestruction is not passed on *)
ResetPointerDestroying(g, s, newPointed, allowDtion) ==
  IF s \notin DOMAIN g.table THEN Faulty(g, "lookup without end")
  ELSE LET unmade == UnmakeReference(g, s, TRUE) IN
       IF newPointed = Null THEN unmade
       ELSE MakeReference(unmade, s, GetVertex(unmade, newPointed))

(* newPointed is the address of a block, or Null *)
ResetPointerTo(g, s, newPointed, allowDtion) ==
  IF s \notin DOMAIN g.table THEN Faulty(g, "lookup without end")
  ELSE LET unmade == UnmakeReference(g, s, allowDtion) IN
       IF newPointed = Null THEN unmade
       ELSE MakeReference(unmade, s, GetVertex(unmade, newPointed))

(* mutant: the old reference is kept when the new one is null *)
ResetPointerUnlessNull(g, left, right) ==
  IF {left, right} \subseteq DOMAIN g.table
  THEN LET v == g.table[right].pointed IN
       IF v = Null THEN g ELSE MakeReference(UnmakeReference(g, left, TRUE), left, v)
  ELSE Faulty(g, "lookup without end")

ResetPointerLike(g, left, right) ==
  IF {left, right} \subseteq DOMAIN g.table
  THEN LET v == g.table[right].pointed
           unmade == UnmakeReference(g, left, TRUE)
       IN IF v = Null THEN unmade ELSE MakeReference(unmade, left, v)
  ELSE Faulty(g, "lookup without end")

ReleasePointer(g, s) ==
  IF s \notin DOMAIN g.table THEN Faulty(g, "lookup without end")
  ELSE UnmakeReference(g, s, TRUE)

RemovePointer(g, s) ==
  IF s \notin DOMAIN g.table THEN Faulty(g, "lookup without end")
  ELSE LET unmade == UnmakeReference(g, s, TRUE)
       IN [unmade EXCEPT !.table = [p \in DOMAIN @ \ {s} |-> @[p]]]

-----------------------------------------------------------------------------
(* Messages: what the Execute of each class does to the graph *)

NewObjectMsg(s, b)          == [type |-> "NewObject", sptr |-> s, block |-> b]
AbortedObjectMsg(s)         == [type |-> "AbortedObject", sptr |-> s]
ReferenceUpdateMsg(s, r)    == [type |-> "ReferenceUpdate", sptr |-> s, other |-> r]
ReferenceReleaseMsg(s)      == [type |-> "ReferenceRelease", sptr |-> s]
SptrRegistrationMsg(s)      == [type |-> "SptrRegistration", sptr |-> s]
SptrCopyRegistrationMsg(s, r) == [type |-> "SptrCopyRegistration", sptr |-> s, other |-> r]
SptrUnregistrationMsg(s)    == [type |-> "SptrUnregistration", sptr |-> s]

Messages ==
  [type : {"NewObject"}, sptr : Sptrs, block : Blocks]
    \cup [type : {"ReferenceUpdate", "SptrCopyRegistration"}, sptr : Sptrs, other : Sptrs]
    \cup [type : {"AbortedObject", "ReferenceRelease", "SptrRegistration",
                  "SptrUnregistration"}, sptr : Sptrs]

Execute(graph, m) ==
  LET g == [graph EXCEPT !.released = NoRelease] IN
  CASE m.type = "NewObject" ->
         LET added == AddRegularVertex(g, m.block) IN
         IF added.fault # {} THEN added ELSE ResetPointerTo(added, m.sptr, m.block, TRUE)
    [] m.type = "AbortedObject"        -> ResetPointerTo(g, m.sptr, Null, FALSE)
    [] m.type = "ReferenceUpdate"      -> ResetPointerLike(g, m.sptr, m.other)
    [] m.type = "ReferenceRelease"     -> ReleasePointer(g, m.sptr)
    [] m.type = "SptrRegistration"     -> AddPointer(g, m.sptr)
    [] m.type = "SptrCopyRegistration" -> AddPointerOnCopy(g, m.sptr, m.other)
    [] m.type = "SptrUnregistration"   -> RemovePointer(g, m.sptr)

-----------------------------------------------------------------------------
(* Properties of a graph *)

GraphOK(g) ==
  /\ DOMAIN g = {"table", "vertex", "released", "fault"}
  /\ DOMAIN g.table \subseteq Sptrs
  /\ \A s \in DOMAIN g.table : g.table[s] \in Element
  /\ DOMAIN g.vertex \subseteq Vertices
  /\ \A v \in DOMAIN g.vertex : IsVertex(g.vertex[v])
  /\ g.released \in [block : Blocks \cup {Null}, dtion : BOOLEAN]

(* What the vertices count: the edges from an origin to a vertex, which    *)
(* are the pointers there that refer to it, and those that start at it.    *)
EdgesFrom(g, o, v) == IF BagIn(o, g.vertex[v].edges) THEN g.vertex[v].edges[o] ELSE 0

Incoming(g, o, v) == {s \in DOMAIN g.table : g.table[s].pointed = v /\ Origin(g, s) = o}
Outgoing(g, v) == {s \in DOMAIN g.table : g.table[s].container = v /\ g.table[s].pointed # Null}

(* No vertex that a pointer refers to, or from which it does, is deleted.  *)
EndsExist(g) ==
  \A s \in DOMAIN g.table : g.table[s].pointed # Null =>
    {g.table[s].pointed, Origin(g, s)} \cap Vertices \subseteq DOMAIN g.vertex

(* The counters of the vertices say what the pointers of the table say.    *)
EdgesMatchTable(g) ==
  /\ EndsExist(g)
  /\ \A v \in DOMAIN g.vertex :
       /\ \A o \in Origins : EdgesFrom(g, o, v) = Cardinality(Incoming(g, o, v))
       /\ g.vertex[v].out = Cardinality(Outgoing(g, v))

(* A vertex is kept for a block that is not released, or for its edges. *)
NoLostVertex(g) == \A v \in DOMAIN g.vertex : ~ Released(g, v) \/ HasAnyEdges(g, v)

(* The addresses in the ordered set, which holds one vertex for each.      *)
BlocksOf(g) == {g.vertex[v].addr : v \in DOMAIN g.vertex} \ {Null}

OneVertexPerBlock(g) ==
  \A u, v \in DOMAIN g.vertex :
    g.vertex[u].addr # Null /\ g.vertex[u].addr = g.vertex[v].addr => u = v
=============================================================================
