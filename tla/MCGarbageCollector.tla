------------------------- MODULE MCGarbageCollector --------------------------
(* Blocks, root pointers and threads are interchangeable. *)
EXTENDS GarbageCollector, TLC

Symmetry == Permutations(Blocks) \cup Permutations(Roots) \cup Permutations(Threads)

(* The search of IsReachable as the code makes it, with the marked vertices. *)
Search(g, memBlock) ==
  LET search[path \in SUBSET Vertices, v \in Vertices] ==
        \/ HasRootEdges(g, v)
        \/ /\ Predecessors(g, v) # {}
           /\ \A u \in Predecessors(g, v) :
                /\ u \notin path \cup {v}
                /\ ~ Released(g, u)
                /\ search[path \cup {v}, u]
  IN search[{}, memBlock]

(* On every graph of three vertices it answers what IsReachable states. *)
Trio == CHOOSE S \in SUBSET Vertices : Cardinality(S) = 3
Edges == {SetToBag(E) : E \in SUBSET (Trio \cup {CHOOSE r \in Roots : TRUE})}
SmallGraphs ==
  [vertex : [Trio -> [addr : {Null, CHOOSE b \in Blocks : TRUE}, edges : Edges, out : {0}]]]

ASSUME SearchAgrees ==
  \A g \in SmallGraphs : \A v \in Trio : Search(g, v) = IsReachable(g, v)
=============================================================================
