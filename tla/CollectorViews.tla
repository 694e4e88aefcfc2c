---------------------------- MODULE CollectorViews -----------------------------
(***************************************************************************)
(* Why the collector is safe. The collector lags behind the client by the  *)
(* messages in the queue: between what its graph says of the pointers and  *)
(* what they are there is a view for each of these messages, what the      *)
(* graph will say once it has been carried out. Here are the parts of the  *)
(* invariant that relates one view to the next, the first one to the graph *)
(* and the last one to the client. It holds of a client whose Usage is {}. *)
(***************************************************************************)
EXTENDS GarbageCollector

IsView(view) ==
  /\ view = [s \in DOMAIN view |-> view[s]]
  /\ DOMAIN view \subseteq Sptrs
  /\ \A s \in DOMAIN view : view[s] \in Blocks \cup {Null}

(* What a graph says, and what a message makes of a view. *)
ViewOf(g) ==
  [s \in DOMAIN g.table |->
     IF g.table[s].pointed = Null THEN Null ELSE g.vertex[g.table[s].pointed].addr]

NewTarget(view, m) ==
  CASE m.type = "NewObject" -> m.block
    [] m.type \in {"ReferenceUpdate", "SptrCopyRegistration"} -> view[m.other]
    [] OTHER -> Null

After(view, m) ==
  [s \in IF m.type = "SptrUnregistration" THEN DOMAIN view \ {m.sptr} ELSE DOMAIN view \cup {m.sptr} |->
     IF s = m.sptr THEN NewTarget(view, m) ELSE view[s]]

Without(view, s) == [p \in DOMAIN view \ {s} |-> view[p]]

(* A block that has been released is in no view any more. *)
Purged(view, b) == [s \in DOMAIN view |-> IF view[s] = b THEN Null ELSE view[s]]

Reaches(view, s) == Home(s) \in Reach(view) \cup {Null}

(***************************************************************************)
(* What is true of the view at which a message of the client arrives: the  *)
(* pointers are registered, or are not yet; a pointer that is to refer to  *)
(* something is reachable, and the one it copies is so without it; a block *)
(* that is announced is new.                                               *)
(***************************************************************************)
Registering == {"SptrRegistration", "SptrCopyRegistration"}
Copying == {"ReferenceUpdate", "SptrCopyRegistration"}

Allowed(view, m) ==
  /\ m.type \in Registering <=> m.sptr \notin DOMAIN view
  /\ m.type \in Registering \cup Copying \cup {"NewObject"} => Reaches(view, m.sptr)
  /\ m.type \in Copying =>
       m.other \in DOMAIN view \ {m.sptr} /\ Reaches(Without(view, m.sptr), m.other)
  /\ m.type = "NewObject" => \A s \in DOMAIN view : view[s] # m.block /\ Home(s) # m.block

(* The pointers in the memory that refer to one block are in one other.    *)
OneKeeper(view) ==
  \A s \in DOMAIN view : Home(s) # Null /\ view[s] # Null =>
    /\ view[s] # Home(s)
    /\ \A r \in DOMAIN view : Home(r) # Null /\ view[r] = view[s] => Home(r) = Home(s)

(* The pointers of a view refer to blocks in use: those are constructed,   *)
(* or raw. A pointer leaves a block that is raw only by the message of the *)
(* exception that ended its constructor, and no pointer is left then.      *)
LeadsToUsed(view, hp) == \A s \in DOMAIN view : view[s] # Null => hp[view[s]] \in {"raw", "live"}

AbortsOnlyRaw(views, q, hp, building, i) ==
  LET m == q[i]
      b == views[i - 1][m.sptr]
  IN /\ m.sptr \in DOMAIN views[i - 1] /\ b # Null /\ hp[b] = "raw" => m.type = "AbortedObject"
     /\ m.type = "AbortedObject" =>
          /\ b # Null /\ hp[b] = "raw" /\ b \notin building
          /\ \A j \in i..Len(q) : \A s \in DOMAIN views[j] : views[j][s] # b

(* From one view to the next, along the queue q, with memory hp. *)
Linked(views, q, hp, building) ==
  /\ DOMAIN views = 0..Len(q)
  /\ \A i \in 0..Len(q) : IsView(views[i]) /\ OneKeeper(views[i]) /\ LeadsToUsed(views[i], hp)
  /\ \A i \in 1..Len(q) :
       /\ views[i] = After(views[i - 1], q[i])
       /\ Allowed(views[i - 1], q[i])
       /\ AbortsOnlyRaw(views, q, hp, building, i)

(* The containers of the pointers in the memory are the vertices of their  *)
(* blocks; no vertex refers to itself, and each is kept by a reference.    *)
WellPlaced(g) ==
  \A s \in DOMAIN g.table :
    LET e == g.table[s] IN
    /\ s \in Roots <=> e.container = Null
    /\ Home(s) \in BlocksOf(g) =>
         e.container \in DOMAIN g.vertex /\ g.vertex[e.container].addr = Home(s)
    /\ e.pointed # Null =>
         /\ e.pointed # e.container
         /\ e.container # Null => g.vertex[e.container].addr \in {Null, Home(s)}

IsPointed(g, v) == \E s \in DOMAIN g.table : g.table[s].pointed = v

Founded(view, g) ==
  g.fault = {} =>
    /\ view = ViewOf(g)
    /\ WellPlaced(g)
    /\ \A v \in DOMAIN g.vertex : Released(g, v) \/ IsPointed(g, v)

-----------------------------------------------------------------------------
(***************************************************************************)
(* The client: fr are the calls of has() in progress, as those of Assign,  *)
(* p the addresses in the pointers, al the pointers that are constructed,  *)
(* hp the memory, d the object being freed and kp the keepers.             *)
(***************************************************************************)
IsTarget(fr, s) == \E t \in Threads : \E i \in 1..Len(fr[t]) : fr[t][i].sptr = s
IsBuilt(fr, b) == \E t \in Threads : \E i \in 1..Len(fr[t]) : fr[t][i].block = b
IsAssigned(as, s) == \E t \in Threads : as[t] # << >> /\ as[t][1] = s
IsSource(as, s) == \E t \in Threads : as[t] # << >> /\ as[t][2] = s
HasFrame(fr, s, b) ==
  \E t \in Threads : \E i \in 1..Len(fr[t]) : fr[t][i].sptr = s /\ fr[t][i].block = b

(* Block b is constructed by another thread than t or in its call i.       *)
IsUnsure(fr, t, i, b) ==
  \E u \in Threads : \E j \in 1..Len(fr[u]) : (u # t \/ j <= i) /\ fr[u][j].block = b

FramesIn(fr) == UNION {{fr[t][i] : i \in 1..Len(fr[t])} : t \in Threads}
FrameOf(fr, s) == CHOOSE f \in FramesIn(fr) : f.sptr = s
CallOf(as, s) == CHOOSE a \in {as[t] : t \in Threads} : a # << >> /\ a[1] = s
LeadsIn(fr, as, p, s) ==
  CASE IsTarget(fr, s)   -> FrameOf(fr, s).block
    [] IsAssigned(as, s) -> p[CallOf(as, s)[2]]
    [] OTHER             -> p[s]

LastingIn(fr, t, i, al) == {s \in al : ~ IsUnsure(fr, t, i, Home(s))}
ViewIn(fr, as, p, al) == [s \in al |-> LeadsIn(fr, as, p, s)]
KeptIn(fr, as, p, al, t, i, s) ==
  Home(s) # Null => Home(s) \in Reach(ViewIn(fr, as, p, LastingIn(fr, t, i, al)))

KeepsIn(fr, as, p, al) ==
  \A t \in Threads :
    /\ as[t] # << >> => KeptIn(fr, as, p, al, t, 0, as[t][1]) /\ KeptIn(fr, as, p, al, t, 0, as[t][2])
    /\ \A i \in 1..Len(fr[t]) : KeptIn(fr, as, p, al, t, i, fr[t][i].sptr)

Typed(fr, as, p, al) ==
  /\ al \subseteq Sptrs
  /\ p \in [Sptrs -> Blocks \cup {Null}]
  /\ \A t \in Threads :
       /\ Len(fr[t]) \in Nat
       /\ \A i \in 1..Len(fr[t]) : /\ fr[t][i].sptr \in Sptrs /\ fr[t][i].block \in Blocks
                                   /\ fr[t][i].made \in 0..Slots
       /\ as[t] # << >> => as[t][1] \in Sptrs /\ as[t][2] \in Sptrs

Apart(fr, as, al) ==
  /\ \A t, u \in Threads : \A i \in 1..Len(fr[t]), j \in 1..Len(fr[u]) :
       fr[t][i].sptr = fr[u][j].sptr \/ fr[t][i].block = fr[u][j].block => t = u /\ i = j
  /\ \A t, u \in Threads : as[t] # << >> /\ as[u] # << >> =>
       /\ as[t][1] = as[u][1] => t = u
       /\ as[t][1] # as[u][2]
  /\ \A t \in Threads : as[t] # << >> =>
       /\ ~ IsTarget(fr, as[t][1]) /\ ~ IsTarget(fr, as[t][2])
       /\ as[t][1] \in al /\ as[t][2] \in al
       /\ ~ IsUnsure(fr, t, 0, Home(as[t][1])) /\ ~ IsUnsure(fr, t, 0, Home(as[t][2]))
       /\ fr[t] # << >> => ~ fr[t][1].failing
  /\ \A t \in Threads : \A i \in 1..Len(fr[t]) :
       fr[t][i].sptr \in al /\ ~ IsUnsure(fr, t, i, Home(fr[t][i].sptr))

HasMade(al, b, n) == \A i \in 1..Slots : <<b, i>> \in al <=> i <= n

HeapFits(fr, al, hp, d) ==
  /\ \A t \in Threads : \A i \in 1..Len(fr[t]) :
       hp[fr[t][i].block] = "raw" /\ HasMade(al, fr[t][i].block, fr[t][i].made)
  /\ \A b \in Blocks :
       /\ hp[b] = "live" => HasMade(al, b, Slots)
       /\ hp[b] = "raw" /\ ~ IsBuilt(fr, b) => HasMade(al, b, 0)
       /\ hp[b] = "free" => HasMade(al, b, 0)
       /\ hp[b] \in {"destroyed", "dropped"} => b = d.block
  /\ d.block # Null => hp[d.block] \in {"destroyed", "dropped"} /\ HasMade(al, d.block, d.left)

ClientFits(fr, as, p, al, hp, d) ==
  /\ Typed(fr, as, p, al) /\ Apart(fr, as, al) /\ HeapFits(fr, al, hp, d) /\ KeepsIn(fr, as, p, al)

Shows(view, fr, as, p, al, hp, kp) ==
  /\ DOMAIN view = al
  /\ \A s \in al : Reaches(view, s) => view[s] = LeadsIn(fr, as, p, s)
  /\ \A s \in al : view[s] # Null =>
       /\ Home(s) # Null => kp[view[s]] = Home(s)
       /\ hp[view[s]] = "raw" => HasFrame(fr, s, view[s])

-----------------------------------------------------------------------------
Fits == ClientFits(frames, asgn, ptr, alive, heap, dying)

Seen(views) ==
  /\ Linked(views, msgs, heap, Building)
  /\ Founded(views[0], graph)
  /\ Shows(views[Len(msgs)], frames, asgn, ptr, alive, heap, keeper)

SafetyInv ==
  /\ Fits
  /\ IF dying.block = Null THEN dying = Nobody /\ pc # "free" ELSE pc = "free"
  /\ graph.fault \subseteq {"no place for a vertex"}
  /\ \E views : Seen(views)

-----------------------------------------------------------------------------
(***************************************************************************)
(* Why nothing stays behind. Every block in use waits for its vertex or    *)
(* has one, and is led to by the pointers outside the blocks that the      *)
(* graph has: the roots, and those in blocks that are being freed.         *)
(***************************************************************************)
Rooted(view, B) ==
  \A S \in SUBSET B :
    (\A s \in DOMAIN view : Home(s) \notin B \ S /\ view[s] # Null => view[s] \in S) => S = B

Complete ==
  graph.fault = {} =>
    /\ \A b \in Blocks : heap[b] \in {"raw", "live"} => b \in NewBlocks \cup BlocksOf(graph)
    /\ Rooted(ViewOf(graph), BlocksOf(graph))

(* After the shutdown the client has no pointers and makes no calls.       *)
AfterShutdown ==
  /\ ~ Open => alive \cap Roots = {} /\ \A t \in Threads : frames[t] = << >> /\ asgn[t] = << >>
  /\ pc = "ended" => terminate /\ msgs = << >>
  /\ pc = "wait" => ~ terminate
=============================================================================
