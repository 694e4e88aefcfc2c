---------------------------- MODULE CollectorProofs ----------------------------
(***************************************************************************)
(* Proofs about GarbageCollector.                                          *)
(*                                                                         *)
(* IInv follows each block from the message that announces it, over the    *)
(* vertex that represents it, to its memory being freed. That is why a     *)
(* vertex is never added twice, and why the memory of a block the graph    *)
(* still knows is never freed: the invariant holds for any number of       *)
(* threads, pointers and blocks, and any usage of the pointers.            *)
(*                                                                         *)
(* SafetyInv relates the graph to the pointers of a client that uses them  *)
(* plainly, by one view for each message in the queue. A step of the       *)
(* client adds a view at one end (ClientSafety); a message that is carried *)
(* out takes one away at the other, and a block it releases is reached in  *)
(* none of those that remain (TakeLinked). Hence what the client holds     *)
(* stays allocated, and with Complete, what it does not hold goes.         *)
(***************************************************************************)
EXTENDS GraphProofs, NaturalsInduction, WellFoundedInduction

-----------------------------------------------------------------------------
(* The queue, and the blocks whose first message is still in it. *)

AnnouncedIn(q) == {i \in 1..Len(q) : q[i].type = "NewObject"}
NewBlocksIn(q) == {q[i].block : i \in AnnouncedIn(q)}
AnnouncedOnce(q) == \A i, j \in AnnouncedIn(q) : q[i].block = q[j].block => i = j

Tracked(q, h, d, g) ==
  /\ AnnouncedOnce(q)
  /\ NewBlocksIn(q) \cap BlocksOf(g) = {}
  /\ \A b \in NewBlocksIn(q) \cup BlocksOf(g) : h[b] \in {"raw", "live"} /\ b # d.block
  /\ IF d.block = Null THEN d.left = 0 ELSE h[d.block] # "free"

LEMMA TrackedFacts ==
  /\ BlocksTracked <=> Tracked(msgs, heap, dying, graph)
  /\ BlocksTracked' <=> Tracked(msgs', heap', dying', graph')
BY DEF BlocksTracked, Announced, NewBlocks, Tracked, AnnouncedOnce, AnnouncedIn, NewBlocksIn

LEMMA MessageFacts ==
  /\ \A s \in Sptrs : /\ AbortedObjectMsg(s) \in Messages /\ AbortedObjectMsg(s).type # "NewObject"
                      /\ ReferenceReleaseMsg(s) \in Messages /\ ReferenceReleaseMsg(s).type # "NewObject"
                      /\ SptrRegistrationMsg(s) \in Messages /\ SptrRegistrationMsg(s).type # "NewObject"
                      /\ SptrUnregistrationMsg(s) \in Messages /\ SptrUnregistrationMsg(s).type # "NewObject"
  /\ \A s, r \in Sptrs :
       /\ ReferenceUpdateMsg(s, r) \in Messages /\ ReferenceUpdateMsg(s, r).type # "NewObject"
       /\ SptrCopyRegistrationMsg(s, r) \in Messages /\ SptrCopyRegistrationMsg(s, r).type # "NewObject"
  /\ \A s \in Sptrs, b \in Blocks :
       /\ NewObjectMsg(s, b) \in Messages
       /\ NewObjectMsg(s, b).type = "NewObject" /\ NewObjectMsg(s, b).block = b
BY DEF Messages, AbortedObjectMsg, ReferenceReleaseMsg, SptrRegistrationMsg, SptrUnregistrationMsg,
       ReferenceUpdateMsg, SptrCopyRegistrationMsg, NewObjectMsg

LEMMA SentFacts ==
  ASSUME NEW q \in Seq(Messages), NEW m \in Messages, NEW r, r = Append(q, m)
  PROVE  /\ r \in Seq(Messages)
         /\ m.type # "NewObject" =>
              NewBlocksIn(r) = NewBlocksIn(q) /\ (AnnouncedOnce(q) => AnnouncedOnce(r))
         /\ m.type = "NewObject" /\ m.block \notin NewBlocksIn(q) =>
              /\ NewBlocksIn(r) = NewBlocksIn(q) \cup {m.block}
              /\ AnnouncedOnce(q) => AnnouncedOnce(r)
<1>1. /\ r \in Seq(Messages) /\ Len(q) \in Nat /\ Len(r) = Len(q) + 1
      /\ \A i \in 1..Len(q) : r[i] = q[i]
      /\ r[Len(q) + 1] = m
  BY AppendProperties
<1>2. CASE m.type # "NewObject"
  <2>1. AnnouncedIn(r) = AnnouncedIn(q) /\ \A i \in AnnouncedIn(q) : r[i] = q[i]
    BY <1>1, <1>2 DEF AnnouncedIn
  <2>. QED  BY <1>1, <1>2, <2>1 DEF NewBlocksIn, AnnouncedOnce
<1>3. CASE m.type = "NewObject"
  <2>1. AnnouncedIn(r) = AnnouncedIn(q) \cup {Len(q) + 1} /\ \A i \in AnnouncedIn(q) : r[i] = q[i]
    BY <1>1, <1>3 DEF AnnouncedIn
  <2>2. NewBlocksIn(r) = NewBlocksIn(q) \cup {m.block}
    BY <1>1, <2>1 DEF NewBlocksIn
  <2>3. m.block \notin NewBlocksIn(q) => \A i \in AnnouncedIn(q) : r[i].block # m.block
    BY <2>1 DEF NewBlocksIn
  <2>4. m.block \notin NewBlocksIn(q) /\ AnnouncedOnce(q) => AnnouncedOnce(r)
    <3>1. ASSUME m.block \notin NewBlocksIn(q), AnnouncedOnce(q),
                 NEW i \in AnnouncedIn(r), NEW j \in AnnouncedIn(r), r[i].block = r[j].block
          PROVE  i = j
      <4>1. CASE i \in AnnouncedIn(q) /\ j \in AnnouncedIn(q)
        BY <2>1, <3>1, <4>1 DEF AnnouncedOnce
      <4>2. CASE i \notin AnnouncedIn(q)
        BY <1>1, <2>1, <2>3, <3>1, <4>2
      <4>3. CASE j \notin AnnouncedIn(q)
        BY <1>1, <2>1, <2>3, <3>1, <4>3
      <4>. QED  BY <4>1, <4>2, <4>3
    <3>. QED  BY <3>1 DEF AnnouncedOnce
  <2>. QED  BY <1>1, <1>3, <2>2, <2>4
<1>. QED  BY <1>2, <1>3

LEMMA TakenFacts ==
  ASSUME NEW q \in Seq(Messages), q # << >>, AnnouncedOnce(q)
  PROVE  /\ Head(q) \in Messages /\ Tail(q) \in Seq(Messages)
         /\ NewBlocksIn(Tail(q)) \subseteq NewBlocksIn(q) /\ AnnouncedOnce(Tail(q))
         /\ Head(q).type = "NewObject" =>
              Head(q).block \in NewBlocksIn(q) \ NewBlocksIn(Tail(q))
<1>. DEFINE r == Tail(q)
<1>1. /\ Head(q) \in Messages /\ r \in Seq(Messages) /\ Head(q) = q[1]
      /\ Len(q) \in Nat \ {0} /\ Len(r) = Len(q) - 1
      /\ \A i \in 1..Len(r) : r[i] = q[i + 1]
  BY HeadTailProperties, LenProperties, EmptySeq
<1>. HIDE DEF r
<1>2. \A i \in AnnouncedIn(r) : i \in Nat /\ i >= 1 /\ i + 1 \in AnnouncedIn(q) /\ r[i] = q[i + 1]
  BY <1>1 DEF AnnouncedIn
<1>3. NewBlocksIn(r) \subseteq NewBlocksIn(q)
  BY <1>2 DEF NewBlocksIn
<1>4. AnnouncedOnce(r)
  <2>1. ASSUME NEW i \in AnnouncedIn(r), NEW j \in AnnouncedIn(r), r[i].block = r[j].block
        PROVE  i = j
    <3>1. i + 1 = j + 1
      BY <1>2, <2>1 DEF AnnouncedOnce
    <3>. QED  BY <1>2, <3>1
  <2>. QED  BY <2>1 DEF AnnouncedOnce
<1>5. ASSUME Head(q).type = "NewObject"
      PROVE  Head(q).block \in NewBlocksIn(q) /\ Head(q).block \notin NewBlocksIn(r)
  <2>1. 1 \in AnnouncedIn(q)
    BY <1>1, <1>5 DEF AnnouncedIn
  <2>2. ASSUME NEW i \in AnnouncedIn(r), r[i].block = Head(q).block
        PROVE  FALSE
    <3>1. i + 1 = 1
      BY <1>1, <1>2, <2>1, <2>2 DEF AnnouncedOnce
    <3>. QED  BY <1>2, <3>1
  <2>. QED  BY <1>1, <2>1, <2>2 DEF NewBlocksIn
<1>. QED  BY <1>1, <1>3, <1>4, <1>5 DEF r

-----------------------------------------------------------------------------
(* What the client's variables hold. *)

LEMMA HomeFacts == \A s \in Sptrs : Home(s) \in Blocks \cup {Null}
BY DEF Sptrs, Members, MemberOf, Home

LEMMA MemberFacts == \A b \in Blocks : \A i \in 1..Slots : <<b, i>> \in Sptrs
BY DEF Sptrs, Members, MemberOf

LEMMA FrameFacts ==
  ASSUME TypeOK, NEW t \in Threads, frames[t] # << >>
  PROVE  /\ Head(frames[t]) \in Frame /\ Head(frames[t]) = frames[t][1]
         /\ 1 \in 1..Len(frames[t]) /\ Len(frames[t]) \in Nat
         /\ frames[t] \in Seq(Frame) /\ Tail(frames[t]) \in Seq(Frame)
         /\ Len(Tail(frames[t])) = Len(frames[t]) - 1 /\ Len(frames[t]) <= MaxDepth
<1>1. frames[t] \in Seq(Frame) /\ Len(frames[t]) <= MaxDepth
  BY DEF TypeOK
<1>. QED  BY <1>1, HeadTailProperties, LenProperties, EmptySeq

LEMMA UsableFacts ==
  ASSUME TypeOK, NEW t \in Threads
  PROVE  Usable(t) \subseteq Sptrs /\ Readable(t) \subseteq Sptrs
<1>1. Usable(t) \subseteq Sptrs
  BY DEF Usable, TypeOK
<1>2. frames[t] # << >> => Head(frames[t]).sptr \in Sptrs
  BY FrameFacts DEF Frame
<1>. QED  BY <1>1, <1>2 DEF Readable

LEMMA StoreFacts ==
  ASSUME keeper \in [Blocks -> Blocks \cup {Null, Gone}],
         NEW s \in Sptrs, NEW b \in Blocks \cup {Null}, Store(s, b)
  PROVE  keeper' \in [Blocks -> Blocks \cup {Null, Gone}]
<1>1. Home(s) \in Blocks \cup {Null}
  BY HomeFacts
<1>. QED  BY <1>1 DEF Store

(* A step that leaves the graph alone. *)
LEMMA GraphKept ==
  ASSUME IInv, graph' = graph, TypeOK', BlocksTracked'
  PROVE  IInv'
BY DEF IInv, GraphConsistent, AssertionsHold

(* The invariant, by its parts. *)
LEMMA InvFacts == IInv <=> TypeOK /\ AssertionsHold /\ GraphInv(graph) /\ BlocksTracked
BY DEF IInv, GraphConsistent, GraphInv, TypeOK

(* A step of the client that sends a message other than NewObject. *)
LEMMA SendFacts ==
  ASSUME IInv, NEW m \in Messages, m.type # "NewObject", msgs' = Append(msgs, m),
         heap' = heap, graph' = graph,
         dying'.block = dying.block, dying.block = Null => dying' = dying
  PROVE  msgs' \in Seq(Messages) /\ BlocksTracked'
<1>1. msgs \in Seq(Messages) /\ Tracked(msgs, heap, dying, graph)
  BY TrackedFacts DEF IInv, GraphConsistent, TypeOK
<1>2. /\ msgs' \in Seq(Messages)
      /\ NewBlocksIn(msgs') = NewBlocksIn(msgs) /\ AnnouncedOnce(msgs')
  BY <1>1, SentFacts DEF Tracked
<1>3. Tracked(msgs', heap', dying', graph')
  BY <1>1, <1>2 DEF Tracked
<1>. QED  BY <1>2, <1>3, TrackedFacts


-----------------------------------------------------------------------------
(* The actions of the client. *)

LEMMA InitInv == Init => IInv
<1>. SUFFICES ASSUME Init PROVE IInv
  OBVIOUS
<1>1. /\ graph = EmptyGraph /\ msgs = << >> /\ dying = Nobody
      /\ heap = [b \in Blocks |-> "free"]
  BY DEF Init
<1>2. /\ DOMAIN graph = {"table", "vertex", "released", "fault"}
      /\ DOMAIN graph.table = {} /\ DOMAIN graph.vertex = {}
      /\ graph.fault = {} /\ graph.released = NoRelease
  BY <1>1 DEF EmptyGraph
<1>3. GraphInv(graph)
  <2>1. GraphOK(graph)
    BY <1>2 DEF GraphOK, NoRelease
  <2>2. IsFiniteSet(DOMAIN graph.table)
    BY <1>2, FS_EmptySet
  <2>3. EdgesMatchTable(graph) /\ NoLostVertex(graph) /\ OneVertexPerBlock(graph)
    BY <1>2 DEF EdgesMatchTable, EndsExist, NoLostVertex, OneVertexPerBlock
  <2>. QED  BY <2>1, <2>2, <2>3 DEF GraphInv
<1>4. TypeOK
  <2>1. GraphOK(graph)
    BY <1>3 DEF GraphInv
  <2>2. frames \in [Threads -> Seq(Frame)] /\ msgs \in Seq(Messages)
    BY EmptySeq DEF Init
  <2>3. /\ \A t \in Threads : Len(frames[t]) <= MaxDepth
        /\ asgn \in [Threads -> {<< >>} \cup (Sptrs \X Sptrs)]
    BY BoundsAssumption, EmptySeq DEF Init
  <2>4. dying \in [block : Blocks \cup {Null}, left : 0..Slots]
    BY <1>1, SlotsAssumption DEF Nobody
  <2>. QED  BY <2>1, <2>2, <2>3, <2>4 DEF TypeOK, Init
<1>5. AssertionsHold
  BY <1>2 DEF AssertionsHold
<1>6. BlocksTracked
  <2>1. AnnouncedIn(msgs) = {}
    BY <1>1, EmptySeq DEF AnnouncedIn
  <2>2. BlocksOf(graph) = {}
    BY <1>2 DEF BlocksOf
  <2>3. dying.block = Null /\ dying.left = 0
    BY <1>1 DEF Nobody
  <2>4. Tracked(msgs, heap, dying, graph)
    BY <2>1, <2>2, <2>3 DEF Tracked, NewBlocksIn, AnnouncedOnce
  <2>. QED  BY <2>4, TrackedFacts
<1>. QED  BY <1>3, <1>4, <1>5, <1>6, InvFacts

LEMMA ConstructInv ==
  ASSUME IInv, NEW t \in Threads, NEW r \in Roots, Construct(t, r)
  PROVE  IInv'
<1>1. TypeOK /\ r \in Sptrs
  BY DEF IInv, GraphConsistent, Sptrs
<1>2. msgs' \in Seq(Messages) /\ BlocksTracked'
  BY <1>1, SendFacts, MessageFacts DEF Construct, Send, gcVars
<1>3. TypeOK'
  BY <1>1, <1>2 DEF TypeOK, Construct, clientVars, gcVars
<1>. QED  BY <1>2, <1>3, GraphKept DEF Construct, gcVars

LEMMA ConstructCopyInv ==
  ASSUME IInv, NEW t \in Threads, NEW r \in Roots, NEW src \in Readable(t),
         ConstructCopy(t, r, src)
  PROVE  IInv'
<1>1. TypeOK /\ r \in Sptrs
  BY DEF IInv, GraphConsistent, Sptrs
<1>2. src \in Sptrs
  BY <1>1, UsableFacts
<1>3. msgs' \in Seq(Messages) /\ BlocksTracked'
  BY <1>1, <1>2, SendFacts, MessageFacts DEF ConstructCopy, Send, gcVars
<1>4. TypeOK'
  BY <1>1, <1>2, <1>3 DEF TypeOK, ConstructCopy, clientVars, gcVars
<1>. QED  BY <1>3, <1>4, GraphKept DEF ConstructCopy, gcVars

LEMMA DestroyInv ==
  ASSUME IInv, NEW t \in Threads, NEW r \in Roots, Destroy(t, r)
  PROVE  IInv'
<1>1. TypeOK /\ r \in Sptrs
  BY DEF IInv, GraphConsistent, Sptrs
<1>2. msgs' \in Seq(Messages) /\ BlocksTracked'
  BY <1>1, SendFacts, MessageFacts DEF Destroy, Send, gcVars
<1>3. TypeOK'
  BY <1>1, <1>2 DEF TypeOK, Destroy, clientVars, gcVars
<1>. QED  BY <1>2, <1>3, GraphKept DEF Destroy, gcVars

LEMMA AssignInv ==
  ASSUME IInv, NEW t \in Threads, NEW dst \in Usable(t), NEW src \in Readable(t),
         Assign(t, dst, src)
  PROVE  IInv'
<1>1. TypeOK
  BY DEF IInv, GraphConsistent
<1>2. dst \in Sptrs /\ src \in Sptrs
  BY <1>1, UsableFacts
<1>3. msgs' \in Seq(Messages) /\ BlocksTracked'
  BY <1>1, <1>2, SendFacts, MessageFacts DEF Assign, Send, gcVars
<1>4. keeper' \in [Blocks -> Blocks \cup {Null, Gone}]
  BY <1>1, <1>2, StoreFacts DEF Assign, TypeOK
<1>5. asgn' \in [Threads -> {<< >>} \cup (Sptrs \X Sptrs)]
  BY <1>1, <1>2 DEF TypeOK, Assign
<1>6. TypeOK'
  BY <1>1, <1>3, <1>4, <1>5 DEF TypeOK, Assign, gcVars
<1>. QED  BY <1>3, <1>6, GraphKept DEF Assign, gcVars

LEMMA ResetInv ==
  ASSUME IInv, NEW t \in Threads, NEW s \in Usable(t), Reset(t, s)
  PROVE  IInv'
<1>1. TypeOK
  BY DEF IInv, GraphConsistent
<1>2. s \in Sptrs
  BY <1>1, UsableFacts
<1>3. msgs' \in Seq(Messages) /\ BlocksTracked'
  BY <1>1, <1>2, SendFacts, MessageFacts DEF Reset, Send, gcVars
<1>4. TypeOK'
  BY <1>1, <1>2, <1>3 DEF TypeOK, Reset, clientVars, gcVars
<1>. QED  BY <1>3, <1>4, GraphKept DEF Reset, gcVars


LEMMA AssignEndInv ==
  ASSUME IInv, NEW t \in Threads, AssignEnd(t)
  PROVE  IInv'
<1>1. TypeOK
  BY DEF IInv, GraphConsistent
<1>2. asgn[t][1] \in Sptrs /\ asgn[t][2] \in Sptrs
  BY <1>1 DEF TypeOK, AssignEnd
<1>3. TypeOK'
  BY <1>1, <1>2 DEF TypeOK, AssignEnd, gcVars
<1>4. BlocksTracked'
  BY TrackedFacts DEF AssignEnd, gcVars, IInv
<1>. QED  BY <1>3, <1>4, GraphKept DEF AssignEnd, gcVars

LEMMA HasInv ==
  ASSUME IInv, NEW t \in Threads, NEW s \in Usable(t), NEW b \in Blocks, Has(t, s, b)
  PROVE  IInv'
<1>1. TypeOK /\ s \in Sptrs
  BY UsableFacts DEF IInv, GraphConsistent
<1>. DEFINE f == [sptr |-> s, block |-> b, made |-> 0, failing |-> FALSE]
<1>2. /\ heap[b] = "free" /\ heap' = [heap EXCEPT ![b] = "raw"]
      /\ Len(frames[t]) < MaxDepth /\ frames' = [frames EXCEPT ![t] = <<f>> \o frames[t]]
      /\ msgs' = Append(msgs, NewObjectMsg(s, b))
      /\ Store(s, b)
      /\ UNCHANGED <<ptr, alive, asgn, signal, pc, terminate, dying, graph>>
  BY DEF Has, Send, gcVars
<1>3. Tracked(msgs, heap, dying, graph)
  BY TrackedFacts DEF IInv
<1>4. b \notin NewBlocksIn(msgs) /\ b \notin BlocksOf(graph)
  BY <1>2, <1>3 DEF Tracked
<1>5. b # dying.block
  BY <1>2, <1>3, NullAssumption DEF Tracked
<1>6. /\ NewObjectMsg(s, b) \in Messages
      /\ NewObjectMsg(s, b).type = "NewObject" /\ NewObjectMsg(s, b).block = b
  BY <1>1, MessageFacts
<1>7. /\ msgs' \in Seq(Messages)
      /\ NewBlocksIn(msgs') = NewBlocksIn(msgs) \cup {b} /\ AnnouncedOnce(msgs')
  <2>1. msgs \in Seq(Messages) /\ AnnouncedOnce(msgs)
    BY <1>1, <1>3 DEF TypeOK, Tracked
  <2>2. msgs' = Append(msgs, NewObjectMsg(s, b))
    BY <1>2
  <2>3. /\ msgs' \in Seq(Messages)
        /\ NewBlocksIn(msgs') = NewBlocksIn(msgs) \cup {NewObjectMsg(s, b).block}
        /\ AnnouncedOnce(msgs) => AnnouncedOnce(msgs')
    <3>1. NewObjectMsg(s, b).block \notin NewBlocksIn(msgs)
      BY ONLY <1>4, <1>6
    <3>2. NewObjectMsg(s, b) \in Messages /\ NewObjectMsg(s, b).type = "NewObject"
      BY ONLY <1>6
    <3>. HIDE DEF Messages
    <3>. QED  BY ONLY <2>1, <2>2, <3>1, <3>2, SentFacts, Zenon
  <2>. QED  BY ONLY <1>6, <2>1, <2>3
<1>8. BlocksTracked'
  <2>1. heap'[b] = "raw" /\ \A c : c # b => heap'[c] = heap[c]
    BY <1>1, <1>2 DEF TypeOK
  <2>2. NewBlocksIn(msgs') \cap BlocksOf(graph') = {}
    BY <1>2, <1>3, <1>4, <1>7 DEF Tracked
  <2>3. \A c \in NewBlocksIn(msgs') \cup BlocksOf(graph') :
          heap'[c] \in {"raw", "live"} /\ c # dying'.block
    BY <1>2, <1>3, <1>5, <1>7, <2>1 DEF Tracked
  <2>4. IF dying'.block = Null THEN dying'.left = 0 ELSE heap'[dying'.block] # "free"
    BY <1>2, <1>3, <1>5, <2>1 DEF Tracked
  <2>. QED  BY <1>7, <2>2, <2>3, <2>4, TrackedFacts DEF Tracked
<1>9. frames' \in [Threads -> Seq(Frame)] /\ \A u \in Threads : Len(frames'[u]) <= MaxDepth
  <2>1. f \in Frame
    BY <1>1, SlotsAssumption DEF Frame
  <2>2. frames[t] \in Seq(Frame) /\ <<f>> \in Seq(Frame) /\ Len(<<f>>) = 1
    BY <1>1, <2>1 DEF TypeOK
  <2>. HIDE DEF f
  <2>3. <<f>> \o frames[t] \in Seq(Frame) /\ Len(<<f>> \o frames[t]) = 1 + Len(frames[t])
    BY <2>2, ConcatProperties
  <2>4. Len(frames[t]) \in Nat
    BY <2>2, LenProperties
  <2>5. 1 + Len(frames[t]) <= MaxDepth
    BY <1>2, <2>4, BoundsAssumption
  <2>. QED  BY <1>1, <1>2, <2>3, <2>5 DEF TypeOK
<1>10. keeper' \in [Blocks -> Blocks \cup {Null, Gone}]
  BY <1>1, <1>2, StoreFacts DEF TypeOK
<1>11. TypeOK'
  <2>1. heap' \in [Blocks -> {"free", "raw", "live", "destroyed", "dropped"}]
    BY <1>1, <1>2 DEF TypeOK
  <2>. QED  BY <1>1, <1>2, <1>7, <1>9, <1>10, <2>1 DEF TypeOK
<1>. QED  BY <1>2, <1>8, <1>11, GraphKept


(* A call of has() that goes on in another state. *)
LEMMA FrameChange ==
  ASSUME TypeOK, NEW t \in Threads, frames[t] # << >>, NEW f \in Frame,
         NEW q, q = [frames[t] EXCEPT ![1] = f],
         frames' = [frames EXCEPT ![t] = q]
  PROVE  /\ frames' \in [Threads -> Seq(Frame)]
         /\ \A u \in Threads : Len(frames'[u]) <= MaxDepth
<1>1. q \in Seq(Frame) /\ Len(q) = Len(frames[t])
  BY FrameFacts, ExceptSeq
<1>. QED  BY <1>1 DEF TypeOK

LEMMA MakeMemberInv ==
  ASSUME IInv, NEW t \in Threads, MakeMember(t)
  PROVE  IInv'
<1>. DEFINE f == Head(frames[t])
            m == NextMember(f)
<1>1. TypeOK /\ frames[t] # << >> /\ f.made < Slots
  BY DEF IInv, GraphConsistent, MakeMember, Constructing
<1>2. f \in Frame /\ f = frames[t][1]
  BY <1>1, FrameFacts
<1>3. f.block \in Blocks /\ f.made \in Nat /\ f.made + 1 \in 1..Slots
  BY <1>1, <1>2, SlotsAssumption DEF Frame
<1>4. m \in Sptrs
  BY <1>3, MemberFacts DEF NextMember
<1>5. /\ alive' = alive \cup {m}
      /\ UNCHANGED <<heap, asgn, signal, pc, terminate, dying, graph>>
      /\ \/ /\ ptr' = [ptr EXCEPT ![m] = Null]
            /\ msgs' = Append(msgs, SptrRegistrationMsg(m))
            /\ keeper' = keeper
         \/ \E src \in Readable(t) :
              /\ ptr' = [ptr EXCEPT ![m] = ptr[src]]
              /\ msgs' = Append(msgs, SptrCopyRegistrationMsg(m, src))
              /\ Store(m, ptr[src])
  BY DEF MakeMember, Send, gcVars
<1>6. frames' = [frames EXCEPT ![t] = [frames[t] EXCEPT ![1] = [frames[t][1] EXCEPT !.made = frames[t][1].made + 1]]]
  BY DEF MakeMember
<1>7. /\ frames' \in [Threads -> Seq(Frame)]
      /\ \A u \in Threads : Len(frames'[u]) <= MaxDepth
  <2>1. [frames[t][1] EXCEPT !.made = frames[t][1].made + 1] \in Frame
    BY <1>2, <1>3 DEF Frame
  <2>. QED  BY <1>1, <1>6, <2>1, FrameChange
<1>. HIDE DEF f, m
<1>8. /\ msgs' \in Seq(Messages) /\ BlocksTracked'
      /\ ptr' \in [Sptrs -> Blocks \cup {Null}]
      /\ keeper' \in [Blocks -> Blocks \cup {Null, Gone}]
  <2>1. CASE /\ ptr' = [ptr EXCEPT ![m] = Null]
             /\ msgs' = Append(msgs, SptrRegistrationMsg(m))
             /\ keeper' = keeper
    BY <1>1, <1>4, <1>5, <2>1, SendFacts, MessageFacts DEF TypeOK
  <2>2. ASSUME NEW src \in Readable(t),
               ptr' = [ptr EXCEPT ![m] = ptr[src]],
               msgs' = Append(msgs, SptrCopyRegistrationMsg(m, src)),
               Store(m, ptr[src])
        PROVE  /\ msgs' \in Seq(Messages) /\ BlocksTracked'
               /\ ptr' \in [Sptrs -> Blocks \cup {Null}]
               /\ keeper' \in [Blocks -> Blocks \cup {Null, Gone}]
    <3>1. src \in Sptrs /\ ptr[src] \in Blocks \cup {Null}
      BY <1>1, UsableFacts DEF TypeOK
    <3>2. msgs' \in Seq(Messages) /\ BlocksTracked'
      BY <1>4, <1>5, <2>2, <3>1, SendFacts, MessageFacts
    <3>3. ptr' \in [Sptrs -> Blocks \cup {Null}]
      BY <1>1, <2>2, <3>1 DEF TypeOK
    <3>4. keeper' \in [Blocks -> Blocks \cup {Null, Gone}]
      BY <1>1, <1>4, <2>2, <3>1, StoreFacts DEF TypeOK
    <3>. QED  BY <3>2, <3>3, <3>4
  <2>. QED  BY <1>5, <2>1, <2>2
<1>9. TypeOK'
  BY <1>1, <1>4, <1>5, <1>7, <1>8 DEF TypeOK
<1>. QED  BY <1>5, <1>8, <1>9, GraphKept

LEMMA HasEndInv ==
  ASSUME IInv, NEW t \in Threads, HasEnd(t)
  PROVE  IInv'
<1>. DEFINE f == Head(frames[t])
<1>1. TypeOK /\ frames[t] # << >>
  BY DEF IInv, GraphConsistent, HasEnd
<1>2. f \in Frame
  BY <1>1, FrameFacts
<1>3. /\ ptr' = [ptr EXCEPT ![f.sptr] = f.block]
      /\ heap' = [heap EXCEPT ![f.block] = "live"]
      /\ frames' = [frames EXCEPT ![t] = Tail(frames[t])]
      /\ UNCHANGED <<alive, asgn, msgs, signal, pc, terminate, dying, graph, keeper>>
  BY DEF HasEnd, gcVars
<1>4. frames' \in [Threads -> Seq(Frame)] /\ \A u \in Threads : Len(frames'[u]) <= MaxDepth
  <2>1. /\ Tail(frames[t]) \in Seq(Frame) /\ Len(frames[t]) \in Nat
        /\ Len(Tail(frames[t])) = Len(frames[t]) - 1 /\ Len(frames[t]) <= MaxDepth
    BY <1>1, FrameFacts
  <2>2. Len(Tail(frames[t])) <= MaxDepth
    BY <2>1, BoundsAssumption
  <2>. QED  BY <1>1, <1>3, <2>1, <2>2 DEF TypeOK
<1>5. f.sptr \in Sptrs /\ f.block \in Blocks
  BY <1>2 DEF Frame
<1>. HIDE DEF f
<1>6. TypeOK'
  BY <1>1, <1>3, <1>4, <1>5 DEF TypeOK
<1>7. BlocksTracked'
  <2>1. Tracked(msgs, heap, dying, graph)
    BY TrackedFacts DEF IInv
  <2>2. \A b : heap'[b] = heap[b] \/ heap'[b] = "live"
    BY <1>1, <1>3 DEF TypeOK
  <2>3. Tracked(msgs', heap', dying', graph')
    BY <1>3, <2>1, <2>2 DEF Tracked
  <2>. QED  BY <2>3, TrackedFacts
<1>. QED  BY <1>3, <1>6, <1>7, GraphKept

LEMMA ThrowInv ==
  ASSUME IInv, NEW t \in Threads, Throw(t)
  PROVE  IInv'
<1>1. TypeOK /\ frames[t] # << >>
  BY DEF IInv, GraphConsistent, Throw, Constructing
<1>2. /\ frames' = [frames EXCEPT ![t] = [frames[t] EXCEPT ![1] = [frames[t][1] EXCEPT !.failing = TRUE]]]
      /\ UNCHANGED <<ptr, alive, heap, asgn, msgs, signal, pc, terminate, dying, graph, keeper>>
  BY DEF Throw, gcVars
<1>3. [frames[t][1] EXCEPT !.failing = TRUE] \in Frame
  BY <1>1, FrameFacts DEF Frame
<1>4. frames' \in [Threads -> Seq(Frame)] /\ \A u \in Threads : Len(frames'[u]) <= MaxDepth
  BY <1>1, <1>2, <1>3, FrameChange
<1>5. TypeOK'
  BY <1>1, <1>2, <1>4 DEF TypeOK
<1>6. BlocksTracked'
  BY <1>2, TrackedFacts DEF IInv
<1>. QED  BY <1>2, <1>5, <1>6, GraphKept

LEMMA UnmakeMemberInv ==
  ASSUME IInv, NEW t \in Threads, UnmakeMember(t)
  PROVE  IInv'
<1>. DEFINE f == Head(frames[t])
            m == <<f.block, f.made>>
<1>1. TypeOK /\ frames[t] # << >> /\ f.made > 0
  BY DEF IInv, GraphConsistent, UnmakeMember
<1>2. f \in Frame /\ f = frames[t][1]
  BY <1>1, FrameFacts
<1>3. f.block \in Blocks /\ f.made \in 1..Slots /\ f.made - 1 \in 0..Slots
  BY <1>1, <1>2, SlotsAssumption DEF Frame
<1>4. m \in Sptrs
  BY <1>3, MemberFacts
<1>5. /\ alive' = alive \ {m} /\ ptr' = [ptr EXCEPT ![m] = Null]
      /\ msgs' = Append(msgs, SptrUnregistrationMsg(m))
      /\ frames' = [frames EXCEPT ![t] = [frames[t] EXCEPT ![1] = [frames[t][1] EXCEPT !.made = frames[t][1].made - 1]]]
      /\ UNCHANGED <<heap, asgn, signal, pc, terminate, dying, graph, keeper>>
  BY DEF UnmakeMember, Send, gcVars
<1>6. /\ frames' \in [Threads -> Seq(Frame)]
      /\ \A u \in Threads : Len(frames'[u]) <= MaxDepth
  <2>1. [frames[t][1] EXCEPT !.made = frames[t][1].made - 1] \in Frame
    BY <1>2, <1>3 DEF Frame
  <2>. QED  BY <1>1, <1>5, <2>1, FrameChange
<1>. HIDE DEF f, m
<1>7. msgs' \in Seq(Messages) /\ BlocksTracked'
  BY <1>4, <1>5, SendFacts, MessageFacts
<1>8. TypeOK'
  BY <1>1, <1>5, <1>6, <1>7 DEF TypeOK
<1>. QED  BY <1>5, <1>7, <1>8, GraphKept

LEMMA HasAbortInv ==
  ASSUME IInv, NEW t \in Threads, HasAbort(t)
  PROVE  IInv'
<1>. DEFINE s == Head(frames[t]).sptr
            rest == Tail(frames[t])
<1>1. TypeOK /\ frames[t] # << >>
  BY DEF IInv, GraphConsistent, HasAbort
<1>2. s \in Sptrs
  BY <1>1, FrameFacts DEF Frame
<1>3. /\ ptr' = [ptr EXCEPT ![s] = Null]
      /\ msgs' = Append(msgs, AbortedObjectMsg(s))
      /\ UNCHANGED <<alive, heap, asgn, signal, pc, terminate, dying, graph, keeper>>
  BY DEF HasAbort, Send, gcVars
<1>4. \/ frames' = [frames EXCEPT ![t] = rest]
      \/ /\ Len(frames[t]) # 1
         /\ frames' = [frames EXCEPT ![t] = [rest EXCEPT ![1] = [rest[1] EXCEPT !.failing = TRUE]]]
  BY DEF HasAbort
<1>5. /\ rest \in Seq(Frame) /\ Len(frames[t]) \in Nat
      /\ Len(rest) = Len(frames[t]) - 1 /\ Len(frames[t]) <= MaxDepth /\ 1 \in 1..Len(frames[t])
  BY <1>1, FrameFacts
<1>. HIDE DEF s, rest
<1>6. /\ frames' \in [Threads -> Seq(Frame)]
      /\ \A u \in Threads : Len(frames'[u]) <= MaxDepth
  <2>1. Len(rest) <= MaxDepth
    BY <1>5, BoundsAssumption
  <2>2. CASE frames' = [frames EXCEPT ![t] = rest]
    BY <1>1, <1>5, <2>1, <2>2 DEF TypeOK
  <2>3. CASE /\ Len(frames[t]) # 1
             /\ frames' = [frames EXCEPT ![t] = [rest EXCEPT ![1] = [rest[1] EXCEPT !.failing = TRUE]]]
    <3>. DEFINE outer == [rest[1] EXCEPT !.failing = TRUE]
                q == [rest EXCEPT ![1] = outer]
    <3>1. 1 \in 1..Len(rest)
      <4>1. Len(frames[t]) # 1
        BY <2>3
      <4>2. \A n \in Nat : 1 \in 1..n /\ n # 1 => 1 \in 1..(n - 1)
        OBVIOUS
      <4>. QED  BY ONLY <1>5, <4>1, <4>2
    <3>2. outer \in Frame
      <4>1. rest[1] \in Frame
        BY <1>5, <3>1, ElementOfSeq
      <4>. QED  BY <4>1 DEF Frame
    <3>. HIDE DEF outer
    <3>3. q \in Seq(Frame) /\ Len(q) = Len(rest)
      BY <1>5, <3>1, <3>2, ExceptSeq
    <3>. QED  BY <1>1, <2>1, <2>3, <3>3 DEF TypeOK, outer
  <2>. QED  BY <1>4, <2>2, <2>3
<1>7. msgs' \in Seq(Messages) /\ BlocksTracked'
  BY <1>2, <1>3, SendFacts, MessageFacts
<1>8. TypeOK'
  BY <1>1, <1>2, <1>3, <1>6, <1>7 DEF TypeOK
<1>. QED  BY <1>3, <1>7, <1>8, GraphKept

LEMMA ShutdownInv ==
  ASSUME IInv, Shutdown
  PROVE  IInv'
<1>1. TypeOK'
  BY DEF IInv, GraphConsistent, TypeOK, Shutdown, clientVars, gcVars
<1>2. BlocksTracked'
  BY TrackedFacts DEF IInv, Shutdown, gcVars
<1>. QED  BY <1>1, <1>2, GraphKept DEF Shutdown, gcVars


-----------------------------------------------------------------------------
(* The actions of the thread of the collector. *)

LEMMA WaitForInv ==
  ASSUME IInv, WaitFor
  PROVE  IInv'
<1>1. TypeOK'
  BY DEF IInv, GraphConsistent, TypeOK, WaitFor, clientVars
<1>2. BlocksTracked'
  BY TrackedFacts DEF IInv, WaitFor
<1>. QED  BY <1>1, <1>2, GraphKept DEF WaitFor

LEMMA DrainedInv ==
  ASSUME IInv, Drained
  PROVE  IInv'
<1>1. TypeOK'
  BY DEF IInv, GraphConsistent, TypeOK, Drained, clientVars
<1>2. BlocksTracked'
  BY TrackedFacts DEF IInv, Drained
<1>. QED  BY <1>1, <1>2, GraphKept DEF Drained

LEMMA DestroyMemberInv ==
  ASSUME IInv, DestroyMember
  PROVE  IInv'
<1>. DEFINE m == <<dying.block, dying.left>>
<1>1. TypeOK /\ BlocksTracked
  BY DEF IInv, GraphConsistent
<1>2. dying \in [block : Blocks \cup {Null}, left : 0..Slots] /\ dying.left > 0
  BY <1>1 DEF TypeOK, DestroyMember
<1>3. dying.block # Null
  BY <1>1, <1>2 DEF BlocksTracked
<1>4. dying.block \in Blocks /\ dying.left \in 1..Slots /\ dying.left - 1 \in 0..Slots
  BY <1>2, <1>3, SlotsAssumption
<1>5. m \in Sptrs
  BY <1>4, MemberFacts
<1>6. /\ alive' = alive \ {m} /\ ptr' = [ptr EXCEPT ![m] = Null]
      /\ msgs' = Append(msgs, SptrUnregistrationMsg(m))
      /\ dying' = [dying EXCEPT !.left = dying.left - 1]
      /\ UNCHANGED <<heap, frames, asgn, signal, pc, terminate, graph, keeper>>
  BY DEF DestroyMember, clientVars
<1>. HIDE DEF m
<1>7. dying' \in [block : Blocks \cup {Null}, left : 0..Slots] /\ dying'.block = dying.block
  BY <1>2, <1>4, <1>6
<1>8. msgs' \in Seq(Messages) /\ BlocksTracked'
  BY <1>3, <1>5, <1>6, <1>7, SendFacts, MessageFacts
<1>9. TypeOK'
  BY <1>1, <1>5, <1>6, <1>7, <1>8 DEF TypeOK
<1>. QED  BY <1>6, <1>8, <1>9, GraphKept

LEMMA FreeMemoryInv ==
  ASSUME IInv, FreeMemory
  PROVE  IInv'
<1>1. TypeOK /\ Tracked(msgs, heap, dying, graph)
  BY TrackedFacts DEF IInv, GraphConsistent
<1>2. /\ heap' = [heap EXCEPT ![dying.block] = "free"]
      /\ keeper' = [b \in Blocks |-> IF b = dying.block THEN Null
                                     ELSE IF keeper[b] = dying.block THEN Gone
                                     ELSE keeper[b]]
      /\ dying' = Nobody /\ pc' = "drain"
      /\ UNCHANGED <<ptr, alive, frames, asgn, msgs, signal, terminate, graph>>
  BY DEF FreeMemory, clientVars
<1>3. dying'.block = Null /\ dying'.left = 0
  BY <1>2 DEF Nobody
<1>4. TypeOK'
  <2>1. dying' \in [block : Blocks \cup {Null}, left : 0..Slots]
    BY <1>2, SlotsAssumption DEF Nobody
  <2>2. keeper' \in [Blocks -> Blocks \cup {Null, Gone}]
    BY <1>1, <1>2 DEF TypeOK
  <2>3. heap' \in [Blocks -> {"free", "raw", "live", "destroyed", "dropped"}]
    BY <1>1, <1>2 DEF TypeOK
  <2>. QED  BY <1>1, <1>2, <2>1, <2>2, <2>3 DEF TypeOK
<1>5. BlocksTracked'
  <2>1. \A b : b # dying.block => heap'[b] = heap[b]
    BY <1>1, <1>2 DEF TypeOK
  <2>2. \A b \in NewBlocksIn(msgs) \cup BlocksOf(graph) : b \in Blocks
    <3>1. \A b \in BlocksOf(graph) : b \in Blocks
      BY <1>1 DEF TypeOK, GraphOK, IsVertex, BlocksOf
    <3>2. \A b \in NewBlocksIn(msgs) : b \in Blocks
      <4>1. \A i \in 1..Len(msgs) : msgs[i] \in Messages
        BY <1>1, ElementOfSeq DEF TypeOK
      <4>. QED  BY <4>1 DEF NewBlocksIn, AnnouncedIn, Messages
    <3>. QED  BY <3>1, <3>2
  <2>3. \A b \in NewBlocksIn(msgs) \cup BlocksOf(graph) :
          heap'[b] \in {"raw", "live"} /\ b # Null
    BY <1>1, <2>1, <2>2, NullAssumption DEF Tracked
  <2>. QED  BY <1>1, <1>2, <1>3, <2>3, TrackedFacts DEF Tracked
<1>. QED  BY <1>2, <1>4, <1>5, GraphKept

LEMMA ExecuteMessageInv ==
  ASSUME IInv, ExecuteMessage
  PROVE  IInv'
<1>. DEFINE m == Head(msgs)
            r == graph'.released
<1>1. /\ TypeOK /\ AssertionsHold /\ GraphInv(graph)
      /\ Tracked(msgs, heap, dying, graph)
  BY TrackedFacts, InvFacts
<1>2. /\ msgs # << >> /\ graph.fault = {}
      /\ graph' = Execute(graph, m) /\ msgs' = Tail(msgs)
      /\ IF r.block = Null THEN UNCHANGED <<pc, dying, heap>>
         ELSE /\ pc' = "free"
              /\ dying' = [block |-> r.block, left |-> IF r.dtion THEN Slots ELSE 0]
              /\ heap' = [heap EXCEPT ![r.block] = IF r.dtion THEN "destroyed" ELSE "dropped"]
      /\ UNCHANGED <<ptr, alive, frames, asgn, signal, terminate, keeper>>
  BY DEF ExecuteMessage, clientVars
<1>3. msgs \in Seq(Messages) /\ AnnouncedOnce(msgs)
  BY <1>1 DEF TypeOK, Tracked
<1>4. /\ m \in Messages /\ msgs' \in Seq(Messages)
      /\ NewBlocksIn(msgs') \subseteq NewBlocksIn(msgs) /\ AnnouncedOnce(msgs')
      /\ m.type = "NewObject" => m.block \in NewBlocksIn(msgs) /\ m.block \notin NewBlocksIn(msgs')
  BY <1>2, <1>3, TakenFacts
<1>5. m.type = "NewObject" => m.block \notin BlocksOf(graph)
  BY <1>1, <1>4 DEF Tracked
<1>. HIDE DEF m
<1>6. /\ GraphInv(graph')
      /\ \A b \in BlocksOf(graph') : b \in BlocksOf(graph) \/ (m.type = "NewObject" /\ b = m.block)
      /\ r = NoRelease \/ r.block \in BlocksOf(graph) \ BlocksOf(graph')
      /\ graph'.fault \subseteq ClientFaults
  BY <1>1, <1>2, <1>4, <1>5, ExecuteFacts
<1>7. r \in [block : Blocks \cup {Null}, dtion : BOOLEAN]
  BY <1>6 DEF GraphInv, GraphOK
<1>8. AssertionsHold'
  BY <1>6 DEF AssertionsHold, ClientFaults
<1>9. r.block # Null => r.block \in BlocksOf(graph) /\ r.block \notin BlocksOf(graph')
  BY <1>6 DEF NoRelease
<1>10. r.block # Null => r.block \notin NewBlocksIn(msgs')
  BY <1>1, <1>4, <1>9 DEF Tracked
<1>. HIDE DEF r
<1>11. TypeOK'
  <2>1. CASE r.block = Null
    BY <1>1, <1>2, <1>4, <1>6, <2>1 DEF TypeOK, GraphInv
  <2>2. CASE r.block # Null
    <3>1. dying' \in [block : Blocks \cup {Null}, left : 0..Slots]
      BY <1>2, <1>7, <2>2, SlotsAssumption
    <3>2. heap' \in [Blocks -> {"free", "raw", "live", "destroyed", "dropped"}]
      BY <1>1, <1>2, <2>2 DEF TypeOK
    <3>. QED  BY <1>1, <1>2, <1>4, <1>6, <2>2, <3>1, <3>2 DEF TypeOK, GraphInv
  <2>. QED  BY <2>1, <2>2
<1>12. BlocksTracked'
  <2>1. NewBlocksIn(msgs') \cap BlocksOf(graph') = {}
    BY <1>1, <1>4, <1>6 DEF Tracked
  <2>2. \A b \in NewBlocksIn(msgs') \cup BlocksOf(graph') : b \in NewBlocksIn(msgs) \cup BlocksOf(graph)
    BY <1>4, <1>6
  <2>3. CASE r.block = Null
    <3>1. heap' = heap /\ dying' = dying
      BY <1>2, <2>3
    <3>. QED  BY <1>1, <1>4, <2>1, <2>2, <3>1, TrackedFacts DEF Tracked
  <2>4. CASE r.block # Null
    <3>1. dying'.block = r.block /\ \A b : b # r.block => heap'[b] = heap[b]
      <4>1. dying' = [block |-> r.block, left |-> IF r.dtion THEN Slots ELSE 0]
        BY <1>2, <2>4
      <4>2. heap' = [heap EXCEPT ![r.block] = IF r.dtion THEN "destroyed" ELSE "dropped"]
        BY <1>2, <2>4
      <4>3. \A b : b # r.block => heap'[b] = heap[b]
        BY <1>1, <4>2 DEF TypeOK
      <4>. QED  BY <4>1, <4>3
    <3>2. heap'[r.block] # "free"
      BY <1>1, <1>2, <1>7, <2>4 DEF TypeOK
    <3>3. \A b \in NewBlocksIn(msgs') \cup BlocksOf(graph') :
            heap'[b] \in {"raw", "live"} /\ b # dying'.block
      BY <1>1, <1>9, <1>10, <2>2, <2>4, <3>1 DEF Tracked
    <3>. QED  BY <1>4, <2>1, <2>4, <3>1, <3>2, <3>3, TrackedFacts DEF Tracked
  <2>. QED  BY <2>3, <2>4
<1>. QED  BY <1>6, <1>8, <1>11, <1>12, InvFacts DEF IInv, GraphConsistent, GraphInv

-----------------------------------------------------------------------------
LEMMA StepInv ==
  ASSUME IInv, [Next]_vars
  PROVE  IInv'
<1>1. CASE UNCHANGED vars
  <2>1. TypeOK' /\ graph' = graph
    BY <1>1 DEF IInv, GraphConsistent, TypeOK, vars, clientVars, gcVars
  <2>2. BlocksTracked'
    BY <1>1, TrackedFacts DEF IInv, vars, gcVars
  <2>. QED  BY <2>1, <2>2, GraphKept
<1>2. ASSUME NEW t \in Threads, Call(t)
      PROVE  IInv'
  <2>1. CASE \E r \in Roots : Construct(t, r) \/ Destroy(t, r)
    BY <2>1, ConstructInv, DestroyInv
  <2>2. CASE UsePointers(t)
    BY <2>2, ConstructCopyInv, AssignInv, ResetInv, HasInv DEF UsePointers
  <2>. QED  BY <1>2, <2>1, <2>2, MakeMemberInv, UnmakeMemberInv, HasAbortInv DEF Call
<1>3. ASSUME NEW t \in Threads, Client(t)
      PROVE  IInv'
  BY <1>2, <1>3, AssignEndInv, HasEndInv, ThrowInv DEF Client
<1>4. CASE Collector
  BY <1>4, WaitForInv, ExecuteMessageInv, DestroyMemberInv, FreeMemoryInv, DrainedInv DEF Collector
<1>. QED  BY <1>1, <1>3, <1>4, ShutdownInv DEF Next, Stopped

(* Whatever the threads of the client and the collector do, the edges of the *)
(* graph follow its table and every block that is announced or has a vertex  *)
(* is allocated: IInv is an invariant of the calls of sptr.h and of the loop *)
(* of GCThreadProc.                                                          *)
THEOREM CollectorInvariance == Spec => []IInv
BY InitInv, StepInv, PTL DEF Spec

(* The queue holds messages, the graph is well formed, and no thread goes    *)
(* deeper into constructions than it may.                                    *)
THEOREM CollectorTypeCorrect == Spec => []TypeOK
<1>1. IInv => TypeOK
  BY DEF IInv, GraphConsistent
<1>. QED  BY <1>1, CollectorInvariance, PTL

(* Between any two messages the edge counters agree with the pointers of the *)
(* hash table, no vertex is lost, a block has one vertex, and the assertions *)
(* of AddVertex, MakeReference and RemoveEdge never fail.                    *)
THEOREM GraphStaysConsistent == Spec => []GraphConsistent
<1>1. IInv => GraphConsistent
  BY DEF IInv
<1>. QED  BY <1>1, CollectorInvariance, PTL

(* A step never destroys the object in a block but when the vertex of the    *)
(* block goes, and never frees the memory of a block that has a vertex or is *)
(* announced: the collector frees a block once, and after it has forgotten   *)
(* it (UnmakeReference and FreeMemAddr).                                     *)
FreedInOrder ==
  [][\A b \in Blocks :
       /\ heap'[b] \in {"destroyed", "dropped"} /\ heap[b] # heap'[b] =>
            heap[b] \in {"raw", "live"} /\ b \in BlocksOf(graph) \ BlocksOf(graph')
       /\ heap'[b] = "free" /\ heap[b] # "free" =>
            b = dying.block /\ b \notin NewBlocks \cup BlocksOf(graph)]_vars

LEMMA FreedInOrderStep ==
  ASSUME IInv, [Next]_vars, NEW b \in Blocks
  PROVE  /\ heap'[b] \in {"destroyed", "dropped"} /\ heap[b] # heap'[b] =>
              heap[b] \in {"raw", "live"} /\ b \in BlocksOf(graph) \ BlocksOf(graph')
         /\ heap'[b] = "free" /\ heap[b] # "free" =>
              b = dying.block /\ b \notin NewBlocks \cup BlocksOf(graph)
<1>. DEFINE Goal == /\ heap'[b] \in {"destroyed", "dropped"} /\ heap[b] # heap'[b] =>
                         heap[b] \in {"raw", "live"} /\ b \in BlocksOf(graph) \ BlocksOf(graph')
                    /\ heap'[b] = "free" /\ heap[b] # "free" =>
                         b = dying.block /\ b \notin NewBlocks \cup BlocksOf(graph)
<1>1. /\ heap \in [Blocks -> {"free", "raw", "live", "destroyed", "dropped"}]
      /\ BlocksTracked /\ IInv'
  BY StepInv DEF IInv, GraphConsistent, TypeOK
<1>2. CASE heap' = heap
  BY <1>2
<1>3. ASSUME NEW c \in Blocks, NEW x \in {"raw", "live"}, heap' = [heap EXCEPT ![c] = x]
      PROVE  Goal
  BY <1>1, <1>3
<1>4. ASSUME NEW t \in Threads, Client(t)
      PROVE  Goal
  <2>1. heap' = heap \/ (\E c \in Blocks : heap' = [heap EXCEPT ![c] = "raw"]) \/ HasEnd(t)
    BY <1>4 DEF Client, Call, UsePointers, Construct, Destroy, ConstructCopy, Assign, Reset, Has,
                MakeMember, UnmakeMember, HasAbort, AssignEnd, Throw
  <2>2. CASE HasEnd(t)
    <3>1. Head(frames[t]) \in Frame
      BY <2>2, FrameFacts DEF IInv, GraphConsistent, HasEnd
    <3>2. Head(frames[t]).block \in Blocks
      BY <3>1 DEF Frame
    <3>. QED  BY <1>3, <2>2, <3>2 DEF HasEnd
  <2>. QED  BY <1>2, <1>3, <2>1, <2>2
<1>5. CASE ExecuteMessage
  <2>. DEFINE r == graph'.released
  <2>1. /\ IF r.block = Null THEN heap' = heap
           ELSE heap' = [heap EXCEPT ![r.block] = IF r.dtion THEN "destroyed" ELSE "dropped"]
        /\ r.block # Null => dying'.block = r.block
    BY <1>5 DEF ExecuteMessage
  <2>2. r.block # Null => r.block \in BlocksOf(graph) \ BlocksOf(graph')
    <3>1. GraphInv(graph) /\ msgs \in Seq(Messages) /\ Tracked(msgs, heap, dying, graph)
      BY InvFacts, TrackedFacts DEF TypeOK
    <3>2. msgs # << >> /\ graph.fault = {} /\ graph' = Execute(graph, Head(msgs))
      BY <1>5 DEF ExecuteMessage
    <3>3. /\ Head(msgs) \in Messages
          /\ Head(msgs).type = "NewObject" => Head(msgs).block \notin BlocksOf(graph)
      BY <3>1, <3>2, TakenFacts DEF Tracked
    <3>4. r = NoRelease \/ r.block \in BlocksOf(graph) \ BlocksOf(graph')
      BY <3>1, <3>2, <3>3, ExecuteFacts
    <3>. QED  BY <3>4 DEF NoRelease
  <2>. HIDE DEF r
  <2>3. CASE r.block = Null
    BY <1>2, <2>1, <2>3
  <2>4. CASE r.block # Null
    <3>1. heap[r.block] \in {"raw", "live"}
      BY <1>1, <2>2, <2>4 DEF BlocksTracked
    <3>2. heap' = [heap EXCEPT ![r.block] = IF r.dtion THEN "destroyed" ELSE "dropped"]
      BY <2>1, <2>4
    <3>. QED  BY <1>1, <2>2, <2>4, <3>1, <3>2
  <2>. QED  BY <2>3, <2>4
<1>6. CASE FreeMemory
  <2>1. heap' = [heap EXCEPT ![dying.block] = "free"]
    BY <1>6 DEF FreeMemory
  <2>2. dying.block \notin NewBlocks \cup BlocksOf(graph)
    BY <1>1 DEF BlocksTracked
  <2>. QED  BY <1>1, <2>1, <2>2
<1>7. CASE WaitFor \/ DestroyMember \/ Drained \/ Shutdown \/ Stopped \/ UNCHANGED vars
  BY <1>2, <1>7 DEF WaitFor, DestroyMember, Drained, Shutdown, Stopped, vars
<1>. QED  BY <1>4, <1>5, <1>6, <1>7 DEF Next, Collector

(* Blocks are destroyed and freed in order, whatever the client does. *)
THEOREM BlocksFreedInOrder == Spec => FreedInOrder
<1>1. IInv /\ [Next]_vars =>
        [\A b \in Blocks :
           /\ heap'[b] \in {"destroyed", "dropped"} /\ heap[b] # heap'[b] =>
                heap[b] \in {"raw", "live"} /\ b \in BlocksOf(graph) \ BlocksOf(graph')
           /\ heap'[b] = "free" /\ heap[b] # "free" =>
                b = dying.block /\ b \notin NewBlocks \cup BlocksOf(graph)]_vars
  BY FreedInOrderStep
<1>. QED  BY <1>1, CollectorInvariance, PTL DEF Spec, FreedInOrder

-----------------------------------------------------------------------------
(* What may happen to the memory while the views stay as they are: a block *)
(* is taken into use, or its constructor succeeds.                         *)
Steady(hp, building, hp2, building2) ==
  \A b \in Blocks :
    /\ hp[b] \in {"raw", "live"} => hp2[b] \in {"raw", "live"} /\ (hp2[b] = "raw" => hp[b] = "raw")
    /\ hp[b] = "raw" /\ b \notin building => hp2[b] = "raw" /\ b \notin building2

LEMMA LinkedFacts ==
  ASSUME NEW views, NEW q, NEW hp, NEW building, Linked(views, q, hp, building),
         Len(q) \in Nat, NEW i \in 1..Len(q), q[i] \in Messages
  PROVE  /\ i - 1 \in 0..Len(q) /\ i \in 0..Len(q) /\ i - 1 \in Nat
         /\ IsView(views[i - 1]) /\ IsView(views[i])
         /\ views[i] = After(views[i - 1], q[i]) /\ Allowed(views[i - 1], q[i])
         /\ q[i].type = "AbortedObject" => q[i].sptr \in DOMAIN views[i - 1]
         /\ \A s \in DOMAIN views[i - 1] :
              /\ views[i - 1][s] \in Blocks \cup {Null}
              /\ views[i - 1][s] # Null => hp[views[i - 1][s]] \in {"raw", "live"}
         /\ \A s \in DOMAIN views[i] :
              /\ views[i][s] \in Blocks \cup {Null}
              /\ views[i][s] # Null => hp[views[i][s]] \in {"raw", "live"}
<1>1. i - 1 \in 0..Len(q) /\ i \in 0..Len(q) /\ i - 1 \in Nat
  OBVIOUS
<1>2. /\ IsView(views[i - 1]) /\ IsView(views[i])
      /\ views[i] = After(views[i - 1], q[i]) /\ Allowed(views[i - 1], q[i])
      /\ LeadsToUsed(views[i - 1], hp) /\ LeadsToUsed(views[i], hp)
  BY <1>1 DEF Linked
<1>3. q[i].type = "AbortedObject" => q[i].sptr \in DOMAIN views[i - 1]
  BY <1>2 DEF Allowed, Registering
<1>. QED  BY ONLY <1>1, <1>2, <1>3 DEF IsView, LeadsToUsed

LEMMA KeepLinked ==
  ASSUME NEW views, NEW q \in Seq(Messages), NEW hp, NEW building, Linked(views, q, hp, building),
         NEW hp2, NEW building2, Steady(hp, building, hp2, building2)
  PROVE  Linked(views, q, hp2, building2)
<1>0. Len(q) \in Nat /\ \A i \in 1..Len(q) : q[i] \in Messages
  OBVIOUS
<1>1. ASSUME NEW i \in 0..Len(q) PROVE IsView(views[i]) /\ OneKeeper(views[i]) /\ LeadsToUsed(views[i], hp2)
  <2>1. IsView(views[i]) /\ OneKeeper(views[i]) /\ LeadsToUsed(views[i], hp)
    BY DEF Linked
  <2>. QED  BY <2>1 DEF LeadsToUsed, Steady, IsView
<1>2. ASSUME NEW i \in 1..Len(q) PROVE AbortsOnlyRaw(views, q, hp2, building2, i)
  <2>1. AbortsOnlyRaw(views, q, hp, building, i)
    BY DEF Linked
  <2>. DEFINE m == q[i]
              b == views[i - 1][m.sptr]
  <2>2. /\ m.type = "AbortedObject" => m.sptr \in DOMAIN views[i - 1]
        /\ m.sptr \in DOMAIN views[i - 1] => b \in Blocks \cup {Null}
        /\ m.sptr \in DOMAIN views[i - 1] /\ b # Null => hp[b] \in {"raw", "live"}
    BY <1>0, LinkedFacts
  <2>. HIDE DEF m, b
  <2>3. /\ m.sptr \in DOMAIN views[i - 1] /\ b # Null /\ hp[b] = "raw" => m.type = "AbortedObject"
        /\ m.type = "AbortedObject" =>
             /\ b # Null /\ hp[b] = "raw" /\ b \notin building
             /\ \A j \in i..Len(q) : \A s \in DOMAIN views[j] : views[j][s] # b
    BY <2>1 DEF AbortsOnlyRaw, m, b
  <2>4. m.sptr \in DOMAIN views[i - 1] /\ b # Null /\ hp2[b] = "raw" => m.type = "AbortedObject"
    BY ONLY <2>2, <2>3, Steady(hp, building, hp2, building2) DEF Steady
  <2>5. m.type = "AbortedObject" => b # Null /\ hp2[b] = "raw" /\ b \notin building2
    BY ONLY <2>2, <2>3, Steady(hp, building, hp2, building2) DEF Steady
  <2>. QED  BY ONLY <2>3, <2>4, <2>5 DEF AbortsOnlyRaw, m, b
<1>. QED  BY <1>1, <1>2 DEF Linked

(* The client sends a message. *)
Aborts(view, m, hp, building) ==
  LET b == view[m.sptr] IN
  /\ m.sptr \in DOMAIN view /\ b # Null /\ hp[b] = "raw" => m.type = "AbortedObject"
  /\ m.type = "AbortedObject" =>
       /\ b # Null /\ hp[b] = "raw" /\ b \notin building
       /\ \A s \in DOMAIN view : s # m.sptr => view[s] # b

Sendable(view, m, hp) ==
  /\ Allowed(view, m) /\ OneKeeper(After(view, m))
  /\ m.type = "NewObject" => hp[m.block] = "free"

LEMMA SendLinked ==
  ASSUME NEW views, NEW q \in Seq(Messages), NEW hp, NEW building, Linked(views, q, hp, building),
         NEW hp2, NEW building2, Steady(hp, building, hp2, building2),
         NEW m \in Messages, Sendable(views[Len(q)], m, hp), Aborts(views[Len(q)], m, hp2, building2),
         m.type = "NewObject" => hp2[m.block] \in {"raw", "live"}
  PROVE  \E views2 : /\ Linked(views2, Append(q, m), hp2, building2)
                     /\ views2[0] = views[0]
                     /\ views2[Len(Append(q, m))] = After(views[Len(q)], m)
<1>. DEFINE n == Len(q)
            r == Append(q, m)
            new == After(views[n], m)
            views2 == [i \in 0..(n + 1) |-> IF i <= n THEN views[i] ELSE new]
<1>1. /\ n \in Nat /\ Len(r) = n + 1 /\ r[n + 1] = m
      /\ \A i \in 1..n : r[i] = q[i] /\ q[i] \in Messages
      /\ r \in Seq(Messages) /\ \A i \in 1..(n + 1) : r[i] \in Messages
  OBVIOUS
<1>2. /\ DOMAIN views2 = 0..(n + 1) /\ \A i \in 0..n : views2[i] = views[i]
      /\ views2[n + 1] = new
  BY <1>1
<1>3. Linked(views, q, hp2, building2)
  BY KeepLinked
<1>4. IsView(views[n]) /\ LeadsToUsed(views[n], hp2) /\ Allowed(views[n], m) /\ OneKeeper(new)
  BY <1>1, <1>3 DEF Linked, Sendable
<1>. DEFINE v == views[n]
<1>5. /\ IsView(new)
      /\ \A s \in DOMAIN new : new[s] = IF s = m.sptr THEN NewTarget(v, m) ELSE v[s]
      /\ \A s \in DOMAIN new : s # m.sptr => s \in DOMAIN v
      /\ NewTarget(v, m) \in Blocks \cup {Null}
  <2>1. IsView(v) /\ m \in Messages /\ Allowed(v, m) /\ new = After(v, m)
    BY <1>4
  <2>. HIDE DEF v, new
  <2>. QED  BY ONLY <2>1, AfterFacts
<1>6. \/ m.type = "NewObject" /\ NewTarget(v, m) = m.block
      \/ \E p \in DOMAIN v : NewTarget(v, m) = v[p]
      \/ NewTarget(v, m) = Null
  BY <1>4, MessageTypes DEF NewTarget, Allowed, Copying
<1>7. LeadsToUsed(new, hp2)
  <2>. SUFFICES ASSUME NEW s \in DOMAIN new, new[s] # Null PROVE hp2[new[s]] \in {"raw", "live"}
    BY DEF LeadsToUsed
  <2>1. \A p \in DOMAIN v : v[p] # Null => hp2[v[p]] \in {"raw", "live"}
    BY <1>4 DEF LeadsToUsed
  <2>. HIDE DEF new, v
  <2>. QED  BY <1>5, <1>6, <2>1
<1>8. ASSUME NEW i \in 0..(n + 1)
      PROVE  IsView(views2[i]) /\ OneKeeper(views2[i]) /\ LeadsToUsed(views2[i], hp2)
  <2>1. CASE i \in 0..n
    BY <1>2, <1>3, <2>1 DEF Linked
  <2>2. CASE i = n + 1
    BY <1>2, <1>4, <1>5, <1>7, <2>2
  <2>. QED  BY <1>1, <2>1, <2>2
<1>9. ASSUME NEW i \in 1..(n + 1)
      PROVE  views2[i] = After(views2[i - 1], r[i]) /\ Allowed(views2[i - 1], r[i])
  <2>1. CASE i \in 1..n
    <3>1. i \in 0..n /\ i - 1 \in 0..n
      BY <1>1, <2>1
    <3>. QED  BY <1>1, <1>2, <1>3, <2>1, <3>1 DEF Linked
  <2>2. CASE i = n + 1
    <3>1. i - 1 = n /\ n \in 0..n
      BY <1>1, <2>2
    <3>. QED  BY <1>1, <1>2, <1>4, <2>2, <3>1
  <2>. QED  BY <1>1, <2>1, <2>2
<1>10. ASSUME NEW i \in 1..(n + 1) PROVE AbortsOnlyRaw(views2, r, hp2, building2, i)
  <2>1. CASE i \in 1..n
    <3>. DEFINE b == views[i - 1][q[i].sptr]
    <3>1. i \in 0..n /\ i - 1 \in 0..n /\ views2[i - 1] = views[i - 1] /\ r[i] = q[i]
      BY <1>1, <1>2, <2>1
    <3>2. AbortsOnlyRaw(views, q, hp2, building2, i) /\ AbortsOnlyRaw(views, q, hp, building, i)
      BY <1>3, <2>1 DEF Linked
    <3>3. /\ q[i].sptr \in DOMAIN views[i - 1] /\ b # Null /\ hp2[b] = "raw" => q[i].type = "AbortedObject"
          /\ q[i].type = "AbortedObject" =>
               /\ b # Null /\ hp2[b] = "raw" /\ b \notin building2 /\ hp[b] = "raw"
               /\ \A j \in i..n : \A s \in DOMAIN views[j] : views[j][s] # b
      BY <3>2 DEF AbortsOnlyRaw
    <3>. HIDE DEF b
    <3>4. ASSUME q[i].type = "AbortedObject", NEW j \in i..(n + 1), NEW s \in DOMAIN views2[j]
          PROVE  views2[j][s] # b
      <4>1. CASE j \in i..n
        <5>1. j \in 0..n
          BY <1>1, <2>1, <4>1
        <5>2. views2[j] = views[j]
          BY <1>2, <5>1
        <5>. QED  BY <3>3, <3>4, <4>1, <5>2
      <4>2. CASE j = n + 1
        <5>1. s \in DOMAIN new /\ views2[j] = new
          BY <1>2, <3>4, <4>2
        <5>2. \A p \in DOMAIN v : v[p] # b
          <6>1. n \in i..n
            BY <1>1, <2>1
          <6>. QED  BY <3>3, <3>4, <6>1
        <5>3. m.type = "NewObject" => m.block # b
          <6>1. m.type = "NewObject" => hp[m.block] = "free"
            BY DEF Sendable
          <6>2. hp[b] = "raw"
            BY <3>3, <3>4
          <6>. QED  BY <6>1, <6>2
        <5>4. b # Null
          BY <3>3, <3>4
        <5>. HIDE DEF new, v
        <5>. QED  BY <1>5, <1>6, <5>1, <5>2, <5>3, <5>4
      <4>. QED  BY <1>1, <2>1, <4>1, <4>2
    <3>. HIDE DEF views2, r, n
    <3>5. Len(r) = n + 1
      BY <1>1
    <3>. QED  BY ONLY <3>1, <3>3, <3>4, <3>5 DEF AbortsOnlyRaw, b
  <2>2. CASE i = n + 1
    <3>. DEFINE b == v[m.sptr]
    <3>1. i - 1 = n /\ views2[i - 1] = v /\ r[i] = m /\ views2[i] = new
      BY <1>1, <1>2, <2>2
    <3>2. /\ m.sptr \in DOMAIN v /\ b # Null /\ hp2[b] = "raw" => m.type = "AbortedObject"
          /\ m.type = "AbortedObject" =>
               /\ b # Null /\ hp2[b] = "raw" /\ b \notin building2
               /\ \A s \in DOMAIN v : s # m.sptr => v[s] # b
      BY DEF Aborts
    <3>3. m.type = "AbortedObject" => NewTarget(v, m) = Null
      BY DEF NewTarget
    <3>. HIDE DEF b, new, v
    <3>4. m.type = "AbortedObject" => \A s \in DOMAIN new : new[s] # b
      BY ONLY <1>5, <3>2, <3>3
    <3>5. m.type = "AbortedObject" =>
            \A j \in i..(n + 1) : \A s \in DOMAIN views2[j] : views2[j][s] # b
      <4>1. \A j \in i..(n + 1) : j = i
        BY <1>1, <2>2
      <4>. QED  BY ONLY <3>1, <3>4, <4>1
    <3>. HIDE DEF views2, r, n
    <3>6. Len(r) = n + 1
      BY <1>1
    <3>. QED  BY ONLY <3>1, <3>2, <3>5, <3>6 DEF AbortsOnlyRaw, b
  <2>. QED  BY <1>1, <2>1, <2>2
<1>. HIDE DEF views2, r, new
<1>11. Linked(views2, r, hp2, building2)
  BY <1>1, <1>2, <1>8, <1>9, <1>10 DEF Linked
<1>12. views2[0] = views[0] /\ views2[Len(r)] = new
  BY <1>1, <1>2
<1>. QED  BY <1>11, <1>12 DEF r, new

-----------------------------------------------------------------------------
(* A set of numbers that is not empty has a least one. *)
LEMMA LeastNumber ==
  ASSUME NEW S \in SUBSET Nat, S # {}
  PROVE  \E n \in S : \A m \in S : n <= m
<1>1. \E n \in S : \A m \in S : ~(<<m, n>> \in OpToRel(<, Nat))
  BY NatLessThanWellFounded, WFMin
<1>2. \A m, n \in Nat : m < n => <<m, n>> \in OpToRel(<, Nat)
  BY DEF OpToRel
<1>3. PICK n \in S : \A m \in S : ~(<<m, n>> \in OpToRel(<, Nat))
  BY <1>1
<1>4. \A m \in S : m \in Nat /\ n \in Nat /\ ~(m < n)
  BY <1>2, <1>3
<1>. QED  BY <1>4

(* The collector takes a message, and by it releases block b, or none. *)

Unseen(views, q, b) == \A i \in 1..Len(q) : b \notin Reach(views[i])

LEMMA UnseenFacts ==
  ASSUME NEW views, NEW q \in Seq(Messages), NEW hp, NEW building, Linked(views, q, hp, building),
         q # << >>, NEW b, b \notin Reach(Without(views[0], q[1].sptr)),
         \A i \in 1..Len(q) : q[i].type = "NewObject" => q[i].block # b
  PROVE  Unseen(views, q, b)
<1>0. Len(q) \in Nat /\ 1 \in 1..Len(q) /\ \A i \in 1..Len(q) : q[i] \in Messages
  OBVIOUS
<1>. DEFINE Wrong == {i \in 1..Len(q) : b \in Reach(views[i])}
<1>1. SUFFICES ASSUME Wrong # {} PROVE FALSE
  BY DEF Unseen
<1>2. Wrong \in SUBSET Nat
  OBVIOUS
<1>3. PICK i \in Wrong : \A j \in Wrong : i <= j
  BY <1>1, <1>2, LeastNumber
<1>4. i \in 1..Len(q) /\ b \in Reach(views[i]) /\ q[i] \in Messages
  BY <1>0, <1>3
<1>5. /\ IsView(views[i - 1]) /\ views[i] = After(views[i - 1], q[i]) /\ Allowed(views[i - 1], q[i])
  BY <1>0, <1>4, LinkedFacts
<1>6. b \in Reach(Without(views[i - 1], q[i].sptr)) \/ (q[i].type = "NewObject" /\ b = q[i].block)
  BY ONLY <1>4, <1>5, AfterFacts
<1>7. b \in Reach(Without(views[i - 1], q[i].sptr))
  BY <1>4, <1>6
<1>8. i # 1
  BY <1>7
<1>9. i - 1 \in 1..Len(q) /\ ~(i <= i - 1)
  BY <1>0, <1>4, <1>8
<1>10. b \notin Reach(views[i - 1])
  BY <1>3, <1>9
<1>. QED  BY ONLY <1>5, <1>7, <1>10, WithoutFacts

LEMMA PurgedKeeper ==
  ASSUME NEW v, OneKeeper(v), NEW b
  PROVE  OneKeeper(Purged(v, b))
<1>1. /\ DOMAIN Purged(v, b) = DOMAIN v
      /\ \A s \in DOMAIN v : Purged(v, b)[s] = IF v[s] = b THEN Null ELSE v[s]
  BY DEF Purged
<1>. QED  BY <1>1 DEF OneKeeper

(* Taking the first message, block b being released by it, or none.        *)
Taken(views, q, hp, building, b, hp2) ==
  /\ b \notin Reach(Without(views[0], q[1].sptr))
  /\ \A i \in 1..Len(q) : q[i].type = "NewObject" => q[i].block # b
  /\ b # Null => q[1].sptr \in DOMAIN views[0] /\ b = views[0][q[1].sptr]
  /\ \A c \in Blocks : c # b => hp2[c] = hp[c]

LEMMA TakeLinked ==
  ASSUME NEW views, NEW q \in Seq(Messages), NEW hp, NEW building, Linked(views, q, hp, building),
         q # << >>, NEW b \in Blocks \cup {Null}, NEW hp2, Taken(views, q, hp, building, b, hp2)
  PROVE  /\ Unseen(views, q, b)
         /\ b # Null => /\ hp[b] \in {"raw", "live"}
                        /\ hp[b] = "raw" <=> q[1].type = "AbortedObject"
                        /\ hp[b] = "raw" => b \notin building
         /\ \E views2 : /\ Linked(views2, Tail(q), hp2, building)
                        /\ views2[0] = Purged(After(views[0], q[1]), b)
                        /\ views2[Len(Tail(q))] = Purged(views[Len(q)], b)
<1>. DEFINE n == Len(q)
            r == Tail(q)
            views2 == [i \in 0..(n - 1) |-> Purged(views[i + 1], b)]
<1>1. /\ n \in Nat /\ 1 \in 1..n /\ Len(r) = n - 1 /\ n - 1 \in Nat
      /\ \A i \in 1..n : q[i] \in Messages
      /\ \A i \in 1..(n - 1) : r[i] = q[i + 1] /\ r[i] \in Messages /\ i + 1 \in 1..n
      /\ r \in Seq(Messages)
  BY HeadTailProperties
<1>2. Unseen(views, q, b)
  BY UnseenFacts DEF Taken
<1>3. /\ q[1].sptr \in DOMAIN views[0] /\ views[0][q[1].sptr] # Null
         /\ hp[views[0][q[1].sptr]] = "raw" => q[1].type = "AbortedObject"
      /\ q[1].type = "AbortedObject" =>
           /\ views[0][q[1].sptr] # Null /\ hp[views[0][q[1].sptr]] = "raw"
           /\ views[0][q[1].sptr] \notin building
           /\ \A j \in 1..n : \A s \in DOMAIN views[j] : views[j][s] # views[0][q[1].sptr]
  <2>1. AbortsOnlyRaw(views, q, hp, building, 1)
    BY <1>1 DEF Linked
  <2>2. 1 - 1 = 0
    OBVIOUS
  <2>. QED  BY <2>1, <2>2 DEF AbortsOnlyRaw
<1>4. b # Null => /\ hp[b] \in {"raw", "live"}
                  /\ hp[b] = "raw" <=> q[1].type = "AbortedObject"
                  /\ hp[b] = "raw" => b \notin building
  <2>1. b # Null => hp[b] \in {"raw", "live"}
    <3>1. \A s \in DOMAIN views[0] : views[0][s] # Null => hp[views[0][s]] \in {"raw", "live"}
      <4>1. 0 \in 0..n
        BY <1>1
      <4>. QED  BY <4>1 DEF Linked, LeadsToUsed
    <3>. QED  BY <3>1 DEF Taken
  <2>. QED  BY <1>3, <2>1 DEF Taken
<1>5. b # Null /\ hp[b] = "raw" => \A j \in 1..n : \A s \in DOMAIN views[j] : views[j][s] # b
  BY <1>3, <1>4 DEF Taken
<1>6. /\ DOMAIN views2 = 0..(n - 1)
      /\ \A i \in 0..(n - 1) : views2[i] = Purged(views[i + 1], b)
  OBVIOUS
<1>7. ASSUME NEW i \in 0..(n - 1)
      PROVE  /\ i + 1 \in 1..n /\ IsView(views[i + 1]) /\ b \notin Reach(views[i + 1])
             /\ DOMAIN views2[i] = DOMAIN views[i + 1]
             /\ \A s \in DOMAIN views[i + 1] :
                  views2[i][s] = IF views[i + 1][s] = b THEN Null ELSE views[i + 1][s]
             /\ IsView(views2[i])
  <2>1. i + 1 \in 1..n /\ i + 1 \in 0..n
    BY <1>1
  <2>2. IsView(views[i + 1]) /\ b \notin Reach(views[i + 1])
    BY <1>2, <2>1 DEF Linked, Unseen
  <2>3. views2[i] = Purged(views[i + 1], b)
    BY <1>6
  <2>. HIDE DEF views2
  <2>4. /\ DOMAIN views2[i] = DOMAIN views[i + 1] /\ IsView(views2[i])
        /\ \A s \in DOMAIN views[i + 1] :
             views2[i][s] = IF views[i + 1][s] = b THEN Null ELSE views[i + 1][s]
    BY ONLY <2>2, <2>3, PurgedFacts
  <2>. QED  BY <2>1, <2>2, <2>4
<1>8. ASSUME NEW i \in 0..(n - 1)
      PROVE  IsView(views2[i]) /\ OneKeeper(views2[i]) /\ LeadsToUsed(views2[i], hp2)
  <2>1. i + 1 \in 0..n
    BY <1>1
  <2>2. OneKeeper(views[i + 1]) /\ LeadsToUsed(views[i + 1], hp) /\ IsView(views[i + 1])
    BY <2>1 DEF Linked
  <2>3. OneKeeper(views2[i])
    BY <1>6, <2>2, PurgedKeeper
  <2>4. LeadsToUsed(views2[i], hp2)
    <3>. SUFFICES ASSUME NEW s \in DOMAIN views2[i], views2[i][s] # Null
                  PROVE  hp2[views2[i][s]] \in {"raw", "live"}
      BY DEF LeadsToUsed
    <3>1. s \in DOMAIN views[i + 1] /\ views2[i][s] = views[i + 1][s] /\ views[i + 1][s] # b
      BY <1>7
    <3>2. views[i + 1][s] \in Blocks /\ hp[views[i + 1][s]] \in {"raw", "live"}
      BY <2>2, <3>1 DEF IsView, LeadsToUsed
    <3>. QED  BY <3>1, <3>2 DEF Taken
  <2>. QED  BY <1>7, <2>3, <2>4
<1>9. ASSUME NEW i \in 1..(n - 1)
      PROVE  views2[i] = After(views2[i - 1], r[i]) /\ Allowed(views2[i - 1], r[i])
  <2>1. /\ i \in 0..(n - 1) /\ i - 1 \in 0..(n - 1) /\ (i - 1) + 1 = i /\ i \in 1..n
        /\ i + 1 \in 1..n /\ (i + 1) - 1 = i /\ r[i] = q[i + 1] /\ q[i + 1] \in Messages
    BY <1>1
  <2>2. views2[i] = Purged(views[i + 1], b) /\ views2[i - 1] = Purged(views[i], b)
    BY <1>6, <2>1
  <2>3. /\ IsView(views[i]) /\ views[i + 1] = After(views[i], q[i + 1])
        /\ Allowed(views[i], q[i + 1]) /\ b \notin Reach(views[i])
    BY <1>2, <2>1 DEF Linked, Unseen
  <2>4. q[i + 1].type = "NewObject" => q[i + 1].block # b
    BY <2>1 DEF Taken
  <2>5. /\ Allowed(Purged(views[i], b), q[i + 1])
        /\ Purged(After(views[i], q[i + 1]), b) = After(Purged(views[i], b), q[i + 1])
    BY ONLY <2>1, <2>3, <2>4, PurgedCommutes
  <2>. HIDE DEF views2, r
  <2>. QED  BY ONLY <2>1, <2>2, <2>3, <2>5
<1>10. ASSUME NEW i \in 1..(n - 1) PROVE AbortsOnlyRaw(views2, r, hp2, building, i)
  <2>1. /\ i \in 0..(n - 1) /\ i - 1 \in 0..(n - 1) /\ (i - 1) + 1 = i /\ i \in 1..n /\ i \in 0..n
        /\ i + 1 \in 1..n /\ (i + 1) - 1 = i /\ r[i] = q[i + 1] /\ Len(r) = n - 1
    BY <1>1
  <2>. DEFINE m == q[i + 1]
              c == views[i][m.sptr]
              d == views2[i - 1][m.sptr]
  <2>2. AbortsOnlyRaw(views, q, hp, building, i + 1)
    BY <2>1 DEF Linked
  <2>3. /\ m.sptr \in DOMAIN views[i] /\ c # Null /\ hp[c] = "raw" => m.type = "AbortedObject"
        /\ m.type = "AbortedObject" =>
             /\ c # Null /\ hp[c] = "raw" /\ c \notin building
             /\ \A j \in (i + 1)..n : \A s \in DOMAIN views[j] : views[j][s] # c
    BY <2>1, <2>2 DEF AbortsOnlyRaw
  <2>4. m.type = "AbortedObject" => m.sptr \in DOMAIN views[i]
    BY <1>1, <2>1, LinkedFacts
  <2>5. /\ DOMAIN views2[i - 1] = DOMAIN views[i]
        /\ m.sptr \in DOMAIN views[i] => d = IF c = b THEN Null ELSE c
    BY ONLY <1>7, <2>1
  <2>6. m.sptr \in DOMAIN views[i] => c \in Blocks \cup {Null}
    BY <2>1 DEF Linked, IsView
  <2>7. m.sptr \in DOMAIN views[i] /\ c # Null /\ hp[c] = "raw" => c # b
    BY <1>5, <2>1
  <2>. HIDE DEF c, d, m
  <2>8. \A e \in Blocks : e # b => hp2[e] = hp[e]
    BY DEF Taken
  <2>9. m.sptr \in DOMAIN views2[i - 1] /\ d # Null /\ hp2[d] = "raw" => m.type = "AbortedObject"
    BY ONLY <2>3, <2>5, <2>6, <2>8
  <2>10. m.type = "AbortedObject" => d = c /\ c \in Blocks /\ c # b
    BY ONLY <2>3, <2>4, <2>5, <2>6, <2>7
  <2>11. m.type = "AbortedObject" => d # Null /\ hp2[d] = "raw" /\ d \notin building
    BY ONLY <2>3, <2>8, <2>10
  <2>12. ASSUME m.type = "AbortedObject", NEW j \in i..(n - 1), NEW s \in DOMAIN views2[j]
         PROVE  views2[j][s] # d
    <3>1. j \in 0..(n - 1) /\ j + 1 \in (i + 1)..n
      BY <1>1, <2>1
    <3>2. s \in DOMAIN views[j + 1] /\ views2[j][s] \in {views[j + 1][s], Null}
      BY <1>7, <3>1, <2>12
    <3>3. views[j + 1][s] # c
      BY <2>3, <2>12, <3>1, <3>2
    <3>. QED  BY ONLY <2>10, <2>11, <2>12, <3>2, <3>3
  <2>. HIDE DEF views2, r, n
  <2>. QED  BY ONLY <2>1, <2>9, <2>11, <2>12 DEF AbortsOnlyRaw, d, m
<1>. HIDE DEF views2, r
<1>11. Linked(views2, r, hp2, building)
  BY <1>1, <1>6, <1>8, <1>9, <1>10 DEF Linked
<1>12. views2[0] = Purged(After(views[0], q[1]), b) /\ views2[Len(r)] = Purged(views[n], b)
  <2>1. 0 \in 0..(n - 1) /\ n - 1 \in 0..(n - 1) /\ (n - 1) + 1 = n /\ 0 + 1 = 1 /\ 1 - 1 = 0
    BY <1>1
  <2>2. views2[0] = Purged(views[1], b) /\ views2[n - 1] = Purged(views[n], b)
    BY <1>6, <2>1
  <2>3. views[1] = After(views[0], q[1])
    BY <1>1, <2>1 DEF Linked
  <2>. QED  BY <1>1, <2>2, <2>3
<1>13. \E w : /\ Linked(w, r, hp2, building)
              /\ w[0] = Purged(After(views[0], q[1]), b)
              /\ w[Len(r)] = Purged(views[n], b)
  BY <1>11, <1>12
<1>. QED  BY <1>2, <1>4, <1>13 DEF r

-----------------------------------------------------------------------------
(* The parts of the state of the client. *)

LEMMA TypedFacts == TypeOK => Typed(frames, asgn, ptr, alive)
<1>. SUFFICES ASSUME TypeOK PROVE Typed(frames, asgn, ptr, alive)
  OBVIOUS
<1>1. alive \subseteq Sptrs /\ ptr \in [Sptrs -> Blocks \cup {Null}]
  BY DEF TypeOK
<1>2. ASSUME NEW t \in Threads
      PROVE  /\ Len(frames[t]) \in Nat
             /\ \A i \in 1..Len(frames[t]) :
                  /\ frames[t][i].sptr \in Sptrs /\ frames[t][i].block \in Blocks
                  /\ frames[t][i].made \in 0..Slots
             /\ asgn[t] # << >> => asgn[t][1] \in Sptrs /\ asgn[t][2] \in Sptrs
  <2>1. frames[t] \in Seq(Frame) /\ asgn[t] \in {<< >>} \cup (Sptrs \X Sptrs)
    BY DEF TypeOK
  <2>2. \A i \in 1..Len(frames[t]) : frames[t][i] \in Frame
    BY <2>1
  <2>. QED  BY <2>1, <2>2 DEF Frame
<1>. QED  BY <1>1, <1>2 DEF Typed

LEMMA StateFacts ==
  /\ \A s : s \in Targets <=> IsTarget(frames, s)
  /\ \A b : b \in Building <=> IsBuilt(frames, b)
  /\ \A s : s \in Assigned <=> IsAssigned(asgn, s)
  /\ \A s : s \in Sources <=> IsSource(asgn, s)
<1>1. \A f : f \in Frames <=> \E t \in Threads : \E i \in 1..Len(frames[t]) : f = frames[t][i]
  BY DEF Frames, FramesOf
<1>2. \A s : s \in Targets <=> IsTarget(frames, s)
  BY <1>1 DEF Targets, IsTarget
<1>3. \A b : b \in Building <=> IsBuilt(frames, b)
  BY <1>1 DEF Building, IsBuilt
<1>4. \A s : s \in Assigned <=> IsAssigned(asgn, s)
  BY DEF Assigned, IsAssigned
<1>5. \A s : s \in Sources <=> IsSource(asgn, s)
  BY DEF Sources, IsSource
<1>. QED  BY <1>2, <1>3, <1>4, <1>5

LEMMA NextBuilding == \A b : b \in Building' <=> IsBuilt(frames', b)
<1>1. \A f : f \in Frames' <=> \E t \in Threads : \E i \in 1..Len(frames'[t]) : f = frames'[t][i]
  BY DEF Frames, FramesOf
<1>. QED  BY <1>1 DEF Building, IsBuilt

LeadsRight(fr, as, p) ==
  /\ \A t \in Threads : \A i \in 1..Len(fr[t]) : LeadsIn(fr, as, p, fr[t][i].sptr) = fr[t][i].block
  /\ \A t \in Threads : as[t] # << >> => LeadsIn(fr, as, p, as[t][1]) = p[as[t][2]]
  /\ \A s : ~ IsTarget(fr, s) /\ ~ IsAssigned(as, s) => LeadsIn(fr, as, p, s) = p[s]

LEMMA LeadsFacts ==
  ASSUME NEW fr, NEW as, NEW p, NEW al, Apart(fr, as, al)
  PROVE  LeadsRight(fr, as, p)
<1>1. \A f : f \in FramesIn(fr) <=> \E t \in Threads : \E i \in 1..Len(fr[t]) : f = fr[t][i]
  BY DEF FramesIn
<1>4. ASSUME NEW t \in Threads, NEW i \in 1..Len(fr[t])
      PROVE  LeadsIn(fr, as, p, fr[t][i].sptr) = fr[t][i].block
  <2>. DEFINE s == fr[t][i].sptr
              c == FrameOf(fr, s)
  <2>1. \E f \in FramesIn(fr) : f.sptr = s
    BY <1>1
  <2>2. c \in FramesIn(fr) /\ c.sptr = s
    BY <2>1 DEF FrameOf
  <2>. HIDE DEF c
  <2>3. PICK u \in Threads : \E j \in 1..Len(fr[u]) : c = fr[u][j]
    BY ONLY <1>1, <2>2
  <2>8. PICK j \in 1..Len(fr[u]) : c = fr[u][j]
    BY <2>3
  <2>4. u = t /\ j = i
    BY <2>2, <2>8 DEF Apart
  <2>5. IsTarget(fr, s)
    BY DEF IsTarget
  <2>6. ~ IsAssigned(as, s)
    BY <2>5 DEF IsAssigned, Apart
  <2>7. LeadsIn(fr, as, p, s) = c.block
    BY ONLY <2>5, <2>6 DEF LeadsIn, c
  <2>. QED  BY <2>8, <2>4, <2>7
<1>5. ASSUME NEW t \in Threads, as[t] # << >> PROVE LeadsIn(fr, as, p, as[t][1]) = p[as[t][2]]
  <2>. DEFINE s == as[t][1]
              c == CallOf(as, s)
  <2>1. \E a \in {as[u] : u \in Threads} : a # << >> /\ a[1] = s
    BY <1>5
  <2>2. c \in {as[u] : u \in Threads} /\ c # << >> /\ c[1] = s
    BY <2>1 DEF CallOf
  <2>. HIDE DEF c
  <2>3. PICK u \in Threads : c = as[u]
    BY <2>2
  <2>4. u = t
    BY <1>5, <2>2, <2>3 DEF Apart
  <2>5. IsAssigned(as, s) /\ ~ IsTarget(fr, s)
    BY <1>5 DEF IsAssigned, Apart
  <2>7. LeadsIn(fr, as, p, s) = p[c[2]]
    BY ONLY <2>5 DEF LeadsIn, c
  <2>. QED  BY <2>3, <2>4, <2>7
<1>6. \A s : ~ IsTarget(fr, s) /\ ~ IsAssigned(as, s) => LeadsIn(fr, as, p, s) = p[s]
  BY ONLY DEF LeadsIn
<1>. QED  BY <1>4, <1>5, <1>6 DEF LeadsRight

LEMMA LeadsToBlock ==
  ASSUME NEW fr, NEW as, NEW p, NEW al, Typed(fr, as, p, al), Apart(fr, as, al), NEW s \in Sptrs
  PROVE  LeadsIn(fr, as, p, s) \in Blocks \cup {Null}
<1>0. /\ \A t \in Threads : \A i \in 1..Len(fr[t]) : LeadsIn(fr, as, p, fr[t][i].sptr) = fr[t][i].block
      /\ \A t \in Threads : as[t] # << >> => LeadsIn(fr, as, p, as[t][1]) = p[as[t][2]]
      /\ \A x : ~ IsTarget(fr, x) /\ ~ IsAssigned(as, x) => LeadsIn(fr, as, p, x) = p[x]
  <2>1. Apart(fr, as, al)
    OBVIOUS
  <2>2. LeadsRight(fr, as, p)
    BY ONLY <2>1, LeadsFacts
  <2>. QED  BY ONLY <2>2 DEF LeadsRight
<1>1. CASE IsTarget(fr, s)
  <2>1. PICK t \in Threads : \E i \in 1..Len(fr[t]) : fr[t][i].sptr = s
    BY <1>1 DEF IsTarget
  <2>3. PICK i \in 1..Len(fr[t]) : fr[t][i].sptr = s
    BY <2>1
  <2>2. LeadsIn(fr, as, p, s) = fr[t][i].block
    BY <2>3, <1>0
  <2>. QED  BY <2>2 DEF Typed
<1>2. CASE IsAssigned(as, s)
  <2>1. PICK t \in Threads : as[t] # << >> /\ as[t][1] = s
    BY <1>2 DEF IsAssigned
  <2>2. LeadsIn(fr, as, p, s) = p[as[t][2]]
    BY <2>1, <1>0
  <2>. QED  BY <2>1, <2>2 DEF Typed
<1>3. CASE ~ IsTarget(fr, s) /\ ~ IsAssigned(as, s)
  <2>1. LeadsIn(fr, as, p, s) = p[s]
    BY <1>3, <1>0
  <2>. QED  BY <2>1 DEF Typed
<1>. QED  BY <1>1, <1>2, <1>3

LEMMA ViewInFacts ==
  ASSUME NEW fr, NEW as, NEW p, NEW al, Typed(fr, as, p, al), Apart(fr, as, al), NEW D \in SUBSET Sptrs
  PROVE  /\ IsView(ViewIn(fr, as, p, D)) /\ DOMAIN ViewIn(fr, as, p, D) = D
         /\ \A s \in D : ViewIn(fr, as, p, D)[s] = LeadsIn(fr, as, p, s)
<1>1. \A s \in D : LeadsIn(fr, as, p, s) \in Blocks \cup {Null}
  BY LeadsToBlock
<1>2. /\ DOMAIN ViewIn(fr, as, p, D) = D
      /\ \A s \in D : ViewIn(fr, as, p, D)[s] = LeadsIn(fr, as, p, s)
      /\ ViewIn(fr, as, p, D) = [s \in DOMAIN ViewIn(fr, as, p, D) |-> ViewIn(fr, as, p, D)[s]]
  BY DEF ViewIn
<1>. QED  BY <1>1, <1>2 DEF IsView

LEMMA LastingFacts ==
  ASSUME NEW fr, NEW t, NEW i, NEW al, al \subseteq Sptrs
  PROVE  /\ LastingIn(fr, t, i, al) \in SUBSET Sptrs
         /\ \A s : s \in LastingIn(fr, t, i, al) <=> s \in al /\ ~ IsUnsure(fr, t, i, Home(s))
BY DEF LastingIn

(* What keeps a pointer goes on to keep it. Of the pointers that can be    *)
(* reached, some may refer to one more block, that contains none of them.  *)
LEMMA KeptLonger ==
  ASSUME NEW fr, NEW as, NEW p, NEW al, Typed(fr, as, p, al), Apart(fr, as, al),
         NEW fr2, NEW as2, NEW p2, NEW al2, Typed(fr2, as2, p2, al2), Apart(fr2, as2, al2),
         NEW t, NEW i, NEW t2, NEW i2, NEW c,
         NEW D \in SUBSET Sptrs, D \subseteq al,
         \A x : x \in LastingIn(fr, t, i, D) /\ Reaches(ViewIn(fr, as, p, D), x) =>
           /\ x \in al2 /\ ~ IsUnsure(fr2, t2, i2, Home(x))
           /\ c # Null => Home(x) # c
           /\ LeadsIn(fr, as, p, x) \in {LeadsIn(fr2, as2, p2, x), Null, c},
         NEW s, KeptIn(fr, as, p, D, t, i, s), c # Null => Home(s) # c
  PROVE  KeptIn(fr2, as2, p2, al2, t2, i2, s)
<1>. DEFINE L == LastingIn(fr, t, i, D)
            L2 == LastingIn(fr2, t2, i2, al2)
            V == ViewIn(fr, as, p, L)
            V2 == ViewIn(fr2, as2, p2, L2)
            W == ViewIn(fr, as, p, D)
<1>1. /\ L \in SUBSET Sptrs /\ L2 \in SUBSET Sptrs /\ L \subseteq D
      /\ \A x : x \in L2 <=> x \in al2 /\ ~ IsUnsure(fr2, t2, i2, Home(x))
  BY LastingFacts DEF Typed
<1>2. /\ IsView(V) /\ DOMAIN V = L /\ \A x \in L : V[x] = LeadsIn(fr, as, p, x)
      /\ IsView(W) /\ DOMAIN W = D /\ \A x \in D : W[x] = LeadsIn(fr, as, p, x)
      /\ IsView(V2) /\ DOMAIN V2 = L2 /\ \A x \in L2 : V2[x] = LeadsIn(fr2, as2, p2, x)
  <2>0. D \in SUBSET Sptrs
    OBVIOUS
  <2>1. /\ Typed(fr, as, p, al) /\ Apart(fr, as, al) /\ L \in SUBSET Sptrs
        /\ Typed(fr2, as2, p2, al2) /\ Apart(fr2, as2, al2) /\ L2 \in SUBSET Sptrs
    BY ONLY <1>1, Typed(fr, as, p, al), Apart(fr, as, al), Typed(fr2, as2, p2, al2), Apart(fr2, as2, al2)
  <2>. HIDE DEF L, L2
  <2>2. IsView(V) /\ DOMAIN V = L /\ \A x \in L : V[x] = LeadsIn(fr, as, p, x)
    BY ONLY <2>1, ViewInFacts
  <2>3. IsView(W) /\ DOMAIN W = D /\ \A x \in D : W[x] = LeadsIn(fr, as, p, x)
    BY ONLY <2>0, <2>1, ViewInFacts
  <2>4. IsView(V2) /\ DOMAIN V2 = L2 /\ \A x \in L2 : V2[x] = LeadsIn(fr2, as2, p2, x)
    BY ONLY <2>1, ViewInFacts
  <2>. QED  BY <2>2, <2>3, <2>4
<1>3. \A x : x \in L /\ Reaches(W, x) =>
        /\ x \in L2 /\ (c # Null => Home(x) # c)
        /\ LeadsIn(fr, as, p, x) \in {LeadsIn(fr2, as2, p2, x), Null, c}
  BY <1>1
<1>4. Home(s) # Null => Home(s) \in Reach(V)
  BY DEF KeptIn
<1>. SUFFICES ASSUME Home(s) # Null PROVE Home(s) \in Reach(V2)
  BY DEF KeptIn
<1>. HIDE DEF L, L2, V, V2, W
<1>5. /\ Reach(V) \subseteq Blocks /\ Closed(V, Reach(V))
      /\ Reach(V2) \subseteq Blocks /\ Closed(V2, Reach(V2))
      /\ Reach(V) \subseteq Reach(W)
  <2>1. \A x \in DOMAIN V : V[x] \in {W[x], Null}
    BY <1>1, <1>2
  <2>. QED  BY <1>1, <1>2, <2>1, ReachClosed, ReachMonotone
<1>. DEFINE S == {b \in Reach(V) : b \in Reach(V2) \/ b = c}
<1>6. ASSUME NEW x \in DOMAIN V, Home(x) \in S \cup {Null}, V[x] # Null PROVE V[x] \in S
  <2>1. V[x] \in Reach(V)
    BY <1>5, <1>6 DEF Closed
  <2>2. x \in L /\ Reaches(W, x)
    BY <1>2, <1>5, <1>6 DEF Reaches
  <2>3. x \in L2 /\ (V[x] = V2[x] \/ V[x] = c) /\ (c # Null => Home(x) # c)
    BY <1>2, <1>3, <1>6, <2>2
  <2>4. Home(x) \in Reach(V2) \cup {Null}
    BY <1>6, <2>3
  <2>5. V[x] = V2[x] => V[x] \in Reach(V2)
    BY <1>2, <1>5, <1>6, <2>3, <2>4 DEF Closed
  <2>. QED  BY <2>1, <2>3, <2>5
<1>7. Closed(V, S) /\ S \in SUBSET Blocks
  BY <1>5, <1>6 DEF Closed
<1>8. Reach(V) \subseteq S
  BY ONLY <1>7, ReachLeast
<1>9. Home(s) \in S
  BY <1>4, <1>8
<1>. QED  BY <1>9

(* Two views that agree on what can be reached in one of them. *)
LEMMA SameReach ==
  ASSUME NEW v, IsView(v), NEW w, IsView(w), DOMAIN w = DOMAIN v,
         \A s \in DOMAIN v : Reaches(v, s) => v[s] = w[s]
  PROVE  Reach(w) = Reach(v)
<1>1. /\ Reach(v) \in SUBSET Blocks /\ Closed(v, Reach(v))
      /\ Reach(w) \in SUBSET Blocks /\ Closed(w, Reach(w))
  BY ReachClosed
<1>2. Closed(w, Reach(v))
  BY <1>1 DEF Closed, Reaches
<1>3. Reach(w) \subseteq Reach(v)
  BY <1>1, <1>2, ReachLeast
<1>4. Closed(v, Reach(w))
  BY <1>1, <1>3 DEF Closed, Reaches
<1>. QED  BY <1>1, <1>3, <1>4, ReachLeast

LEMMA ShownReach ==
  ASSUME NEW fr, NEW as, NEW p, NEW al, Typed(fr, as, p, al), Apart(fr, as, al),
         NEW v, IsView(v), NEW hp, NEW kp, Shows(v, fr, as, p, al, hp, kp)
  PROVE  Reach(ViewIn(fr, as, p, al)) = Reach(v)
<1>1. al \in SUBSET Sptrs
  BY DEF Typed
<1>2. /\ IsView(ViewIn(fr, as, p, al)) /\ DOMAIN ViewIn(fr, as, p, al) = al
      /\ \A s \in al : ViewIn(fr, as, p, al)[s] = LeadsIn(fr, as, p, s)
  BY <1>1, ViewInFacts
<1>3. DOMAIN v = al /\ \A s \in al : Reaches(v, s) => v[s] = ViewIn(fr, as, p, al)[s]
  BY <1>2 DEF Shows
<1>. QED  BY <1>2, <1>3, SameReach

(* What can be reached is in some pointer. *)
LEMMA ReachedIsValue ==
  ASSUME NEW v, IsView(v), NEW b \in Reach(v)
  PROVE  b \in Blocks /\ \E s \in DOMAIN v : v[s] = b
<1>1. Reach(v) \subseteq Blocks /\ Closed(v, Reach(v))
  BY ReachClosed
<1>. SUFFICES ASSUME \A s \in DOMAIN v : v[s] # b PROVE FALSE
  BY <1>1
<1>. DEFINE S == {d \in Reach(v) : d # b}
<1>2. Closed(v, S) /\ S \in SUBSET Blocks
  BY <1>1 DEF Closed
<1>3. Reach(v) \subseteq S
  BY ONLY <1>2, ReachLeast
<1>. QED  BY <1>3

-----------------------------------------------------------------------------
(* The guards of the client. *)

LEMMA LeadsState ==
  ASSUME Apart(frames, asgn, alive)
  PROVE  \A p, s : Leads(p, s) = LeadsIn(frames, asgn, p, s)
<1>1. FramesIn(frames) = Frames
  BY DEF FramesIn, Frames, FramesOf
<1>2. ASSUME NEW p, NEW s PROVE Leads(p, s) = LeadsIn(frames, asgn, p, s)
  <2>1. (s \in Targets <=> IsTarget(frames, s)) /\ (s \in Assigned <=> IsAssigned(asgn, s))
    BY StateFacts
  <2>2. ~ (IsTarget(frames, s) /\ IsAssigned(asgn, s))
    BY DEF IsAssigned, Apart
  <2>3. FrameOf(frames, s) = (CHOOSE f \in Frames : f.sptr = s)
    BY <1>1 DEF FrameOf
  <2>4. CallOf(asgn, s) = (CHOOSE a \in {asgn[t] : t \in Threads} : a # << >> /\ a[1] = s)
    BY DEF CallOf
  <2>5. CASE IsTarget(frames, s)
    BY <2>1, <2>2, <2>3, <2>5 DEF Leads, LeadsIn
  <2>6. CASE IsAssigned(asgn, s)
    BY <2>1, <2>2, <2>4, <2>6 DEF Leads, LeadsIn
  <2>7. CASE ~ IsTarget(frames, s) /\ ~ IsAssigned(asgn, s)
    BY <2>1, <2>7 DEF Leads, LeadsIn
  <2>. QED  BY <2>5, <2>6, <2>7
<1>. QED  BY <1>2

LEMMA LeadingState ==
  ASSUME Apart(frames, asgn, alive)
  PROVE  \A p, live : Leading(p, live) = ViewIn(frames, asgn, p, live)
BY LeadsState DEF Leading, ViewIn

LEMMA HeldState ==
  ASSUME Apart(frames, asgn, alive)
  PROVE  Held = Reach(ViewIn(frames, asgn, ptr, alive))
BY LeadingState DEF Held, HeldBy

LEMMA UnsureState ==
  ASSUME NEW t \in Threads, NEW i \in {0} \cup (1..Len(frames[t])), Len(frames[t]) \in Nat
  PROVE  \A b : b \in Unsure(t, i) <=> IsUnsure(frames, t, i, b)
<1>. DEFINE others == UNION {FramesOf(u) : u \in Threads \ {t}}
            own == {frames[t][j] : j \in 1..i}
<1>1. \A f : f \in others <=> \E u \in Threads : u # t /\ \E j \in 1..Len(frames[u]) : f = frames[u][j]
  BY DEF FramesOf
<1>2. \A f : f \in own <=> \E j \in 1..Len(frames[t]) : j <= i /\ f = frames[t][j]
  OBVIOUS
<1>3. \A b : b \in Unsure(t, i) <=> \E f : (f \in others \/ f \in own) /\ f.block = b
  <2>1. Unsure(t, i) = {f.block : f \in others \cup own}
    BY DEF Unsure
  <2>. HIDE DEF others, own
  <2>. QED  BY <2>1
<1>. HIDE DEF others, own
<1>4. ASSUME NEW b, b \in Unsure(t, i) PROVE IsUnsure(frames, t, i, b)
  <2>1. PICK f : (f \in others \/ f \in own) /\ f.block = b
    BY <1>3, <1>4
  <2>. QED  BY <1>1, <1>2, <2>1 DEF IsUnsure
<1>5. ASSUME NEW b, IsUnsure(frames, t, i, b) PROVE b \in Unsure(t, i)
  <2>1. PICK u \in Threads : \E j \in 1..Len(frames[u]) : (u # t \/ j <= i) /\ frames[u][j].block = b
    BY <1>5 DEF IsUnsure
  <2>2. PICK j \in 1..Len(frames[u]) : (u # t \/ j <= i) /\ frames[u][j].block = b
    BY <2>1
  <2>3. frames[u][j] \in others \/ frames[u][j] \in own
    BY <1>1, <1>2, <2>2
  <2>. QED  BY <1>3, <2>2, <2>3
<1>. QED  BY <1>4, <1>5

LEMMA HoldsState ==
  ASSUME Apart(frames, asgn, alive),
         NEW t \in Threads, NEW i \in {0} \cup (1..Len(frames[t])), Len(frames[t]) \in Nat,
         NEW S, NEW p, NEW live, Holds(t, i, S, p, live)
  PROVE  \A s \in S : KeptIn(frames, asgn, p, live, t, i, s)
<1>1. Lasting(t, i, live) = LastingIn(frames, t, i, live)
  BY UnsureState DEF Lasting, LastingIn
<1>2. Leading(p, Lasting(t, i, live)) = ViewIn(frames, asgn, p, LastingIn(frames, t, i, live))
  BY <1>1, LeadingState
<1>. QED  BY <1>2 DEF Holds, HeldBy, KeptIn

LEMMA KeepsState ==
  ASSUME Typed(frames, asgn, ptr, alive), Apart(frames, asgn, alive), NEW p, NEW live, Keeps(p, live)
  PROVE  KeepsIn(frames, asgn, p, live)
<1>1. ASSUME NEW t \in Threads, asgn[t] # << >>
      PROVE  KeptIn(frames, asgn, p, live, t, 0, asgn[t][1]) /\ KeptIn(frames, asgn, p, live, t, 0, asgn[t][2])
  <2>1. Holds(t, 0, {asgn[t][1], asgn[t][2]}, p, live) /\ Len(frames[t]) \in Nat
    BY <1>1 DEF Keeps, Typed
  <2>2. \A s \in {asgn[t][1], asgn[t][2]} : KeptIn(frames, asgn, p, live, t, 0, s)
    BY <2>1, HoldsState
  <2>. QED  BY <2>2
<1>2. ASSUME NEW t \in Threads, NEW i \in 1..Len(frames[t])
      PROVE  KeptIn(frames, asgn, p, live, t, i, frames[t][i].sptr)
  <2>1. Holds(t, i, {frames[t][i].sptr}, p, live) /\ Len(frames[t]) \in Nat
    BY DEF Keeps, Typed
  <2>2. \A s \in {frames[t][i].sptr} : KeptIn(frames, asgn, p, live, t, i, s)
    BY <2>1, HoldsState
  <2>. QED  BY <2>2
<1>. QED  BY <1>1, <1>2 DEF KeepsIn

(* A step of thread t in which no call begins; with d = 1 it is one in     *)
(* which its innermost call of has() ends.                                 *)
Call2(t, u, i, d) == IF u = t THEN i + d ELSE i

Shrinks(fr, as, fr2, as2, t, d) ==
  /\ d \in {0, 1}
  /\ \A u \in Threads : u # t => fr2[u] = fr[u] /\ as2[u] = as[u]
  /\ as2[t] = as[t] \/ as2[t] = << >>
  /\ Len(fr[t]) = Len(fr2[t]) + d
  /\ \A i \in 1..Len(fr2[t]) : fr2[t][i].sptr = fr[t][i + d].sptr /\ fr2[t][i].block = fr[t][i + d].block

Sized(fr) == \A u \in Threads : Len(fr[u]) \in Nat

(* Every call and every restriction was there before. *)
Within(fr, as, fr2, as2, t, d) ==
  /\ \A u \in Threads : \A i \in 1..Len(fr2[u]) :
       /\ Call2(t, u, i, d) \in 1..Len(fr[u])
       /\ fr2[u][i].sptr = fr[u][Call2(t, u, i, d)].sptr
       /\ fr2[u][i].block = fr[u][Call2(t, u, i, d)].block
  /\ \A u \in Threads : \A i \in 1..Len(fr2[u]) : \A b :
       IsUnsure(fr2, u, i, b) => IsUnsure(fr, u, Call2(t, u, i, d), b)
  /\ \A u \in Threads : \A b : IsUnsure(fr2, u, 0, b) => IsUnsure(fr, u, 0, b)
  /\ \A s : IsTarget(fr2, s) => IsTarget(fr, s)
  /\ \A b : IsBuilt(fr2, b) => IsBuilt(fr, b)
  /\ \A s : IsAssigned(as2, s) => IsAssigned(as, s)
  /\ \A s : IsSource(as2, s) => IsSource(as, s)

LEMMA ShrinkFacts ==
  ASSUME NEW fr, NEW as, NEW fr2, NEW as2, NEW t \in Threads, NEW d, Shrinks(fr, as, fr2, as2, t, d),
         Sized(fr), Sized(fr2)
  PROVE  Within(fr, as, fr2, as2, t, d)
<1>0. Sized(fr) /\ Sized(fr2)
  OBVIOUS
<1>1. ASSUME NEW u \in Threads, NEW i \in 1..Len(fr2[u])
      PROVE  /\ Call2(t, u, i, d) \in 1..Len(fr[u])
             /\ fr2[u][i].sptr = fr[u][Call2(t, u, i, d)].sptr
             /\ fr2[u][i].block = fr[u][Call2(t, u, i, d)].block
  <2>1. CASE u = t
    <3>1. /\ d \in {0, 1} /\ Len(fr[t]) = Len(fr2[t]) + d
          /\ fr2[t][i].sptr = fr[t][i + d].sptr /\ fr2[t][i].block = fr[t][i + d].block
      BY <2>1 DEF Shrinks
    <3>2. i + d \in 1..Len(fr[t])
      BY <1>0, <2>1, <3>1 DEF Sized
    <3>. QED  BY <2>1, <3>1, <3>2 DEF Call2
  <2>2. CASE u # t
    BY <2>2 DEF Shrinks, Call2
  <2>. QED  BY <2>1, <2>2
<1>3. ASSUME NEW u \in Threads, NEW i \in 1..Len(fr2[u]), NEW b, IsUnsure(fr2, u, i, b)
      PROVE  IsUnsure(fr, u, Call2(t, u, i, d), b)
  <2>1. PICK w \in Threads : \E j \in 1..Len(fr2[w]) : (w # u \/ j <= i) /\ fr2[w][j].block = b
    BY <1>3 DEF IsUnsure
  <2>2. PICK j \in 1..Len(fr2[w]) : (w # u \/ j <= i) /\ fr2[w][j].block = b
    BY <2>1
  <2>3. Call2(t, w, j, d) \in 1..Len(fr[w]) /\ fr[w][Call2(t, w, j, d)].block = b
    BY <1>1, <2>2
  <2>4. w # u \/ Call2(t, w, j, d) <= Call2(t, u, i, d)
    BY <2>2 DEF Call2, Shrinks
  <2>. QED  BY <2>3, <2>4 DEF IsUnsure
<1>4. ASSUME NEW u \in Threads, NEW b, IsUnsure(fr2, u, 0, b) PROVE IsUnsure(fr, u, 0, b)
  <2>1. PICK w \in Threads : \E j \in 1..Len(fr2[w]) : (w # u \/ j <= 0) /\ fr2[w][j].block = b
    BY <1>4 DEF IsUnsure
  <2>2. PICK j \in 1..Len(fr2[w]) : (w # u \/ j <= 0) /\ fr2[w][j].block = b
    BY <2>1
  <2>3. Call2(t, w, j, d) \in 1..Len(fr[w]) /\ fr[w][Call2(t, w, j, d)].block = b /\ w # u
    BY <1>1, <2>2
  <2>. QED  BY <2>3 DEF IsUnsure
<1>5. \A s : IsTarget(fr2, s) => IsTarget(fr, s)
  BY <1>1 DEF IsTarget
<1>6. \A b : IsBuilt(fr2, b) => IsBuilt(fr, b)
  BY <1>1 DEF IsBuilt
<1>7. (\A s : IsAssigned(as2, s) => IsAssigned(as, s)) /\ (\A s : IsSource(as2, s) => IsSource(as, s))
  BY DEF Shrinks, IsAssigned, IsSource
<1>. QED  BY <1>1, <1>3, <1>4, <1>5, <1>6, <1>7 DEF Within

LEMMA ApartShrink ==
  ASSUME NEW fr, NEW as, NEW fr2, NEW as2, NEW t \in Threads, NEW d, Shrinks(fr, as, fr2, as2, t, d),
         Sized(fr), Sized(fr2),
         NEW al, NEW al2, Apart(fr, as, al),
         \A s : IsTarget(fr2, s) \/ IsAssigned(as2, s) \/ IsSource(as2, s) => s \in al2,
         \A u \in Threads : as2[u] # << >> /\ fr2[u] # << >> => ~ fr2[u][1].failing
  PROVE  Apart(fr2, as2, al2)
<1>1. /\ \A u \in Threads : \A i \in 1..Len(fr2[u]) :
           /\ Call2(t, u, i, d) \in 1..Len(fr[u])
           /\ fr2[u][i].sptr = fr[u][Call2(t, u, i, d)].sptr
           /\ fr2[u][i].block = fr[u][Call2(t, u, i, d)].block
      /\ \A u \in Threads : \A i \in 1..Len(fr2[u]) : \A b :
           IsUnsure(fr2, u, i, b) => IsUnsure(fr, u, Call2(t, u, i, d), b)
      /\ \A u \in Threads : \A b : IsUnsure(fr2, u, 0, b) => IsUnsure(fr, u, 0, b)
      /\ \A s : IsTarget(fr2, s) => IsTarget(fr, s)
  <2>1. Within(fr, as, fr2, as2, t, d)
    BY ShrinkFacts
  <2>. QED  BY <2>1 DEF Within
<1>2. \A u \in Threads : as2[u] # << >> => as2[u] = as[u]
  BY DEF Shrinks
<1>3. ASSUME NEW u \in Threads, NEW w \in Threads, NEW i \in 1..Len(fr2[u]), NEW j \in 1..Len(fr2[w]),
             fr2[u][i].sptr = fr2[w][j].sptr \/ fr2[u][i].block = fr2[w][j].block
      PROVE  u = w /\ i = j
  <2>. DEFINE i2 == Call2(t, u, i, d)
              j2 == Call2(t, w, j, d)
  <2>2. /\ i2 \in 1..Len(fr[u]) /\ j2 \in 1..Len(fr[w])
        /\ fr[u][i2].sptr = fr[w][j2].sptr \/ fr[u][i2].block = fr[w][j2].block
    BY <1>1, <1>3
  <2>. HIDE DEF i2, j2
  <2>3. u = w /\ i2 = j2
    BY <2>2 DEF Apart
  <2>1. u = w /\ Call2(t, u, i, d) = Call2(t, w, j, d)
    BY <2>3 DEF i2, j2
  <2>. QED  BY <2>1 DEF Call2, Shrinks
<1>4. ASSUME NEW u \in Threads, NEW w \in Threads, as2[u] # << >>, as2[w] # << >>
      PROVE  (as2[u][1] = as2[w][1] => u = w) /\ as2[u][1] # as2[w][2]
  <2>1. as2[u] = as[u] /\ as2[w] = as[w] /\ as[u] # << >> /\ as[w] # << >>
    BY <1>2, <1>4
  <2>2. (as[u][1] = as[w][1] => u = w) /\ as[u][1] # as[w][2]
    BY <2>1 DEF Apart
  <2>. QED  BY <2>1, <2>2
<1>5. ASSUME NEW u \in Threads, as2[u] # << >>
      PROVE  /\ ~ IsTarget(fr2, as2[u][1]) /\ ~ IsTarget(fr2, as2[u][2])
             /\ as2[u][1] \in al2 /\ as2[u][2] \in al2
             /\ ~ IsUnsure(fr2, u, 0, Home(as2[u][1])) /\ ~ IsUnsure(fr2, u, 0, Home(as2[u][2]))
             /\ fr2[u] # << >> => ~ fr2[u][1].failing
  <2>1. as2[u] = as[u] /\ as[u] # << >>
    BY <1>2, <1>5
  <2>2. IsAssigned(as2, as2[u][1]) /\ IsSource(as2, as2[u][2])
    BY <1>5 DEF IsAssigned, IsSource
  <2>3. /\ ~ IsTarget(fr, as[u][1]) /\ ~ IsTarget(fr, as[u][2])
        /\ ~ IsUnsure(fr, u, 0, Home(as[u][1])) /\ ~ IsUnsure(fr, u, 0, Home(as[u][2]))
    BY <2>1 DEF Apart
  <2>. QED  BY <1>1, <1>5, <2>1, <2>2, <2>3
<1>6. ASSUME NEW u \in Threads, NEW i \in 1..Len(fr2[u])
      PROVE  fr2[u][i].sptr \in al2 /\ ~ IsUnsure(fr2, u, i, Home(fr2[u][i].sptr))
  <2>1. IsTarget(fr2, fr2[u][i].sptr)
    BY DEF IsTarget
  <2>2. ~ IsUnsure(fr, u, Call2(t, u, i, d), Home(fr2[u][i].sptr))
    BY <1>1 DEF Apart
  <2>. QED  BY <1>1, <2>1, <2>2
<1>. QED  BY <1>3, <1>4, <1>5, <1>6 DEF Apart

(* The call that ends leaves nothing behind. *)
LEMMA EndedCall ==
  ASSUME NEW fr, NEW as, NEW fr2, NEW as2, NEW t \in Threads, Shrinks(fr, as, fr2, as2, t, 1),
         Sized(fr), Sized(fr2),
         NEW al, Apart(fr, as, al)
  PROVE  /\ 1 \in 1..Len(fr[t])
         /\ ~ IsBuilt(fr2, fr[t][1].block) /\ ~ IsTarget(fr2, fr[t][1].sptr)
         /\ \A s, b : HasFrame(fr, s, b) => HasFrame(fr2, s, b) \/ (s = fr[t][1].sptr /\ b = fr[t][1].block)
<1>1. \A u \in Threads : \A i \in 1..Len(fr2[u]) :
        /\ Call2(t, u, i, 1) \in 1..Len(fr[u])
        /\ fr2[u][i].sptr = fr[u][Call2(t, u, i, 1)].sptr
        /\ fr2[u][i].block = fr[u][Call2(t, u, i, 1)].block
  <2>1. Within(fr, as, fr2, as2, t, 1)
    BY ShrinkFacts
  <2>. QED  BY <2>1 DEF Within
<1>2. 1 \in 1..Len(fr[t])
  BY DEF Shrinks, Sized
<1>3. ASSUME NEW u \in Threads, NEW i \in 1..Len(fr2[u]),
             fr2[u][i].sptr = fr[t][1].sptr \/ fr2[u][i].block = fr[t][1].block
      PROVE  FALSE
  <2>1. u = t /\ Call2(t, u, i, 1) = 1
    BY <1>1, <1>2, <1>3 DEF Apart
  <2>. QED  BY <2>1 DEF Call2
<1>4. ~ IsBuilt(fr2, fr[t][1].block) /\ ~ IsTarget(fr2, fr[t][1].sptr)
  BY <1>3 DEF IsBuilt, IsTarget
<1>5. ASSUME NEW s, NEW b, HasFrame(fr, s, b), ~ (s = fr[t][1].sptr /\ b = fr[t][1].block)
      PROVE  HasFrame(fr2, s, b)
  <2>1. PICK u \in Threads : \E i \in 1..Len(fr[u]) : fr[u][i].sptr = s /\ fr[u][i].block = b
    BY <1>5 DEF HasFrame
  <2>2. PICK i \in 1..Len(fr[u]) : fr[u][i].sptr = s /\ fr[u][i].block = b
    BY <2>1
  <2>3. CASE u # t
    BY <2>2, <2>3 DEF Shrinks, HasFrame
  <2>4. CASE u = t
    <3>1. i # 1
      BY <1>5, <2>2, <2>4
    <3>2. i - 1 \in 1..Len(fr2[t]) /\ (i - 1) + 1 = i
      BY <2>2, <2>4, <3>1 DEF Shrinks, Sized
    <3>3. fr2[t][i - 1].sptr = s /\ fr2[t][i - 1].block = b
      BY <2>2, <2>4, <3>2 DEF Shrinks
    <3>. QED  BY <3>2, <3>3 DEF HasFrame
  <2>. QED  BY <2>3, <2>4
<1>. QED  BY <1>2, <1>4, <1>5

(* Where a pointer leads depends on the calls only. *)
LEMMA SameFrames ==
  ASSUME NEW fr, NEW as, NEW fr2, NEW as2, NEW t \in Threads, Shrinks(fr, as, fr2, as2, t, 0),
         Sized(fr), Sized(fr2)
  PROVE  /\ \A s : IsTarget(fr2, s) <=> IsTarget(fr, s)
         /\ \A b : IsBuilt(fr2, b) <=> IsBuilt(fr, b)
         /\ \A s, b : HasFrame(fr2, s, b) <=> HasFrame(fr, s, b)
<1>1. ASSUME NEW u \in Threads
      PROVE  /\ Len(fr2[u]) = Len(fr[u])
             /\ \A i \in 1..Len(fr[u]) : /\ fr2[u][i].sptr = fr[u][i].sptr
                                         /\ fr2[u][i].block = fr[u][i].block
  <2>1. CASE u = t
    <3>1. /\ Len(fr[t]) = Len(fr2[t]) + 0
          /\ \A i \in 1..Len(fr2[t]) : /\ fr2[t][i].sptr = fr[t][i + 0].sptr
                                       /\ fr2[t][i].block = fr[t][i + 0].block
      BY DEF Shrinks
    <3>2. Len(fr[t]) = Len(fr2[t]) /\ \A i \in 1..Len(fr2[t]) : i + 0 = i
      BY <3>1 DEF Sized
    <3>. QED  BY <2>1, <3>1, <3>2
  <2>2. CASE u # t
    BY <2>2 DEF Shrinks
  <2>. QED  BY <2>1, <2>2
<1>2. \A s : IsTarget(fr2, s) <=> IsTarget(fr, s)
  BY <1>1 DEF IsTarget
<1>3. \A b : IsBuilt(fr2, b) <=> IsBuilt(fr, b)
  BY <1>1 DEF IsBuilt
<1>4. \A s, b : HasFrame(fr2, s, b) <=> HasFrame(fr, s, b)
  BY <1>1 DEF HasFrame
<1>. QED  BY <1>2, <1>3, <1>4

(* The pointers of the calls go on to be kept, from the addresses p and    *)
(* the pointers in D that the guard is about to what they are afterwards.  *)
(* The block c of a call that fails, if any, is of no use to any call.     *)
GoesOn(fr, as, p, D, fr2, as2, p2, al2, c) ==
  \A x \in D : Reaches(ViewIn(fr, as, p, D), x) /\ (c # Null => Home(x) # c) =>
    x \in al2 /\ LeadsIn(fr, as, p, x) \in {LeadsIn(fr2, as2, p2, x), Null, c}

LEMMA KeepsShrink ==
  ASSUME NEW fr, NEW as, NEW p, NEW al, Typed(fr, as, p, al), Apart(fr, as, al),
         NEW fr2, NEW as2, NEW p2, NEW al2, Typed(fr2, as2, p2, al2), Apart(fr2, as2, al2),
         NEW t \in Threads, NEW d, Shrinks(fr, as, fr2, as2, t, d),
         NEW D, D \subseteq al, KeepsIn(fr, as, p, D),
         NEW c, GoesOn(fr, as, p, D, fr2, as2, p2, al2, c),
         c # Null => 1 \in 1..Len(fr[t]) /\ fr[t][1].block = c /\ as[t] = << >>
  PROVE  KeepsIn(fr2, as2, p2, al2)
<1>0. Sized(fr) /\ Sized(fr2) /\ D \in SUBSET Sptrs
  BY DEF Typed, Sized
<1>1. Within(fr, as, fr2, as2, t, d)
  BY <1>0, ShrinkFacts
<1>2. ASSUME c # Null, NEW u \in Threads, NEW i, i = 0 => u # t, i \in Nat
      PROVE  IsUnsure(fr, u, i, c)
  BY <1>2 DEF IsUnsure
<1>3. ASSUME NEW u \in Threads, NEW i \in Nat, NEW i2, i = 0 => as[u] # << >>,
             \A b : IsUnsure(fr2, u, i2, b) => IsUnsure(fr, u, i, b),
             NEW s, ~ IsUnsure(fr, u, i, Home(s)), KeptIn(fr, as, p, D, u, i, s)
      PROVE  KeptIn(fr2, as2, p2, al2, u, i2, s)
  <2>1. c # Null => IsUnsure(fr, u, i, c)
    BY <1>2, <1>3
  <2>2. c # Null => Home(s) # c
    BY <1>3, <2>1
  <2>3. ASSUME NEW x, x \in LastingIn(fr, u, i, D), Reaches(ViewIn(fr, as, p, D), x)
        PROVE  /\ x \in al2 /\ ~ IsUnsure(fr2, u, i2, Home(x))
               /\ c # Null => Home(x) # c
               /\ LeadsIn(fr, as, p, x) \in {LeadsIn(fr2, as2, p2, x), Null, c}
    <3>1. x \in D /\ ~ IsUnsure(fr, u, i, Home(x))
      BY <2>3 DEF LastingIn
    <3>2. ~ IsUnsure(fr2, u, i2, Home(x)) /\ (c # Null => Home(x) # c)
      BY <1>3, <2>1, <3>1
    <3>. QED  BY <2>3, <3>1, <3>2 DEF GoesOn
  <2>. QED  BY <1>0, <1>3, <2>2, <2>3, KeptLonger
<1>4. ASSUME NEW u \in Threads, as2[u] # << >>
      PROVE  KeptIn(fr2, as2, p2, al2, u, 0, as2[u][1]) /\ KeptIn(fr2, as2, p2, al2, u, 0, as2[u][2])
  <2>1. as2[u] = as[u] /\ as[u] # << >>
    BY <1>4 DEF Shrinks
  <2>2. KeptIn(fr, as, p, D, u, 0, as[u][1]) /\ KeptIn(fr, as, p, D, u, 0, as[u][2])
    BY <2>1 DEF KeepsIn
  <2>3. ~ IsUnsure(fr, u, 0, Home(as[u][1])) /\ ~ IsUnsure(fr, u, 0, Home(as[u][2]))
    BY <2>1 DEF Apart
  <2>4. \A b : IsUnsure(fr2, u, 0, b) => IsUnsure(fr, u, 0, b)
    BY <1>1 DEF Within
  <2>. QED  BY <1>3, <2>1, <2>2, <2>3, <2>4
<1>5. ASSUME NEW u \in Threads, NEW i \in 1..Len(fr2[u])
      PROVE  KeptIn(fr2, as2, p2, al2, u, i, fr2[u][i].sptr)
  <2>. DEFINE k == Call2(t, u, i, d)
  <2>1. /\ k \in 1..Len(fr[u]) /\ fr2[u][i].sptr = fr[u][k].sptr
        /\ \A b : IsUnsure(fr2, u, i, b) => IsUnsure(fr, u, k, b)
    BY <1>1 DEF Within
  <2>. HIDE DEF k
  <2>2. KeptIn(fr, as, p, D, u, k, fr[u][k].sptr) /\ ~ IsUnsure(fr, u, k, Home(fr[u][k].sptr))
    BY <2>1 DEF KeepsIn, Apart
  <2>3. k \in Nat /\ k # 0
    BY <1>0, <2>1 DEF Sized
  <2>. QED  BY <1>3, <2>1, <2>2, <2>3
<1>. QED  BY <1>4, <1>5 DEF KeepsIn

(* What a message makes of the view of the client is what the client has. *)
Says(v, m, fr, as, p, al, hp, kp, fr2, as2, p2, al2, hp2, kp2) ==
  /\ \A s : s \in al2 <=> (s \in al /\ s # m.sptr) \/ (s = m.sptr /\ m.type # "SptrUnregistration")
  /\ \A s \in al : s # m.sptr =>
       /\ LeadsIn(fr2, as2, p2, s) = LeadsIn(fr, as, p, s)
       /\ v[s] # Null => /\ Home(s) # Null => kp2[v[s]] = kp[v[s]]
                         /\ hp2[v[s]] = "raw" => hp[v[s]] = "raw"
                         /\ HasFrame(fr, s, v[s]) => HasFrame(fr2, s, v[s])
  /\ m.type # "SptrUnregistration" =>
       LET b == NewTarget(v, m) IN
       /\ Reaches(v, m.sptr) => LeadsIn(fr2, as2, p2, m.sptr) = b
       /\ b # Null => /\ Home(m.sptr) # Null => kp2[b] = Home(m.sptr)
                      /\ hp2[b] = "raw" => HasFrame(fr2, m.sptr, b)

LEMMA SentShows ==
  ASSUME NEW v, IsView(v), NEW m \in Messages, Allowed(v, m),
         NEW fr, NEW as, NEW p, NEW al, NEW hp, NEW kp, Shows(v, fr, as, p, al, hp, kp),
         NEW fr2, NEW as2, NEW p2, NEW al2, NEW hp2, NEW kp2,
         Says(v, m, fr, as, p, al, hp, kp, fr2, as2, p2, al2, hp2, kp2)
  PROVE  Shows(After(v, m), fr2, as2, p2, al2, hp2, kp2)
<1>. DEFINE w == After(v, m)
<1>1. /\ IsView(w)
      /\ \A s \in DOMAIN v : s # m.sptr => s \in DOMAIN w
      /\ m.sptr \in DOMAIN w <=> m.type # "SptrUnregistration"
      /\ \A s \in DOMAIN w : s # m.sptr => s \in DOMAIN v
      /\ \A s \in DOMAIN w : w[s] = IF s = m.sptr THEN NewTarget(v, m) ELSE v[s]
      /\ \A b \in Reach(w) : b \in Reach(Without(v, m.sptr)) \/ (m.type = "NewObject" /\ b = m.block)
  BY AfterFacts
<1>2. DOMAIN v = al /\ (\A s \in al : Reaches(v, s) => v[s] = LeadsIn(fr, as, p, s))
      /\ \A s \in al : v[s] # Null =>
           /\ Home(s) # Null => kp[v[s]] = Home(s)
           /\ hp[v[s]] = "raw" => HasFrame(fr, s, v[s])
  BY DEF Shows
<1>. HIDE DEF w
<1>3. \A s : s \in DOMAIN w <=> s \in al2
  BY <1>1, <1>2 DEF Says
<1>4. DOMAIN w = al2
  BY <1>3
<1>5. ASSUME NEW s \in al2, Reaches(w, s) PROVE Reaches(v, s)
  <2>1. m.type = "NewObject" => Home(s) # m.block
    <3>1. m.type = "NewObject" => s \in DOMAIN v
      BY <1>1, <1>3 DEF Allowed, Registering
    <3>. QED  BY <3>1 DEF Allowed
  <2>2. Reach(Without(v, m.sptr)) \subseteq Reach(v)
    BY WithoutFacts
  <2>. QED  BY <1>1, <1>5, <2>1, <2>2 DEF Reaches
<1>6. ASSUME NEW s \in al2, s # m.sptr
      PROVE  /\ s \in al /\ w[s] = v[s]
             /\ LeadsIn(fr2, as2, p2, s) = LeadsIn(fr, as, p, s)
             /\ v[s] # Null => /\ Home(s) # Null => kp2[v[s]] = kp[v[s]]
                               /\ hp2[v[s]] = "raw" => hp[v[s]] = "raw"
                               /\ HasFrame(fr, s, v[s]) => HasFrame(fr2, s, v[s])
  BY <1>1, <1>3, <1>6 DEF Says
<1>7. ASSUME m.sptr \in al2
      PROVE  /\ w[m.sptr] = NewTarget(v, m)
             /\ Reaches(v, m.sptr) => LeadsIn(fr2, as2, p2, m.sptr) = NewTarget(v, m)
             /\ NewTarget(v, m) # Null =>
                  /\ Home(m.sptr) # Null => kp2[NewTarget(v, m)] = Home(m.sptr)
                  /\ hp2[NewTarget(v, m)] = "raw" => HasFrame(fr2, m.sptr, NewTarget(v, m))
  BY <1>1, <1>3, <1>7 DEF Says
<1>8. ASSUME NEW s \in al2, Reaches(w, s) PROVE w[s] = LeadsIn(fr2, as2, p2, s)
  BY <1>2, <1>5, <1>6, <1>7, <1>8
<1>9. ASSUME NEW s \in al2, w[s] # Null
      PROVE  /\ Home(s) # Null => kp2[w[s]] = Home(s)
             /\ hp2[w[s]] = "raw" => HasFrame(fr2, s, w[s])
  BY <1>2, <1>6, <1>7, <1>9
<1>. QED  BY <1>4, <1>8, <1>9 DEF Shows, w

-----------------------------------------------------------------------------
(* What the client sees of its own pointers. *)

Sees(v) ==
  /\ IsView(v) /\ OneKeeper(v) /\ LeadsToUsed(v, heap)
  /\ Shows(v, frames, asgn, ptr, alive, heap, keeper)

LEMMA SeenFacts ==
  ASSUME TypeOK, NEW views, Seen(views)
  PROVE  Sees(views[Len(msgs)])
<1>1. Len(msgs) \in 0..Len(msgs)
  BY DEF TypeOK
<1>. QED  BY <1>1 DEF Seen, Linked, Sees

LEMMA KeptReaches ==
  ASSUME NEW fr, NEW as, NEW p, NEW al, Typed(fr, as, p, al), Apart(fr, as, al),
         NEW D, D \subseteq al, NEW t, NEW i, NEW s, KeptIn(fr, as, p, D, t, i, s)
  PROVE  Reaches(ViewIn(fr, as, p, D), s)
<1>. DEFINE L == LastingIn(fr, t, i, D)
            V == ViewIn(fr, as, p, L)
            W == ViewIn(fr, as, p, D)
<1>1. D \in SUBSET Sptrs
  BY DEF Typed
<1>2. L \in SUBSET Sptrs /\ L \subseteq D
  BY <1>1 DEF LastingIn
<1>3. KeptIn(fr, as, p, D, t, i, s) /\ Typed(fr, as, p, al) /\ Apart(fr, as, al)
  OBVIOUS
<1>4. Home(s) # Null => Home(s) \in Reach(V)
  BY <1>3 DEF KeptIn
<1>. HIDE DEF L
<1>5. IsView(V) /\ DOMAIN V = L /\ \A x \in L : V[x] = LeadsIn(fr, as, p, x)
  BY ONLY <1>2, <1>3, ViewInFacts
<1>6. IsView(W) /\ DOMAIN W = D /\ \A x \in D : W[x] = LeadsIn(fr, as, p, x)
  BY ONLY <1>1, <1>3, ViewInFacts
<1>. HIDE DEF V, W
<1>7. \A x \in DOMAIN V : V[x] \in {W[x], Null}
  BY <1>2, <1>5, <1>6
<1>8. Reach(V) \subseteq Reach(W)
  BY ONLY <1>2, <1>5, <1>6, <1>7, ReachMonotone
<1>. QED  BY <1>4, <1>8 DEF Reaches, W

LEMMA FitsParts ==
  ASSUME Fits
  PROVE  /\ Typed(frames, asgn, ptr, alive) /\ Apart(frames, asgn, alive) /\ Sized(frames)
         /\ HeapFits(frames, alive, heap, dying) /\ KeepsIn(frames, asgn, ptr, alive)
BY DEF Fits, ClientFits, Typed, Sized

LEMMA SeesReach ==
  ASSUME Fits, NEW v, Sees(v)
  PROVE  /\ \A s : Reaches(ViewIn(frames, asgn, ptr, alive), s) <=> Reaches(v, s)
         /\ Held = Reach(v) /\ DOMAIN v = alive
         /\ \A s \in alive : Reaches(v, s) => v[s] = LeadsIn(frames, asgn, ptr, s)
         /\ \A s \in alive : Reaches(v, s) /\ v[s] # Null => v[s] \in Reach(v)
<1>1. /\ Typed(frames, asgn, ptr, alive) /\ Apart(frames, asgn, alive) /\ IsView(v)
      /\ Shows(v, frames, asgn, ptr, alive, heap, keeper)
  BY FitsParts DEF Sees
<1>2. Reach(ViewIn(frames, asgn, ptr, alive)) = Reach(v)
  BY ONLY <1>1, ShownReach
<1>3. Held = Reach(v)
  BY <1>1, <1>2, HeldState
<1>4. DOMAIN v = alive /\ \A s \in alive : Reaches(v, s) => v[s] = LeadsIn(frames, asgn, ptr, s)
  BY <1>1 DEF Shows
<1>5. Closed(v, Reach(v))
  BY <1>1, ReachClosed
<1>6. \A s \in alive : Reaches(v, s) /\ v[s] # Null => v[s] \in Reach(v)
  BY <1>4, <1>5 DEF Closed, Reaches
<1>. QED  BY <1>2, <1>3, <1>4, <1>6 DEF Reaches

LEMMA CallFacts ==
  ASSUME Fits, NEW v, Sees(v)
  PROVE  /\ \A t \in Threads : \A i \in 1..Len(frames[t]) :
              /\ Reaches(v, frames[t][i].sptr) /\ frames[t][i].sptr \in alive
              /\ v[frames[t][i].sptr] = frames[t][i].block /\ frames[t][i].block \in Reach(v)
              /\ frames[t][i].block # Null
         /\ \A t \in Threads : asgn[t] # << >> => Reaches(v, asgn[t][1]) /\ Reaches(v, asgn[t][2])
<1>1. /\ Typed(frames, asgn, ptr, alive) /\ Apart(frames, asgn, alive)
      /\ KeepsIn(frames, asgn, ptr, alive)
  BY FitsParts
<1>2. LeadsRight(frames, asgn, ptr)
  BY ONLY <1>1, LeadsFacts
<1>. DEFINE W == ViewIn(frames, asgn, ptr, alive)
<1>3. ASSUME NEW t, NEW i, NEW s, KeptIn(frames, asgn, ptr, alive, t, i, s) PROVE Reaches(W, s)
  BY <1>1, <1>3, KeptReaches
<1>. HIDE DEF W
<1>4. /\ \A s : Reaches(W, s) => Reaches(v, s)
      /\ \A s \in alive : Reaches(v, s) => v[s] = LeadsIn(frames, asgn, ptr, s)
      /\ \A s \in alive : Reaches(v, s) /\ v[s] # Null => v[s] \in Reach(v)
  BY SeesReach DEF W
<1>5. ASSUME NEW t \in Threads, NEW i \in 1..Len(frames[t])
      PROVE  /\ Reaches(v, frames[t][i].sptr) /\ frames[t][i].sptr \in alive
             /\ v[frames[t][i].sptr] = frames[t][i].block /\ frames[t][i].block \in Reach(v)
             /\ frames[t][i].block # Null
  <2>1. KeptIn(frames, asgn, ptr, alive, t, i, frames[t][i].sptr)
    BY <1>1 DEF KeepsIn
  <2>2. Reaches(v, frames[t][i].sptr)
    BY <1>3, <1>4, <2>1
  <2>3. frames[t][i].sptr \in alive
    BY <1>1 DEF Apart
  <2>4. v[frames[t][i].sptr] = frames[t][i].block
    BY <1>2, <1>4, <2>2, <2>3 DEF LeadsRight
  <2>5. frames[t][i].block # Null
    BY <1>1, NullAssumption DEF Typed
  <2>. QED  BY <1>4, <2>2, <2>3, <2>4, <2>5
<1>6. ASSUME NEW t \in Threads, asgn[t] # << >>
      PROVE  Reaches(v, asgn[t][1]) /\ Reaches(v, asgn[t][2])
  BY <1>1, <1>3, <1>4, <1>6 DEF KeepsIn
<1>. QED  BY <1>5, <1>6

LEMMA UsableSees ==
  ASSUME TypeOK, Usage = {}, Fits, NEW v, Sees(v), NEW t \in Threads, NEW s \in Usable(t)
  PROVE  /\ s \in alive /\ s \in Sptrs /\ Readable(t) = Usable(t)
         /\ ~ IsTarget(frames, s) /\ ~ IsAssigned(asgn, s)
         /\ Reaches(v, s) /\ v[s] = ptr[s]
         /\ \A p : LeadsIn(frames, asgn, p, s) = p[s]
         /\ ~ IsUnsure(frames, t, 0, Home(s))
         /\ v[s] # Null => heap[v[s]] # "raw"
<1>1. /\ Typed(frames, asgn, ptr, alive) /\ Apart(frames, asgn, alive)
      /\ Shows(v, frames, asgn, ptr, alive, heap, keeper)
  BY FitsParts DEF Sees
<1>2. /\ s \in alive /\ ~ IsTarget(frames, s) /\ ~ IsAssigned(asgn, s) /\ s \in Sptrs
      /\ s \in Roots \/ Home(s) \in Held \ Building \/ InBody(t, Home(s))
  <2>1. s \in alive \ (Targets \cup Assigned)
    BY DEF Usable
  <2>2. s \in Roots \/ Home(s) \in Held \ Building \/ InBody(t, Home(s))
    BY DEF Usable
  <2>. QED  BY <2>1, <2>2, StateFacts DEF TypeOK
<1>3. Readable(t) = Usable(t)
  BY DEF Readable
<1>4. InBody(t, Home(s)) => 1 \in 1..Len(frames[t]) /\ Home(s) = frames[t][1].block
  BY FrameFacts DEF InBody
<1>5. Reaches(v, s)
  <2>1. \A i \in 1..Len(frames[t]) : frames[t][i].block \in Reach(v)
    BY CallFacts
  <2>2. Held = Reach(v)
    BY SeesReach
  <2>. QED  BY <1>2, <1>4, <2>1, <2>2 DEF Reaches, Home
<1>6. ASSUME NEW p PROVE LeadsIn(frames, asgn, p, s) = p[s]
  <2>1. LeadsRight(frames, asgn, p)
    BY ONLY <1>1, LeadsFacts
  <2>. QED  BY <1>2, <2>1 DEF LeadsRight
<1>7. v[s] = ptr[s]
  BY <1>1, <1>2, <1>5, <1>6 DEF Shows
<1>8. ~ IsUnsure(frames, t, 0, Home(s))
  <2>. SUFFICES ASSUME IsUnsure(frames, t, 0, Home(s)) PROVE FALSE
    OBVIOUS
  <2>1. PICK u \in Threads : \E j \in 1..Len(frames[u]) : (u # t \/ j <= 0) /\ frames[u][j].block = Home(s)
    BY DEF IsUnsure
  <2>2. PICK j \in 1..Len(frames[u]) : (u # t \/ j <= 0) /\ frames[u][j].block = Home(s)
    BY <2>1
  <2>3. u # t /\ frames[u][j].block \in Blocks
    BY <1>1, <2>2 DEF Typed
  <2>4. Home(s) \in Building /\ Home(s) # Null
    BY <2>2, <2>3, StateFacts, NullAssumption DEF IsBuilt
  <2>5. InBody(t, Home(s))
    BY <1>2, <2>4 DEF Home
  <2>6. frames[t][1].block = frames[u][j].block /\ 1 \in 1..Len(frames[t])
    BY <1>4, <2>2, <2>5
  <2>. QED  BY <1>1, <2>2, <2>3, <2>6 DEF Apart
<1>9. v[s] # Null => heap[v[s]] # "raw"
  BY <1>1, <1>2 DEF Shows, HasFrame, IsTarget
<1>. QED  BY <1>2, <1>3, <1>5, <1>6, <1>7, <1>8, <1>9

-----------------------------------------------------------------------------
(* A message of the client, seen in view v. *)

Sends(v, m) ==
  /\ m \in Messages /\ msgs' = Append(msgs, m) /\ graph' = graph
  /\ Steady(heap, Building, heap', Building')
  /\ Sendable(v, m, heap) /\ Aborts(v, m, heap', Building')
  /\ m.type = "NewObject" => heap'[m.block] \in {"raw", "live"}
  /\ Says(v, m, frames, asgn, ptr, alive, heap, keeper, frames', asgn', ptr', alive', heap', keeper')

LEMMA SentSeen ==
  ASSUME TypeOK, NEW views, Seen(views), NEW m, Sends(views[Len(msgs)], m)
  PROVE  \E views2 : Seen(views2)'
<1>. DEFINE v == views[Len(msgs)]
<1>1. /\ msgs \in Seq(Messages) /\ m \in Messages /\ msgs' = Append(msgs, m) /\ graph' = graph
      /\ Linked(views, msgs, heap, Building) /\ Steady(heap, Building, heap', Building')
      /\ Sendable(v, m, heap) /\ Aborts(v, m, heap', Building')
      /\ m.type = "NewObject" => heap'[m.block] \in {"raw", "live"}
  BY DEF TypeOK, Seen, Sends
<1>2. PICK views2 : /\ Linked(views2, Append(msgs, m), heap', Building')
                    /\ views2[0] = views[0]
                    /\ views2[Len(Append(msgs, m))] = After(v, m)
  BY <1>1, SendLinked
<1>3. IsView(v) /\ Shows(v, frames, asgn, ptr, alive, heap, keeper) /\ Allowed(v, m)
  BY <1>1, SeenFacts DEF Sees, Sendable
<1>4. Shows(After(v, m), frames', asgn', ptr', alive', heap', keeper')
  BY <1>1, <1>3, SentShows DEF Sends
<1>5. Founded(views2[0], graph')
  BY <1>1, <1>2 DEF Seen
<1>6. Linked(views2, msgs', heap', Building')
  BY <1>1, <1>2
<1>7. Shows(views2[Len(msgs')], frames', asgn', ptr', alive', heap', keeper')
  BY <1>1, <1>2, <1>4
<1>8. Seen(views2)'
  BY <1>5, <1>6, <1>7 DEF Seen
<1>. QED  BY <1>8

LEMMA TypedNext == TypeOK' => Typed(frames', asgn', ptr', alive') /\ Sized(frames')
<1>1. TypeOK' => Typed(frames, asgn, ptr, alive)'
  BY TypedFacts, PTL
<1>. QED  BY <1>1 DEF Typed, Sized

LEMMA KeeperAfter ==
  ASSUME NEW v, IsView(v), OneKeeper(v), NEW m \in Messages, Allowed(v, m),
         NEW b, b = NewTarget(v, m),
         b # Null /\ Home(m.sptr) # Null =>
           b # Home(m.sptr) /\ \A s \in DOMAIN v : Home(s) # Null /\ v[s] = b => Home(s) = Home(m.sptr)
  PROVE  OneKeeper(After(v, m))
<1>. DEFINE w == After(v, m)
<1>1. /\ IsView(w)
      /\ \A s \in DOMAIN w : s # m.sptr => s \in DOMAIN v
      /\ \A s \in DOMAIN w : w[s] = IF s = m.sptr THEN NewTarget(v, m) ELSE v[s]
  BY AfterFacts
<1>. HIDE DEF w
<1>2. ASSUME NEW s \in DOMAIN w, Home(s) # Null, w[s] # Null
      PROVE  w[s] # Home(s) /\ \A r \in DOMAIN w : Home(r) # Null /\ w[r] = w[s] => Home(r) = Home(s)
  BY <1>1, <1>2 DEF OneKeeper
<1>. QED  BY <1>2 DEF OneKeeper, w

LEMMA StoreSays ==
  ASSUME TypeOK, Usage = {}, NEW v, Sees(v), NEW x, NEW b \in Blocks \cup {Null},
         MayStore(x, b), Store(x, b)
  PROVE  /\ \A s \in alive : v[s] # Null /\ Home(s) # Null => keeper'[v[s]] = keeper[v[s]]
         /\ b # Null /\ Home(x) # Null =>
              /\ keeper'[b] = Home(x) /\ b # Home(x)
              /\ \A s \in DOMAIN v : Home(s) # Null /\ v[s] = b => Home(s) = Home(x)
<1>1. keeper \in [Blocks -> Blocks \cup {Null, Gone}]
  BY DEF TypeOK
<1>2. DOMAIN v = alive /\ \A s \in alive : v[s] # Null /\ Home(s) # Null => keeper[v[s]] = Home(s)
  BY DEF Sees, Shows
<1>3. CASE b # Null /\ Home(x) # Null
  <2>1. keeper' = [keeper EXCEPT ![b] = Home(x)] /\ b # Home(x) /\ keeper[b] \in {Null, Home(x)}
    BY <1>3 DEF Store, MayStore
  <2>2. keeper'[b] = Home(x) /\ \A c \in Blocks : c # b => keeper'[c] = keeper[c]
    BY <1>1, <1>3, <2>1
  <2>3. \A s \in alive : v[s] \in Blocks \cup {Null}
    BY <1>2 DEF Sees, IsView
  <2>4. \A s \in alive : Home(s) # Null /\ v[s] = b => Home(s) = Home(x)
    BY <1>2, <1>3, <2>1
  <2>5. \A s \in alive : v[s] # Null /\ Home(s) # Null => keeper'[v[s]] = keeper[v[s]]
    BY <1>2, <2>2, <2>3, <2>4
  <2>. QED  BY <1>2, <2>1, <2>2, <2>4, <2>5
<1>4. CASE ~ (b # Null /\ Home(x) # Null)
  <2>1. keeper' = keeper
    BY <1>4 DEF Store
  <2>. QED  BY <1>4, <2>1
<1>. QED  BY <1>3, <1>4

LEMMA RootIsNotMember == \A r \in Roots, b \in Blocks, i \in 1..Slots : <<b, i>> # r
BY RootsAssumption DEF Members, MemberOf

LEMMA HeapSame ==
  ASSUME NEW fr, NEW al, NEW hp, NEW d, HeapFits(fr, al, hp, d),
         \A t \in Threads : \A i \in 1..Len(fr[t]) : fr[t][i].block \in Blocks,
         d.block \in Blocks \cup {Null},
         NEW al2, \A b \in Blocks, i \in 1..Slots : <<b, i>> \in al2 <=> <<b, i>> \in al
  PROVE  HeapFits(fr, al2, hp, d)
<1>1. \A b \in Blocks : \A n : HasMade(al, b, n) => HasMade(al2, b, n)
  BY DEF HasMade
<1>. QED  BY <1>1 DEF HeapFits

LEMMA SteadyHeap == \A hp, building : Steady(hp, building, hp, building)
BY DEF Steady

LEMMA ShrinkSame ==
  ASSUME NEW fr, NEW as, Sized(fr), NEW t \in Threads
  PROVE  Shrinks(fr, as, fr, as, t, 0)
BY DEF Shrinks, Sized

(* Where the pointers lead when only the address in s changes. *)
Alters(as2, al, p, p2, s) == ~ IsSource(as2, s) /\ \A y \in al : y # s => p2[y] = p[y]
Persists(fr, as, fr2, as2, x) ==
  (IsTarget(fr, x) => IsTarget(fr2, x)) /\ (IsAssigned(as, x) => IsAssigned(as2, x))

Steps(fr, as, al, fr2, as2, al2, t, d) ==
  /\ Apart(fr, as, al) /\ Apart(fr2, as2, al2) /\ Sized(fr) /\ Sized(fr2)
  /\ t \in Threads /\ Shrinks(fr, as, fr2, as2, t, d)

Alike(fr, as, p, al, fr2, as2, p2, s) ==
  \A x \in al : x # s /\ Persists(fr, as, fr2, as2, x) =>
    LeadsIn(fr2, as2, p2, x) = LeadsIn(fr, as, p, x)

LEMMA LeadsBut ==
  ASSUME NEW fr, NEW as, NEW al, NEW fr2, NEW as2, NEW al2, NEW t, NEW d,
         Steps(fr, as, al, fr2, as2, al2, t, d),
         NEW p, NEW p2, NEW s, Alters(as2, al, p, p2, s)
  PROVE  Alike(fr, as, p, al, fr2, as2, p2, s)
<1>. SUFFICES ASSUME NEW x \in al, x # s, Persists(fr, as, fr2, as2, x)
              PROVE  LeadsIn(fr2, as2, p2, x) = LeadsIn(fr, as, p, x)
  BY DEF Alike
<1>0. /\ Apart(fr, as, al) /\ Apart(fr2, as2, al2) /\ Sized(fr) /\ Sized(fr2)
      /\ t \in Threads /\ Shrinks(fr, as, fr2, as2, t, d)
  BY DEF Steps
<1>1. Within(fr, as, fr2, as2, t, d)
  BY <1>0, ShrinkFacts
<1>2. LeadsRight(fr, as, p)
  BY ONLY <1>0, LeadsFacts
<1>3. LeadsRight(fr2, as2, p2)
  BY ONLY <1>0, LeadsFacts
<1>4. CASE IsTarget(fr2, x)
  <2>1. PICK u \in Threads : \E i \in 1..Len(fr2[u]) : fr2[u][i].sptr = x
    BY <1>4 DEF IsTarget
  <2>2. PICK i \in 1..Len(fr2[u]) : fr2[u][i].sptr = x
    BY <2>1
  <2>. DEFINE k == Call2(t, u, i, d)
  <2>3. k \in 1..Len(fr[u]) /\ fr2[u][i].sptr = fr[u][k].sptr /\ fr2[u][i].block = fr[u][k].block
    BY <1>1 DEF Within
  <2>. HIDE DEF k
  <2>4. LeadsIn(fr2, as2, p2, x) = fr2[u][i].block
    BY <1>3, <2>2 DEF LeadsRight
  <2>5. LeadsIn(fr, as, p, x) = fr[u][k].block
    BY <1>2, <2>2, <2>3 DEF LeadsRight
  <2>. QED  BY <2>3, <2>4, <2>5
<1>5. CASE ~ IsTarget(fr2, x) /\ IsAssigned(as2, x)
  <2>1. PICK u \in Threads : as2[u] # << >> /\ as2[u][1] = x
    BY <1>5 DEF IsAssigned
  <2>2. as2[u] = as[u]
    BY <1>0, <2>1 DEF Shrinks
  <2>3. LeadsIn(fr2, as2, p2, x) = p2[as2[u][2]]
    BY <1>3, <2>1 DEF LeadsRight
  <2>4. LeadsIn(fr, as, p, x) = p[as[u][2]]
    BY <1>2, <2>1, <2>2 DEF LeadsRight
  <2>5. as[u][2] \in al /\ as[u][2] # s
    BY <1>0, <2>1, <2>2 DEF Apart, IsSource, Alters
  <2>. QED  BY <2>2, <2>3, <2>4, <2>5 DEF Alters
<1>6. CASE ~ IsTarget(fr2, x) /\ ~ IsAssigned(as2, x)
  <2>1. ~ IsTarget(fr, x) /\ ~ IsAssigned(as, x) /\ x # s
    BY <1>6 DEF Persists
  <2>2. LeadsIn(fr2, as2, p2, x) = p2[x] /\ LeadsIn(fr, as, p, x) = p[x]
    BY <1>2, <1>3, <1>6, <2>1 DEF LeadsRight
  <2>. QED  BY <2>1, <2>2 DEF Alters
<1>. QED  BY <1>4, <1>5, <1>6

(* A step in which the calls stay as they are, and one pointer s changes. *)
Stays(t, s) ==
  /\ t \in Threads /\ Shrinks(frames, asgn, frames', asgn', t, 0) /\ asgn' = asgn
  /\ ~ IsSource(asgn, s)
  /\ \A y \in alive : y # s => y \in alive' /\ ptr'[y] = ptr[y]
  /\ s \in alive' \/ (~ IsTarget(frames, s) /\ ~ IsAssigned(asgn, s))
  /\ \A u \in Threads : asgn[u] # << >> /\ frames'[u] # << >> => ~ frames'[u][1].failing

LEMMA StaysFacts ==
  ASSUME TypeOK', Fits, NEW t, NEW s, Stays(t, s)
  PROVE  /\ Sized(frames) /\ Sized(frames') /\ Apart(frames, asgn, alive)
         /\ \A x : IsTarget(frames', x) <=> IsTarget(frames, x)
         /\ \A b : IsBuilt(frames', b) <=> IsBuilt(frames, b)
         /\ \A x, b : HasFrame(frames', x, b) <=> HasFrame(frames, x, b)
         /\ Apart(frames', asgn', alive')
<1>1. Apart(frames, asgn, alive) /\ Sized(frames)
  BY FitsParts
<1>2. Sized(frames')
  BY TypedNext
<1>3. t \in Threads /\ Shrinks(frames, asgn, frames', asgn', t, 0)
  BY DEF Stays
<1>4. /\ \A x : IsTarget(frames', x) <=> IsTarget(frames, x)
      /\ \A b : IsBuilt(frames', b) <=> IsBuilt(frames, b)
      /\ \A x, b : HasFrame(frames', x, b) <=> HasFrame(frames, x, b)
  BY ONLY <1>1, <1>2, <1>3, SameFrames
<1>5. \A x : IsTarget(frames', x) \/ IsAssigned(asgn', x) \/ IsSource(asgn', x) => x \in alive
  BY <1>1, <1>4 DEF Stays, Apart, IsTarget, IsAssigned, IsSource
<1>6. \A x : IsTarget(frames', x) \/ IsAssigned(asgn', x) \/ IsSource(asgn', x) => x \in alive'
  BY <1>4, <1>5 DEF Stays
<1>7. \A u \in Threads : asgn'[u] # << >> /\ frames'[u] # << >> => ~ frames'[u][1].failing
  BY DEF Stays
<1>8. Apart(frames', asgn', alive')
  BY ONLY <1>1, <1>2, <1>3, <1>6, <1>7, ApartShrink
<1>. QED  BY <1>1, <1>2, <1>4, <1>8

LEMMA StaysLeads ==
  ASSUME TypeOK', Fits, NEW t, NEW s, Stays(t, s), NEW p, \A y \in alive : y # s => p[y] = ptr[y],
         NEW x \in alive, x # s
  PROVE  LeadsIn(frames', asgn', ptr', x) = LeadsIn(frames, asgn, p, x)
<1>1. Steps(frames, asgn, alive, frames', asgn', alive', t, 0)
  BY StaysFacts DEF Steps, Stays
<1>2. Alters(asgn', alive, p, ptr', s)
  BY DEF Stays, Alters
<1>3. Alike(frames, asgn, p, alive, frames', asgn', ptr', s)
  BY ONLY <1>1, <1>2, LeadsBut
<1>4. Persists(frames, asgn, frames', asgn', x)
  BY StaysFacts DEF Persists, Stays
<1>. QED  BY <1>3, <1>4 DEF Alike

LEMMA StaysKeeps ==
  ASSUME TypeOK', Fits, NEW t, NEW s, Stays(t, s),
         NEW p, Typed(frames, asgn, p, alive), \A y \in alive : y # s => p[y] = ptr[y],
         NEW D, D \subseteq alive, KeepsIn(frames, asgn, p, D),
         s \in D /\ Reaches(ViewIn(frames, asgn, p, D), s) =>
           s \in alive' /\ p[s] = Null /\ ~ IsTarget(frames, s) /\ ~ IsAssigned(asgn, s)
  PROVE  KeepsIn(frames', asgn', ptr', alive')
<1>1. /\ Sized(frames) /\ Sized(frames') /\ Apart(frames, asgn, alive) /\ Apart(frames', asgn', alive')
  BY StaysFacts
<1>2. Typed(frames', asgn', ptr', alive')
  BY TypedNext
<1>3. t \in Threads /\ Shrinks(frames, asgn, frames', asgn', t, 0)
  BY DEF Stays
<1>4. LeadsRight(frames, asgn, p)
  BY ONLY <1>1, LeadsFacts
<1>5. ASSUME NEW x \in D, Reaches(ViewIn(frames, asgn, p, D), x)
      PROVE  x \in alive' /\ LeadsIn(frames, asgn, p, x) \in {LeadsIn(frames', asgn', ptr', x), Null}
  <2>1. CASE x # s
    <3>1. x \in alive' /\ x \in alive
      BY <2>1 DEF Stays
    <3>2. LeadsIn(frames', asgn', ptr', x) = LeadsIn(frames, asgn, p, x)
      BY <2>1, <3>1, StaysLeads
    <3>. QED  BY <3>1, <3>2
  <2>2. CASE x = s
    BY <1>4, <1>5, <2>2 DEF LeadsRight
  <2>. QED  BY <2>1, <2>2
<1>6. GoesOn(frames, asgn, p, D, frames', asgn', ptr', alive', Null)
  BY <1>5 DEF GoesOn
<1>7. /\ Typed(frames, asgn, p, alive) /\ D \subseteq alive /\ KeepsIn(frames, asgn, p, D)
      /\ Null # Null => 1 \in 1..Len(frames[t]) /\ frames[t][1].block = Null /\ asgn[t] = << >>
  OBVIOUS
<1>. QED  BY ONLY <1>1, <1>2, <1>3, <1>6, <1>7, KeepsShrink

LEMMA StaysSays ==
  ASSUME TypeOK', Fits, NEW v, Sees(v), NEW t, NEW m \in Messages, Stays(t, m.sptr), heap' = heap,
         \A s : s \in alive' <=> (s \in alive /\ s # m.sptr) \/ (s = m.sptr /\ m.type # "SptrUnregistration"),
         \A s \in alive : v[s] # Null /\ Home(s) # Null => keeper'[v[s]] = keeper[v[s]],
         NEW b, m.type # "SptrUnregistration" => b = NewTarget(v, m) /\ b = ptr'[m.sptr],
         m.type # "SptrUnregistration" => ~ IsTarget(frames, m.sptr) /\ ~ IsAssigned(asgn, m.sptr),
         m.type # "SptrUnregistration" /\ b # Null =>
           heap[b] # "raw" /\ (Home(m.sptr) # Null => keeper'[b] = Home(m.sptr))
  PROVE  Says(v, m, frames, asgn, ptr, alive, heap, keeper, frames', asgn', ptr', alive', heap', keeper')
<1>1. /\ Apart(frames', asgn', alive')
      /\ \A x : IsTarget(frames', x) <=> IsTarget(frames, x)
      /\ \A x, c : HasFrame(frames', x, c) <=> HasFrame(frames, x, c)
  BY StaysFacts
<1>2. \A s \in alive : s # m.sptr => LeadsIn(frames', asgn', ptr', s) = LeadsIn(frames, asgn, ptr, s)
  BY StaysLeads
<1>3. m.type # "SptrUnregistration" => LeadsIn(frames', asgn', ptr', m.sptr) = b
  <2>1. LeadsRight(frames', asgn', ptr')
    BY ONLY <1>1, LeadsFacts
  <2>2. asgn' = asgn
    BY DEF Stays
  <2>. QED  BY <1>1, <2>1, <2>2 DEF LeadsRight
<1>. QED  BY <1>1, <1>2, <1>3 DEF Says

-----------------------------------------------------------------------------
(* The messages that neither announce an object nor abort one. *)

LEMMA MessageParts ==
  /\ \A s : /\ SptrRegistrationMsg(s).type = "SptrRegistration" /\ SptrRegistrationMsg(s).sptr = s
            /\ SptrUnregistrationMsg(s).type = "SptrUnregistration" /\ SptrUnregistrationMsg(s).sptr = s
            /\ ReferenceReleaseMsg(s).type = "ReferenceRelease" /\ ReferenceReleaseMsg(s).sptr = s
            /\ AbortedObjectMsg(s).type = "AbortedObject" /\ AbortedObjectMsg(s).sptr = s
  /\ \A s, r : /\ ReferenceUpdateMsg(s, r).type = "ReferenceUpdate" /\ ReferenceUpdateMsg(s, r).sptr = s
               /\ ReferenceUpdateMsg(s, r).other = r
               /\ SptrCopyRegistrationMsg(s, r).type = "SptrCopyRegistration"
               /\ SptrCopyRegistrationMsg(s, r).sptr = s /\ SptrCopyRegistrationMsg(s, r).other = r
  /\ \A s, b : /\ NewObjectMsg(s, b).type = "NewObject" /\ NewObjectMsg(s, b).sptr = s
               /\ NewObjectMsg(s, b).block = b
BY DEF AbortedObjectMsg, ReferenceReleaseMsg, SptrRegistrationMsg, SptrUnregistrationMsg,
       ReferenceUpdateMsg, SptrCopyRegistrationMsg, NewObjectMsg

LEMMA NotRaw ==
  ASSUME NEW v, Sees(v), NEW s \in alive, ~ IsTarget(frames, s), v[s] # Null
  PROVE  v[s] \in Blocks /\ heap[v[s]] = "live"
<1>1. DOMAIN v = alive
  BY DEF Sees, Shows
<1>2. v[s] \in Blocks /\ heap[v[s]] \in {"raw", "live"}
  BY <1>1 DEF Sees, IsView, LeadsToUsed
<1>3. heap[v[s]] = "raw" => HasFrame(frames, s, v[s])
  BY DEF Sees, Shows
<1>4. ~ HasFrame(frames, s, v[s])
  BY DEF HasFrame, IsTarget
<1>. QED  BY <1>2, <1>3, <1>4

LEMMA NoAborts ==
  ASSUME NEW v, Sees(v), NEW m, m.type # "AbortedObject",
         m.sptr \in alive => ~ IsTarget(frames, m.sptr),
         Steady(heap, Building, heap', Building')
  PROVE  Aborts(v, m, heap', Building')
<1>1. DOMAIN v = alive
  BY DEF Sees, Shows
<1>2. m.sptr \in DOMAIN v /\ v[m.sptr] # Null => heap'[v[m.sptr]] # "raw"
  BY <1>1, NotRaw DEF Steady
<1>. QED  BY <1>2 DEF Aborts

(* The memory does not change. *)
LEMMA StaysSteady ==
  ASSUME TypeOK', Fits, NEW t, NEW s, Stays(t, s), heap' = heap
  PROVE  Steady(heap, Building, heap', Building')
<1>1. \A b : b \in Building' <=> b \in Building
  BY StaysFacts, StateFacts, NextBuilding
<1>. QED  BY <1>1 DEF Steady

Plain == {"SptrRegistration", "SptrCopyRegistration", "ReferenceRelease", "SptrUnregistration"}

LEMMA PlainSends ==
  ASSUME TypeOK, TypeOK', Fits, NEW v, Sees(v), NEW t, NEW m \in Messages, Stays(t, m.sptr), heap' = heap,
         graph' = graph, msgs' = Append(msgs, m), m.type \in Plain, Allowed(v, m),
         m.sptr \in alive => ~ IsTarget(frames, m.sptr),
         \A s : s \in alive' <=> (s \in alive /\ s # m.sptr) \/ (s = m.sptr /\ m.type # "SptrUnregistration"),
         \A s \in alive : v[s] # Null /\ Home(s) # Null => keeper'[v[s]] = keeper[v[s]],
         NEW b, b = NewTarget(v, m),
         m.type # "SptrUnregistration" =>
           b = ptr'[m.sptr] /\ ~ IsTarget(frames, m.sptr) /\ ~ IsAssigned(asgn, m.sptr),
         b # Null =>
           /\ heap[b] # "raw"
           /\ Home(m.sptr) # Null =>
                /\ keeper'[b] = Home(m.sptr) /\ b # Home(m.sptr)
                /\ \A s \in DOMAIN v : Home(s) # Null /\ v[s] = b => Home(s) = Home(m.sptr)
  PROVE  Sends(v, m)
<1>1. m.type # "NewObject" /\ m.type # "AbortedObject"
  BY DEF Plain
<1>2. Steady(heap, Building, heap', Building')
  BY StaysSteady
<1>3. Aborts(v, m, heap', Building')
  BY <1>1, <1>2, NoAborts
<1>4. OneKeeper(After(v, m))
  <2>1. IsView(v) /\ OneKeeper(v)
    BY DEF Sees
  <2>. QED  BY <2>1, KeeperAfter
<1>5. Sendable(v, m, heap)
  BY <1>1, <1>4 DEF Sendable
<1>6. Says(v, m, frames, asgn, ptr, alive, heap, keeper, frames', asgn', ptr', alive', heap', keeper')
  BY StaysSays
<1>. QED  BY <1>1, <1>2, <1>3, <1>5, <1>6 DEF Sends

LEMMA FitsNext ==
  ASSUME TypeOK', Apart(frames', asgn', alive'), HeapFits(frames', alive', heap', dying'),
         KeepsIn(frames', asgn', ptr', alive')
  PROVE  Fits'
<1>1. Typed(frames', asgn', ptr', alive')
  BY TypedNext
<1>. QED  BY <1>1 DEF Fits, ClientFits

(* The calls stay as they are. *)
LEMMA UnchangedStays ==
  ASSUME Fits, NEW t \in Threads, frames' = frames, asgn' = asgn, NEW s, ~ IsSource(asgn, s),
         \A y \in alive : y # s => y \in alive' /\ ptr'[y] = ptr[y],
         s \in alive' \/ (~ IsTarget(frames, s) /\ ~ IsAssigned(asgn, s))
  PROVE  Stays(t, s)
<1>1. Sized(frames) /\ Apart(frames, asgn, alive)
  BY FitsParts
<1>2. Shrinks(frames, asgn, frames', asgn', t, 0)
  BY <1>1, ShrinkSame
<1>3. \A u \in Threads : asgn[u] # << >> /\ frames'[u] # << >> => ~ frames'[u][1].failing
  BY <1>1 DEF Apart
<1>. QED  BY <1>2, <1>3 DEF Stays

LEMMA RootHeap ==
  ASSUME TypeOK, Fits, NEW r \in Roots, NEW al, \A s : s # r => (s \in al <=> s \in alive)
  PROVE  HeapFits(frames, al, heap, dying)
<1>1. \A b \in Blocks, i \in 1..Slots : <<b, i>> \in al <=> <<b, i>> \in alive
  BY RootIsNotMember
<1>2. HeapFits(frames, alive, heap, dying) /\ dying.block \in Blocks \cup {Null}
  BY FitsParts DEF TypeOK
<1>3. \A t \in Threads : \A i \in 1..Len(frames[t]) : frames[t][i].block \in Blocks
  BY FitsParts DEF Typed
<1>. QED  BY ONLY <1>1, <1>2, <1>3, HeapSame

LEMMA NewPointer ==
  ASSUME Fits, NEW s, s \notin alive
  PROVE  ~ IsTarget(frames, s) /\ ~ IsAssigned(asgn, s) /\ ~ IsSource(asgn, s)
<1>1. Apart(frames, asgn, alive)
  BY FitsParts
<1>. QED  BY <1>1 DEF Apart, IsTarget, IsAssigned, IsSource

LEMMA RootHome == \A r \in Roots : Home(r) = Null /\ r \in Sptrs
BY DEF Home, Sptrs

(* A new root. *)
LEMMA NewRoot ==
  ASSUME TypeOK, TypeOK', Fits, NEW t \in Threads, NEW r \in Roots, r \notin alive,
         alive' = alive \cup {r}, NEW b \in Blocks \cup {Null}, ptr' = [ptr EXCEPT ![r] = b],
         heap' = heap, dying' = dying, frames' = frames, asgn' = asgn
  PROVE  Fits' /\ Stays(t, r) /\ ptr'[r] = b
<1>1. /\ \A y \in alive : y # r => y \in alive' /\ ptr'[y] = ptr[y]
      /\ ptr'[r] = b
  BY RootHome DEF TypeOK
<1>2. Stays(t, r)
  BY <1>1, NewPointer, UnchangedStays
<1>3. Typed(frames, asgn, ptr, alive) /\ KeepsIn(frames, asgn, ptr, alive)
  BY FitsParts
<1>4. KeepsIn(frames', asgn', ptr', alive')
  BY <1>2, <1>3, StaysKeeps
<1>5. HeapFits(frames', alive', heap', dying')
  BY RootHeap
<1>6. Apart(frames', asgn', alive')
  BY <1>2, StaysFacts
<1>. QED  BY <1>1, <1>2, <1>4, <1>5, <1>6, FitsNext

LEMMA ConstructFits ==
  ASSUME TypeOK, TypeOK', Fits, NEW v, Sees(v), NEW t \in Threads, NEW r \in Roots, Construct(t, r)
  PROVE  Fits' /\ \E m : Sends(v, m)
<1>. DEFINE m == SptrRegistrationMsg(r)
<1>1. /\ r \notin alive /\ ptr' = [ptr EXCEPT ![r] = Null] /\ alive' = alive \cup {r}
      /\ msgs' = Append(msgs, m) /\ heap' = heap /\ frames' = frames /\ asgn' = asgn
      /\ dying' = dying /\ graph' = graph /\ keeper' = keeper
  BY DEF Construct, Send, clientVars, gcVars
<1>2. m \in Messages /\ m.type = "SptrRegistration" /\ m.sptr = r
  BY MessageFacts, MessageParts, RootHome
<1>. HIDE DEF m
<1>3. Fits' /\ Stays(t, m.sptr) /\ ptr'[m.sptr] = Null
  BY <1>1, <1>2, NewRoot
<1>4. DOMAIN v = alive
  BY DEF Sees, Shows
<1>5. Allowed(v, m)
  BY <1>1, <1>2, <1>4, RootHome DEF Allowed, Registering, Copying, Reaches
<1>6. NewTarget(v, m) = Null
  BY <1>2 DEF NewTarget
<1>7. Sends(v, m)
  BY <1>1, <1>2, <1>3, <1>5, <1>6, NewPointer, PlainSends DEF Plain
<1>. QED  BY <1>3, <1>7

LEMMA WithoutNew ==
  ASSUME NEW v, IsView(v), NEW s, s \notin DOMAIN v
  PROVE  Without(v, s) = v
<1>1. DOMAIN v \ {s} = DOMAIN v
  OBVIOUS
<1>. QED  BY <1>1 DEF Without, IsView

LEMMA ConstructCopyFits ==
  ASSUME TypeOK, TypeOK', Usage = {}, Fits, NEW v, Sees(v), NEW t \in Threads, NEW r \in Roots,
         NEW src \in Readable(t), ConstructCopy(t, r, src)
  PROVE  Fits' /\ \E m : Sends(v, m)
<1>. DEFINE m == SptrCopyRegistrationMsg(r, src)
<1>0. src \in Usable(t)
  BY DEF Readable
<1>1. /\ r \notin alive /\ ptr' = [ptr EXCEPT ![r] = ptr[src]] /\ alive' = alive \cup {r}
      /\ msgs' = Append(msgs, m) /\ heap' = heap /\ frames' = frames /\ asgn' = asgn
      /\ dying' = dying /\ graph' = graph /\ keeper' = keeper
  BY DEF ConstructCopy, Send, clientVars, gcVars
<1>2. /\ src \in alive /\ src \in Sptrs /\ Reaches(v, src) /\ v[src] = ptr[src]
      /\ v[src] # Null => heap[v[src]] # "raw"
  BY <1>0, UsableSees
<1>3. m \in Messages /\ m.type = "SptrCopyRegistration" /\ m.sptr = r /\ m.other = src
  BY <1>2, MessageFacts, MessageParts, RootHome
<1>. HIDE DEF m
<1>4. ptr[src] \in Blocks \cup {Null}
  BY <1>2 DEF TypeOK
<1>5. Fits' /\ Stays(t, m.sptr) /\ ptr'[m.sptr] = ptr[src]
  BY <1>1, <1>3, <1>4, NewRoot
<1>6. DOMAIN v = alive /\ IsView(v)
  BY DEF Sees, Shows
<1>7. Without(v, r) = v
  BY <1>1, <1>6, WithoutNew
<1>8. Allowed(v, m)
  BY <1>1, <1>2, <1>3, <1>6, <1>7, RootHome DEF Allowed, Registering, Copying, Reaches
<1>9. NewTarget(v, m) = ptr[src]
  BY <1>2, <1>3 DEF NewTarget
<1>10. Sends(v, m)
  BY <1>1, <1>2, <1>3, <1>5, <1>8, <1>9, NewPointer, PlainSends, RootHome DEF Plain
<1>. QED  BY <1>5, <1>10

LEMMA DestroyFits ==
  ASSUME TypeOK, TypeOK', Fits, NEW v, Sees(v), NEW t \in Threads, NEW r \in Roots, Destroy(t, r)
  PROVE  Fits' /\ \E m : Sends(v, m)
<1>. DEFINE m == SptrUnregistrationMsg(r)
            D == alive \ {r}
<1>1. /\ r \in alive /\ Keeps(ptr, D)
      /\ r \notin Targets /\ r \notin Assigned /\ r \notin Sources
      /\ ptr' = [ptr EXCEPT ![r] = Null] /\ alive' = D
      /\ msgs' = Append(msgs, m) /\ heap' = heap /\ frames' = frames /\ asgn' = asgn
      /\ dying' = dying /\ graph' = graph /\ keeper' = keeper
  BY DEF Destroy, Send, clientVars, gcVars
<1>2. m \in Messages /\ m.type = "SptrUnregistration" /\ m.sptr = r
  BY MessageFacts, MessageParts, RootHome
<1>. HIDE DEF m
<1>3. ~ IsTarget(frames, r) /\ ~ IsAssigned(asgn, r) /\ ~ IsSource(asgn, r)
  BY <1>1, StateFacts
<1>4. \A y \in alive : y # r => y \in alive' /\ ptr'[y] = ptr[y]
  BY <1>1 DEF TypeOK
<1>5. Stays(t, r)
  BY <1>1, <1>3, <1>4, UnchangedStays
<1>6. Typed(frames, asgn, ptr, alive) /\ Apart(frames, asgn, alive)
  BY FitsParts
<1>7. D \subseteq alive /\ r \notin D
  OBVIOUS
<1>. HIDE DEF D
<1>8. KeepsIn(frames, asgn, ptr, D)
  BY <1>1, <1>6, KeepsState
<1>9. KeepsIn(frames', asgn', ptr', alive')
  BY <1>5, <1>6, <1>7, <1>8, StaysKeeps
<1>10. HeapFits(frames', alive', heap', dying')
  BY <1>1, RootHeap DEF D
<1>11. Fits'
  BY <1>5, <1>9, <1>10, StaysFacts, FitsNext
<1>12. DOMAIN v = alive
  BY DEF Sees, Shows
<1>13. Allowed(v, m)
  BY <1>1, <1>2, <1>12 DEF Allowed, Registering, Copying
<1>14. NewTarget(v, m) = Null
  BY <1>2 DEF NewTarget
<1>15. \A s : s \in alive' <=> (s \in alive /\ s # m.sptr) \/ (s = m.sptr /\ m.type # "SptrUnregistration")
  BY <1>1, <1>2 DEF D
<1>16. Sends(v, m)
  BY <1>1, <1>2, <1>3, <1>5, <1>13, <1>14, <1>15, PlainSends DEF Plain
<1>. QED  BY <1>11, <1>16

-----------------------------------------------------------------------------
(* Reset and Assign. *)

LEMMA ResetFits ==
  ASSUME TypeOK, TypeOK', Usage = {}, Fits, NEW v, Sees(v), NEW t \in Threads, NEW s \in Usable(t), Reset(t, s)
  PROVE  Fits' /\ \E m : Sends(v, m)
<1>. DEFINE m == ReferenceReleaseMsg(s)
<1>1. /\ s \notin Sources /\ ptr' = [ptr EXCEPT ![s] = Null] /\ Keeps(ptr', alive)
      /\ msgs' = Append(msgs, m) /\ heap' = heap /\ frames' = frames /\ asgn' = asgn
      /\ alive' = alive /\ dying' = dying /\ graph' = graph /\ keeper' = keeper
  BY DEF Reset, Send, clientVars, gcVars
<1>2. s \in alive /\ s \in Sptrs /\ ~ IsTarget(frames, s) /\ ~ IsAssigned(asgn, s)
  BY UsableSees
<1>3. m \in Messages /\ m.type = "ReferenceRelease" /\ m.sptr = s
  BY <1>2, MessageFacts, MessageParts
<1>. HIDE DEF m
<1>4. ~ IsSource(asgn, s)
  BY <1>1, StateFacts
<1>5. ptr'[s] = Null /\ \A y \in alive : y # s => ptr'[y] = ptr[y]
  BY <1>1, <1>2 DEF TypeOK
<1>6. Stays(t, s)
  BY <1>1, <1>2, <1>4, <1>5, UnchangedStays
<1>7. /\ Typed(frames, asgn, ptr, alive) /\ Apart(frames, asgn, alive)
      /\ HeapFits(frames, alive, heap, dying)
  BY FitsParts
<1>8. KeepsIn(frames, asgn, ptr', alive)
  BY <1>1, <1>7, KeepsState
<1>9. Typed(frames, asgn, ptr', alive)
  BY <1>1, TypedNext
<1>10. KeepsIn(frames', asgn', ptr', alive')
  BY <1>1, <1>2, <1>5, <1>6, <1>8, <1>9, StaysKeeps
<1>11. HeapFits(frames', alive', heap', dying')
  BY <1>1, <1>7
<1>12. Fits'
  BY <1>6, <1>10, <1>11, StaysFacts, FitsNext
<1>13. DOMAIN v = alive
  BY DEF Sees, Shows
<1>14. Allowed(v, m)
  BY <1>2, <1>3, <1>13 DEF Allowed, Registering, Copying
<1>15. NewTarget(v, m) = Null
  BY <1>3 DEF NewTarget
<1>16. \A x : x \in alive' <=> (x \in alive /\ x # m.sptr) \/ (x = m.sptr /\ m.type # "SptrUnregistration")
  BY <1>1, <1>2, <1>3
<1>17. Sends(v, m)
  BY <1>1, <1>2, <1>3, <1>5, <1>6, <1>14, <1>15, <1>16, PlainSends DEF Plain
<1>. QED  BY <1>12, <1>17

(* A call of Assign begins or ends. *)
AssignsOnce(fr, as, al, as2, t) ==
  /\ Apart(fr, as, al) /\ Apart(fr, as2, al) /\ Sized(fr) /\ t \in Threads
  /\ as2[t] = << >> /\ \A u \in Threads : u # t => as2[u] = as[u]
  /\ as[t] # << >>

AssignAlike(fr, as, p, al, as2, p2, dst, src) ==
  \A x \in al :
    /\ x # dst => LeadsIn(fr, as2, p2, x) = LeadsIn(fr, as, p, x)
    /\ x = dst => LeadsIn(fr, as2, p2, x) = p2[x] /\ LeadsIn(fr, as, p, x) = p[src]

LEMMA AssignLeads ==
  ASSUME NEW fr, NEW as, NEW al, NEW as2, NEW t, AssignsOnce(fr, as, al, as2, t),
         NEW dst, dst = as[t][1], NEW src, src = as[t][2],
         NEW p, NEW p2, Alters(as2, al, p, p2, dst)
  PROVE  AssignAlike(fr, as, p, al, as2, p2, dst, src)
<1>. SUFFICES ASSUME NEW x \in al
              PROVE  /\ x # dst => LeadsIn(fr, as2, p2, x) = LeadsIn(fr, as, p, x)
                     /\ x = dst => LeadsIn(fr, as2, p2, x) = p2[x] /\ LeadsIn(fr, as, p, x) = p[src]
  BY DEF AssignAlike
<1>0. /\ as2[t] = << >> /\ \A u \in Threads : u # t => as2[u] = as[u]
      /\ t \in Threads /\ Sized(fr) /\ as[t] # << >> /\ as[t][1] = dst /\ as[t][2] = src
      /\ Apart(fr, as, al) /\ Apart(fr, as2, al)
  BY DEF AssignsOnce
<1>1. Shrinks(fr, as, fr, as2, t, 0)
  <2>1. Shrinks(fr, as, fr, as, t, 0)
    BY ONLY <1>0, ShrinkSame
  <2>. QED  BY ONLY <1>0, <2>1 DEF Shrinks
<1>3. IsAssigned(as, x) /\ x # dst => IsAssigned(as2, x)
  BY ONLY <1>0 DEF IsAssigned
<1>4. ~ IsTarget(fr, dst) /\ ~ IsAssigned(as2, dst)
  <2>2. ~ IsTarget(fr, as[t][1]) /\ \A u \in Threads : as[u] # << >> /\ as[t][1] = as[u][1] => t = u
    BY ONLY <1>0 DEF Apart
  <2>. QED  BY ONLY <1>0, <2>2 DEF IsAssigned
<1>5. x # dst => LeadsIn(fr, as2, p2, x) = LeadsIn(fr, as, p, x)
  <2>1. Steps(fr, as, al, fr, as2, al, t, 0)
    BY <1>0, <1>1 DEF Steps
  <2>2. Alike(fr, as, p, al, fr, as2, p2, dst)
    BY <2>1, LeadsBut
  <2>3. x # dst => Persists(fr, as, fr, as2, x)
    BY <1>3 DEF Persists
  <2>. QED  BY <2>2, <2>3 DEF Alike
<1>6. LeadsRight(fr, as, p)
  BY ONLY <1>0, LeadsFacts
<1>7. LeadsRight(fr, as2, p2)
  BY ONLY <1>0, LeadsFacts
<1>8. x = dst => LeadsIn(fr, as2, p2, x) = p2[x] /\ LeadsIn(fr, as, p, x) = p[src]
  BY <1>0, <1>4, <1>6, <1>7 DEF LeadsRight
<1>. QED  BY <1>5, <1>8

(* A step without a message. *)
LEMMA SilentSeen ==
  ASSUME TypeOK, NEW views, Seen(views), msgs' = msgs, graph' = graph,
         Steady(heap, Building, heap', Building'),
         Shows(views[Len(msgs)], frames', asgn', ptr', alive', heap', keeper')
  PROVE  \E views2 : Seen(views2)'
<1>1. msgs \in Seq(Messages) /\ Linked(views, msgs, heap, Building)
  BY DEF TypeOK, Seen
<1>2. Linked(views, msgs, heap', Building')
  BY <1>1, KeepLinked
<1>3. Linked(views, msgs', heap', Building')
  BY <1>2
<1>4. Founded(views[0], graph')
  BY DEF Seen
<1>5. Shows(views[Len(msgs')], frames', asgn', ptr', alive', heap', keeper')
  OBVIOUS
<1>6. Seen(views)'
  BY <1>3, <1>4, <1>5 DEF Seen
<1>. QED  BY <1>6

LEMMA SilentShows ==
  ASSUME NEW v, Sees(v), alive' = alive, keeper' = keeper,
         Steady(heap, Building, heap', Building'),
         \A x \in alive : LeadsIn(frames', asgn', ptr', x) = LeadsIn(frames, asgn, ptr, x),
         \A x, b : HasFrame(frames, x, b) /\ heap'[b] = "raw" => HasFrame(frames', x, b)
  PROVE  Shows(v, frames', asgn', ptr', alive', heap', keeper')
<1>1. DOMAIN v = alive /\ Shows(v, frames, asgn, ptr, alive, heap, keeper)
  BY DEF Sees, Shows
<1>2. \A s \in alive : v[s] # Null => v[s] \in Blocks /\ heap[v[s]] \in {"raw", "live"}
  BY <1>1 DEF Sees, IsView, LeadsToUsed
<1>3. \A s \in alive : v[s] # Null /\ heap'[v[s]] = "raw" => heap[v[s]] = "raw"
  BY <1>2 DEF Steady
<1>. QED  BY <1>1, <1>3 DEF Shows

(* A step without a message, in which the pointers lead where they did. *)
LEMMA SilentKeeps ==
  ASSUME TypeOK', Fits, NEW t \in Threads, NEW d, Shrinks(frames, asgn, frames', asgn', t, d),
         Apart(frames', asgn', alive'), alive' = alive,
         \A x \in alive : LeadsIn(frames', asgn', ptr', x) = LeadsIn(frames, asgn, ptr, x)
  PROVE  KeepsIn(frames', asgn', ptr', alive')
<1>1. /\ Typed(frames, asgn, ptr, alive) /\ Apart(frames, asgn, alive)
      /\ KeepsIn(frames, asgn, ptr, alive)
  BY FitsParts
<1>2. Typed(frames', asgn', ptr', alive')
  BY TypedNext
<1>3. GoesOn(frames, asgn, ptr, alive, frames', asgn', ptr', alive', Null)
  BY DEF GoesOn
<1>4. /\ alive \subseteq alive /\ t \in Threads /\ Shrinks(frames, asgn, frames', asgn', t, d)
      /\ Apart(frames', asgn', alive')
      /\ Null # Null => 1 \in 1..Len(frames[t]) /\ frames[t][1].block = Null /\ asgn[t] = << >>
  OBVIOUS
<1>. QED  BY ONLY <1>1, <1>2, <1>3, <1>4, KeepsShrink

LEMMA AssignEndFits ==
  ASSUME TypeOK, TypeOK', Fits, NEW views, Seen(views), NEW t \in Threads, AssignEnd(t)
  PROVE  Fits' /\ \E views2 : Seen(views2)'
<1>. DEFINE dst == asgn[t][1]
            src == asgn[t][2]
            v == views[Len(msgs)]
<1>1. /\ asgn[t] # << >> /\ ptr' = [ptr EXCEPT ![dst] = ptr[src]]
      /\ asgn' = [asgn EXCEPT ![t] = << >>]
      /\ alive' = alive /\ heap' = heap /\ frames' = frames /\ msgs' = msgs
      /\ dying' = dying /\ graph' = graph /\ keeper' = keeper
  BY DEF AssignEnd, gcVars
<1>2. asgn'[t] = << >> /\ \A u \in Threads : u # t => asgn'[u] = asgn[u]
  BY <1>1 DEF TypeOK
<1>3. Typed(frames, asgn, ptr, alive) /\ Apart(frames, asgn, alive) /\ Sized(frames)
      /\ HeapFits(frames, alive, heap, dying)
  BY FitsParts
<1>4. dst \in Sptrs
  BY <1>1, <1>3 DEF Typed
<1>5. ptr'[dst] = ptr[src] /\ \A y \in alive : y # dst => ptr'[y] = ptr[y]
  BY <1>1, <1>4 DEF TypeOK
<1>6. Shrinks(frames, asgn, frames', asgn', t, 0)
  BY <1>1, <1>2, <1>3 DEF Shrinks, Sized
<1>7. Apart(frames', asgn', alive')
  <2>1. \A s : IsTarget(frames', s) \/ IsAssigned(asgn', s) \/ IsSource(asgn', s) => s \in alive'
    BY <1>1, <1>2, <1>3 DEF IsTarget, IsAssigned, IsSource, Apart
  <2>2. \A u \in Threads : asgn'[u] # << >> /\ frames'[u] # << >> => ~ frames'[u][1].failing
    BY <1>1, <1>2, <1>3 DEF Apart
  <2>3. t \in Threads /\ Sized(frames')
    BY <1>1, <1>3
  <2>. QED  BY ONLY <1>3, <1>6, <2>1, <2>2, <2>3, ApartShrink
<1>8. \A x \in alive : LeadsIn(frames', asgn', ptr', x) = LeadsIn(frames, asgn, ptr, x)
  <2>1. AssignsOnce(frames, asgn, alive, asgn', t)
    BY <1>1, <1>2, <1>3, <1>7 DEF AssignsOnce
  <2>2. Alters(asgn', alive, ptr, ptr', dst)
    <3>1. \A u \in Threads : asgn[u] # << >> => dst # asgn[u][2]
      BY <1>1, <1>3 DEF Apart
    <3>2. ~ IsSource(asgn', dst)
      BY <1>2, <3>1 DEF IsSource
    <3>. QED  BY <1>5, <3>2 DEF Alters
  <2>3. AssignAlike(frames, asgn, ptr, alive, asgn', ptr', dst, src)
    BY <2>1, <2>2, AssignLeads
  <2>. QED  BY <1>1, <1>5, <2>3 DEF AssignAlike
<1>9. KeepsIn(frames', asgn', ptr', alive')
  BY <1>1, <1>6, <1>7, <1>8, SilentKeeps
<1>10. HeapFits(frames', alive', heap', dying')
  BY <1>1, <1>3
<1>11. Fits'
  BY <1>7, <1>9, <1>10, FitsNext
<1>12. \A b : b \in Building' <=> b \in Building
  BY <1>1, StateFacts, NextBuilding
<1>13. Steady(heap, Building, heap', Building')
  BY <1>1, <1>12 DEF Steady
<1>14. Sees(v)
  BY SeenFacts
<1>. HIDE DEF v
<1>15. Shows(v, frames', asgn', ptr', alive', heap', keeper')
  BY <1>1, <1>8, <1>13, <1>14, SilentShows
<1>16. \E views2 : Seen(views2)'
  BY <1>1, <1>13, <1>15, SilentSeen DEF v
<1>. QED  BY <1>11, <1>16

-----------------------------------------------------------------------------
(* A call that begins. *)
Both(fr, as, p, al, fr2, as2, p2) ==
  Typed(fr, as, p, al) /\ Apart(fr, as, al) /\ Typed(fr2, as2, p2, al) /\ Apart(fr2, as2, al)
LeadsOn(fr, as, p, al, fr2, as2, p2) ==
  \A x \in al : LeadsIn(fr, as, p, x) \in {LeadsIn(fr2, as2, p2, x), Null}
UnsureOn(fr, t, i, fr2, t2, i2, al) ==
  \A x \in al : ~ IsUnsure(fr, t, i, Home(x)) => ~ IsUnsure(fr2, t2, i2, Home(x))

LEMMA KeptOn ==
  ASSUME NEW fr, NEW as, NEW p, NEW al, NEW fr2, NEW as2, NEW p2, Both(fr, as, p, al, fr2, as2, p2),
         LeadsOn(fr, as, p, al, fr2, as2, p2),
         NEW t, NEW i, NEW t2, NEW i2, UnsureOn(fr, t, i, fr2, t2, i2, al),
         NEW s, KeptIn(fr, as, p, al, t, i, s)
  PROVE  KeptIn(fr2, as2, p2, al, t2, i2, s)
<1>1. /\ Typed(fr, as, p, al) /\ Apart(fr, as, al) /\ Typed(fr2, as2, p2, al) /\ Apart(fr2, as2, al)
      /\ al \in SUBSET Sptrs /\ al \subseteq al /\ KeptIn(fr, as, p, al, t, i, s)
      /\ Null # Null => Home(s) # Null
  BY DEF Both, Typed
<1>2. ASSUME NEW x, x \in LastingIn(fr, t, i, al), Reaches(ViewIn(fr, as, p, al), x)
      PROVE  /\ x \in al /\ ~ IsUnsure(fr2, t2, i2, Home(x))
             /\ Null # Null => Home(x) # Null
             /\ LeadsIn(fr, as, p, x) \in {LeadsIn(fr2, as2, p2, x), Null, Null}
  <2>1. x \in al /\ ~ IsUnsure(fr, t, i, Home(x))
    BY <1>2 DEF LastingIn
  <2>. QED  BY <2>1 DEF UnsureOn, LeadsOn
<1>. QED  BY <1>1, <1>2, KeptLonger

(* What the client sees without a pointer is in its last view without it. *)
LEMMA SeesWithout ==
  ASSUME Fits, NEW v, Sees(v), NEW dst \in alive, NEW p, Typed(frames, asgn, p, alive),
         \A x \in alive : /\ x # dst => LeadsIn(frames, asgn, p, x) = LeadsIn(frames, asgn, ptr, x)
                          /\ x = dst => LeadsIn(frames, asgn, p, x) = Null,
         NEW s, Reaches(ViewIn(frames, asgn, p, alive), s)
  PROVE  Reaches(Without(v, dst), s)
<1>. DEFINE W == ViewIn(frames, asgn, p, alive)
            R == Reach(Without(v, dst))
<1>1. Apart(frames, asgn, alive) /\ alive \in SUBSET Sptrs
  BY FitsParts DEF Typed
<1>2. IsView(W) /\ DOMAIN W = alive /\ \A x \in alive : W[x] = LeadsIn(frames, asgn, p, x)
  BY <1>1, ViewInFacts
<1>3. IsView(v)
  BY DEF Sees
<1>4. /\ IsView(Without(v, dst)) /\ DOMAIN Without(v, dst) = DOMAIN v \ {dst}
      /\ \A x \in DOMAIN v \ {dst} : Without(v, dst)[x] = v[x]
      /\ R \subseteq Reach(v)
  BY <1>3, WithoutFacts
<1>5. R \in SUBSET Blocks /\ Closed(Without(v, dst), R)
  BY <1>4, ReachClosed
<1>6. DOMAIN v = alive /\ \A x \in alive : Reaches(v, x) => v[x] = LeadsIn(frames, asgn, ptr, x)
  BY SeesReach
<1>. HIDE DEF W, R
<1>7. ASSUME NEW x \in DOMAIN W, Home(x) \in R \cup {Null}, W[x] # Null PROVE W[x] \in R
  <2>1. x \in alive /\ x # dst /\ W[x] = LeadsIn(frames, asgn, ptr, x)
    BY <1>2, <1>7
  <2>2. Reaches(v, x)
    BY <1>4, <1>7 DEF Reaches
  <2>3. W[x] = v[x] /\ Without(v, dst)[x] = v[x] /\ x \in DOMAIN Without(v, dst)
    BY <1>4, <1>6, <2>1, <2>2
  <2>. QED  BY <1>5, <1>7, <2>3 DEF Closed
<1>8. Closed(W, R)
  BY <1>7 DEF Closed
<1>9. Reach(W) \subseteq R
  BY <1>5, <1>8, ReachLeast
<1>. QED  BY <1>9 DEF Reaches, W, R

LEMMA AssignFits ==
  ASSUME TypeOK, TypeOK', Usage = {}, Fits, NEW v, Sees(v), NEW t \in Threads,
         NEW dst \in Usable(t), NEW src \in Readable(t), Assign(t, dst, src)
  PROVE  Fits' /\ \E m : Sends(v, m)
<1>. DEFINE m == ReferenceUpdateMsg(dst, src)
            after == [ptr EXCEPT ![dst] = ptr[src]]
            without == [ptr EXCEPT ![dst] = Null]
<1>0. src \in Usable(t)
  BY DEF Readable
<1>1. /\ Ready(t) /\ dst # src /\ dst \notin Sources /\ MayStore(dst, ptr[src])
      /\ Keeps(after, alive) /\ Holds(t, 0, {dst}, after, alive)
      /\ Holds(t, 0, {src}, without, alive)
      /\ asgn' = [asgn EXCEPT ![t] = <<dst, src>>] /\ Store(dst, ptr[src])
      /\ msgs' = Append(msgs, m) /\ heap' = heap /\ frames' = frames /\ ptr' = ptr
      /\ alive' = alive /\ dying' = dying /\ graph' = graph
  BY DEF Assign, Send, gcVars
<1>2. /\ dst \in alive /\ dst \in Sptrs /\ ~ IsTarget(frames, dst) /\ ~ IsAssigned(asgn, dst)
      /\ Reaches(v, dst) /\ ~ IsUnsure(frames, t, 0, Home(dst))
  BY UsableSees
<1>3. /\ src \in alive /\ src \in Sptrs /\ ~ IsTarget(frames, src) /\ ~ IsAssigned(asgn, src)
      /\ v[src] = ptr[src] /\ ~ IsUnsure(frames, t, 0, Home(src))
      /\ v[src] # Null => heap[v[src]] # "raw"
  BY <1>0, UsableSees
<1>4. m \in Messages /\ m.type = "ReferenceUpdate" /\ m.sptr = dst /\ m.other = src
  BY <1>2, <1>3, MessageFacts, MessageParts
<1>. HIDE DEF m
<1>5. ~ IsSource(asgn, dst) /\ asgn[t] = << >>
  BY <1>1, StateFacts DEF Ready
<1>6. /\ asgn'[t] = <<dst, src>> /\ asgn'[t] # << >> /\ asgn'[t][1] = dst /\ asgn'[t][2] = src
      /\ \A u \in Threads : u # t => asgn'[u] = asgn[u]
  BY <1>1 DEF TypeOK
<1>7. /\ Typed(frames, asgn, ptr, alive) /\ Apart(frames, asgn, alive) /\ Sized(frames)
      /\ HeapFits(frames, alive, heap, dying)
  BY FitsParts
<1>8. frames[t] # << >> => ~ frames[t][1].failing
  BY <1>1, FrameFacts DEF Ready, InBody
<1>9. Apart(frames, asgn', alive)
  <2>1. \A u, w \in Threads : asgn'[u] # << >> /\ asgn'[w] # << >> =>
           (asgn'[u][1] = asgn'[w][1] => u = w) /\ asgn'[u][1] # asgn'[w][2]
    <3>. SUFFICES ASSUME NEW u \in Threads, NEW w \in Threads, asgn'[u] # << >>, asgn'[w] # << >>
                  PROVE  (asgn'[u][1] = asgn'[w][1] => u = w) /\ asgn'[u][1] # asgn'[w][2]
      OBVIOUS
    <3>1. CASE u # t /\ w # t
      BY <1>6, <1>7, <3>1 DEF Apart
    <3>2. CASE u = t /\ w # t
      BY <1>2, <1>5, <1>6, <3>2 DEF IsAssigned, IsSource
    <3>3. CASE u # t /\ w = t
      BY <1>2, <1>3, <1>6, <3>3 DEF IsAssigned
    <3>4. CASE u = t /\ w = t
      BY <1>1, <1>6, <3>4
    <3>. QED  BY <3>1, <3>2, <3>3, <3>4
  <2>2. \A u \in Threads : asgn'[u] # << >> =>
          /\ ~ IsTarget(frames, asgn'[u][1]) /\ ~ IsTarget(frames, asgn'[u][2])
          /\ asgn'[u][1] \in alive /\ asgn'[u][2] \in alive
          /\ ~ IsUnsure(frames, u, 0, Home(asgn'[u][1])) /\ ~ IsUnsure(frames, u, 0, Home(asgn'[u][2]))
          /\ frames[u] # << >> => ~ frames[u][1].failing
    <3>. SUFFICES ASSUME NEW u \in Threads, asgn'[u] # << >>
                  PROVE  /\ ~ IsTarget(frames, asgn'[u][1]) /\ ~ IsTarget(frames, asgn'[u][2])
                         /\ asgn'[u][1] \in alive /\ asgn'[u][2] \in alive
                         /\ ~ IsUnsure(frames, u, 0, Home(asgn'[u][1]))
                         /\ ~ IsUnsure(frames, u, 0, Home(asgn'[u][2]))
                         /\ frames[u] # << >> => ~ frames[u][1].failing
      OBVIOUS
    <3>1. CASE u = t
      BY <1>2, <1>3, <1>6, <1>8, <3>1
    <3>2. CASE u # t
      BY <1>6, <1>7, <3>2 DEF Apart
    <3>. QED  BY <3>1, <3>2
  <2>. QED  BY ONLY <1>7, <2>1, <2>2 DEF Apart
<1>10. AssignsOnce(frames, asgn', alive, asgn, t)
  BY <1>5, <1>6, <1>7, <1>9 DEF AssignsOnce
<1>11. ptr[src] \in Blocks \cup {Null}
  BY <1>3 DEF TypeOK
<1>12. /\ after \in [Sptrs -> Blocks \cup {Null}] /\ without \in [Sptrs -> Blocks \cup {Null}]
       /\ after[dst] = ptr[src] /\ without[dst] = Null
       /\ \A y : y # dst => after[y] = ptr[y] /\ without[y] = ptr[y]
  BY <1>2, <1>11 DEF TypeOK
<1>. HIDE DEF after, without
<1>13. ASSUME NEW p, p \in [Sptrs -> Blocks \cup {Null}], \A y : y # dst => p[y] = ptr[y]
       PROVE  /\ Typed(frames, asgn, p, alive)
              /\ \A x \in alive : /\ x # dst => LeadsIn(frames, asgn, p, x) = LeadsIn(frames, asgn', ptr, x)
                                  /\ x = dst => LeadsIn(frames, asgn, p, x) = p[x]
                                  /\ x = dst => LeadsIn(frames, asgn', ptr, x) = ptr[src]
  <2>1. Typed(frames, asgn, p, alive)
    BY <1>7, <1>13 DEF Typed
  <2>2. Alters(asgn, alive, ptr, p, dst)
    BY <1>5, <1>13 DEF Alters
  <2>3. AssignAlike(frames, asgn', ptr, alive, asgn, p, dst, src)
    BY <1>6, <1>10, <2>2, AssignLeads
  <2>. QED  BY <2>1, <2>3 DEF AssignAlike
<1>14. Typed(frames, asgn', ptr, alive)
  <2>1. Typed(frames', asgn', ptr', alive')
    BY TypedNext
  <2>. QED  BY <1>1, <2>1
<1>15. ASSUME NEW p, p \in [Sptrs -> Blocks \cup {Null}], \A y : y # dst => p[y] = ptr[y],
              p[dst] \in {ptr[src], Null}, NEW u, NEW i, NEW s, KeptIn(frames, asgn, p, alive, u, i, s)
       PROVE  KeptIn(frames, asgn', ptr, alive, u, i, s)
  <2>1. Both(frames, asgn, p, alive, frames, asgn', ptr)
    BY <1>7, <1>9, <1>13, <1>14, <1>15 DEF Both
  <2>2. LeadsOn(frames, asgn, p, alive, frames, asgn', ptr)
    BY <1>13, <1>15 DEF LeadsOn
  <2>3. UnsureOn(frames, u, i, frames, u, i, alive)
    BY DEF UnsureOn
  <2>. QED  BY <1>15, <2>1, <2>2, <2>3, KeptOn
<1>16. KeepsIn(frames, asgn', ptr, alive)
  <2>1. KeepsIn(frames, asgn, after, alive)
    BY <1>1, <1>7, KeepsState
  <2>2. KeptIn(frames, asgn, after, alive, t, 0, dst) /\ KeptIn(frames, asgn, without, alive, t, 0, src)
    <3>1. Len(frames[t]) \in Nat
      BY <1>7 DEF Sized
    <3>2. \A s \in {dst} : KeptIn(frames, asgn, after, alive, t, 0, s)
      BY <1>1, <1>7, <3>1, HoldsState
    <3>3. \A s \in {src} : KeptIn(frames, asgn, without, alive, t, 0, s)
      BY <1>1, <1>7, <3>1, HoldsState
    <3>. QED  BY <3>2, <3>3
  <2>3. ASSUME NEW u \in Threads, asgn'[u] # << >>
        PROVE  /\ KeptIn(frames, asgn', ptr, alive, u, 0, asgn'[u][1])
               /\ KeptIn(frames, asgn', ptr, alive, u, 0, asgn'[u][2])
    <3>1. CASE u = t
      <4>1. KeptIn(frames, asgn', ptr, alive, t, 0, dst) /\ KeptIn(frames, asgn', ptr, alive, t, 0, src)
        BY <1>12, <1>15, <2>2
      <4>. QED  BY <1>6, <3>1, <4>1
    <3>2. CASE u # t
      <4>1. asgn'[u] = asgn[u]
        BY <1>6, <3>2
      <4>2. /\ KeptIn(frames, asgn, after, alive, u, 0, asgn[u][1])
            /\ KeptIn(frames, asgn, after, alive, u, 0, asgn[u][2])
        BY <2>1, <2>3, <4>1 DEF KeepsIn
      <4>. QED  BY <1>12, <1>15, <4>1, <4>2
    <3>. QED  BY <3>1, <3>2
  <2>4. ASSUME NEW u \in Threads, NEW i \in 1..Len(frames[u])
        PROVE  KeptIn(frames, asgn', ptr, alive, u, i, frames[u][i].sptr)
    <3>1. KeptIn(frames, asgn, after, alive, u, i, frames[u][i].sptr)
      BY <2>1 DEF KeepsIn
    <3>. QED  BY <1>12, <1>15, <3>1
  <2>. QED  BY <2>3, <2>4 DEF KeepsIn
<1>17. Fits'
  <2>1. Apart(frames', asgn', alive') /\ KeepsIn(frames', asgn', ptr', alive')
        /\ HeapFits(frames', alive', heap', dying')
    BY <1>1, <1>7, <1>9, <1>16
  <2>. QED  BY <2>1, FitsNext
<1>18. DOMAIN v = alive
  BY DEF Sees, Shows
<1>19. ptr \in [Sptrs -> Blocks \cup {Null}]
  BY DEF TypeOK
<1>20. Reaches(Without(v, dst), src)
  <2>1. KeptIn(frames, asgn, without, alive, t, 0, src)
    <3>1. Len(frames[t]) \in Nat
      BY <1>7 DEF Sized
    <3>3. \A s \in {src} : KeptIn(frames, asgn, without, alive, t, 0, s)
      BY <1>1, <1>7, <3>1, HoldsState
    <3>. QED  BY <3>3
  <2>2. /\ Typed(frames, asgn, without, alive)
        /\ \A x \in alive : /\ x # dst => LeadsIn(frames, asgn, without, x) = LeadsIn(frames, asgn', ptr, x)
                            /\ x = dst => LeadsIn(frames, asgn, without, x) = Null
    BY <1>12, <1>13
  <2>3. \A x \in alive : x # dst => LeadsIn(frames, asgn, ptr, x) = LeadsIn(frames, asgn', ptr, x)
    BY <1>13, <1>19
  <2>4. Reaches(ViewIn(frames, asgn, without, alive), src)
    BY <1>7, <2>1, <2>2, KeptReaches
  <2>. QED  BY <1>2, <2>2, <2>3, <2>4, SeesWithout
<1>21. Allowed(v, m)
  BY <1>1, <1>2, <1>3, <1>4, <1>18, <1>20 DEF Allowed, Registering, Copying
<1>22. NewTarget(v, m) = ptr[src]
  BY <1>3, <1>4 DEF NewTarget
<1>23. /\ \A s \in alive : v[s] # Null /\ Home(s) # Null => keeper'[v[s]] = keeper[v[s]]
       /\ ptr[src] # Null /\ Home(dst) # Null =>
            /\ keeper'[ptr[src]] = Home(dst) /\ ptr[src] # Home(dst)
            /\ \A s \in DOMAIN v : Home(s) # Null /\ v[s] = ptr[src] => Home(s) = Home(dst)
  BY <1>1, <1>11, StoreSays
<1>24. Says(v, m, frames, asgn, ptr, alive, heap, keeper, frames', asgn', ptr', alive', heap', keeper')
  <2>1. \A s : s \in alive' <=> (s \in alive /\ s # m.sptr) \/ (s = m.sptr /\ m.type # "SptrUnregistration")
    BY <1>1, <1>2, <1>4
  <2>2. \A s \in alive : s # dst => LeadsIn(frames', asgn', ptr', s) = LeadsIn(frames, asgn, ptr, s)
    BY <1>1, <1>13, <1>19
  <2>3. LeadsIn(frames', asgn', ptr', dst) = ptr[src]
    BY <1>1, <1>2, <1>13, <1>19
  <2>4. ptr[src] # Null => heap'[ptr[src]] # "raw"
    BY <1>1, <1>3
  <2>5. \A s, b : HasFrame(frames, s, b) => HasFrame(frames', s, b)
    BY <1>1
  <2>. QED  BY <1>1, <1>4, <1>22, <1>23, <2>1, <2>2, <2>3, <2>4, <2>5 DEF Says
<1>25. Sends(v, m)
  <2>1. \A b : b \in Building' <=> b \in Building
    BY <1>1, StateFacts, NextBuilding
  <2>2. Steady(heap, Building, heap', Building')
    BY <1>1, <2>1 DEF Steady
  <2>3. Aborts(v, m, heap', Building')
    BY <1>2, <1>4, <2>2, NoAborts
  <2>4. OneKeeper(After(v, m))
    <3>1. IsView(v) /\ OneKeeper(v)
      BY DEF Sees
    <3>. QED  BY <1>4, <1>21, <1>22, <1>23, <3>1, KeeperAfter
  <2>5. Sendable(v, m, heap)
    BY <1>4, <1>21, <2>4 DEF Sendable
  <2>. QED  BY <1>1, <1>4, <1>24, <2>2, <2>3, <2>5 DEF Sends
<1>. QED  BY <1>17, <1>25

-----------------------------------------------------------------------------
(* s.has(...) begins: thread t has one call more, fr2 after fr. *)
Grows(fr, fr2, t, s, b) ==
  /\ t \in Threads /\ Sized(fr) /\ Sized(fr2)
  /\ \A u \in Threads : u # t => fr2[u] = fr[u]
  /\ Len(fr2[t]) = Len(fr[t]) + 1
  /\ fr2[t][1].sptr = s /\ fr2[t][1].block = b /\ fr2[t][1].made = 0
  /\ \A i \in 1..Len(fr[t]) : fr2[t][i + 1] = fr[t][i]

GrowsFacts(fr, fr2, t, s, b) ==
  /\ 1 \in 1..Len(fr2[t])
  /\ \A u \in Threads : \A i \in 1..Len(fr[u]) :
       Call2(t, u, i, 1) \in 1..Len(fr2[u]) /\ fr2[u][Call2(t, u, i, 1)] = fr[u][i]
  /\ \A u \in Threads : \A k \in 1..Len(fr2[u]) :
       (u = t /\ k = 1) \/ \E i \in 1..Len(fr[u]) : k = Call2(t, u, i, 1)
  /\ \A u \in Threads : \A i \in Nat : \A c :
       IsUnsure(fr2, u, Call2(t, u, i, 1), c) => c = b \/ IsUnsure(fr, u, i, c)
  /\ \A u \in Threads : \A c : u # t /\ IsUnsure(fr2, u, 0, c) => c = b \/ IsUnsure(fr, u, 0, c)
  /\ \A c : IsUnsure(fr2, t, 1, c) => c = b \/ IsUnsure(fr, t, 0, c)
  /\ \A x : IsTarget(fr2, x) <=> x = s \/ IsTarget(fr, x)
  /\ \A c : IsBuilt(fr2, c) <=> c = b \/ IsBuilt(fr, c)
  /\ \A x, c : HasFrame(fr, x, c) => HasFrame(fr2, x, c)
  /\ HasFrame(fr2, s, b)

LEMMA GrowsThus ==
  ASSUME NEW fr, NEW fr2, NEW t, NEW s, NEW b, Grows(fr, fr2, t, s, b)
  PROVE  GrowsFacts(fr, fr2, t, s, b)
<1>0. /\ t \in Threads /\ Sized(fr) /\ Sized(fr2) /\ 1 \in 1..Len(fr2[t])
      /\ fr2[t][1].sptr = s /\ fr2[t][1].block = b
  BY DEF Grows, Sized
<1>1. ASSUME NEW u \in Threads, NEW i \in 1..Len(fr[u])
      PROVE  Call2(t, u, i, 1) \in 1..Len(fr2[u]) /\ fr2[u][Call2(t, u, i, 1)] = fr[u][i]
  BY DEF Grows, Sized, Call2
<1>2. ASSUME NEW u \in Threads, NEW k \in 1..Len(fr2[u]), ~ (u = t /\ k = 1)
      PROVE  \E i \in 1..Len(fr[u]) : k = Call2(t, u, i, 1) /\ fr2[u][k] = fr[u][i]
  <2>1. CASE u # t
    <3>1. fr2[u] = fr[u] /\ k = Call2(t, u, k, 1)
      BY <2>1 DEF Grows, Call2
    <3>. QED  BY <3>1
  <2>2. CASE u = t
    <3>1. k - 1 \in 1..Len(fr[t]) /\ (k - 1) + 1 = k
      BY <1>2, <2>2 DEF Grows, Sized
    <3>2. fr2[t][k] = fr[t][k - 1] /\ k = Call2(t, u, k - 1, 1)
      BY <2>2, <3>1 DEF Grows, Call2
    <3>. QED  BY <2>2, <3>1, <3>2
  <2>. QED  BY <2>1, <2>2
<1>3. ASSUME NEW u \in Threads, NEW i \in Nat, NEW k \in Nat, NEW c, IsUnsure(fr2, u, k, c),
             k = Call2(t, u, i, 1) \/ (u # t /\ k = i)
      PROVE  c = b \/ IsUnsure(fr, u, i, c)
  <2>1. PICK w \in Threads : \E j \in 1..Len(fr2[w]) : (w # u \/ j <= k) /\ fr2[w][j].block = c
    BY <1>3 DEF IsUnsure
  <2>2. PICK j \in 1..Len(fr2[w]) : (w # u \/ j <= k) /\ fr2[w][j].block = c
    BY <2>1
  <2>3. CASE w = t /\ j = 1
    BY <1>0, <2>2, <2>3
  <2>4. CASE ~ (w = t /\ j = 1)
    <3>1. PICK n \in 1..Len(fr[w]) : j = Call2(t, w, n, 1) /\ fr2[w][j] = fr[w][n]
      BY <1>2, <2>4
    <3>2. w # u \/ n <= i
      BY <1>0, <1>3, <2>2, <3>1 DEF Call2, Sized
    <3>. QED  BY <2>2, <3>1, <3>2 DEF IsUnsure
  <2>. QED  BY <2>3, <2>4
<1>4. \A u \in Threads : \A i \in Nat : \A c :
        IsUnsure(fr2, u, Call2(t, u, i, 1), c) => c = b \/ IsUnsure(fr, u, i, c)
  <2>1. \A u, i : i \in Nat => Call2(t, u, i, 1) \in Nat
    BY DEF Call2
  <2>. QED  BY <1>3, <2>1
<1>5. \A u \in Threads : \A c : u # t /\ IsUnsure(fr2, u, 0, c) => c = b \/ IsUnsure(fr, u, 0, c)
  BY <1>3
<1>6. \A c : IsUnsure(fr2, t, 1, c) => c = b \/ IsUnsure(fr, t, 0, c)
  <2>1. Call2(t, t, 0, 1) = 1
    BY DEF Call2
  <2>. QED  BY <1>0, <1>3, <2>1
<1>7. \A x : IsTarget(fr2, x) <=> x = s \/ IsTarget(fr, x)
  BY <1>0, <1>1, <1>2 DEF IsTarget
<1>8. \A c : IsBuilt(fr2, c) <=> c = b \/ IsBuilt(fr, c)
  BY <1>0, <1>1, <1>2 DEF IsBuilt
<1>9. (\A x, c : HasFrame(fr, x, c) => HasFrame(fr2, x, c)) /\ HasFrame(fr2, s, b)
  BY <1>0, <1>1 DEF HasFrame
<1>10. \A u \in Threads : \A k \in 1..Len(fr2[u]) :
         (u = t /\ k = 1) \/ \E i \in 1..Len(fr[u]) : k = Call2(t, u, i, 1)
  BY <1>2
<1>. QED  BY <1>0, <1>1, <1>4, <1>5, <1>6, <1>7, <1>8, <1>9, <1>10 DEF GrowsFacts

LEMMA HasCalls ==
  ASSUME TypeOK, NEW t \in Threads, NEW s, NEW b, Has(t, s, b)
  PROVE  Grows(frames, frames', t, s, b)
<1>. DEFINE f == [sptr |-> s, block |-> b, made |-> 0, failing |-> FALSE]
<1>1. frames' = [frames EXCEPT ![t] = <<f>> \o frames[t]]
  BY DEF Has
<1>2. \A u \in Threads : frames[u] \in Seq(Frame)
  BY DEF TypeOK
<1>3. \A u \in Threads : Len(frames[u]) \in Nat
  BY <1>2
<1>4. frames'[t] = <<f>> \o frames[t] /\ \A u \in Threads : u # t => frames'[u] = frames[u]
  BY <1>1 DEF TypeOK
<1>5. f.sptr = s /\ f.block = b /\ f.made = 0
  OBVIOUS
<1>. HIDE DEF f
<1>6. /\ Len(<<f>> \o frames[t]) = Len(frames[t]) + 1 /\ (<<f>> \o frames[t])[1] = f
      /\ \A i \in 1..Len(frames[t]) : (<<f>> \o frames[t])[i + 1] = frames[t][i]
  <2>1. frames[t] \in Seq(Frame \cup {f}) /\ <<f>> \in Seq(Frame \cup {f}) /\ Len(<<f>>) = 1 /\ <<f>>[1] = f
    BY <1>2
  <2>2. /\ Len(<<f>> \o frames[t]) = Len(<<f>>) + Len(frames[t])
        /\ \A i \in 1..(Len(<<f>>) + Len(frames[t])) :
             (<<f>> \o frames[t])[i] = IF i <= Len(<<f>>) THEN <<f>>[i] ELSE frames[t][i - Len(<<f>>)]
    BY <2>1, ConcatProperties
  <2>3. /\ Len(<<f>> \o frames[t]) = Len(frames[t]) + 1
        /\ \A i \in 1..(1 + Len(frames[t])) :
             (<<f>> \o frames[t])[i] = IF i <= 1 THEN <<f>>[i] ELSE frames[t][i - 1]
    BY <1>3, <2>1, <2>2
  <2>4. \A i \in 1..Len(frames[t]) : i + 1 \in 1..(1 + Len(frames[t])) /\ ~ (i + 1 <= 1) /\ (i + 1) - 1 = i
    BY <1>3
  <2>5. 1 \in 1..(1 + Len(frames[t]))
    BY <1>3
  <2>. QED  BY <2>1, <2>3, <2>4, <2>5
<1>. QED  BY <1>3, <1>4, <1>5, <1>6 DEF Grows, Sized

LEMMA MemberShape == \A s \in Sptrs : \A b \in Blocks : Home(s) = b => \E i \in 1..Slots : s = <<b, i>>
<1>. SUFFICES ASSUME NEW s \in Sptrs, NEW b \in Blocks, Home(s) = b
              PROVE  \E i \in 1..Slots : s = <<b, i>>
  OBVIOUS
<1>1. s \notin Roots /\ s[1] = b
  BY NullAssumption DEF Home
<1>2. s \in Members
  BY <1>1 DEF Sptrs
<1>3. PICK c \in Blocks : s \in MemberOf(c)
  BY <1>2 DEF Members
<1>. QED  BY <1>1, <1>3 DEF MemberOf

LEMMA MemberHome == \A b \in Blocks : \A i \in 1..Slots : Home(<<b, i>>) = b
<1>. SUFFICES ASSUME NEW b \in Blocks, NEW i \in 1..Slots PROVE Home(<<b, i>>) = b
  OBVIOUS
<1>1. <<b, i>> \notin Roots
  BY RootIsNotMember
<1>. QED  BY <1>1 DEF Home

LEMMA NoMembers ==
  ASSUME NEW al, al \subseteq Sptrs, NEW b \in Blocks, HasMade(al, b, 0)
  PROVE  \A s \in al : Home(s) # b
<1>1. ASSUME NEW s \in al, Home(s) = b PROVE FALSE
  <2>1. PICK i \in 1..Slots : s = <<b, i>>
    BY <1>1, MemberShape
  <2>. QED  BY <2>1 DEF HasMade
<1>. QED  BY <1>1

LEMMA HasFits ==
  ASSUME TypeOK, TypeOK', Usage = {}, Fits, NEW v, Sees(v), NEW t \in Threads,
         NEW s \in Usable(t), NEW b \in Blocks, Has(t, s, b)
  PROVE  Fits' /\ \E m : Sends(v, m)
<1>. DEFINE m == NewObjectMsg(s, b)
            without == [ptr EXCEPT ![s] = Null]
<1>1. /\ Ready(t) /\ s \notin Sources /\ heap[b] = "free" /\ MayStore(s, b)
      /\ Keeps(without, alive) /\ Holds(t, 0, {s}, without, alive)
      /\ heap' = [heap EXCEPT ![b] = "raw"] /\ Store(s, b)
      /\ msgs' = Append(msgs, m) /\ asgn' = asgn /\ ptr' = ptr
      /\ alive' = alive /\ dying' = dying /\ graph' = graph
  BY DEF Has, Send, gcVars
<1>2. /\ s \in alive /\ s \in Sptrs /\ ~ IsTarget(frames, s) /\ ~ IsAssigned(asgn, s)
      /\ Reaches(v, s) /\ ~ IsUnsure(frames, t, 0, Home(s))
  BY UsableSees
<1>3. m \in Messages /\ m.type = "NewObject" /\ m.sptr = s /\ m.block = b
  BY <1>2, MessageFacts, MessageParts
<1>. HIDE DEF m
<1>4. ~ IsSource(asgn, s) /\ asgn[t] = << >>
  BY <1>1, StateFacts DEF Ready
<1>5. Grows(frames, frames', t, s, b) /\ GrowsFacts(frames, frames', t, s, b)
  BY HasCalls, GrowsThus
<1>6. /\ Typed(frames, asgn, ptr, alive) /\ Apart(frames, asgn, alive) /\ Sized(frames)
      /\ HeapFits(frames, alive, heap, dying)
  BY FitsParts
<1>7. heap'[b] = "raw" /\ \A c : c # b => heap'[c] = heap[c]
  BY <1>1 DEF TypeOK
<1>8. \A x \in alive : Home(x) # b
  BY <1>1, <1>6, NoMembers DEF HeapFits, Typed
<1>9. \A u \in Threads : \A i \in 1..Len(frames[u]) : frames[u][i].block # b
  BY <1>1, <1>6 DEF HeapFits
<1>10. Sized(frames') /\ Typed(frames', asgn, ptr, alive)
  BY <1>1, TypedNext
<1>11. Apart(frames', asgn, alive)
  <2>1. \A u \in Threads : asgn[u] # << >> =>
          /\ ~ IsTarget(frames', asgn[u][1]) /\ ~ IsTarget(frames', asgn[u][2])
          /\ asgn[u][1] \in alive /\ asgn[u][2] \in alive
          /\ ~ IsUnsure(frames', u, 0, Home(asgn[u][1])) /\ ~ IsUnsure(frames', u, 0, Home(asgn[u][2]))
          /\ frames'[u] # << >> => ~ frames'[u][1].failing
    <3>. SUFFICES ASSUME NEW u \in Threads, asgn[u] # << >>
                  PROVE  /\ ~ IsTarget(frames', asgn[u][1]) /\ ~ IsTarget(frames', asgn[u][2])
                         /\ asgn[u][1] \in alive /\ asgn[u][2] \in alive
                         /\ ~ IsUnsure(frames', u, 0, Home(asgn[u][1]))
                         /\ ~ IsUnsure(frames', u, 0, Home(asgn[u][2]))
                         /\ frames'[u] # << >> => ~ frames'[u][1].failing
      OBVIOUS
    <3>1. u # t /\ frames'[u] = frames[u]
      BY <1>4, <1>5 DEF Grows
    <3>2. /\ ~ IsTarget(frames, asgn[u][1]) /\ ~ IsTarget(frames, asgn[u][2])
          /\ asgn[u][1] \in alive /\ asgn[u][2] \in alive
          /\ ~ IsUnsure(frames, u, 0, Home(asgn[u][1])) /\ ~ IsUnsure(frames, u, 0, Home(asgn[u][2]))
          /\ frames[u] # << >> => ~ frames[u][1].failing
      BY <1>6 DEF Apart
    <3>3. asgn[u][1] # s /\ asgn[u][2] # s
      BY <1>2, <1>4 DEF IsAssigned, IsSource
    <3>4. Home(asgn[u][1]) # b /\ Home(asgn[u][2]) # b
      BY <1>8, <3>2
    <3>. QED  BY <1>5, <3>1, <3>2, <3>3, <3>4 DEF GrowsFacts
  <2>2. ASSUME NEW u \in Threads, NEW w \in Threads, NEW k \in 1..Len(frames'[u]), NEW l \in 1..Len(frames'[w]),
               frames'[u][k].sptr = frames'[w][l].sptr \/ frames'[u][k].block = frames'[w][l].block
        PROVE  u = w /\ k = l
    <3>1. ASSUME NEW x \in Threads, NEW i \in 1..Len(frames[x])
          PROVE  frames[x][i].sptr # s /\ frames[x][i].block # b
      BY <1>2, <1>9 DEF IsTarget
    <3>2. frames'[t][1].sptr = s /\ frames'[t][1].block = b
      BY <1>5 DEF Grows
    <3>3. CASE (u = t /\ k = 1) /\ (w = t /\ l = 1)
      BY <3>3
    <3>4. CASE (u = t /\ k = 1) /\ ~ (w = t /\ l = 1)
      <4>1. PICK j \in 1..Len(frames[w]) : l = Call2(t, w, j, 1)
        BY <1>5, <3>4 DEF GrowsFacts
      <4>2. frames'[w][l] = frames[w][j]
        BY <1>5, <4>1 DEF GrowsFacts
      <4>. QED  BY <2>2, <3>1, <3>2, <3>4, <4>2
    <3>5. CASE ~ (u = t /\ k = 1) /\ (w = t /\ l = 1)
      <4>1. PICK j \in 1..Len(frames[u]) : k = Call2(t, u, j, 1)
        BY <1>5, <3>5 DEF GrowsFacts
      <4>2. frames'[u][k] = frames[u][j]
        BY <1>5, <4>1 DEF GrowsFacts
      <4>. QED  BY <2>2, <3>1, <3>2, <3>5, <4>2
    <3>6. CASE ~ (u = t /\ k = 1) /\ ~ (w = t /\ l = 1)
      <4>1. PICK i \in 1..Len(frames[u]) : k = Call2(t, u, i, 1)
        BY <1>5, <3>6 DEF GrowsFacts
      <4>2. PICK j \in 1..Len(frames[w]) : l = Call2(t, w, j, 1)
        BY <1>5, <3>6 DEF GrowsFacts
      <4>3. frames'[u][k] = frames[u][i] /\ frames'[w][l] = frames[w][j]
        BY <1>5, <4>1, <4>2 DEF GrowsFacts
      <4>4. u = w /\ i = j
        BY <1>6, <2>2, <4>3 DEF Apart
      <4>. QED  BY <4>1, <4>2, <4>4
    <3>. QED  BY <3>3, <3>4, <3>5, <3>6
  <2>3. ASSUME NEW u \in Threads, NEW k \in 1..Len(frames'[u])
        PROVE  frames'[u][k].sptr \in alive /\ ~ IsUnsure(frames', u, k, Home(frames'[u][k].sptr))
    <3>1. CASE u = t /\ k = 1
      <4>1. frames'[t][1].sptr = s
        BY <1>5 DEF Grows
      <4>. QED  BY <1>2, <1>5, <1>8, <3>1, <4>1 DEF GrowsFacts
    <3>2. CASE ~ (u = t /\ k = 1)
      <4>1. PICK i \in 1..Len(frames[u]) : k = Call2(t, u, i, 1)
        BY <1>5, <3>2 DEF GrowsFacts
      <4>2. frames'[u][k] = frames[u][i] /\ i \in Nat
        BY <1>5, <1>6, <4>1 DEF GrowsFacts, Sized
      <4>3. frames[u][i].sptr \in alive /\ ~ IsUnsure(frames, u, i, Home(frames[u][i].sptr))
        BY <1>6 DEF Apart
      <4>4. \A c : IsUnsure(frames', u, k, c) => c = b \/ IsUnsure(frames, u, i, c)
        BY <1>5, <4>1, <4>2 DEF GrowsFacts
      <4>. QED  BY <1>8, <4>2, <4>3, <4>4
    <3>. QED  BY <3>1, <3>2
  <2>. QED  BY <1>6, <2>1, <2>2, <2>3 DEF Apart
<1>12. /\ without \in [Sptrs -> Blocks \cup {Null}] /\ without[s] = Null
       /\ \A y : y # s => without[y] = ptr[y]
  BY <1>2 DEF TypeOK
<1>. HIDE DEF without
<1>13. Shrinks(frames', asgn, frames, asgn, t, 1)
  BY <1>5, <1>6 DEF Grows, Shrinks, Sized
<1>14. ASSUME NEW p, \A y : y # s => p[y] = ptr[y]
       PROVE  \A x \in alive : x # s => LeadsIn(frames, asgn, p, x) = LeadsIn(frames', asgn, ptr, x)
  <2>1. Steps(frames', asgn, alive, frames, asgn, alive, t, 1)
    BY <1>6, <1>10, <1>11, <1>13 DEF Steps
  <2>2. Alters(asgn, alive, ptr, p, s)
    BY <1>4, <1>14 DEF Alters
  <2>3. Alike(frames', asgn, ptr, alive, frames, asgn, p, s)
    BY ONLY <2>1, <2>2, LeadsBut
  <2>4. \A x : x # s => Persists(frames', asgn, frames, asgn, x)
    BY <1>5 DEF GrowsFacts, Persists
  <2>. QED  BY <2>3, <2>4 DEF Alike
<1>15. LeadsIn(frames, asgn, without, s) = Null /\ LeadsIn(frames', asgn, ptr, s) = b
  <2>1. LeadsRight(frames, asgn, without)
    BY ONLY <1>6, LeadsFacts
  <2>2. LeadsRight(frames', asgn, ptr)
    BY ONLY <1>11, LeadsFacts
  <2>3. frames'[t][1].sptr = s /\ frames'[t][1].block = b /\ 1 \in 1..Len(frames'[t])
    BY <1>5 DEF Grows, GrowsFacts
  <2>. QED  BY <1>2, <1>12, <2>1, <2>2, <2>3 DEF LeadsRight
<1>16. Typed(frames, asgn, without, alive)
  BY <1>6, <1>12 DEF Typed
<1>17. ASSUME NEW u, NEW i, NEW k, \A c : IsUnsure(frames', u, k, c) => c = b \/ IsUnsure(frames, u, i, c),
              NEW x, KeptIn(frames, asgn, without, alive, u, i, x)
       PROVE  KeptIn(frames', asgn, ptr, alive, u, k, x)
  <2>1. Both(frames, asgn, without, alive, frames', asgn, ptr)
    BY <1>6, <1>10, <1>11, <1>16 DEF Both
  <2>2. LeadsOn(frames, asgn, without, alive, frames', asgn, ptr)
    <3>1. \A y \in alive : y # s => LeadsIn(frames, asgn, without, y) = LeadsIn(frames', asgn, ptr, y)
      BY <1>12, <1>14
    <3>. QED  BY <1>15, <3>1 DEF LeadsOn
  <2>3. UnsureOn(frames, u, i, frames', u, k, alive)
    BY <1>8, <1>17 DEF UnsureOn
  <2>. QED  BY <1>17, <2>1, <2>2, <2>3, KeptOn
<1>18. KeepsIn(frames', asgn, ptr, alive)
  <2>1. KeepsIn(frames, asgn, without, alive)
    BY <1>1, <1>6, KeepsState
  <2>2. KeptIn(frames, asgn, without, alive, t, 0, s)
    <3>1. Len(frames[t]) \in Nat
      BY <1>6 DEF Sized
    <3>2. \A x \in {s} : KeptIn(frames, asgn, without, alive, t, 0, x)
      BY <1>1, <1>6, <3>1, HoldsState
    <3>. QED  BY <3>2
  <2>3. ASSUME NEW u \in Threads, asgn[u] # << >>
        PROVE  /\ KeptIn(frames', asgn, ptr, alive, u, 0, asgn[u][1])
               /\ KeptIn(frames', asgn, ptr, alive, u, 0, asgn[u][2])
    <3>1. \A c : IsUnsure(frames', u, 0, c) => c = b \/ IsUnsure(frames, u, 0, c)
      BY <1>4, <1>5, <2>3 DEF GrowsFacts
    <3>2. /\ KeptIn(frames, asgn, without, alive, u, 0, asgn[u][1])
          /\ KeptIn(frames, asgn, without, alive, u, 0, asgn[u][2])
      BY <2>1, <2>3 DEF KeepsIn
    <3>. QED  BY <1>17, <3>1, <3>2
  <2>4. ASSUME NEW u \in Threads, NEW k \in 1..Len(frames'[u])
        PROVE  KeptIn(frames', asgn, ptr, alive, u, k, frames'[u][k].sptr)
    <3>1. CASE u = t /\ k = 1
      <4>1. frames'[t][1].sptr = s /\ \A c : IsUnsure(frames', t, 1, c) => c = b \/ IsUnsure(frames, t, 0, c)
        BY <1>5 DEF Grows, GrowsFacts
      <4>2. KeptIn(frames', asgn, ptr, alive, t, 1, s)
        BY <1>17, <2>2, <4>1
      <4>. QED  BY <3>1, <4>1, <4>2
    <3>2. CASE ~ (u = t /\ k = 1)
      <4>1. PICK i \in 1..Len(frames[u]) : k = Call2(t, u, i, 1)
        BY <1>5, <3>2 DEF GrowsFacts
      <4>2. frames'[u][k] = frames[u][i] /\ i \in Nat
        BY <1>5, <1>6, <4>1 DEF GrowsFacts, Sized
      <4>3. KeptIn(frames, asgn, without, alive, u, i, frames[u][i].sptr)
        BY <2>1 DEF KeepsIn
      <4>4. \A c : IsUnsure(frames', u, k, c) => c = b \/ IsUnsure(frames, u, i, c)
        BY <1>5, <4>1, <4>2 DEF GrowsFacts
      <4>. QED  BY <1>17, <4>2, <4>3, <4>4
    <3>. QED  BY <3>1, <3>2
  <2>. QED  BY <2>3, <2>4 DEF KeepsIn
<1>19. HeapFits(frames', alive, heap', dying)
  <2>1. ASSUME NEW u \in Threads, NEW k \in 1..Len(frames'[u])
        PROVE  heap'[frames'[u][k].block] = "raw" /\ HasMade(alive, frames'[u][k].block, frames'[u][k].made)
    <3>1. CASE u = t /\ k = 1
      <4>1. frames'[t][1].block = b /\ frames'[t][1].made = 0
        BY <1>5 DEF Grows
      <4>. QED  BY <1>1, <1>6, <1>7, <3>1, <4>1 DEF HeapFits
    <3>2. CASE ~ (u = t /\ k = 1)
      <4>1. PICK i \in 1..Len(frames[u]) : k = Call2(t, u, i, 1)
        BY <1>5, <3>2 DEF GrowsFacts
      <4>2. frames'[u][k] = frames[u][i]
        BY <1>5, <4>1 DEF GrowsFacts
      <4>. QED  BY <1>6, <1>7, <1>9, <4>2 DEF HeapFits
    <3>. QED  BY <3>1, <3>2
  <2>2. \A c \in Blocks :
          /\ heap'[c] = "live" => HasMade(alive, c, Slots)
          /\ heap'[c] = "raw" /\ ~ IsBuilt(frames', c) => HasMade(alive, c, 0)
          /\ heap'[c] = "free" => HasMade(alive, c, 0)
          /\ heap'[c] \in {"destroyed", "dropped"} => c = dying.block
    BY <1>5, <1>6, <1>7 DEF HeapFits, GrowsFacts
  <2>3. dying.block # Null => heap'[dying.block] \in {"destroyed", "dropped"} /\ HasMade(alive, dying.block, dying.left)
    BY <1>1, <1>6, <1>7 DEF HeapFits
  <2>. QED  BY <2>1, <2>2, <2>3 DEF HeapFits
<1>20. Fits'
  <2>1. Apart(frames', asgn', alive') /\ KeepsIn(frames', asgn', ptr', alive')
        /\ HeapFits(frames', alive', heap', dying')
    BY <1>1, <1>11, <1>18, <1>19
  <2>. QED  BY <2>1, FitsNext
<1>21. DOMAIN v = alive
  BY DEF Sees, Shows
<1>22. \A x \in alive : v[x] # b
  <2>1. \A x \in DOMAIN v : v[x] # Null => heap[v[x]] \in {"raw", "live"}
    BY DEF Sees, LeadsToUsed
  <2>. QED  BY <1>1, <1>21, <2>1, NullAssumption
<1>23. Allowed(v, m)
  BY <1>2, <1>3, <1>8, <1>21, <1>22 DEF Allowed, Registering, Copying
<1>24. NewTarget(v, m) = b
  BY <1>3 DEF NewTarget
<1>25. /\ \A x \in alive : v[x] # Null /\ Home(x) # Null => keeper'[v[x]] = keeper[v[x]]
       /\ b # Null /\ Home(s) # Null =>
            /\ keeper'[b] = Home(s) /\ b # Home(s)
            /\ \A x \in DOMAIN v : Home(x) # Null /\ v[x] = b => Home(x) = Home(s)
  BY <1>1, StoreSays
<1>26. Says(v, m, frames, asgn, ptr, alive, heap, keeper, frames', asgn', ptr', alive', heap', keeper')
  <2>1. \A x : x \in alive' <=> (x \in alive /\ x # m.sptr) \/ (x = m.sptr /\ m.type # "SptrUnregistration")
    BY <1>1, <1>2, <1>3
  <2>2. \A x \in alive : x # s => LeadsIn(frames', asgn', ptr', x) = LeadsIn(frames, asgn, ptr, x)
    BY <1>1, <1>14
  <2>3. LeadsIn(frames', asgn', ptr', s) = b
    BY <1>1, <1>15
  <2>4. \A x, c : HasFrame(frames, x, c) => HasFrame(frames', x, c)
    BY <1>5 DEF GrowsFacts
  <2>5. HasFrame(frames', s, b)
    BY <1>5 DEF GrowsFacts
  <2>6. \A x \in alive : heap'[v[x]] = heap[v[x]]
    BY <1>7, <1>22
  <2>. QED  BY <1>3, <1>24, <1>25, <2>1, <2>2, <2>3, <2>4, <2>5, <2>6 DEF Says
<1>27. Sends(v, m)
  <2>1. \A c : c \in Building' <=> c = b \/ c \in Building
    BY <1>5, StateFacts, NextBuilding DEF GrowsFacts
  <2>2. Steady(heap, Building, heap', Building')
    BY <1>1, <1>7, <2>1 DEF Steady
  <2>3. Aborts(v, m, heap', Building')
    BY <1>2, <1>3, <2>2, NoAborts
  <2>4. OneKeeper(After(v, m))
    <3>1. IsView(v) /\ OneKeeper(v)
      BY DEF Sees
    <3>. QED  BY <1>3, <1>23, <1>24, <1>25, <3>1, KeeperAfter
  <2>5. Sendable(v, m, heap)
    BY <1>1, <1>3, <1>23, <2>4 DEF Sendable
  <2>6. m.type = "NewObject" => heap'[m.block] \in {"raw", "live"}
    BY <1>3, <1>7
  <2>. QED  BY <1>1, <1>3, <1>26, <2>2, <2>3, <2>5, <2>6 DEF Sends
<1>. QED  BY <1>20, <1>27

-----------------------------------------------------------------------------
(* The innermost call of a thread goes on: n members are made. *)
Edited(t, n, failing) ==
  /\ t \in Threads /\ 1 \in 1..Len(frames[t]) /\ asgn' = asgn
  /\ \A u \in Threads : u # t => frames'[u] = frames[u]
  /\ Len(frames'[t]) = Len(frames[t])
  /\ frames'[t][1].sptr = frames[t][1].sptr /\ frames'[t][1].block = frames[t][1].block
  /\ frames'[t][1].made = n /\ frames'[t][1].failing = failing
  /\ \A i \in 1..Len(frames[t]) : i # 1 => frames'[t][i] = frames[t][i]

LEMMA EditCalls ==
  ASSUME TypeOK, NEW t \in Threads, frames[t] # << >>, NEW f \in Frame,
         f.sptr = frames[t][1].sptr, f.block = frames[t][1].block, asgn' = asgn,
         frames' = [frames EXCEPT ![t] = [frames[t] EXCEPT ![1] = f]]
  PROVE  Edited(t, f.made, f.failing)
<1>. DEFINE q == [frames[t] EXCEPT ![1] = f]
<1>1. frames[t] \in Seq(Frame) /\ 1 \in 1..Len(frames[t])
  BY FrameFacts
<1>2. Len(q) = Len(frames[t]) /\ \A j \in 1..Len(frames[t]) : q[j] = IF j = 1 THEN f ELSE frames[t][j]
  BY <1>1, ExceptSeq
<1>3. q[1] = f /\ \A j \in 1..Len(frames[t]) : j # 1 => q[j] = frames[t][j]
  BY <1>1, <1>2
<1>. HIDE DEF q
<1>4. frames'[t] = q /\ \A u \in Threads : u # t => frames'[u] = frames[u]
  BY DEF TypeOK, q
<1>. QED  BY <1>1, <1>2, <1>3, <1>4 DEF Edited

LEMMA EditShrinks ==
  ASSUME Sized(frames), NEW t, NEW n, NEW failing, Edited(t, n, failing)
  PROVE  Shrinks(frames, asgn, frames', asgn', t, 0)
<1>1. Len(frames[t]) \in Nat /\ \A i \in 1..Len(frames[t]) : i + 0 = i
  BY DEF Sized, Edited
<1>2. \A i \in 1..Len(frames[t]) : frames'[t][i].sptr = frames[t][i].sptr /\ frames'[t][i].block = frames[t][i].block
  BY DEF Edited
<1>3. Len(frames[t]) = Len(frames'[t]) + 0
  BY <1>1 DEF Edited
<1>. QED  BY <1>1, <1>2, <1>3 DEF Edited, Shrinks

LEMMA EditedHeap ==
  ASSUME TypeOK, Fits, NEW t, NEW n, NEW failing, Edited(t, n, failing), Sized(frames'),
         NEW al, HasMade(al, frames[t][1].block, n),
         \A b \in Blocks : \A i \in 1..Slots :
           b # frames[t][1].block => (<<b, i>> \in al <=> <<b, i>> \in alive)
  PROVE  HeapFits(frames', al, heap, dying)
<1>. DEFINE c == frames[t][1].block
<1>1. /\ Typed(frames, asgn, ptr, alive) /\ Apart(frames, asgn, alive) /\ Sized(frames)
      /\ HeapFits(frames, alive, heap, dying)
  BY FitsParts
<1>2. t \in Threads /\ 1 \in 1..Len(frames[t]) /\ c \in Blocks /\ heap[c] = "raw" /\ IsBuilt(frames, c)
  BY <1>1 DEF Edited, Typed, HeapFits, IsBuilt
<1>3. \A b \in Blocks : \A k : b # c /\ HasMade(alive, b, k) => HasMade(al, b, k)
  BY DEF HasMade
<1>4. Shrinks(frames, asgn, frames', asgn', t, 0)
  BY <1>1, EditShrinks
<1>5. \A b : IsBuilt(frames', b) <=> IsBuilt(frames, b)
  BY ONLY <1>1, <1>2, <1>4, Sized(frames'), SameFrames
<1>6. ASSUME NEW u \in Threads, NEW i \in 1..Len(frames'[u])
      PROVE  heap[frames'[u][i].block] = "raw" /\ HasMade(al, frames'[u][i].block, frames'[u][i].made)
  <2>1. CASE u = t /\ i = 1
    BY <1>2, <2>1 DEF Edited
  <2>2. CASE ~ (u = t /\ i = 1)
    <3>1. i \in 1..Len(frames[u]) /\ frames'[u][i] = frames[u][i]
      BY <2>2 DEF Edited
    <3>2. frames[u][i].block # c /\ frames[u][i].block \in Blocks
      BY <1>1, <1>2, <2>2, <3>1 DEF Apart, Typed
    <3>3. heap[frames[u][i].block] = "raw" /\ HasMade(alive, frames[u][i].block, frames[u][i].made)
      BY <1>1, <3>1 DEF HeapFits
    <3>. QED  BY <1>3, <3>1, <3>2, <3>3
  <2>. QED  BY <2>1, <2>2
<1>7. ASSUME NEW b \in Blocks
      PROVE  /\ heap[b] = "live" => HasMade(al, b, Slots)
             /\ heap[b] = "raw" /\ ~ IsBuilt(frames', b) => HasMade(al, b, 0)
             /\ heap[b] = "free" => HasMade(al, b, 0)
             /\ heap[b] \in {"destroyed", "dropped"} => b = dying.block
  BY <1>1, <1>2, <1>3, <1>5 DEF HeapFits
<1>8. dying.block # Null => heap[dying.block] \in {"destroyed", "dropped"} /\ HasMade(al, dying.block, dying.left)
  <2>. SUFFICES ASSUME dying.block # Null
                PROVE  heap[dying.block] \in {"destroyed", "dropped"} /\ HasMade(al, dying.block, dying.left)
    OBVIOUS
  <2>1. heap[dying.block] \in {"destroyed", "dropped"} /\ HasMade(alive, dying.block, dying.left)
    BY <1>1 DEF HeapFits
  <2>2. dying.block # c
    BY <1>2, <2>1
  <2>3. \A i \in 1..Slots : <<dying.block, i>> \in al <=> <<dying.block, i>> \in alive
    BY <2>2 DEF TypeOK
  <2>. QED  BY <2>1, <2>3 DEF HasMade
<1>. QED  BY <1>6, <1>7, <1>8 DEF HeapFits

(* A member of the object is made, without or with something to copy. *)
LEMMA EditedStays ==
  ASSUME Fits, NEW t, NEW n, Edited(t, n, FALSE), asgn[t] = << >>, NEW m, m \notin alive,
         alive' = alive \cup {m}, \A y \in alive : ptr'[y] = ptr[y]
  PROVE  Stays(t, m)
<1>1. Sized(frames) /\ Apart(frames, asgn, alive)
  BY FitsParts
<1>2. Shrinks(frames, asgn, frames', asgn', t, 0)
  BY <1>1, EditShrinks
<1>3. ~ IsSource(asgn, m) /\ ~ IsTarget(frames, m) /\ ~ IsAssigned(asgn, m)
  BY NewPointer
<1>4. \A u \in Threads : asgn[u] # << >> /\ frames'[u] # << >> => ~ frames'[u][1].failing
  BY <1>1 DEF Edited, Apart
<1>. QED  BY <1>2, <1>3, <1>4 DEF Stays, Edited

LEMMA MemberMade ==
  ASSUME TypeOK, TypeOK', Fits, NEW t \in Threads, MakeMember(t)
  PROVE  LET c == frames[t][1].block
             n == frames[t][1].made + 1
             m == <<c, n>>
         IN /\ NextMember(Head(frames[t])) = m /\ m \in Sptrs /\ Home(m) = c /\ m \notin alive
            /\ 1 \in 1..Len(frames[t]) /\ asgn[t] = << >>
            /\ Edited(t, n, FALSE)
            /\ HeapFits(frames', alive \cup {m}, heap, dying)
<1>. DEFINE c == frames[t][1].block
            n == frames[t][1].made + 1
            m == <<c, n>>
            f == [frames[t][1] EXCEPT !.made = frames[t][1].made + 1]
<1>1. frames[t] # << >> /\ asgn[t] = << >> /\ ~ Head(frames[t]).failing /\ Head(frames[t]).made < Slots
  BY DEF MakeMember, Constructing
<1>2. Head(frames[t]) = frames[t][1] /\ frames[t][1] \in Frame /\ 1 \in 1..Len(frames[t])
  BY <1>1, FrameFacts
<1>3. c \in Blocks /\ frames[t][1].made \in Nat /\ n \in 1..Slots /\ n \in 0..Slots
  BY <1>1, <1>2, SlotsAssumption DEF Frame
<1>4. f \in Frame /\ f.sptr = frames[t][1].sptr /\ f.block = c /\ f.made = n /\ f.failing = FALSE
  BY <1>1, <1>2, <1>3 DEF Frame
<1>5. frames' = [frames EXCEPT ![t] = [frames[t] EXCEPT ![1] = f]] /\ asgn' = asgn
  BY DEF MakeMember
<1>. HIDE DEF f
<1>6. Edited(t, n, FALSE)
  BY <1>1, <1>4, <1>5, EditCalls
<1>7. NextMember(Head(frames[t])) = m
  BY <1>2 DEF NextMember
<1>8. m \in Sptrs /\ Home(m) = c
  BY <1>3, MemberFacts, MemberHome
<1>9. /\ HeapFits(frames, alive, heap, dying) /\ Sized(frames')
  BY FitsParts, TypedNext
<1>10. HasMade(alive, c, frames[t][1].made)
  BY <1>2, <1>9 DEF HeapFits
<1>11. m \notin alive
  BY <1>3, <1>10 DEF HasMade
<1>12. HasMade(alive \cup {m}, c, n)
  <2>1. \A i \in 1..Slots : i <= n <=> i <= frames[t][1].made \/ i = n
    BY <1>3, SlotsAssumption
  <2>2. \A i \in 1..Slots : <<c, i>> = m <=> i = n
    OBVIOUS
  <2>. QED  BY <1>10, <2>1, <2>2 DEF HasMade
<1>13. \A b \in Blocks : \A i \in 1..Slots : b # c => (<<b, i>> \in alive \cup {m} <=> <<b, i>> \in alive)
  OBVIOUS
<1>14. HeapFits(frames', alive \cup {m}, heap, dying)
  BY <1>6, <1>9, <1>12, <1>13, EditedHeap
<1>. QED  BY <1>1, <1>2, <1>6, <1>7, <1>8, <1>11, <1>14

LEMMA MemberFits ==
  ASSUME TypeOK, TypeOK', Fits, NEW t, NEW m, Stays(t, m), m \notin alive,
         HeapFits(frames', alive', heap', dying')
  PROVE  Fits'
<1>1. Typed(frames, asgn, ptr, alive) /\ KeepsIn(frames, asgn, ptr, alive)
  BY FitsParts
<1>2. KeepsIn(frames', asgn', ptr', alive')
  BY <1>1, StaysKeeps
<1>3. Apart(frames', asgn', alive')
  BY StaysFacts
<1>. QED  BY <1>2, <1>3, FitsNext

LEMMA MakeMemberFits ==
  ASSUME TypeOK, TypeOK', Usage = {}, Fits, NEW v, Sees(v), NEW t \in Threads, MakeMember(t)
  PROVE  Fits' /\ \E x : Sends(v, x)
<1>. DEFINE c == frames[t][1].block
            n == frames[t][1].made + 1
            m == <<c, n>>
<1>1. /\ NextMember(Head(frames[t])) = m /\ m \in Sptrs /\ Home(m) = c /\ m \notin alive
      /\ 1 \in 1..Len(frames[t]) /\ asgn[t] = << >>
      /\ Edited(t, n, FALSE)
      /\ HeapFits(frames', alive \cup {m}, heap, dying)
  BY MemberMade
<1>. HIDE DEF c, n, m
<1>2. /\ alive' = alive \cup {m} /\ heap' = heap /\ asgn' = asgn /\ dying' = dying /\ graph' = graph
      /\ \/ /\ ptr' = [ptr EXCEPT ![m] = Null]
            /\ msgs' = Append(msgs, SptrRegistrationMsg(m))
            /\ keeper' = keeper
         \/ \E src \in Readable(t) :
              /\ MayStore(m, ptr[src])
              /\ ptr' = [ptr EXCEPT ![m] = ptr[src]]
              /\ msgs' = Append(msgs, SptrCopyRegistrationMsg(m, src))
              /\ Store(m, ptr[src])
  BY <1>1 DEF MakeMember, Send, gcVars
<1>3. \A y \in alive : ptr'[y] = ptr[y]
  BY <1>1, <1>2 DEF TypeOK
<1>4. Stays(t, m)
  BY <1>1, <1>2, <1>3, EditedStays
<1>5. Fits'
  BY <1>1, <1>2, <1>4, MemberFits
<1>6. DOMAIN v = alive /\ IsView(v)
  BY DEF Sees, Shows
<1>7. Reaches(v, m)
  BY <1>1, CallFacts DEF Reaches, c
<1>8. ~ IsTarget(frames, m) /\ ~ IsAssigned(asgn, m)
  BY <1>1, NewPointer
<1>9. CASE /\ ptr' = [ptr EXCEPT ![m] = Null]
           /\ msgs' = Append(msgs, SptrRegistrationMsg(m))
           /\ keeper' = keeper
  <2>. DEFINE x == SptrRegistrationMsg(m)
  <2>1. x \in Messages /\ x.type = "SptrRegistration" /\ x.sptr = m
    BY <1>1, MessageFacts, MessageParts
  <2>. HIDE DEF x
  <2>2. Allowed(v, x)
    BY <1>1, <1>6, <1>7, <2>1 DEF Allowed, Registering, Copying
  <2>3. NewTarget(v, x) = Null
    BY <2>1 DEF NewTarget
  <2>4. ptr'[m] = Null
    BY <1>1, <1>9 DEF TypeOK
  <2>5. msgs' = Append(msgs, x)
    BY <1>9 DEF x
  <2>6. Sends(v, x)
    BY <1>2, <1>4, <1>8, <1>9, <2>1, <2>2, <2>3, <2>4, <2>5, PlainSends DEF Plain
  <2>. QED  BY <1>5, <2>6
<1>10. ASSUME NEW src \in Readable(t), MayStore(m, ptr[src]), ptr' = [ptr EXCEPT ![m] = ptr[src]],
              msgs' = Append(msgs, SptrCopyRegistrationMsg(m, src)), Store(m, ptr[src])
       PROVE  \E x : Sends(v, x)
  <2>. DEFINE x == SptrCopyRegistrationMsg(m, src)
              b == ptr[src]
  <2>0. src \in Usable(t)
    BY DEF Readable
  <2>1. /\ src \in alive /\ src \in Sptrs /\ Reaches(v, src) /\ v[src] = b
        /\ v[src] # Null => heap[v[src]] # "raw"
    BY <2>0, UsableSees
  <2>2. x \in Messages /\ x.type = "SptrCopyRegistration" /\ x.sptr = m /\ x.other = src
    BY <1>1, <2>1, MessageFacts, MessageParts
  <2>3. b \in Blocks \cup {Null} /\ ptr'[m] = b
    BY <1>1, <1>10, <2>1 DEF TypeOK
  <2>4. msgs' = Append(msgs, x) /\ MayStore(m, b) /\ Store(m, b)
    BY <1>10
  <2>. HIDE DEF x, b
  <2>5. Without(v, m) = v
    BY <1>1, <1>6, WithoutNew
  <2>6. Allowed(v, x)
    BY <1>1, <1>6, <1>7, <2>1, <2>2, <2>5 DEF Allowed, Registering, Copying
  <2>7. NewTarget(v, x) = b
    BY <2>1, <2>2 DEF NewTarget
  <2>8. /\ \A s \in alive : v[s] # Null /\ Home(s) # Null => keeper'[v[s]] = keeper[v[s]]
        /\ b # Null /\ Home(m) # Null =>
              /\ keeper'[b] = Home(m) /\ b # Home(m)
              /\ \A s \in DOMAIN v : Home(s) # Null /\ v[s] = b => Home(s) = Home(m)
    BY <2>3, <2>4, StoreSays
  <2>9. Sends(v, x)
    BY <1>2, <1>4, <1>8, <2>1, <2>2, <2>3, <2>4, <2>6, <2>7, <2>8, PlainSends DEF Plain
  <2>. QED  BY <2>9
<1>. QED  BY <1>2, <1>5, <1>9, <1>10

LEMMA ThrowFits ==
  ASSUME TypeOK, TypeOK', Fits, NEW views, Seen(views), NEW t \in Threads, Throw(t)
  PROVE  Fits' /\ \E views2 : Seen(views2)'
<1>. DEFINE f == [frames[t][1] EXCEPT !.failing = TRUE]
            n == frames[t][1].made
            v == views[Len(msgs)]
<1>1. /\ frames[t] # << >> /\ asgn[t] = << >>
      /\ frames' = [frames EXCEPT ![t] = [frames[t] EXCEPT ![1] = f]]
      /\ ptr' = ptr /\ alive' = alive /\ heap' = heap /\ asgn' = asgn /\ msgs' = msgs
      /\ dying' = dying /\ graph' = graph /\ keeper' = keeper
  BY DEF Throw, Constructing, gcVars
<1>2. /\ f \in Frame /\ f.sptr = frames[t][1].sptr /\ f.block = frames[t][1].block
      /\ f.made = n /\ f.failing = TRUE
  BY <1>1, FrameFacts DEF Frame
<1>. HIDE DEF f
<1>3. Edited(t, n, TRUE)
  BY <1>1, <1>2, EditCalls
<1>4. /\ Typed(frames, asgn, ptr, alive) /\ Apart(frames, asgn, alive) /\ Sized(frames)
      /\ HeapFits(frames, alive, heap, dying) /\ Sized(frames')
  BY FitsParts, TypedNext
<1>5. \A u \in Threads : asgn[u] # << >> /\ frames'[u] # << >> => ~ frames'[u][1].failing
  BY <1>1, <1>3, <1>4 DEF Edited, Apart
<1>0. PICK z : z \notin Sptrs
  BY NoSetContainsEverything
<1>6. ~ IsSource(asgn, z) /\ z \notin alive /\ ~ IsTarget(frames, z) /\ ~ IsAssigned(asgn, z)
  BY <1>0, <1>4 DEF Typed, Apart, IsSource, IsTarget, IsAssigned
<1>7. Shrinks(frames, asgn, frames', asgn', t, 0)
  BY <1>3, <1>4, EditShrinks
<1>8. Stays(t, z)
  BY <1>1, <1>5, <1>6, <1>7 DEF Stays
<1>9. \A x \in alive : LeadsIn(frames', asgn', ptr', x) = LeadsIn(frames, asgn, ptr, x)
  BY <1>6, <1>8, StaysLeads
<1>10. /\ Apart(frames', asgn', alive')
       /\ \A b : IsBuilt(frames', b) <=> IsBuilt(frames, b)
       /\ \A x, b : HasFrame(frames', x, b) <=> HasFrame(frames, x, b)
  BY <1>8, StaysFacts
<1>11. KeepsIn(frames', asgn', ptr', alive')
  BY <1>1, <1>7, <1>9, <1>10, SilentKeeps
<1>12. HasMade(alive, frames[t][1].block, n)
  BY <1>3, <1>4 DEF Edited, HeapFits
<1>13. HeapFits(frames', alive, heap, dying)
  BY <1>3, <1>4, <1>12, EditedHeap
<1>14. Fits'
  BY <1>1, <1>10, <1>11, <1>13, FitsNext
<1>15. Steady(heap, Building, heap', Building')
  BY <1>1, <1>10, StateFacts, NextBuilding DEF Steady
<1>16. Sees(v)
  BY SeenFacts
<1>. HIDE DEF v
<1>17. Shows(v, frames', asgn', ptr', alive', heap', keeper')
  BY <1>1, <1>9, <1>10, <1>15, <1>16, SilentShows
<1>18. \E views2 : Seen(views2)'
  BY <1>1, <1>15, <1>17, SilentSeen DEF v
<1>. QED  BY <1>14, <1>18

(* The pointers of an object that is under construction are in no call. *)
LEMMA BuiltMembers ==
  ASSUME Fits, NEW t \in Threads, 1 \in 1..Len(frames[t]), asgn[t] = << >>,
         NEW m, Home(m) = frames[t][1].block
  PROVE  ~ IsTarget(frames, m) /\ ~ IsAssigned(asgn, m) /\ ~ IsSource(asgn, m)
<1>1. Apart(frames, asgn, alive) /\ Sized(frames)
  BY FitsParts
<1>2. ASSUME NEW u \in Threads, NEW i \in 1..Len(frames[u]) PROVE frames[u][i].sptr # m
  <2>1. ~ IsUnsure(frames, u, i, Home(frames[u][i].sptr)) /\ 1 <= i
    BY <1>1 DEF Apart, Sized
  <2>2. IsUnsure(frames, u, i, frames[t][1].block)
    BY <2>1 DEF IsUnsure
  <2>. QED  BY <2>1, <2>2
<1>3. ASSUME NEW u \in Threads, asgn[u] # << >> PROVE asgn[u][1] # m /\ asgn[u][2] # m
  <2>1. ~ IsUnsure(frames, u, 0, Home(asgn[u][1])) /\ ~ IsUnsure(frames, u, 0, Home(asgn[u][2])) /\ u # t
    BY <1>1, <1>3 DEF Apart
  <2>2. IsUnsure(frames, u, 0, frames[t][1].block)
    BY <2>1 DEF IsUnsure
  <2>. QED  BY <2>1, <2>2
<1>. QED  BY <1>2, <1>3 DEF IsTarget, IsAssigned, IsSource

LEMMA UnmakeMemberFits ==
  ASSUME TypeOK, TypeOK', Fits, NEW v, Sees(v), NEW t \in Threads, UnmakeMember(t)
  PROVE  Fits' /\ \E x : Sends(v, x)
<1>. DEFINE c == frames[t][1].block
            k == frames[t][1].made
            m == <<c, k>>
            f == [frames[t][1] EXCEPT !.made = frames[t][1].made - 1]
            x == SptrUnregistrationMsg(m)
<1>1. frames[t] # << >> /\ Head(frames[t]).failing /\ Head(frames[t]).made > 0
  BY DEF UnmakeMember
<1>2. Head(frames[t]) = frames[t][1] /\ frames[t][1] \in Frame /\ 1 \in 1..Len(frames[t])
  BY <1>1, FrameFacts
<1>3. c \in Blocks /\ k \in 1..Slots /\ k - 1 \in 0..Slots
  BY <1>1, <1>2, SlotsAssumption DEF Frame
<1>4. m \in Sptrs /\ Home(m) = c
  BY <1>3, MemberFacts, MemberHome
<1>5. f \in Frame /\ f.sptr = frames[t][1].sptr /\ f.block = c /\ f.made = k - 1 /\ f.failing = TRUE
  BY <1>1, <1>2, <1>3 DEF Frame
<1>6. /\ alive' = alive \ {m} /\ ptr' = [ptr EXCEPT ![m] = Null]
      /\ msgs' = Append(msgs, x)
      /\ frames' = [frames EXCEPT ![t] = [frames[t] EXCEPT ![1] = f]]
      /\ heap' = heap /\ asgn' = asgn /\ dying' = dying /\ graph' = graph /\ keeper' = keeper
  BY <1>2 DEF UnmakeMember, Send, gcVars
<1>7. x \in Messages /\ x.type = "SptrUnregistration" /\ x.sptr = m
  BY <1>4, MessageFacts, MessageParts
<1>. HIDE DEF f, x
<1>8. Edited(t, k - 1, TRUE)
  BY <1>1, <1>5, <1>6, EditCalls
<1>9. /\ Typed(frames, asgn, ptr, alive) /\ Apart(frames, asgn, alive) /\ Sized(frames)
      /\ HeapFits(frames, alive, heap, dying) /\ Sized(frames') /\ KeepsIn(frames, asgn, ptr, alive)
      /\ Typed(frames', asgn', ptr', alive')
  BY FitsParts, TypedNext
<1>10. asgn[t] = << >>
  BY <1>1, <1>2, <1>9 DEF Apart
<1>11. ~ IsTarget(frames, m) /\ ~ IsAssigned(asgn, m) /\ ~ IsSource(asgn, m)
  BY <1>2, <1>4, <1>10, BuiltMembers
<1>12. Shrinks(frames, asgn, frames', asgn', t, 0)
  BY <1>8, <1>9, EditShrinks
<1>13. \A y \in alive : y # m => y \in alive' /\ ptr'[y] = ptr[y]
  BY <1>6 DEF TypeOK
<1>14. \A u \in Threads : asgn[u] # << >> /\ frames'[u] # << >> => ~ frames'[u][1].failing
  BY <1>8, <1>9, <1>10 DEF Edited, Apart
<1>15. Stays(t, m)
  BY <1>6, <1>11, <1>12, <1>13, <1>14 DEF Stays
<1>16. Apart(frames', asgn', alive')
  BY <1>15, StaysFacts
<1>17. HasMade(alive, c, k)
  BY <1>2, <1>9 DEF HeapFits
<1>18. m \in alive
  BY <1>3, <1>17 DEF HasMade
<1>19. KeepsIn(frames', asgn', ptr', alive')
  <2>1. \A y \in alive : y # m => LeadsIn(frames', asgn', ptr', y) = LeadsIn(frames, asgn, ptr, y)
    BY <1>15, StaysLeads
  <2>2. GoesOn(frames, asgn, ptr, alive, frames', asgn', ptr', alive', c)
    BY <1>3, <1>4, <1>13, <2>1, NullAssumption DEF GoesOn
  <2>3. /\ alive \subseteq alive /\ t \in Threads
        /\ c # Null => 1 \in 1..Len(frames[t]) /\ frames[t][1].block = c /\ asgn[t] = << >>
    BY <1>2, <1>10
  <2>. HIDE DEF c
  <2>. QED  BY ONLY <1>9, <1>12, <1>16, <2>2, <2>3, KeepsShrink
<1>20. HeapFits(frames', alive', heap', dying')
  <2>1. \A i \in 1..Slots : i <= k - 1 <=> i <= k /\ i # k
    BY <1>3, SlotsAssumption
  <2>2. \A i \in 1..Slots : <<c, i>> \in alive' <=> <<c, i>> \in alive /\ i # k
    BY <1>6
  <2>3. HasMade(alive', c, k - 1)
    BY <1>17, <2>1, <2>2 DEF HasMade
  <2>4. \A b \in Blocks : \A i \in 1..Slots : b # c => (<<b, i>> \in alive' <=> <<b, i>> \in alive)
    BY <1>6
  <2>. QED  BY <1>6, <1>8, <1>9, <2>3, <2>4, EditedHeap
<1>21. Fits'
  BY <1>16, <1>19, <1>20, FitsNext
<1>. HIDE DEF m
<1>22. DOMAIN v = alive
  BY DEF Sees, Shows
<1>23. Allowed(v, x)
  BY <1>7, <1>18, <1>22 DEF Allowed, Registering, Copying
<1>24. NewTarget(v, x) = Null
  BY <1>7 DEF NewTarget
<1>25. \A s : s \in alive' <=> (s \in alive /\ s # x.sptr) \/ (s = x.sptr /\ x.type # "SptrUnregistration")
  BY <1>6, <1>7
<1>26. Sends(v, x)
  BY <1>6, <1>7, <1>11, <1>15, <1>23, <1>24, <1>25, PlainSends DEF Plain
<1>. QED  BY <1>21, <1>26

(* The innermost call of a thread is over, and changes its pointer. *)
Returns(t) ==
  /\ t \in Threads /\ 1 \in 1..Len(frames[t]) /\ asgn[t] = << >>
  /\ asgn' = asgn /\ alive' = alive /\ dying' = dying
  /\ \A u \in Threads : u # t => frames'[u] = frames[u]
  /\ Len(frames[t]) = Len(frames'[t]) + 1
  /\ \A i \in 1..Len(frames'[t]) :
       /\ frames'[t][i].sptr = frames[t][i + 1].sptr /\ frames'[t][i].block = frames[t][i + 1].block
       /\ frames'[t][i].made = frames[t][i + 1].made
  /\ \A s \in alive : s # frames[t][1].sptr => ptr'[s] = ptr[s]

ReturnsThus(t) ==
  LET s == frames[t][1].sptr
      c == frames[t][1].block
  IN /\ Shrinks(frames, asgn, frames', asgn', t, 1) /\ Apart(frames', asgn', alive')
     /\ s \in alive /\ c \in Blocks /\ heap[c] = "raw" /\ HasMade(alive, c, frames[t][1].made)
     /\ \A x \in alive : x # s => LeadsIn(frames', asgn', ptr', x) = LeadsIn(frames, asgn, ptr, x)
     /\ LeadsIn(frames, asgn, ptr, s) = c /\ LeadsIn(frames', asgn', ptr', s) = ptr'[s]
     /\ ~ IsBuilt(frames', c) /\ IsBuilt(frames, c) /\ HasFrame(frames, s, c)
     /\ \A b : b # c => (IsBuilt(frames', b) <=> IsBuilt(frames, b))
     /\ \A x, b : HasFrame(frames, x, b) => HasFrame(frames', x, b) \/ (x = s /\ b = c)
     /\ \A u \in Threads : \A k \in 1..Len(frames'[u]) :
          /\ frames'[u][k].block # c
          /\ heap[frames'[u][k].block] = "raw" /\ HasMade(alive, frames'[u][k].block, frames'[u][k].made)

LEMMA ReturnFacts ==
  ASSUME TypeOK', Fits, NEW t, Returns(t)
  PROVE  ReturnsThus(t)
<1>. DEFINE s == frames[t][1].sptr
            c == frames[t][1].block
<1>1. /\ Typed(frames, asgn, ptr, alive) /\ Apart(frames, asgn, alive) /\ Sized(frames)
      /\ HeapFits(frames, alive, heap, dying) /\ Sized(frames')
  BY FitsParts, TypedNext
<1>2. /\ t \in Threads /\ 1 \in 1..Len(frames[t]) /\ s \in alive /\ c \in Blocks /\ heap[c] = "raw"
      /\ HasMade(alive, c, frames[t][1].made) /\ IsBuilt(frames, c) /\ HasFrame(frames, s, c)
      /\ IsTarget(frames, s)
  BY <1>1 DEF Returns, Apart, Typed, HeapFits, IsBuilt, HasFrame, IsTarget
<1>3. Shrinks(frames, asgn, frames', asgn', t, 1)
  BY DEF Returns, Shrinks
<1>4. Within(frames, asgn, frames', asgn', t, 1)
  BY ONLY <1>1, <1>2, <1>3, ShrinkFacts
<1>5. Apart(frames', asgn', alive')
  <2>1. \A x : IsTarget(frames', x) \/ IsAssigned(asgn', x) \/ IsSource(asgn', x) => x \in alive'
    <3>1. \A x : IsTarget(frames, x) \/ IsAssigned(asgn, x) \/ IsSource(asgn, x) => x \in alive
      BY <1>1 DEF Apart, IsTarget, IsAssigned, IsSource
    <3>. QED  BY <1>4, <3>1 DEF Within, Returns
  <2>2. \A u \in Threads : asgn'[u] # << >> /\ frames'[u] # << >> => ~ frames'[u][1].failing
    BY <1>1 DEF Apart, Returns
  <2>. QED  BY ONLY <1>1, <1>2, <1>3, <2>1, <2>2, ApartShrink
<1>6. /\ ~ IsBuilt(frames', c) /\ ~ IsTarget(frames', s)
      /\ \A x, b : HasFrame(frames, x, b) => HasFrame(frames', x, b) \/ (x = s /\ b = c)
  BY ONLY <1>1, <1>2, <1>3, EndedCall
<1>7. \A x : IsTarget(frames, x) /\ x # s => IsTarget(frames', x)
  <2>. SUFFICES ASSUME NEW x, IsTarget(frames, x), x # s PROVE IsTarget(frames', x)
    OBVIOUS
  <2>1. \E b : HasFrame(frames, x, b)
    BY DEF IsTarget, HasFrame
  <2>2. \E b : HasFrame(frames', x, b)
    BY <1>6, <2>1
  <2>. QED  BY <2>2 DEF IsTarget, HasFrame
<1>8. \A b : b # c => (IsBuilt(frames', b) <=> IsBuilt(frames, b))
  <2>1. \A b : IsBuilt(frames', b) => IsBuilt(frames, b)
    BY <1>4 DEF Within
  <2>2. \A b : IsBuilt(frames, b) /\ b # c => IsBuilt(frames', b)
    <3>. SUFFICES ASSUME NEW b, IsBuilt(frames, b), b # c PROVE IsBuilt(frames', b)
      OBVIOUS
    <3>1. \E x : HasFrame(frames, x, b)
      BY DEF IsBuilt, HasFrame
    <3>2. \E x : HasFrame(frames', x, b)
      BY <1>6, <3>1
    <3>. QED  BY <3>2 DEF IsBuilt, HasFrame
  <2>. QED  BY <2>1, <2>2
<1>9. ~ IsAssigned(asgn, s) /\ ~ IsSource(asgn, s)
  BY <1>1, <1>2 DEF Apart, IsAssigned, IsSource
<1>10. \A x \in alive : x # s => LeadsIn(frames', asgn', ptr', x) = LeadsIn(frames, asgn, ptr, x)
  <2>1. Steps(frames, asgn, alive, frames', asgn', alive', t, 1)
    BY <1>1, <1>2, <1>3, <1>5 DEF Steps
  <2>2. Alters(asgn', alive, ptr, ptr', s)
    BY <1>9 DEF Returns, Alters
  <2>3. Alike(frames, asgn, ptr, alive, frames', asgn', ptr', s)
    BY ONLY <2>1, <2>2, LeadsBut
  <2>4. \A x : x # s => Persists(frames, asgn, frames', asgn', x)
    BY <1>7 DEF Persists, Returns
  <2>. QED  BY <2>3, <2>4 DEF Alike
<1>11. LeadsIn(frames, asgn, ptr, s) = c
  <2>1. LeadsRight(frames, asgn, ptr)
    BY ONLY <1>1, LeadsFacts
  <2>. QED  BY <1>2, <2>1 DEF LeadsRight
<1>12. LeadsIn(frames', asgn', ptr', s) = ptr'[s]
  <2>1. LeadsRight(frames', asgn', ptr')
    BY ONLY <1>5, LeadsFacts
  <2>2. asgn' = asgn
    BY DEF Returns
  <2>. QED  BY <1>6, <1>9, <2>1, <2>2 DEF LeadsRight
<1>13. ASSUME NEW u \in Threads, NEW k \in 1..Len(frames'[u])
       PROVE  /\ frames'[u][k].block # c
              /\ heap[frames'[u][k].block] = "raw" /\ HasMade(alive, frames'[u][k].block, frames'[u][k].made)
  <2>1. frames'[u][k].block # c
    BY <1>6 DEF IsBuilt
  <2>2. Call2(t, u, k, 1) \in 1..Len(frames[u])
    BY <1>4 DEF Within
  <2>3. /\ frames'[u][k].block = frames[u][Call2(t, u, k, 1)].block
        /\ frames'[u][k].made = frames[u][Call2(t, u, k, 1)].made
    BY DEF Returns, Call2
  <2>. QED  BY <1>1, <2>1, <2>2, <2>3 DEF HeapFits
<1>. QED  BY <1>2, <1>3, <1>5, <1>6, <1>8, <1>10, <1>11, <1>12, <1>13 DEF ReturnsThus

LEMMA TailReturns ==
  ASSUME TypeOK, NEW t \in Threads, frames[t] # << >>
  PROVE  /\ 1 \in 1..Len(frames[t]) /\ Len(frames[t]) = Len(Tail(frames[t])) + 1
         /\ \A i \in 1..Len(Tail(frames[t])) : Tail(frames[t])[i] = frames[t][i + 1]
<1>1. frames[t] \in Seq(Frame) /\ 1 \in 1..Len(frames[t]) /\ Len(frames[t]) \in Nat
      /\ Len(Tail(frames[t])) = Len(frames[t]) - 1
  BY FrameFacts
<1>2. \A i \in 1..Len(Tail(frames[t])) : Tail(frames[t])[i] = frames[t][i + 1]
  BY <1>1, HeadTailProperties
<1>. QED  BY <1>1, <1>2

LEMMA HasEndFits ==
  ASSUME TypeOK, TypeOK', Fits, NEW views, Seen(views), NEW t \in Threads, HasEnd(t)
  PROVE  Fits' /\ \E views2 : Seen(views2)'
<1>. DEFINE s == frames[t][1].sptr
            c == frames[t][1].block
            v == views[Len(msgs)]
<1>1. /\ frames[t] # << >> /\ asgn[t] = << >>
      /\ Head(frames[t]).made = Slots
  BY DEF HasEnd, Ready, InBody
<1>2. Head(frames[t]) = frames[t][1] /\ frames[t][1] \in Frame
  BY <1>1, FrameFacts
<1>3. s \in Sptrs /\ c \in Blocks /\ frames[t][1].made = Slots
  BY <1>1, <1>2 DEF Frame
<1>4. /\ ptr' = [ptr EXCEPT ![s] = c] /\ heap' = [heap EXCEPT ![c] = "live"]
      /\ frames' = [frames EXCEPT ![t] = Tail(frames[t])]
      /\ alive' = alive /\ asgn' = asgn /\ msgs' = msgs
      /\ dying' = dying /\ graph' = graph /\ keeper' = keeper
  BY <1>2 DEF HasEnd, gcVars
<1>5. /\ ptr'[s] = c /\ \A x : x # s => ptr'[x] = ptr[x]
  BY <1>3, <1>4 DEF TypeOK
<1>6. heap'[c] = "live" /\ \A b : b # c => heap'[b] = heap[b]
  BY <1>3, <1>4 DEF TypeOK
<1>7. frames'[t] = Tail(frames[t]) /\ \A u \in Threads : u # t => frames'[u] = frames[u]
  BY <1>4 DEF TypeOK
<1>8. Returns(t)
  BY <1>1, <1>4, <1>5, <1>7, TailReturns DEF Returns
<1>9. ReturnsThus(t)
  BY <1>8, ReturnFacts
<1>10. \A x \in alive : LeadsIn(frames', asgn', ptr', x) = LeadsIn(frames, asgn, ptr, x)
  BY <1>5, <1>9 DEF ReturnsThus
<1>11. KeepsIn(frames', asgn', ptr', alive')
  <2>1. Shrinks(frames, asgn, frames', asgn', t, 1) /\ Apart(frames', asgn', alive') /\ alive' = alive
    BY <1>4, <1>9 DEF ReturnsThus
  <2>. QED  BY <1>10, <2>1, SilentKeeps
<1>12. HeapFits(frames, alive, heap, dying)
  BY FitsParts
<1>13. HeapFits(frames', alive', heap', dying')
  <2>1. \A u \in Threads : \A k \in 1..Len(frames'[u]) :
          heap'[frames'[u][k].block] = "raw" /\ HasMade(alive, frames'[u][k].block, frames'[u][k].made)
    BY <1>6, <1>9 DEF ReturnsThus
  <2>2. heap[c] = "raw" /\ HasMade(alive, c, Slots) /\ \A b : b # c => (IsBuilt(frames', b) <=> IsBuilt(frames, b))
    BY <1>3, <1>9 DEF ReturnsThus
  <2>3. ASSUME NEW b \in Blocks
        PROVE  /\ heap'[b] = "live" => HasMade(alive, b, Slots)
               /\ heap'[b] = "raw" /\ ~ IsBuilt(frames', b) => HasMade(alive, b, 0)
               /\ heap'[b] = "free" => HasMade(alive, b, 0)
               /\ heap'[b] \in {"destroyed", "dropped"} => b = dying.block
    <3>1. CASE b = c
      BY <1>6, <2>2, <3>1
    <3>2. CASE b # c
      BY <1>6, <1>12, <2>2, <3>2 DEF HeapFits
    <3>. QED  BY <3>1, <3>2
  <2>4. dying.block # Null => heap'[dying.block] \in {"destroyed", "dropped"} /\ HasMade(alive, dying.block, dying.left)
    BY <1>6, <1>12, <2>2 DEF HeapFits
  <2>5. HeapFits(frames', alive, heap', dying)
    BY <2>1, <2>3, <2>4 DEF HeapFits
  <2>. QED  BY <1>4, <2>5
<1>14. Fits'
  BY <1>9, <1>11, <1>13, FitsNext DEF ReturnsThus
<1>15. Steady(heap, Building, heap', Building')
  <2>1. heap[c] = "raw" /\ IsBuilt(frames, c) /\ \A b : b # c => (IsBuilt(frames', b) <=> IsBuilt(frames, b))
    BY <1>9 DEF ReturnsThus
  <2>. QED  BY <1>6, <2>1, StateFacts, NextBuilding DEF Steady
<1>16. Sees(v)
  BY SeenFacts
<1>. HIDE DEF v
<1>17. Shows(v, frames', asgn', ptr', alive', heap', keeper')
  <2>1. \A x, b : HasFrame(frames, x, b) /\ heap'[b] = "raw" => HasFrame(frames', x, b)
    BY <1>6, <1>9 DEF ReturnsThus
  <2>. QED  BY <1>4, <1>10, <1>15, <1>16, <2>1, SilentShows
<1>18. \E views2 : Seen(views2)'
  BY <1>4, <1>15, <1>17, SilentSeen DEF v
<1>. QED  BY <1>14, <1>18

LEMMA HasAbortFits ==
  ASSUME TypeOK, TypeOK', Fits, NEW v, Sees(v), NEW t \in Threads, HasAbort(t)
  PROVE  Fits' /\ \E x : Sends(v, x)
<1>. DEFINE s == frames[t][1].sptr
            c == frames[t][1].block
            rest == Tail(frames[t])
            m == AbortedObjectMsg(s)
<1>1. frames[t] # << >> /\ Head(frames[t]).failing /\ Head(frames[t]).made = 0
  BY DEF HasAbort
<1>2. Head(frames[t]) = frames[t][1] /\ frames[t][1] \in Frame /\ rest \in Seq(Frame)
      /\ Len(frames[t]) \in Nat /\ Len(rest) = Len(frames[t]) - 1
  BY <1>1, FrameFacts
<1>3. s \in Sptrs /\ c \in Blocks /\ frames[t][1].made = 0 /\ frames[t][1].failing
  BY <1>1, <1>2 DEF Frame
<1>4. /\ ptr' = [ptr EXCEPT ![s] = Null] /\ msgs' = Append(msgs, m)
      /\ alive' = alive /\ heap' = heap /\ asgn' = asgn
      /\ dying' = dying /\ graph' = graph /\ keeper' = keeper
  BY <1>2 DEF HasAbort, Send, gcVars
<1>5. \/ frames' = [frames EXCEPT ![t] = rest]
      \/ /\ Len(frames[t]) # 1
         /\ frames' = [frames EXCEPT ![t] = [rest EXCEPT ![1] = [rest[1] EXCEPT !.failing = TRUE]]]
  BY DEF HasAbort
<1>6. m \in Messages /\ m.type = "AbortedObject" /\ m.sptr = s
  BY <1>3, MessageFacts, MessageParts
<1>. HIDE DEF m
<1>7. /\ ptr'[s] = Null /\ \A x : x # s => ptr'[x] = ptr[x]
  BY <1>3, <1>4 DEF TypeOK
<1>8. asgn[t] = << >>
  BY <1>1, <1>3, FitsParts DEF Apart
<1>9. /\ 1 \in 1..Len(frames[t]) /\ Len(frames[t]) = Len(rest) + 1
      /\ \A i \in 1..Len(rest) : rest[i] = frames[t][i + 1]
  BY <1>1, TailReturns
<1>. HIDE DEF rest
<1>10. /\ Len(frames'[t]) = Len(rest) /\ \A u \in Threads : u # t => frames'[u] = frames[u]
       /\ \A i \in 1..Len(rest) :
            /\ frames'[t][i].sptr = rest[i].sptr /\ frames'[t][i].block = rest[i].block
            /\ frames'[t][i].made = rest[i].made
  <2>1. CASE frames' = [frames EXCEPT ![t] = rest]
    BY <2>1 DEF TypeOK
  <2>2. CASE /\ Len(frames[t]) # 1
             /\ frames' = [frames EXCEPT ![t] = [rest EXCEPT ![1] = [rest[1] EXCEPT !.failing = TRUE]]]
    <3>. DEFINE outer == [rest[1] EXCEPT !.failing = TRUE]
                q == [rest EXCEPT ![1] = outer]
    <3>1. 1 \in 1..Len(rest)
      <4>1. Len(frames[t]) # 1
        BY <2>2
      <4>2. Len(frames[t]) \in Nat /\ 1 \in 1..Len(frames[t]) /\ Len(rest) = Len(frames[t]) - 1
        BY <1>2, <1>9
      <4>3. \A k, l \in Nat : k # 1 /\ 1 \in 1..k /\ l = k - 1 => 1 \in 1..l
        OBVIOUS
      <4>4. Len(rest) \in Nat
        BY <1>2, LenProperties
      <4>. QED  BY <4>1, <4>2, <4>3, <4>4
    <3>2. rest[1] \in Frame
      BY <1>2, <3>1
    <3>3. outer \in Frame /\ outer.sptr = rest[1].sptr /\ outer.block = rest[1].block /\ outer.made = rest[1].made
      BY <3>2 DEF Frame
    <3>. HIDE DEF outer
    <3>4. Len(q) = Len(rest) /\ \A i \in 1..Len(rest) : q[i] = IF i = 1 THEN outer ELSE rest[i]
      BY <1>2, <3>1, <3>3, ExceptSeq
    <3>. HIDE DEF q
    <3>5. frames'[t] = q /\ \A u \in Threads : u # t => frames'[u] = frames[u]
      BY <2>2 DEF q, outer, TypeOK
    <3>. QED  BY <3>3, <3>4, <3>5
  <2>. QED  BY <1>5, <2>1, <2>2
<1>11. Returns(t)
  BY <1>4, <1>7, <1>8, <1>9, <1>10 DEF Returns
<1>12. ReturnsThus(t)
  BY <1>11, ReturnFacts
<1>13. /\ Shrinks(frames, asgn, frames', asgn', t, 1) /\ Apart(frames', asgn', alive')
       /\ s \in alive /\ heap[c] = "raw" /\ HasMade(alive, c, 0)
       /\ \A x \in alive : x # s => LeadsIn(frames', asgn', ptr', x) = LeadsIn(frames, asgn, ptr, x)
       /\ LeadsIn(frames, asgn, ptr, s) = c /\ LeadsIn(frames', asgn', ptr', s) = Null
       /\ ~ IsBuilt(frames', c) /\ HasFrame(frames, s, c)
       /\ \A b : b # c => (IsBuilt(frames', b) <=> IsBuilt(frames, b))
       /\ \A x, b : HasFrame(frames, x, b) => HasFrame(frames', x, b) \/ (x = s /\ b = c)
       /\ \A u \in Threads : \A k \in 1..Len(frames'[u]) :
            heap[frames'[u][k].block] = "raw" /\ HasMade(alive, frames'[u][k].block, frames'[u][k].made)
  BY <1>3, <1>7, <1>12 DEF ReturnsThus
<1>14. /\ Typed(frames, asgn, ptr, alive) /\ Apart(frames, asgn, alive) /\ Sized(frames)
       /\ HeapFits(frames, alive, heap, dying) /\ KeepsIn(frames, asgn, ptr, alive)
       /\ Typed(frames', asgn', ptr', alive')
  BY FitsParts, TypedNext
<1>15. KeepsIn(frames', asgn', ptr', alive')
  <2>1. GoesOn(frames, asgn, ptr, alive, frames', asgn', ptr', alive', c)
    BY <1>4, <1>13 DEF GoesOn
  <2>2. /\ alive \subseteq alive /\ t \in Threads /\ Shrinks(frames, asgn, frames', asgn', t, 1)
        /\ Apart(frames', asgn', alive')
        /\ c # Null => 1 \in 1..Len(frames[t]) /\ frames[t][1].block = c /\ asgn[t] = << >>
    BY <1>8, <1>9, <1>13
  <2>. HIDE DEF c
  <2>. QED  BY ONLY <1>14, <2>1, <2>2, KeepsShrink
<1>16. HeapFits(frames', alive', heap', dying')
  <2>1. HeapFits(frames', alive, heap, dying)
    BY <1>13, <1>14 DEF HeapFits
  <2>. QED  BY <1>4, <2>1
<1>17. Fits'
  BY <1>13, <1>15, <1>16, FitsNext
<1>18. DOMAIN v = alive /\ IsView(v) /\ OneKeeper(v)
  BY DEF Sees, Shows
<1>19. v[s] = c /\ c # Null
  BY <1>9, CallFacts
<1>20. Allowed(v, m)
  BY <1>6, <1>13, <1>18 DEF Allowed, Registering, Copying
<1>21. NewTarget(v, m) = Null
  BY <1>6 DEF NewTarget
<1>22. Steady(heap, Building, heap', Building')
  <2>1. \A b : IsBuilt(frames', b) => IsBuilt(frames, b)
    BY <1>13
  <2>. QED  BY <1>4, <2>1, StateFacts, NextBuilding DEF Steady
<1>23. Aborts(v, m, heap', Building')
  <2>1. ASSUME NEW x \in DOMAIN v, x # s, v[x] = c PROVE FALSE
    <3>1. HasFrame(frames, x, c)
      BY <1>13, <1>18, <1>19, <2>1 DEF Sees, Shows
    <3>2. PICK u \in Threads : \E i \in 1..Len(frames[u]) : frames[u][i].sptr = x /\ frames[u][i].block = c
      BY <3>1 DEF HasFrame
    <3>3. PICK i \in 1..Len(frames[u]) : frames[u][i].sptr = x /\ frames[u][i].block = c
      BY <3>2
    <3>4. u = t /\ i = 1
      BY <1>9, <1>14, <3>3 DEF Apart
    <3>. QED  BY <2>1, <3>3, <3>4
  <2>2. c \notin Building'
    BY <1>13, NextBuilding
  <2>. QED  BY <1>4, <1>6, <1>13, <1>18, <1>19, <2>1, <2>2 DEF Aborts
<1>24. Says(v, m, frames, asgn, ptr, alive, heap, keeper, frames', asgn', ptr', alive', heap', keeper')
  <2>1. \A x : x \in alive' <=> (x \in alive /\ x # m.sptr) \/ (x = m.sptr /\ m.type # "SptrUnregistration")
    BY <1>4, <1>6, <1>13
  <2>2. ASSUME NEW x \in alive, x # m.sptr
        PROVE  /\ LeadsIn(frames', asgn', ptr', x) = LeadsIn(frames, asgn, ptr, x)
               /\ HasFrame(frames, x, v[x]) => HasFrame(frames', x, v[x])
    BY <1>6, <1>13, <2>2
  <2>. QED  BY <1>4, <1>6, <1>13, <1>21, <2>1, <2>2 DEF Says
<1>25. Sends(v, m)
  <2>1. OneKeeper(After(v, m))
    BY <1>6, <1>18, <1>20, <1>21, KeeperAfter
  <2>2. Sendable(v, m, heap)
    BY <1>6, <1>20, <2>1 DEF Sendable
  <2>. QED  BY <1>4, <1>6, <1>22, <1>23, <1>24, <2>2 DEF Sends
<1>. QED  BY <1>17, <1>25

-----------------------------------------------------------------------------
(* The steps of the client, one by one. *)
LEMMA CallSafety ==
  ASSUME TypeOK, TypeOK', Usage = {}, Fits, NEW v, Sees(v), NEW t \in Threads, Call(t)
  PROVE  Fits' /\ \E m : Sends(v, m)
<1>1. ASSUME NEW r \in Roots, Construct(t, r) PROVE Fits' /\ \E m : Sends(v, m)
  BY <1>1, ConstructFits
<1>2. ASSUME NEW r \in Roots, Destroy(t, r) PROVE Fits' /\ \E m : Sends(v, m)
  BY <1>2, DestroyFits
<1>3. CASE UsePointers(t)
  <2>1. ASSUME NEW r \in Roots, NEW src \in Readable(t), ConstructCopy(t, r, src)
        PROVE  Fits' /\ \E m : Sends(v, m)
    BY <2>1, ConstructCopyFits
  <2>2. ASSUME NEW dst \in Usable(t), NEW src \in Readable(t), Assign(t, dst, src)
        PROVE  Fits' /\ \E m : Sends(v, m)
    BY <2>2, AssignFits
  <2>3. ASSUME NEW s \in Usable(t), Reset(t, s) PROVE Fits' /\ \E m : Sends(v, m)
    BY <2>3, ResetFits
  <2>4. ASSUME NEW s \in Usable(t), NEW b \in Blocks, Has(t, s, b) PROVE Fits' /\ \E m : Sends(v, m)
    BY <2>4, HasFits
  <2>. QED  BY <1>3, <2>1, <2>2, <2>3, <2>4 DEF UsePointers
<1>4. CASE MakeMember(t) \/ UnmakeMember(t) \/ HasAbort(t)
  BY <1>4, MakeMemberFits, UnmakeMemberFits, HasAbortFits
<1>. QED  BY <1>1, <1>2, <1>3, <1>4 DEF Call

LEMMA ClientSees ==
  ASSUME TypeOK, TypeOK', Usage = {}, Fits, NEW views, Seen(views), NEW t \in Threads, Client(t)
  PROVE  Fits' /\ \E views2 : Seen(views2)'
<1>1. CASE Call(t)
  <2>1. Sees(views[Len(msgs)])
    BY SeenFacts
  <2>2. Fits' /\ \E m : Sends(views[Len(msgs)], m)
    BY <1>1, <2>1, CallSafety
  <2>. QED  BY <2>2, SentSeen
<1>2. CASE AssignEnd(t)
  BY <1>2, AssignEndFits
<1>3. CASE HasEnd(t)
  BY <1>3, HasEndFits
<1>4. CASE Throw(t)
  BY <1>4, ThrowFits
<1>. QED  BY <1>1, <1>2, <1>3, <1>4 DEF Client

LEMMA ClientKeeps ==
  ASSUME NEW t \in Threads, Client(t)
  PROVE  dying' = dying /\ pc' = pc /\ graph' = graph
<1>1. CASE Call(t)
  BY <1>1 DEF Call, UsePointers, Construct, Destroy, ConstructCopy, Assign, Reset, Has,
              MakeMember, UnmakeMember, HasAbort, gcVars
<1>2. CASE AssignEnd(t) \/ HasEnd(t) \/ Throw(t)
  BY <1>2 DEF AssignEnd, HasEnd, Throw, gcVars
<1>. QED  BY <1>1, <1>2 DEF Client

LEMMA ClientSafety ==
  ASSUME TypeOK, TypeOK', Usage = {}, SafetyInv, NEW t \in Threads, Client(t)
  PROVE  SafetyInv'
<1>1. PICK views : Seen(views)
  BY DEF SafetyInv
<1>2. Fits
  BY DEF SafetyInv
<1>3. Fits' /\ \E views2 : Seen(views2)'
  BY <1>1, <1>2, ClientSees
<1>4. dying' = dying /\ pc' = pc /\ graph' = graph
  BY ClientKeeps
<1>. QED  BY <1>3, <1>4 DEF SafetyInv

(* The steps that touch neither pointers nor blocks. *)
LEMMA IdleSafety ==
  ASSUME SafetyInv, ptr' = ptr, alive' = alive, heap' = heap, frames' = frames, asgn' = asgn,
         msgs' = msgs, dying' = dying, graph' = graph, keeper' = keeper,
         pc = "free" <=> pc' = "free"
  PROVE  SafetyInv'
<1>1. PICK views : Seen(views)
  BY DEF SafetyInv
<1>2. Building' = Building
  BY DEF Building, Frames, FramesOf
<1>3. Seen(views)'
  BY <1>1, <1>2 DEF Seen
<1>4. Fits'
  BY DEF SafetyInv, Fits
<1>. QED  BY <1>3, <1>4 DEF SafetyInv

(* A pointer of the block that is being freed. *)
LEMMA DyingFacts ==
  ASSUME TypeOK, SafetyInv, pc = "free"
  PROVE  /\ dying.block \in Blocks /\ dying.block # Null /\ dying.left \in 0..Slots
         /\ heap[dying.block] \in {"destroyed", "dropped"} /\ HasMade(alive, dying.block, dying.left)
<1>1. dying \in [block : Blocks \cup {Null}, left : 0..Slots]
  BY DEF TypeOK
<1>2. dying.block # Null
  BY DEF SafetyInv
<1>3. HeapFits(frames, alive, heap, dying)
  BY FitsParts DEF SafetyInv
<1>. QED  BY <1>1, <1>2, <1>3 DEF HeapFits

LEMMA UnreachedMember ==
  ASSUME Fits, NEW v, Sees(v), NEW m, Home(m) # Null, heap[Home(m)] \notin {"raw", "live"}
  PROVE  ~ Reaches(v, m) /\ ~ IsTarget(frames, m) /\ ~ IsAssigned(asgn, m) /\ ~ IsSource(asgn, m)
<1>1. IsView(v) /\ LeadsToUsed(v, heap)
  BY DEF Sees
<1>2. Home(m) \notin Reach(v)
  <2>. SUFFICES ASSUME Home(m) \in Reach(v) PROVE FALSE
    OBVIOUS
  <2>1. PICK s \in DOMAIN v : v[s] = Home(m)
    BY <1>1, ReachedIsValue
  <2>. QED  BY <1>1, <2>1 DEF LeadsToUsed
<1>3. ~ Reaches(v, m)
  BY <1>2 DEF Reaches
<1>4. /\ \A t \in Threads : \A i \in 1..Len(frames[t]) : Reaches(v, frames[t][i].sptr)
      /\ \A t \in Threads : asgn[t] # << >> => Reaches(v, asgn[t][1]) /\ Reaches(v, asgn[t][2])
  BY CallFacts
<1>. QED  BY <1>3, <1>4 DEF IsTarget, IsAssigned, IsSource

-----------------------------------------------------------------------------
(* The calls stay as they are, and a pointer that is not reached changes.  *)
LEMMA CallsStay ==
  ASSUME TypeOK, TypeOK', Fits, frames' = frames, asgn' = asgn,
         NEW m, ~ IsTarget(frames, m), ~ IsAssigned(asgn, m), ~ IsSource(asgn, m),
         ~ Reaches(ViewIn(frames, asgn, ptr, alive), m),
         \A y \in alive : y # m => y \in alive' /\ ptr'[y] = ptr[y]
  PROVE  /\ Apart(frames', asgn', alive') /\ KeepsIn(frames', asgn', ptr', alive')
         /\ \A x \in alive : x # m => LeadsIn(frames', asgn', ptr', x) = LeadsIn(frames, asgn, ptr, x)
<1>1. Typed(frames, asgn, ptr, alive) /\ Apart(frames, asgn, alive) /\ KeepsIn(frames, asgn, ptr, alive)
  BY FitsParts
<1>2. CASE Threads = {}
  <2>1. Apart(frames', asgn', alive') /\ KeepsIn(frames', asgn', ptr', alive')
    BY <1>2 DEF Apart, KeepsIn
  <2>2. LeadsRight(frames, asgn, ptr)
    BY ONLY <1>1, LeadsFacts
  <2>3. LeadsRight(frames', asgn', ptr')
    BY ONLY <2>1, LeadsFacts
  <2>4. \A x : /\ ~ IsTarget(frames, x) /\ ~ IsAssigned(asgn, x)
               /\ ~ IsTarget(frames', x) /\ ~ IsAssigned(asgn', x)
    BY <1>2 DEF IsTarget, IsAssigned
  <2>5. \A x \in alive : LeadsIn(frames, asgn, ptr, x) = ptr[x] /\ LeadsIn(frames', asgn', ptr', x) = ptr'[x]
    BY <2>2, <2>3, <2>4 DEF LeadsRight
  <2>. QED  BY <2>1, <2>5
<1>3. CASE Threads # {}
  <2>1. PICK t \in Threads : TRUE
    BY <1>3
  <2>2. Stays(t, m)
    BY UnchangedStays
  <2>3. Apart(frames', asgn', alive')
    BY <2>2, StaysFacts
  <2>4. \A x \in alive : x # m => LeadsIn(frames', asgn', ptr', x) = LeadsIn(frames, asgn, ptr, x)
    BY <2>2, StaysLeads
  <2>5. KeepsIn(frames', asgn', ptr', alive')
    BY <1>1, <2>2, StaysKeeps
  <2>. QED  BY <2>3, <2>4, <2>5
<1>. QED  BY <1>2, <1>3

LEMMA DestroyMemberSafety ==
  ASSUME TypeOK, TypeOK', SafetyInv, DestroyMember
  PROVE  SafetyInv'
<1>. DEFINE c == dying.block
            k == dying.left
            m == <<c, k>>
            x == SptrUnregistrationMsg(m)
<1>1. /\ pc = "free" /\ k > 0 /\ alive' = alive \ {m} /\ ptr' = [ptr EXCEPT ![m] = Null]
      /\ msgs' = Append(msgs, x) /\ dying' = [dying EXCEPT !.left = dying.left - 1]
      /\ heap' = heap /\ frames' = frames /\ asgn' = asgn /\ pc' = pc /\ graph' = graph /\ keeper' = keeper
  BY DEF DestroyMember, clientVars
<1>2. /\ c \in Blocks /\ c # Null /\ k \in 0..Slots
      /\ heap[c] \in {"destroyed", "dropped"} /\ HasMade(alive, c, k)
  BY <1>1, DyingFacts
<1>3. dying'.block = c /\ dying'.left = k - 1
  BY <1>1 DEF TypeOK
<1>4. k \in 1..Slots /\ k \in Nat
  BY <1>1, <1>2, SlotsAssumption
<1>5. m \in Sptrs /\ Home(m) = c /\ m \in alive
  BY <1>2, <1>4, MemberFacts, MemberHome DEF HasMade
<1>6. x \in Messages /\ x.type = "SptrUnregistration" /\ x.sptr = m
  BY <1>5, MessageFacts, MessageParts
<1>. HIDE DEF x
<1>7. Fits
  BY DEF SafetyInv
<1>8. PICK views : Seen(views)
  BY DEF SafetyInv
<1>. DEFINE v == views[Len(msgs)]
<1>9. Sees(v)
  BY <1>8, SeenFacts
<1>. HIDE DEF v
<1>10. ~ Reaches(v, m) /\ ~ IsTarget(frames, m) /\ ~ IsAssigned(asgn, m) /\ ~ IsSource(asgn, m)
  <2>1. Home(m) # Null /\ heap[Home(m)] \notin {"raw", "live"}
    BY <1>2, <1>5
  <2>. QED  BY <1>7, <1>9, <2>1, UnreachedMember
<1>11. /\ ~ Reaches(ViewIn(frames, asgn, ptr, alive), m) /\ DOMAIN v = alive
  BY <1>7, <1>9, <1>10, SeesReach
<1>12. \A y \in alive : y # m => y \in alive' /\ ptr'[y] = ptr[y]
  BY <1>1 DEF TypeOK
<1>13. /\ Apart(frames', asgn', alive') /\ KeepsIn(frames', asgn', ptr', alive')
       /\ \A y \in alive : y # m => LeadsIn(frames', asgn', ptr', y) = LeadsIn(frames, asgn, ptr, y)
  BY <1>1, <1>7, <1>10, <1>11, <1>12, CallsStay
<1>14. HeapFits(frames', alive', heap', dying')
  <2>1. HeapFits(frames, alive, heap, dying) /\ Typed(frames, asgn, ptr, alive)
    BY <1>7, FitsParts
  <2>2. ASSUME NEW b \in Blocks, b # c, NEW n, HasMade(alive, b, n) PROVE HasMade(alive', b, n)
    <3>1. \A i \in 1..Slots : <<b, i>> \in alive' <=> <<b, i>> \in alive
      BY <1>1, <2>2
    <3>. QED  BY <2>2, <3>1 DEF HasMade
  <2>3. HasMade(alive', c, k - 1)
    <3>1. \A i \in 1..Slots : <<c, i>> \in alive' <=> <<c, i>> \in alive /\ i # k
      BY <1>1
    <3>2. \A i \in 1..Slots : i <= k - 1 <=> i <= k /\ i # k
      BY <1>4, SlotsAssumption
    <3>. QED  BY <1>2, <3>1, <3>2 DEF HasMade
  <2>4. \A t \in Threads : \A i \in 1..Len(frames[t]) :
          heap[frames[t][i].block] = "raw" /\ HasMade(alive', frames[t][i].block, frames[t][i].made)
    BY <1>2, <2>1, <2>2 DEF HeapFits, Typed
  <2>5. \A b \in Blocks :
          /\ heap[b] = "live" => HasMade(alive', b, Slots)
          /\ heap[b] = "raw" /\ ~ IsBuilt(frames, b) => HasMade(alive', b, 0)
          /\ heap[b] = "free" => HasMade(alive', b, 0)
          /\ heap[b] \in {"destroyed", "dropped"} => b = c
    BY <1>2, <2>1, <2>2 DEF HeapFits
  <2>6. HeapFits(frames, alive', heap, dying')
    BY <1>2, <1>3, <2>3, <2>4, <2>5 DEF HeapFits
  <2>. QED  BY <1>1, <2>6
<1>15. Fits'
  BY <1>13, <1>14, FitsNext
<1>16. Allowed(v, x)
  BY <1>5, <1>6, <1>11 DEF Allowed, Registering, Copying
<1>17. Building' = Building
  BY <1>1 DEF Building, Frames, FramesOf
<1>18. Steady(heap, Building, heap', Building')
  BY <1>1, <1>17, SteadyHeap
<1>19. Aborts(v, x, heap', Building')
  BY <1>6, <1>9, <1>10, <1>18, NoAborts
<1>20. Sendable(v, x, heap)
  <2>1. NewTarget(v, x) = Null
    BY <1>6 DEF NewTarget
  <2>2. IsView(v) /\ OneKeeper(v)
    BY <1>9 DEF Sees
  <2>3. OneKeeper(After(v, x))
    BY <1>6, <1>16, <2>1, <2>2, KeeperAfter
  <2>. QED  BY <1>6, <1>16, <2>3 DEF Sendable
<1>21. Says(v, x, frames, asgn, ptr, alive, heap, keeper, frames', asgn', ptr', alive', heap', keeper')
  <2>1. \A y : y \in alive' <=> (y \in alive /\ y # x.sptr) \/ (y = x.sptr /\ x.type # "SptrUnregistration")
    BY <1>1, <1>6
  <2>. HIDE DEF m
  <2>. QED  BY <1>1, <1>6, <1>13, <2>1 DEF Says
<1>22. Sends(v, x)
  BY <1>1, <1>6, <1>18, <1>19, <1>20, <1>21 DEF Sends
<1>23. \E views2 : Seen(views2)'
  BY <1>8, <1>22, SentSeen DEF v
<1>24. graph'.fault \subseteq {"no place for a vertex"} /\ dying'.block # Null /\ pc' = "free"
  BY <1>1, <1>2, <1>3 DEF SafetyInv
<1>. QED  BY <1>15, <1>23, <1>24 DEF SafetyInv

LEMMA FreeMemorySafety ==
  ASSUME TypeOK, TypeOK', SafetyInv, FreeMemory
  PROVE  SafetyInv'
<1>. DEFINE c == dying.block
<1>1. /\ pc = "free" /\ dying.left = 0 /\ heap' = [heap EXCEPT ![c] = "free"]
      /\ keeper' = [b \in Blocks |-> IF b = c THEN Null ELSE IF keeper[b] = c THEN Gone ELSE keeper[b]]
      /\ dying' = Nobody /\ pc' = "drain"
      /\ ptr' = ptr /\ alive' = alive /\ frames' = frames /\ asgn' = asgn /\ msgs' = msgs /\ graph' = graph
  BY DEF FreeMemory, clientVars
<1>2. /\ c \in Blocks /\ c # Null
      /\ heap[c] \in {"destroyed", "dropped"} /\ HasMade(alive, c, 0)
  BY <1>1, DyingFacts
<1>3. heap'[c] = "free" /\ \A b : b # c => heap'[b] = heap[b]
  BY <1>1, <1>2 DEF TypeOK
<1>4. Fits /\ graph.fault \subseteq {"no place for a vertex"}
  BY DEF SafetyInv
<1>5. /\ Typed(frames, asgn, ptr, alive) /\ Apart(frames, asgn, alive)
      /\ HeapFits(frames, alive, heap, dying) /\ KeepsIn(frames, asgn, ptr, alive)
  BY <1>4, FitsParts
<1>6. HeapFits(frames', alive', heap', dying')
  <2>1. \A t \in Threads : \A i \in 1..Len(frames[t]) :
          heap'[frames[t][i].block] = "raw" /\ HasMade(alive, frames[t][i].block, frames[t][i].made)
    BY <1>2, <1>3, <1>5 DEF HeapFits
  <2>2. \A b \in Blocks :
          /\ heap'[b] = "live" => HasMade(alive, b, Slots)
          /\ heap'[b] = "raw" /\ ~ IsBuilt(frames, b) => HasMade(alive, b, 0)
          /\ heap'[b] = "free" => HasMade(alive, b, 0)
          /\ heap'[b] \notin {"destroyed", "dropped"}
    BY <1>2, <1>3, <1>5 DEF HeapFits
  <2>3. dying'.block = Null
    BY <1>1 DEF Nobody
  <2>4. HeapFits(frames, alive, heap', dying')
    BY <2>1, <2>2, <2>3 DEF HeapFits
  <2>. QED  BY <1>1, <2>4
<1>7. Fits'
  <2>1. Apart(frames', asgn', alive') /\ KeepsIn(frames', asgn', ptr', alive')
    BY <1>1, <1>5
  <2>. QED  BY <1>6, <2>1, FitsNext
<1>8. PICK views : Seen(views)
  BY DEF SafetyInv
<1>. DEFINE v == views[Len(msgs)]
<1>9. Sees(v)
  BY <1>8, SeenFacts
<1>. HIDE DEF v
<1>10. Building' = Building
  BY <1>1 DEF Building, Frames, FramesOf
<1>11. Steady(heap, Building, heap', Building')
  BY <1>2, <1>3, <1>10 DEF Steady
<1>12. Shows(v, frames', asgn', ptr', alive', heap', keeper')
  <2>1. DOMAIN v = alive /\ Shows(v, frames, asgn, ptr, alive, heap, keeper)
    BY <1>9 DEF Sees, Shows
  <2>2. \A s \in alive : v[s] # Null => v[s] # c /\ v[s] \in Blocks
    BY <1>2, <1>9, <2>1 DEF Sees, LeadsToUsed, IsView
  <2>3. \A s \in alive : Home(s) # c
    BY <1>2, <1>5, NoMembers DEF Typed
  <2>4. \A s \in alive : v[s] # Null /\ Home(s) # Null => keeper'[v[s]] = Home(s)
    BY <1>1, <2>1, <2>2, <2>3 DEF Shows
  <2>5. \A s \in alive : v[s] # Null /\ heap'[v[s]] = "raw" => HasFrame(frames, s, v[s])
    BY <1>3, <2>1, <2>2 DEF Shows
  <2>6. \A s \in alive : Reaches(v, s) => v[s] = LeadsIn(frames, asgn, ptr, s)
    BY <2>1 DEF Shows
  <2>7. Shows(v, frames, asgn, ptr, alive, heap', keeper')
    BY <2>1, <2>4, <2>5, <2>6 DEF Shows
  <2>. QED  BY <1>1, <2>7
<1>13. \E views2 : Seen(views2)'
  BY <1>1, <1>8, <1>11, <1>12, SilentSeen DEF v
<1>. QED  BY <1>1, <1>4, <1>7, <1>13 DEF SafetyInv, Nobody

-----------------------------------------------------------------------------
(* A message is carried out. *)
LEMMA StartsFounded ==
  ASSUME IInv, NEW views, Seen(views), ExecuteMessage
  PROVE  /\ msgs \in Seq(Messages) /\ msgs # << >> /\ Head(msgs) \in Messages
         /\ Head(msgs) = msgs[1] /\ Tail(msgs) \in Seq(Messages)
         /\ Len(msgs) \in Nat /\ 1 \in 1..Len(msgs)
         /\ graph.fault = {} /\ Placed(graph, {}) /\ views[0] = ViewOf(graph)
         /\ graph' = Execute(graph, Head(msgs)) /\ msgs' = Tail(msgs)
         /\ OneKeeper(views[0]) /\ Allowed(views[0], msgs[1]) /\ OneKeeper(After(views[0], msgs[1]))
         /\ Tracked(msgs, heap, dying, graph)
         /\ msgs[1].type = "NewObject" => msgs[1].block \notin BlocksOf(graph)
<1>1. /\ msgs # << >> /\ graph.fault = {} /\ graph' = Execute(graph, Head(msgs)) /\ msgs' = Tail(msgs)
  BY DEF ExecuteMessage
<1>2. /\ GraphInv(graph) /\ msgs \in Seq(Messages) /\ Tracked(msgs, heap, dying, graph)
  BY InvFacts, TrackedFacts DEF TypeOK
<1>3. /\ Head(msgs) \in Messages /\ Tail(msgs) \in Seq(Messages)
      /\ Head(msgs).type = "NewObject" => Head(msgs).block \notin BlocksOf(graph)
  BY <1>1, <1>2, TakenFacts DEF Tracked
<1>4. Len(msgs) \in Nat /\ 1 \in 1..Len(msgs) /\ Head(msgs) = msgs[1]
  BY <1>1, <1>2, HeadTailProperties, LenProperties, EmptySeq
<1>5. Linked(views, msgs, heap, Building) /\ Founded(views[0], graph)
  BY DEF Seen
<1>6. /\ views[0] = ViewOf(graph) /\ WellPlaced(graph)
      /\ \A u \in DOMAIN graph.vertex : Released(graph, u) \/ IsPointed(graph, u)
  BY <1>1, <1>5 DEF Founded
<1>7. Placed(graph, {})
  BY <1>2, <1>6 DEF Placed
<1>8. 1 - 1 = 0 /\ 0 \in 0..Len(msgs) /\ 1 \in 0..Len(msgs)
  BY <1>4
<1>9. /\ OneKeeper(views[0]) /\ OneKeeper(views[1])
      /\ views[1] = After(views[0], msgs[1]) /\ Allowed(views[0], msgs[1])
  BY <1>4, <1>5, <1>8 DEF Linked
<1>. QED  BY <1>1, <1>2, <1>3, <1>4, <1>6, <1>7, <1>9

(* What the graph gives back, b or nothing, was not reached any more.      *)
LEMMA ExecutedTaken ==
  ASSUME IInv, NEW views, Seen(views), ExecuteMessage,
         NEW b \in Blocks \cup {Null}, Executed(graph, msgs[1], graph', b),
         NEW hp2, \A c \in Blocks : c # b => hp2[c] = heap[c]
  PROVE  Taken(views, msgs, heap, Building, b, hp2)
<1>. DEFINE m == msgs[1]
<1>1. /\ msgs \in Seq(Messages) /\ m \in Messages /\ Len(msgs) \in Nat /\ 1 \in 1..Len(msgs)
      /\ Placed(graph, {}) /\ views[0] = ViewOf(graph)
      /\ Tracked(msgs, heap, dying, graph)
  BY StartsFounded
<1>2. /\ b \notin Reach(Without(views[0], m.sptr))
      /\ b # Null => m.sptr \in DOMAIN views[0] /\ b = views[0][m.sptr]
  BY <1>1 DEF Executed
<1>3. GraphOK(graph) /\ EndsExist(graph)
  BY <1>1 DEF Placed, GraphInv, EdgesMatchTable
<1>4. b # Null => b \in BlocksOf(graph)
  <2>1. DOMAIN ViewOf(graph) = DOMAIN graph.table
        /\ \A s \in DOMAIN graph.table : ViewOf(graph)[s] # Null => ViewOf(graph)[s] \in BlocksOf(graph)
    BY ONLY <1>3, ViewFacts
  <2>. QED  BY <1>1, <1>2, <2>1
<1>5. ASSUME NEW i \in 1..Len(msgs), msgs[i].type = "NewObject" PROVE msgs[i].block # b
  <2>1. msgs[i] \in Messages
    BY <1>1, ElementOfSeq
  <2>2. msgs[i].block \in Blocks
    BY <1>5, <2>1, MessageTypes
  <2>3. msgs[i].block \in NewBlocksIn(msgs)
    BY <1>5 DEF NewBlocksIn, AnnouncedIn
  <2>4. msgs[i].block \notin BlocksOf(graph)
    BY <1>1, <2>3 DEF Tracked
  <2>. QED  BY <1>4, <2>2, <2>4, NullAssumption
<1>. QED  BY <1>2, <1>5 DEF Taken

LEMMA ExecuteIdle ==
  ASSUME IInv, SafetyInv, NEW views, Seen(views), ExecuteMessage, graph'.released = NoRelease,
         NEW w, IsView(views[Len(msgs)]), w = Purged(views[Len(msgs)], Null),
         NEW views2, Linked(views2, Tail(msgs), heap, Building), views2[Len(Tail(msgs))] = w,
         Founded(views2[0], graph'), graph'.fault \subseteq {"no place for a vertex"}
  PROVE  SafetyInv'
<1>1. graph'.released.block = Null
  <2>1. NoRelease.block = Null
    BY DEF NoRelease
  <2>2. graph'.released = NoRelease
    OBVIOUS
  <2>. QED  BY ONLY <2>1, <2>2
<1>2. /\ heap' = heap /\ dying' = dying /\ pc' = pc /\ ptr' = ptr /\ alive' = alive
      /\ frames' = frames /\ asgn' = asgn /\ keeper' = keeper /\ msgs' = Tail(msgs)
  BY <1>1 DEF ExecuteMessage, clientVars
<1>3. Building' = Building
  <2>1. frames' = frames
    BY <1>2
  <2>. QED  BY ONLY <2>1 DEF Building, Frames, FramesOf
<1>4. w = views[Len(msgs)]
  BY PurgedNothing
<1>5. Shows(views2[Len(msgs')], frames', asgn', ptr', alive', heap', keeper')
  BY <1>2, <1>4 DEF Seen
<1>6. Linked(views2, msgs', heap', Building')
  BY <1>2, <1>3
<1>7. Seen(views2)'
  BY <1>5, <1>6 DEF Seen
<1>8. Fits'
  BY <1>2 DEF SafetyInv, Fits
<1>. QED  BY <1>2, <1>7, <1>8 DEF SafetyInv

(* A block leaves the graph: it was constructed, unless its constructor    *)
(* has thrown.                                                             *)
Leaves(b) ==
  /\ heap' = [heap EXCEPT ![b] = IF graph'.released.dtion THEN "destroyed" ELSE "dropped"]
  /\ graph'.released.dtion => heap[b] = "live"
  /\ ~ graph'.released.dtion =>
       heap[b] = "raw" /\ b \notin Building /\ HasMade(alive, b, 0)

LEMMA ExecuteLeaves ==
  ASSUME IInv, TypeOK', SafetyInv, NEW views, Seen(views), ExecuteMessage,
         NEW b \in Blocks, Executed(graph, msgs[1], graph', b)
  PROVE  SafetyInv' /\ Leaves(b)
<1>. DEFINE last == views[Len(msgs)]
            dtion == graph'.released.dtion
            m == msgs[1]
<1>1. /\ b # Null /\ graph'.released.block = b
      /\ dtion <=> m.type # "AbortedObject"
      /\ Placed(graph', {}) /\ graph'.fault = {}
      /\ ViewOf(graph') = Purged(After(ViewOf(graph), m), b)
  <2>1. b # Null
    BY NullAssumption
  <2>2. /\ Placed(graph', {}) /\ graph'.fault = {}
        /\ ViewOf(graph') = Purged(After(ViewOf(graph), m), b)
        /\ b # Null => graph'.released = [block |-> b, dtion |-> m.type # "AbortedObject"]
    BY DEF Executed
  <2>3. graph'.released = [block |-> b, dtion |-> m.type # "AbortedObject"]
    BY ONLY <2>1, <2>2
  <2>4. graph'.released.block = b /\ graph'.released.dtion = (m.type # "AbortedObject")
    BY ONLY <2>3
  <2>. QED  BY <2>1, <2>2, <2>4
<1>2. /\ heap' = [heap EXCEPT ![b] = IF dtion THEN "destroyed" ELSE "dropped"]
      /\ dying' = [block |-> b, left |-> IF dtion THEN Slots ELSE 0]
      /\ pc = "drain" /\ pc' = "free" /\ ptr' = ptr /\ alive' = alive
      /\ frames' = frames /\ asgn' = asgn /\ keeper' = keeper /\ msgs' = Tail(msgs)
  BY <1>1 DEF ExecuteMessage, clientVars
<1>. HIDE DEF dtion, m
<1>3. TypeOK
  BY DEF IInv, GraphConsistent
<1>4. /\ heap'[b] \in {"destroyed", "dropped"}
      /\ \A c \in Blocks : c # b => heap'[c] = heap[c]
  BY <1>2, <1>3 DEF TypeOK
<1>5. Taken(views, msgs, heap, Building, b, heap')
  BY <1>4, ExecutedTaken
<1>6. /\ msgs \in Seq(Messages) /\ msgs # << >> /\ views[0] = ViewOf(graph) /\ Len(msgs) \in Nat
      /\ 1 \in 1..Len(msgs)
  BY StartsFounded
<1>7. Linked(views, msgs, heap, Building)
  BY DEF Seen
<1>8. /\ Unseen(views, msgs, b)
      /\ heap[b] \in {"raw", "live"}
      /\ heap[b] = "raw" <=> m.type = "AbortedObject"
      /\ heap[b] = "raw" => b \notin Building
      /\ \E views2 : /\ Linked(views2, Tail(msgs), heap', Building)
                     /\ views2[0] = Purged(After(views[0], m), b)
                     /\ views2[Len(Tail(msgs))] = Purged(last, b)
  BY <1>1, <1>5, <1>6, <1>7, TakeLinked DEF m
<1>9. PICK views2 : /\ Linked(views2, Tail(msgs), heap', Building)
                    /\ views2[0] = Purged(After(views[0], m), b)
                    /\ views2[Len(Tail(msgs))] = Purged(last, b)
  BY <1>8
<1>10. Building' = Building
  BY <1>2 DEF Building, Frames, FramesOf
<1>11. b \notin Building
  <2>1. HeapFits(frames, alive, heap, dying)
    BY FitsParts DEF SafetyInv
  <2>2. b \in Building => heap[b] = "raw"
    BY <2>1, StateFacts DEF HeapFits, IsBuilt
  <2>. QED  BY <1>8, <2>2
<1>12. dying.block = Null
  BY <1>2 DEF SafetyInv
<1>13. /\ Typed(frames, asgn, ptr, alive) /\ Apart(frames, asgn, alive)
       /\ HeapFits(frames, alive, heap, dying) /\ KeepsIn(frames, asgn, ptr, alive)
  BY FitsParts DEF SafetyInv
<1>14. /\ heap[b] = "live" => HasMade(alive, b, Slots)
       /\ heap[b] = "raw" => HasMade(alive, b, 0)
  BY <1>11, <1>13, StateFacts DEF HeapFits
<1>15. dying'.block = b /\ (dtion => dying'.left = Slots) /\ (~ dtion => dying'.left = 0)
  BY <1>2
<1>16. HasMade(alive, b, dying'.left)
  BY <1>1, <1>8, <1>14, <1>15
<1>17. HeapFits(frames', alive', heap', dying')
  <2>1. \A t \in Threads : \A i \in 1..Len(frames[t]) :
          heap'[frames[t][i].block] = "raw" /\ HasMade(alive, frames[t][i].block, frames[t][i].made)
    <3>1. \A t \in Threads : \A i \in 1..Len(frames[t]) : frames[t][i].block # b /\ frames[t][i].block \in Blocks
      BY <1>11, <1>13, StateFacts DEF IsBuilt, Typed
    <3>. QED  BY <1>4, <1>13, <3>1 DEF HeapFits
  <2>2. ASSUME NEW c \in Blocks
        PROVE  /\ heap'[c] = "live" => HasMade(alive, c, Slots)
               /\ heap'[c] = "raw" /\ ~ IsBuilt(frames, c) => HasMade(alive, c, 0)
               /\ heap'[c] = "free" => HasMade(alive, c, 0)
               /\ heap'[c] \in {"destroyed", "dropped"} => c = b
    <3>1. CASE c = b
      BY <1>4, <3>1
    <3>2. CASE c # b
      BY <1>4, <1>12, <1>13, <3>2, NullAssumption DEF HeapFits
    <3>. QED  BY <3>1, <3>2
  <2>3. HeapFits(frames, alive, heap', dying')
    BY <1>4, <1>15, <1>16, <2>1, <2>2 DEF HeapFits
  <2>. QED  BY <1>2, <2>3
<1>18. Fits'
  <2>1. Apart(frames', asgn', alive') /\ KeepsIn(frames', asgn', ptr', alive')
    BY <1>2, <1>13
  <2>. QED  BY <1>17, <2>1, FitsNext
<1>19. Sees(last)
  BY <1>3, SeenFacts
<1>20. b \notin Reach(last)
  <2>1. Len(msgs) \in 1..Len(msgs)
    BY <1>6
  <2>. QED  BY <1>8, <2>1 DEF Unseen
<1>. HIDE DEF last
<1>21. Shows(Purged(last, b), frames', asgn', ptr', alive', heap', keeper')
  <2>. DEFINE w == Purged(last, b)
  <2>1. IsView(last)
    BY <1>19 DEF Sees
  <2>2. /\ DOMAIN w = DOMAIN last /\ Reach(w) = Reach(last)
        /\ \A s \in DOMAIN last : w[s] = IF last[s] = b THEN Null ELSE last[s]
    BY <1>20, <2>1, PurgedFacts
  <2>. HIDE DEF w
  <2>3. DOMAIN last = alive /\ Shows(last, frames, asgn, ptr, alive, heap, keeper)
    BY <1>19 DEF Sees, Shows
  <2>4. \A s \in alive : Reaches(last, s) /\ last[s] # Null => last[s] \in Reach(last)
    BY <1>19, SeesReach DEF SafetyInv
  <2>5. ASSUME NEW s \in alive, Reaches(w, s) PROVE w[s] = LeadsIn(frames, asgn, ptr, s)
    <3>1. Reaches(last, s)
      BY <2>2, <2>5 DEF Reaches
    <3>2. last[s] # b
      BY <1>1, <1>20, <2>4, <3>1
    <3>3. last[s] = LeadsIn(frames, asgn, ptr, s)
      BY <2>3, <3>1 DEF Shows
    <3>. QED  BY <2>2, <2>3, <3>2, <3>3
  <2>6. ASSUME NEW s \in alive, w[s] # Null
        PROVE  w[s] = last[s] /\ last[s] # b /\ last[s] \in Blocks
    BY <2>1, <2>2, <2>3, <2>6 DEF IsView
  <2>7. ASSUME NEW s \in alive, w[s] # Null
        PROVE  /\ Home(s) # Null => keeper[w[s]] = Home(s)
               /\ heap'[w[s]] = "raw" => HasFrame(frames, s, w[s])
    <3>1. w[s] = last[s] /\ last[s] # Null /\ heap'[last[s]] = heap[last[s]]
      BY <1>4, <2>6, <2>7
    <3>. QED  BY <2>3, <3>1 DEF Shows
  <2>8. Shows(w, frames, asgn, ptr, alive, heap', keeper)
    BY <2>2, <2>3, <2>5, <2>7 DEF Shows
  <2>. QED  BY <1>2, <2>8 DEF w
<1>22. Founded(views2[0], graph')
  <2>1. /\ WellPlaced(graph') 
        /\ \A u \in DOMAIN graph'.vertex : Released(graph', u) \/ IsPointed(graph', u)
    BY <1>1 DEF Placed
  <2>. QED  BY <1>1, <1>6, <1>9, <2>1 DEF Founded
<1>23. Seen(views2)'
  <2>1. Linked(views2, msgs', heap', Building')
    BY <1>2, <1>9, <1>10
  <2>2. Shows(views2[Len(msgs')], frames', asgn', ptr', alive', heap', keeper')
    BY <1>2, <1>9, <1>21
  <2>. QED  BY <1>22, <2>1, <2>2 DEF Seen
<1>24. SafetyInv'
  BY <1>1, <1>2, <1>15, <1>18, <1>23 DEF SafetyInv
<1>25. Leaves(b)
  BY <1>1, <1>2, <1>8, <1>14 DEF Leaves, dtion
<1>. QED  BY <1>24, <1>25

LEMMA TakeNothing ==
  ASSUME NEW views, NEW q \in Seq(Messages), NEW hp, NEW building, Linked(views, q, hp, building),
         q # << >>, Taken(views, q, hp, building, Null, hp)
  PROVE  \E views2 : /\ Linked(views2, Tail(q), hp, building)
                     /\ views2[0] = Purged(After(views[0], q[1]), Null)
                     /\ views2[Len(Tail(q))] = Purged(views[Len(q)], Null)
<1>1. ASSUME NEW b \in Blocks \cup {Null}, NEW hp2, Taken(views, q, hp, building, b, hp2)
      PROVE  \E views2 : /\ Linked(views2, Tail(q), hp2, building)
                         /\ views2[0] = Purged(After(views[0], q[1]), b)
                         /\ views2[Len(Tail(q))] = Purged(views[Len(q)], b)
  BY <1>1, TakeLinked
<1>2. Null \in Blocks \cup {Null}
  OBVIOUS
<1>. QED  BY <1>1, <1>2

(* One of the two things happens. *)
LEMMA ExecuteSafety ==
  ASSUME IInv, TypeOK', SafetyInv, ExecuteMessage
  PROVE  SafetyInv' /\ (heap' = heap \/ \E b \in Blocks : Leaves(b))
<1>1. PICK views : Seen(views)
  BY DEF SafetyInv
<1>2. /\ msgs \in Seq(Messages) /\ msgs # << >> /\ msgs[1] \in Messages /\ Head(msgs) = msgs[1]
      /\ Len(msgs) \in Nat
      /\ graph.fault = {} /\ Placed(graph, {}) /\ views[0] = ViewOf(graph)
      /\ graph' = Execute(graph, msgs[1])
      /\ OneKeeper(views[0]) /\ Allowed(views[0], msgs[1]) /\ OneKeeper(After(views[0], msgs[1]))
      /\ msgs[1].type = "NewObject" => msgs[1].block \notin BlocksOf(graph)
  BY <1>1, StartsFounded
<1>3. \/ graph'.fault = {"no place for a vertex"} /\ graph'.released = NoRelease
      \/ \E b \in Blocks \cup {Null} : Executed(graph, msgs[1], graph', b)
  BY <1>2, ExecutedView
<1>4. Linked(views, msgs, heap, Building)
  BY <1>1 DEF Seen
<1>5. IsView(views[Len(msgs)]) /\ IsView(views[0])
  BY <1>2, <1>4 DEF Linked
<1>6. ASSUME graph'.released = NoRelease,
             Taken(views, msgs, heap, Building, Null, heap),
             Founded(Purged(After(views[0], msgs[1]), Null), graph'),
             graph'.fault \subseteq {"no place for a vertex"}
      PROVE  SafetyInv' /\ heap' = heap
  <2>1. PICK views2 : /\ Linked(views2, Tail(msgs), heap, Building)
                      /\ views2[0] = Purged(After(views[0], msgs[1]), Null)
                      /\ views2[Len(Tail(msgs))] = Purged(views[Len(msgs)], Null)
    <3>1. /\ msgs \in Seq(Messages) /\ msgs # << >>
          /\ Linked(views, msgs, heap, Building)
          /\ Null \in Blocks \cup {Null}
          /\ Taken(views, msgs, heap, Building, Null, heap)
      BY <1>2, <1>4, <1>6
    <3>2. \E views2 : /\ Linked(views2, Tail(msgs), heap, Building)
                      /\ views2[0] = Purged(After(views[0], msgs[1]), Null)
                      /\ views2[Len(Tail(msgs))] = Purged(views[Len(msgs)], Null)
      BY ONLY <3>1, TakeNothing
    <3>. QED  BY ONLY <3>2
  <2>2. Founded(views2[0], graph')
    BY <1>6, <2>1
  <2>3. SafetyInv'
    BY <1>1, <1>5, <1>6, <2>1, <2>2, ExecuteIdle
  <2>4. heap' = heap
    <3>1. graph'.released = NoRelease
      BY <1>6
    <3>2. NoRelease.block = Null
      BY DEF NoRelease
    <3>3. graph'.released.block = Null
      BY ONLY <3>1, <3>2
    <3>4. IF graph'.released.block = Null THEN UNCHANGED <<pc, dying, heap>> ELSE TRUE
      BY DEF ExecuteMessage
    <3>. QED  BY ONLY <3>3, <3>4
  <2>. QED  BY <2>3, <2>4
<1>7. CASE graph'.fault = {"no place for a vertex"} /\ graph'.released = NoRelease
  <2>1. Taken(views, msgs, heap, Building, Null, heap)
    <3>1. Null \notin Reach(Without(views[0], msgs[1].sptr))
      BY <1>5, WithoutFacts, ReachClosed
    <3>2. ASSUME NEW i \in 1..Len(msgs), msgs[i].type = "NewObject" PROVE msgs[i].block # Null
      <4>1. msgs[i] \in Messages
        BY <1>2, ElementOfSeq
      <4>. QED  BY <3>2, <4>1, MessageTypes, NullAssumption
    <3>. QED  BY <3>1, <3>2 DEF Taken
  <2>2. \A w : Founded(w, graph')
    BY <1>7 DEF Founded
  <2>. QED  BY <1>6, <1>7, <2>1, <2>2
<1>8. ASSUME NEW b \in Blocks \cup {Null}, Executed(graph, msgs[1], graph', b)
      PROVE  SafetyInv' /\ (heap' = heap \/ \E c \in Blocks : Leaves(c))
  <2>1. CASE b = Null
    <3>1. Taken(views, msgs, heap, Building, Null, heap)
      BY <1>1, <1>8, <2>1, ExecutedTaken
    <3>2. /\ graph'.released = NoRelease /\ graph'.fault = {} /\ Placed(graph', {})
          /\ ViewOf(graph') = Purged(After(views[0], msgs[1]), Null)
      BY <1>2, <1>8, <2>1 DEF Executed
    <3>3. Founded(Purged(After(views[0], msgs[1]), Null), graph')
      BY <3>2 DEF Founded, Placed
    <3>4. graph'.fault \subseteq {"no place for a vertex"}
      BY <3>2
    <3>. QED  BY <1>6, <3>1, <3>2, <3>3, <3>4
  <2>2. CASE b # Null
    BY <1>1, <1>8, <2>2, ExecuteLeaves
  <2>. QED  BY <2>1, <2>2
<1>. QED  BY <1>3, <1>7, <1>8

-----------------------------------------------------------------------------
(* At first there is one view, and it is empty. *)
LEMMA InitSafety == Init => SafetyInv
<1>. SUFFICES ASSUME Init PROVE SafetyInv
  OBVIOUS
<1>. DEFINE v == ViewOf(graph)
            views == [i \in {0} |-> v]
<1>1. /\ graph = EmptyGraph /\ msgs = << >> /\ dying = Nobody /\ alive = {} /\ pc = "wait"
      /\ heap = [b \in Blocks |-> "free"] /\ \A t \in Threads : frames[t] = << >> /\ asgn[t] = << >>
  BY DEF Init
<1>2. graph.fault = {} /\ DOMAIN graph.table = {} /\ DOMAIN graph.vertex = {}
  BY <1>1 DEF EmptyGraph
<1>3. Len(msgs) = 0 /\ 0..Len(msgs) = {0} /\ 1..Len(msgs) = {}
      /\ \A t \in Threads : 1..Len(frames[t]) = {}
  BY <1>1, EmptySeq
<1>4. DOMAIN v = {} /\ v = [s \in DOMAIN v |-> v[s]]
  BY <1>2 DEF ViewOf
<1>5. TypeOK
  BY InitInv DEF IInv, GraphConsistent
<1>. HIDE DEF v
<1>6. Fits
  <2>1. Typed(frames, asgn, ptr, alive)
    BY <1>5, TypedFacts
  <2>2. \A s : ~ IsTarget(frames, s)
    BY <1>3 DEF IsTarget
  <2>3. Apart(frames, asgn, alive)
    BY <1>1, <1>3 DEF Apart
  <2>4. HeapFits(frames, alive, heap, dying)
    <3>1. \A b : HasMade(alive, b, 0)
      BY <1>1, SlotsAssumption DEF HasMade
    <3>2. dying.block = Null
      BY <1>1 DEF Nobody
    <3>3. \A b \in Blocks : heap[b] = "free"
      BY <1>1
    <3>. QED  BY <1>3, <3>1, <3>2, <3>3 DEF HeapFits
  <2>5. KeepsIn(frames, asgn, ptr, alive)
    BY <1>1, <1>3 DEF KeepsIn
  <2>. QED  BY <2>1, <2>3, <2>4, <2>5 DEF Fits, ClientFits
<1>7. Linked(views, msgs, heap, Building)
  <2>1. DOMAIN views = 0..Len(msgs) /\ \A i \in 0..Len(msgs) : views[i] = v
    BY <1>3
  <2>2. IsView(v) /\ OneKeeper(v) /\ LeadsToUsed(v, heap)
    BY <1>4 DEF IsView, OneKeeper, LeadsToUsed
  <2>. HIDE DEF views
  <2>. QED  BY <1>3, <2>1, <2>2 DEF Linked
<1>8. views[0] = v /\ views[Len(msgs)] = v
  BY <1>3
<1>9. Founded(v, graph)
  BY <1>2 DEF Founded, WellPlaced, v
<1>10. Shows(v, frames, asgn, ptr, alive, heap, keeper)
  BY <1>1, <1>4 DEF Shows
<1>. HIDE DEF views
<1>11. Seen(views)
  BY <1>7, <1>8, <1>9, <1>10 DEF Seen
<1>12. dying.block = Null /\ pc # "free"
  BY <1>1 DEF Nobody
<1>. QED  BY <1>1, <1>2, <1>6, <1>11, <1>12 DEF SafetyInv

LEMMA SafetyStep ==
  ASSUME IInv, SafetyInv, Usage = {}, [Next]_vars
  PROVE  SafetyInv'
<1>1. TypeOK /\ TypeOK'
  BY StepInv DEF IInv, GraphConsistent
<1>2. ASSUME NEW t \in Threads, Client(t) PROVE SafetyInv'
  BY <1>1, <1>2, ClientSafety
<1>3. CASE Collector
  <2>1. CASE WaitFor
    <3>1. /\ ptr' = ptr /\ alive' = alive /\ heap' = heap /\ frames' = frames /\ asgn' = asgn
          /\ msgs' = msgs /\ dying' = dying /\ graph' = graph /\ keeper' = keeper
          /\ pc = "wait" /\ pc' = "drain"
      BY <2>1 DEF WaitFor, clientVars
    <3>. QED  BY <3>1, IdleSafety
  <2>2. CASE Drained
    <3>1. /\ ptr' = ptr /\ alive' = alive /\ heap' = heap /\ frames' = frames /\ asgn' = asgn
          /\ msgs' = msgs /\ dying' = dying /\ graph' = graph /\ keeper' = keeper
          /\ pc = "drain" /\ pc' \in {"ended", "wait"}
      BY <2>2 DEF Drained, clientVars
    <3>. QED  BY <3>1, IdleSafety
  <2>3. CASE ExecuteMessage
    BY <1>1, <2>3, ExecuteSafety
  <2>. QED  BY <1>1, <1>3, <2>1, <2>2, <2>3, DestroyMemberSafety, FreeMemorySafety DEF Collector
<1>4. CASE Shutdown
  <2>1. /\ ptr' = ptr /\ alive' = alive /\ heap' = heap /\ frames' = frames /\ asgn' = asgn
        /\ msgs' = msgs /\ dying' = dying /\ graph' = graph /\ keeper' = keeper /\ pc' = pc
    BY <1>4 DEF Shutdown, clientVars, gcVars
  <2>. QED  BY <2>1, IdleSafety
<1>5. CASE UNCHANGED vars
  <2>1. /\ ptr' = ptr /\ alive' = alive /\ heap' = heap /\ frames' = frames /\ asgn' = asgn
        /\ msgs' = msgs /\ dying' = dying /\ graph' = graph /\ keeper' = keeper /\ pc' = pc
    BY <1>5 DEF vars, clientVars, gcVars
  <2>. QED  BY <2>1, IdleSafety
<1>. QED  BY <1>2, <1>3, <1>4, <1>5 DEF Next, Stopped

(***************************************************************************)
(* The views exist in every state: whatever the client, who uses pointers  *)
(* plainly, has told the collector and it has not heard yet, the queue     *)
(* leads from the graph to the client's pointers.                          *)
(***************************************************************************)
THEOREM ViewsInvariance == Usage = {} => (Spec => []SafetyInv)
<1>. SUFFICES ASSUME Usage = {} PROVE Spec => []SafetyInv
  OBVIOUS
<1>1. IInv /\ SafetyInv /\ [Next]_vars => SafetyInv'
  BY SafetyStep
<1>. QED  BY <1>1, InitSafety, CollectorInvariance, PTL DEF Spec

LEMMA HeldUsed ==
  ASSUME IInv, SafetyInv
  PROVE  HeldIsAllocated /\ SourceIsAlive
<1>1. PICK views : Seen(views)
  BY DEF SafetyInv
<1>. DEFINE v == views[Len(msgs)]
<1>2. TypeOK /\ Fits
  BY DEF IInv, GraphConsistent, SafetyInv
<1>3. Sees(v)
  BY <1>1, <1>2, SeenFacts
<1>. HIDE DEF v
<1>4. IsView(v) /\ LeadsToUsed(v, heap)
  BY <1>3 DEF Sees
<1>5. Held = Reach(v)
  BY <1>2, <1>3, SeesReach
<1>6. ASSUME NEW b \in Held PROVE heap[b] \in {"raw", "live"}
  <2>1. b \in Blocks /\ \E s \in DOMAIN v : v[s] = b
    BY <1>4, <1>5, ReachedIsValue
  <2>2. PICK s \in DOMAIN v : v[s] = b
    BY <2>1
  <2>. QED  BY <1>4, <2>1, <2>2, NullAssumption DEF LeadsToUsed
<1>7. ASSUME NEW t \in Threads, asgn[t] # << >>
      PROVE  asgn[t][2] \in alive /\ (Home(asgn[t][2]) # Null => heap[Home(asgn[t][2])] # "free")
  <2>1. Apart(frames, asgn, alive)
    BY <1>2, FitsParts
  <2>2. asgn[t][2] \in alive
    BY <1>7, <2>1 DEF Apart
  <2>3. Reaches(v, asgn[t][2])
    BY <1>2, <1>3, <1>7, CallFacts
  <2>. QED  BY <1>5, <1>6, <2>2, <2>3 DEF Reaches
<1>. QED  BY <1>6, <1>7 DEF HeldIsAllocated, SourceIsAlive

(***************************************************************************)
(* The purpose of the collector: what the pointers of the client lead to   *)
(* is never destroyed or freed, whatever messages are on their way, with   *)
(* any number of threads, of pointers and of blocks.                       *)
(***************************************************************************)
THEOREM HeldStaysAllocated == Usage = {} => (Spec => []HeldIsAllocated)
<1>. SUFFICES ASSUME Usage = {} PROVE Spec => []HeldIsAllocated
  OBVIOUS
<1>1. IInv /\ SafetyInv => HeldIsAllocated
  BY HeldUsed
<1>. QED  BY <1>1, CollectorInvariance, ViewsInvariance, PTL

(* The pointer that Assign reads after it has sent its message is still    *)
(* there: the block that contains it has not been freed meanwhile.         *)
THEOREM SourceStaysAlive == Usage = {} => (Spec => []SourceIsAlive)
<1>. SUFFICES ASSUME Usage = {} PROVE Spec => []SourceIsAlive
  OBVIOUS
<1>1. IInv /\ SafetyInv => SourceIsAlive
  BY HeldUsed
<1>. QED  BY <1>1, CollectorInvariance, ViewsInvariance, PTL

(* A vertex is one to which a pointer of the table refers, or from which   *)
(* one does: there are at most two for each pointer.                       *)
LEMMA FewVertices ==
  ASSUME NEW g, GraphInv(g), \A v \in DOMAIN g.vertex : Released(g, v) \/ IsPointed(g, v)
  PROVE  /\ IsFiniteSet(DOMAIN g.vertex) /\ IsFiniteSet(DOMAIN g.table)
         /\ Cardinality(DOMAIN g.vertex) <= 2 * Cardinality(DOMAIN g.table)
<1>. DEFINE T == DOMAIN g.table
            pointed == [s \in T |-> g.table[s].pointed]
            container == [s \in T |-> g.table[s].container]
            P == {pointed[s] : s \in T}
            C == {container[s] : s \in T}
<1>1. GraphOK(g) /\ EdgesMatchTable(g) /\ NoLostVertex(g) /\ IsFiniteSet(T)
  BY DEF GraphInv
<1>2. ASSUME NEW v \in DOMAIN g.vertex PROVE v \in P \cup C
  <2>1. CASE IsPointed(g, v)
    BY <2>1 DEF IsPointed
  <2>2. CASE ~ IsPointed(g, v)
    <3>1. Released(g, v)
      BY <2>2
    <3>2. HasAnyEdges(g, v)
      BY <1>1, <3>1 DEF NoLostVertex
    <3>3. (\E e \in Origins : EdgesFrom(g, e, v) > 0) \/ g.vertex[v].out > 0
      BY <1>1, <3>2, VertexFacts
    <3>4. \A e \in Origins : EdgesFrom(g, e, v) = 0
      <4>1. ASSUME NEW e \in Origins PROVE EdgesFrom(g, e, v) = 0
        <5>1. EdgesFrom(g, e, v) = Cardinality(Incoming(g, e, v))
          BY <1>1 DEF EdgesMatchTable
        <5>2. Incoming(g, e, v) = {}
          BY <2>2 DEF Incoming, IsPointed
        <5>. QED  BY <5>1, <5>2, FS_EmptySet
      <4>. QED  BY <4>1
    <3>5. g.vertex[v].out = Cardinality(Outgoing(g, v)) /\ g.vertex[v].out > 0
      BY <1>1, <3>3, <3>4 DEF EdgesMatchTable
    <3>6. Outgoing(g, v) # {}
      BY <3>5, FS_EmptySet
    <3>. QED  BY <3>6 DEF Outgoing
  <2>. QED  BY <2>1, <2>2
<1>3. pointed \in Surjection(T, P) /\ container \in Surjection(T, C)
  BY DEF Surjection
<1>4. DOMAIN g.vertex \in SUBSET (P \cup C)
  BY <1>2
<1>. HIDE DEF pointed, container, P, C
<1>5. /\ IsFiniteSet(P) /\ Cardinality(P) <= Cardinality(T)
      /\ IsFiniteSet(C) /\ Cardinality(C) <= Cardinality(T)
  BY <1>1, <1>3, FS_Surjection
<1>6. /\ IsFiniteSet(P \cup C)
      /\ Cardinality(P \cup C) = Cardinality(P) + Cardinality(C) - Cardinality(P \cap C)
  BY ONLY <1>5, FS_Union
<1>7. IsFiniteSet(P \cap C)
  <2>1. P \cap C \in SUBSET P
    OBVIOUS
  <2>. QED  BY ONLY <1>5, <2>1, FS_Subset
<1>8. IsFiniteSet(DOMAIN g.vertex) /\ Cardinality(DOMAIN g.vertex) <= Cardinality(P \cup C)
  BY ONLY <1>4, <1>6, FS_Subset
<1>9. /\ Cardinality(P) \in Nat /\ Cardinality(C) \in Nat /\ Cardinality(P \cap C) \in Nat
      /\ Cardinality(T) \in Nat /\ Cardinality(P \cup C) \in Nat /\ Cardinality(DOMAIN g.vertex) \in Nat
  BY ONLY <1>1, <1>5, <1>6, <1>7, <1>8, FS_CardinalityType
<1>. QED  BY ONLY <1>1, <1>5, <1>6, <1>8, <1>9 DEF T

(* The pool never runs out of places for vertices: it grows, or there are  *)
(* more than two places for each pointer that may ever exist.              *)
PlacesSuffice ==
  IsFiniteSet(Vertices) =>
    IsFiniteSet(Sptrs) /\ Cardinality(Vertices) > 2 * Cardinality(Sptrs)

LEMMA PlaceLeft ==
  ASSUME PlacesSuffice, NEW g, Placed(g, {})
  PROVE  ~ Vertices \subseteq DOMAIN g.vertex
<1>. SUFFICES ASSUME Vertices \subseteq DOMAIN g.vertex PROVE FALSE
  OBVIOUS
<1>1. GraphInv(g) /\ \A v \in DOMAIN g.vertex : Released(g, v) \/ IsPointed(g, v)
  BY DEF Placed
<1>2. /\ IsFiniteSet(DOMAIN g.vertex) /\ IsFiniteSet(DOMAIN g.table)
      /\ Cardinality(DOMAIN g.vertex) <= 2 * Cardinality(DOMAIN g.table)
  BY <1>1, FewVertices
<1>3. Vertices \in SUBSET DOMAIN g.vertex
  OBVIOUS
<1>4. IsFiniteSet(Vertices) /\ Cardinality(Vertices) <= Cardinality(DOMAIN g.vertex)
  BY ONLY <1>2, <1>3, FS_Subset
<1>5. IsFiniteSet(Sptrs) /\ Cardinality(Vertices) > 2 * Cardinality(Sptrs)
  BY <1>4 DEF PlacesSuffice
<1>6. DOMAIN g.table \in SUBSET Sptrs
  BY <1>1 DEF GraphInv, GraphOK
<1>7. Cardinality(DOMAIN g.table) <= Cardinality(Sptrs)
  BY ONLY <1>5, <1>6, FS_Subset
<1>8. /\ Cardinality(DOMAIN g.table) \in Nat /\ Cardinality(Sptrs) \in Nat
      /\ Cardinality(Vertices) \in Nat /\ Cardinality(DOMAIN g.vertex) \in Nat
  BY ONLY <1>2, <1>4, <1>5, FS_CardinalityType
<1>. QED  BY ONLY <1>2, <1>4, <1>5, <1>7, <1>8

LEMMA NoFaultStep ==
  ASSUME IInv, SafetyInv, NoFault, PlacesSuffice, Usage = {}, [Next]_vars
  PROVE  NoFault'
<1>1. CASE graph' = graph
  BY <1>1 DEF NoFault
<1>2. CASE ExecuteMessage
  <2>1. PICK views : Seen(views)
    BY DEF SafetyInv
  <2>2. /\ msgs[1] \in Messages /\ Placed(graph, {}) /\ graph.fault = {} /\ views[0] = ViewOf(graph)
        /\ graph' = Execute(graph, msgs[1])
        /\ OneKeeper(views[0]) /\ Allowed(views[0], msgs[1]) /\ OneKeeper(After(views[0], msgs[1]))
        /\ msgs[1].type = "NewObject" => msgs[1].block \notin BlocksOf(graph)
    BY <1>2, <2>1, StartsFounded
  <2>3. \/ Vertices \subseteq DOMAIN graph.vertex
        \/ \E b \in Blocks \cup {Null} : Executed(graph, msgs[1], graph', b)
    BY <2>2, ExecutedView
  <2>4. \E b \in Blocks \cup {Null} : Executed(graph, msgs[1], graph', b)
    BY <2>2, <2>3, PlaceLeft
  <2>. QED  BY <2>4 DEF Executed, NoFault
<1>3. \A t \in Threads : Client(t) => graph' = graph
  BY ClientKeeps
<1>4. WaitFor \/ DestroyMember \/ FreeMemory \/ Drained \/ Shutdown \/ UNCHANGED vars => graph' = graph
  BY DEF WaitFor, DestroyMember, FreeMemory, Drained, Shutdown, vars, gcVars
<1>. QED  BY <1>1, <1>2, <1>3, <1>4 DEF Next, Collector, Stopped

(***************************************************************************)
(* The graph is never brought to an operation the code does not define: no *)
(* pointer is inserted twice or looked up without being there, no vertex   *)
(* is used after it was deleted, and none is isolated but not released.    *)
(***************************************************************************)
THEOREM GraphNeverFaults == Usage = {} /\ PlacesSuffice => (Spec => []NoFault)
<1>. SUFFICES ASSUME Usage = {}, PlacesSuffice PROVE Spec => []NoFault
  OBVIOUS
<1>1. Init => NoFault
  BY DEF Init, EmptyGraph, NoFault
<1>2. IInv /\ SafetyInv /\ NoFault /\ [Next]_vars => NoFault'
  BY NoFaultStep
<1>. QED  BY <1>1, <1>2, CollectorInvariance, ViewsInvariance, PTL DEF Spec

-----------------------------------------------------------------------------
LEMMA NoneMade ==
  ASSUME NEW al, NEW b, HasMade(al, b, 0)
  PROVE  al \cap MemberOf(b) = {}
<1>1. \A i \in 1..Slots : <<b, i>> \notin al
  BY SlotsAssumption DEF HasMade
<1>. QED  BY <1>1 DEF MemberOf

LEMMA ConstructedStep ==
  ASSUME IInv, SafetyInv, Usage = {}, [Next]_vars, NEW b \in Blocks
  PROVE  /\ heap'[b] = "destroyed" /\ heap[b] # "destroyed" => heap[b] = "live"
         /\ heap'[b] = "dropped" /\ heap[b] # "dropped" =>
              /\ heap[b] = "raw" /\ b \notin Building
              /\ alive \cap MemberOf(b) = {}
         /\ heap'[b] = "free" /\ heap[b] # "free" =>
              heap[b] \in {"destroyed", "dropped"} /\ alive \cap MemberOf(b) = {}
<1>. DEFINE Goal == /\ heap'[b] = "destroyed" /\ heap[b] # "destroyed" => heap[b] = "live"
                    /\ heap'[b] = "dropped" /\ heap[b] # "dropped" =>
                         /\ heap[b] = "raw" /\ b \notin Building
                         /\ alive \cap MemberOf(b) = {}
                    /\ heap'[b] = "free" /\ heap[b] # "free" =>
                         heap[b] \in {"destroyed", "dropped"} /\ alive \cap MemberOf(b) = {}
<1>1. TypeOK /\ TypeOK' /\ heap \in [Blocks -> {"free", "raw", "live", "destroyed", "dropped"}]
  BY StepInv DEF IInv, GraphConsistent, TypeOK
<1>2. CASE heap' = heap
  BY <1>2
<1>3. ASSUME NEW c \in Blocks, NEW x \in {"raw", "live"}, heap' = [heap EXCEPT ![c] = x]
      PROVE  Goal
  BY <1>1, <1>3
<1>4. ASSUME NEW t \in Threads, Client(t)
      PROVE  Goal
  <2>1. heap' = heap \/ (\E c \in Blocks : heap' = [heap EXCEPT ![c] = "raw"]) \/ HasEnd(t)
    BY <1>4 DEF Client, Call, UsePointers, Construct, Destroy, ConstructCopy, Assign, Reset, Has,
                MakeMember, UnmakeMember, HasAbort, AssignEnd, Throw
  <2>2. CASE HasEnd(t)
    <3>1. Head(frames[t]) \in Frame
      BY <1>1, <2>2, FrameFacts DEF HasEnd
    <3>2. Head(frames[t]).block \in Blocks
      BY <3>1 DEF Frame
    <3>. QED  BY <1>3, <2>2, <3>2 DEF HasEnd
  <2>. QED  BY <1>2, <1>3, <2>1, <2>2
<1>5. CASE ExecuteMessage
  <2>1. heap' = heap \/ \E c \in Blocks : Leaves(c)
    BY <1>1, <1>5, ExecuteSafety
  <2>2. ASSUME NEW c \in Blocks, Leaves(c) PROVE Goal
    <3>. DEFINE dtion == graph'.released.dtion
    <3>1. /\ heap' = [heap EXCEPT ![c] = IF dtion THEN "destroyed" ELSE "dropped"]
          /\ dtion => heap[c] = "live"
          /\ ~ dtion => heap[c] = "raw" /\ c \notin Building /\ HasMade(alive, c, 0)
      BY <2>2 DEF Leaves
    <3>. HIDE DEF dtion
    <3>2. ~ dtion => alive \cap MemberOf(c) = {}
      BY <3>1, NoneMade
    <3>3. CASE b = c
      <4>1. heap'[b] = IF dtion THEN "destroyed" ELSE "dropped"
        BY <1>1, <3>1, <3>3
      <4>. QED  BY <3>1, <3>2, <3>3, <4>1
    <3>4. CASE b # c
      <4>1. heap'[b] = heap[b]
        BY <1>1, <3>1, <3>4
      <4>. QED  BY <4>1
    <3>. QED  BY <3>3, <3>4
  <2>. QED  BY <1>2, <2>1, <2>2
<1>6. CASE FreeMemory
  <2>1. pc = "free" /\ dying.left = 0 /\ heap' = [heap EXCEPT ![dying.block] = "free"]
    BY <1>6 DEF FreeMemory
  <2>2. heap[dying.block] \in {"destroyed", "dropped"} /\ HasMade(alive, dying.block, 0)
    BY <1>1, <2>1, DyingFacts
  <2>3. alive \cap MemberOf(dying.block) = {}
    BY <2>2, NoneMade
  <2>4. b # dying.block => heap'[b] = heap[b]
    BY <1>1, <2>1
  <2>5. CASE b = dying.block
    <3>1. heap'[b] = "free"
      BY <1>1, <2>1, <2>5
    <3>. QED  BY <2>2, <2>3, <2>5, <3>1
  <2>. QED  BY <2>4, <2>5
<1>7. CASE WaitFor \/ DestroyMember \/ Drained \/ Shutdown \/ Stopped \/ UNCHANGED vars
  BY <1>2, <1>7 DEF WaitFor, DestroyMember, Drained, Shutdown, Stopped, vars
<1>. QED  BY <1>4, <1>5, <1>6, <1>7 DEF Next, Collector

(***************************************************************************)
(* The destructor runs for objects that were constructed and for no other, *)
(* and when the memory of a block is freed no pointer in it is left.       *)
(***************************************************************************)
THEOREM ObjectsDestroyedAsConstructed == Usage = {} => (Spec => DestroyedAsConstructed)
<1>. SUFFICES ASSUME Usage = {} PROVE Spec => DestroyedAsConstructed
  OBVIOUS
<1>1. IInv /\ SafetyInv /\ [Next]_vars =>
        [\A b \in Blocks :
           /\ heap'[b] = "destroyed" /\ heap[b] # "destroyed" => heap[b] = "live"
           /\ heap'[b] = "dropped" /\ heap[b] # "dropped" =>
                /\ heap[b] = "raw" /\ b \notin Building
                /\ alive \cap MemberOf(b) = {}
           /\ heap'[b] = "free" /\ heap[b] # "free" =>
                heap[b] \in {"destroyed", "dropped"} /\ alive \cap MemberOf(b) = {}]_vars
  BY ConstructedStep
<1>. QED  BY <1>1, CollectorInvariance, ViewsInvariance, PTL DEF Spec, DestroyedAsConstructed

(* Without root pointers nothing is held, and without calls in progress    *)
(* the client can make none.                                               *)
LEMMA HeldNone ==
  ASSUME TypeOK, alive \cap Roots = {}
  PROVE  Held = {}
<1>. DEFINE v == Leading(ptr, alive)
<1>1. DOMAIN v = alive /\ alive \subseteq Sptrs
  BY DEF Leading, TypeOK
<1>2. \A s \in alive : Home(s) # Null
  BY <1>1, RootFacts
<1>3. Closed(v, {})
  BY <1>1, <1>2 DEF Closed
<1>. HIDE DEF v
<1>4. {} \in SUBSET Blocks
  OBVIOUS
<1>5. Reach(v) \subseteq {}
  BY ONLY <1>3, <1>4, ReachLeast
<1>. QED  BY <1>5 DEF Held, HeldBy, v

LEMMA ClientIdle ==
  ASSUME TypeOK, ~ Open, alive \cap Roots = {}, NEW t \in Threads,
         frames[t] = << >>, asgn[t] = << >>
  PROVE  ~ Client(t)
<1>1. Usable(t) = {}
  <2>1. Held = {}
    BY HeldNone
  <2>2. \A b : ~ InBody(t, b)
    BY DEF InBody
  <2>. QED  BY <2>1, <2>2 DEF Usable
<1>2. \A r \in Roots : ~ Construct(t, r) /\ ~ Destroy(t, r)
  BY DEF Construct, Destroy
<1>3. ~ UsePointers(t)
  BY <1>1 DEF UsePointers, ConstructCopy
<1>4. ~ MakeMember(t) /\ ~ UnmakeMember(t) /\ ~ HasAbort(t)
  BY DEF MakeMember, Constructing, UnmakeMember, HasAbort
<1>5. ~ AssignEnd(t) /\ ~ HasEnd(t) /\ ~ Throw(t)
  BY DEF AssignEnd, HasEnd, Throw, Constructing
<1>. QED  BY <1>2, <1>3, <1>4, <1>5 DEF Client, Call

LEMMA ClientFlags ==
  ASSUME NEW t \in Threads, Client(t)
  PROVE  signal' = signal /\ terminate' = terminate /\ pc' = pc
<1>1. CASE Call(t)
  BY <1>1 DEF Call, UsePointers, Construct, Destroy, ConstructCopy, Assign, Reset, Has,
              MakeMember, UnmakeMember, HasAbort, gcVars
<1>2. CASE AssignEnd(t) \/ HasEnd(t) \/ Throw(t)
  BY <1>2 DEF AssignEnd, HasEnd, Throw, gcVars
<1>. QED  BY <1>1, <1>2 DEF Client

LEMMA AfterShutdownStep ==
  ASSUME TypeOK, AfterShutdown, [Next]_vars
  PROVE  AfterShutdown'
<1>1. ASSUME NEW t \in Threads, Client(t) PROVE AfterShutdown'
  <2>1. Open
    BY <1>1, ClientIdle DEF AfterShutdown
  <2>2. signal' = signal /\ terminate' = terminate /\ pc' = pc
    BY <1>1, ClientFlags
  <2>3. Open'
    BY <2>1, <2>2 DEF Open
  <2>4. pc # "ended"
    BY <2>1 DEF AfterShutdown, Open
  <2>5. (pc = "wait" => ~ terminate) /\ pc' = pc
    BY <2>2 DEF AfterShutdown
  <2>6. pc' = "wait" => ~ terminate'
    BY <2>2, <2>5
  <2>. QED  BY <2>3, <2>4, <2>5, <2>6 DEF AfterShutdown
<1>2. CASE Shutdown
  <2>1. /\ Open /\ alive \cap Roots = {} /\ \A t \in Threads : frames[t] = << >> /\ asgn[t] = << >>
        /\ alive' = alive /\ frames' = frames /\ asgn' = asgn /\ msgs' = msgs
        /\ pc' = pc /\ terminate' = terminate
    BY <1>2 DEF Shutdown, clientVars, gcVars
  <2>2. pc # "ended" /\ (pc = "wait" => ~ terminate)
    BY <2>1 DEF AfterShutdown, Open
  <2>. QED  BY <2>1, <2>2 DEF AfterShutdown
<1>3. CASE WaitFor
  <2>1. /\ pc = "wait" /\ pc' = "drain" /\ alive' = alive /\ frames' = frames /\ asgn' = asgn
    BY <1>3 DEF WaitFor, clientVars
  <2>2. ~ Open' => ~ Open
    <3>1. terminate' = signal /\ signal' \in {signal, FALSE}
      BY <1>3 DEF WaitFor
    <3>. QED  BY ONLY <3>1 DEF Open
  <2>. QED  BY <2>1, <2>2 DEF AfterShutdown
<1>4. CASE ExecuteMessage \/ DestroyMember \/ FreeMemory
  <2>1. /\ frames' = frames /\ asgn' = asgn /\ signal' = signal /\ terminate' = terminate
        /\ pc' \notin {"wait", "ended"} /\ alive' \subseteq alive
    BY <1>4 DEF ExecuteMessage, DestroyMember, FreeMemory, clientVars
  <2>2. Open' <=> Open
    BY <2>1 DEF Open
  <2>. QED  BY <2>1, <2>2 DEF AfterShutdown
<1>5. CASE Drained
  <2>1. /\ frames' = frames /\ asgn' = asgn /\ signal' = signal /\ terminate' = terminate
        /\ alive' = alive /\ msgs' = msgs /\ msgs = << >>
        /\ pc' = IF terminate THEN "ended" ELSE "wait"
    BY <1>5 DEF Drained, clientVars
  <2>2. Open' <=> Open
    BY <2>1 DEF Open
  <2>3. pc' = "ended" => terminate'
    BY <2>1
  <2>4. pc' = "wait" => ~ terminate'
    BY <2>1
  <2>. QED  BY <2>1, <2>2, <2>3, <2>4 DEF AfterShutdown
<1>6. CASE UNCHANGED vars
  BY <1>6 DEF AfterShutdown, Open, vars, clientVars, gcVars
<1>. QED  BY <1>1, <1>2, <1>3, <1>4, <1>5, <1>6 DEF Next, Collector, Stopped

LEMMA AfterShutdownInvariance == Spec => []AfterShutdown
<1>1. Init => AfterShutdown
  BY DEF Init, AfterShutdown, Open
<1>2. TypeOK /\ AfterShutdown /\ [Next]_vars => AfterShutdown'
  BY AfterShutdownStep
<1>. QED  BY <1>1, <1>2, CollectorTypeCorrect, PTL DEF Spec

LEMMA AnnouncedStay ==
  ASSUME msgs \in Seq(Messages), NEW m, msgs' = Append(msgs, m)
  PROVE  NewBlocks \subseteq NewBlocks' /\ (m.type = "NewObject" => m.block \in NewBlocks')
<1>. DEFINE M == Messages \cup {m}
<1>1. msgs \in Seq(M) /\ m \in M
  OBVIOUS
<1>. HIDE DEF M
<1>2. /\ Len(msgs) \in Nat /\ Len(msgs') = Len(msgs) + 1
      /\ \A i \in 1..Len(msgs) : msgs'[i] = msgs[i]
      /\ msgs'[Len(msgs) + 1] = m
  BY <1>1, AppendProperties
<1>3. \A i \in Announced : i \in 1..Len(msgs') /\ msgs'[i] = msgs[i] /\ msgs[i].type = "NewObject"
  BY <1>2 DEF Announced
<1>4. Announced' = {i \in 1..Len(msgs') : msgs'[i].type = "NewObject"}
  BY DEF Announced
<1>5. NewBlocks' = {msgs'[i].block : i \in Announced'}
  BY DEF NewBlocks
<1>6. NewBlocks \subseteq NewBlocks'
  BY <1>3, <1>4, <1>5 DEF NewBlocks
<1>7. ASSUME m.type = "NewObject" PROVE m.block \in NewBlocks'
  <2>1. Len(msgs) + 1 \in Announced'
    BY <1>2, <1>4, <1>7
  <2>. QED  BY <1>2, <1>5, <2>1
<1>. QED  BY <1>6, <1>7

LEMMA AnnouncedTaken ==
  ASSUME msgs \in Seq(Messages), msgs # << >>, msgs' = Tail(msgs), NEW b \in NewBlocks
  PROVE  b \in NewBlocks' \/ (msgs[1].type = "NewObject" /\ msgs[1].block = b)
<1>1. /\ Len(msgs) \in Nat \ {0} /\ Len(msgs') = Len(msgs) - 1
      /\ \A i \in 1..Len(msgs') : msgs'[i] = msgs[i + 1]
  BY HeadTailProperties, LenProperties, EmptySeq
<1>2. PICK i \in Announced : msgs[i].block = b
  BY DEF NewBlocks
<1>3. i \in 1..Len(msgs) /\ msgs[i].type = "NewObject"
  BY <1>2 DEF Announced
<1>4. CASE i = 1
  BY <1>2, <1>3, <1>4
<1>5. CASE i # 1
  <2>1. i - 1 \in 1..Len(msgs') /\ msgs'[i - 1] = msgs[i]
    BY <1>1, <1>3, <1>5
  <2>2. i - 1 \in Announced'
    BY <1>3, <2>1 DEF Announced
  <2>. QED  BY <1>2, <2>1, <2>2 DEF NewBlocks
<1>. QED  BY <1>4, <1>5

(* A step of the client takes a block into use only by announcing it.      *)
InUse(b) == heap[b] \in {"raw", "live"}

LEMMA ClientUses ==
  ASSUME TypeOK, SafetyInv, NEW t \in Threads, Client(t)
  PROVE  /\ NewBlocks \subseteq NewBlocks'
         /\ \A b \in Blocks : InUse(b)' => InUse(b) \/ b \in NewBlocks'
<1>1. msgs \in Seq(Messages) /\ heap \in [Blocks -> {"free", "raw", "live", "destroyed", "dropped"}]
  BY DEF TypeOK
<1>2. CASE \E s : \E b \in Blocks : Has(t, s, b)
  <2>1. PICK s : \E b \in Blocks : Has(t, s, b)
    BY <1>2
  <2>2. PICK b \in Blocks : Has(t, s, b)
    BY <2>1
  <2>3. heap' = [heap EXCEPT ![b] = "raw"] /\ msgs' = Append(msgs, NewObjectMsg(s, b))
    BY <2>2 DEF Has, Send
  <2>4. NewObjectMsg(s, b).type = "NewObject" /\ NewObjectMsg(s, b).block = b
    BY DEF NewObjectMsg
  <2>5. NewBlocks \subseteq NewBlocks' /\ b \in NewBlocks'
    BY <1>1, <2>3, <2>4, AnnouncedStay
  <2>6. \A c \in Blocks : c # b => heap'[c] = heap[c]
    BY <1>1, <2>3
  <2>. QED  BY <2>5, <2>6 DEF InUse
<1>3. CASE HasEnd(t)
  <2>. DEFINE b == Head(frames[t]).block
  <2>1. msgs' = msgs /\ heap' = [heap EXCEPT ![b] = "live"] /\ frames[t] # << >>
    BY <1>3 DEF HasEnd
  <2>2. Head(frames[t]) = frames[t][1] /\ 1 \in 1..Len(frames[t])
    BY <2>1, FrameFacts
  <2>3. heap[frames[t][1].block] = "raw"
    BY <2>2, FitsParts DEF SafetyInv, HeapFits
  <2>4. heap[b] = "raw"
    BY <2>2, <2>3
  <2>5. NewBlocks' = NewBlocks
    BY <2>1 DEF NewBlocks, Announced
  <2>. HIDE DEF b
  <2>6. \A c \in Blocks : c # b => heap'[c] = heap[c]
    BY <1>1, <2>1
  <2>. QED  BY <2>4, <2>5, <2>6 DEF InUse
<1>4. CASE heap' = heap /\ (msgs' = msgs \/ \E m : msgs' = Append(msgs, m))
  <2>1. CASE msgs' = msgs
    <3>1. NewBlocks' = NewBlocks
      BY <2>1 DEF NewBlocks, Announced
    <3>. QED  BY <1>4, <3>1 DEF InUse
  <2>2. CASE \E m : msgs' = Append(msgs, m)
    <3>1. NewBlocks \subseteq NewBlocks'
      BY <1>1, <2>2, AnnouncedStay
    <3>. QED  BY <1>4, <3>1 DEF InUse
  <2>. QED  BY <1>4, <2>1, <2>2
<1>5. (\E s : \E b \in Blocks : Has(t, s, b)) \/ HasEnd(t)
      \/ (heap' = heap /\ (msgs' = msgs \/ \E m : msgs' = Append(msgs, m)))
  <2>1. CASE Call(t)
    <3>1. CASE UsePointers(t)
      BY <3>1 DEF UsePointers, ConstructCopy, Assign, Reset, Send
    <3>2. CASE \E r \in Roots : Construct(t, r) \/ Destroy(t, r)
      BY <3>2 DEF Construct, Destroy, Send
    <3>3. CASE MakeMember(t)
      BY <3>3 DEF MakeMember, Send
    <3>4. CASE UnmakeMember(t) \/ HasAbort(t)
      BY <3>4 DEF UnmakeMember, HasAbort, Send
    <3>. QED  BY <2>1, <3>1, <3>2, <3>3, <3>4 DEF Call
  <2>2. CASE AssignEnd(t) \/ HasEnd(t) \/ Throw(t)
    BY <2>2 DEF AssignEnd, Throw
  <2>. QED  BY <2>1, <2>2 DEF Client
<1>. QED  BY <1>2, <1>3, <1>4, <1>5

LEMMA CompleteFacts ==
  /\ Complete <=> (graph.fault = {} =>
       /\ \A b \in Blocks : InUse(b) => b \in NewBlocks \cup BlocksOf(graph)
       /\ Rooted(ViewOf(graph), BlocksOf(graph)))
  /\ Complete' <=> (graph'.fault = {} =>
       /\ \A b \in Blocks : InUse(b)' => b \in NewBlocks' \cup BlocksOf(graph')
       /\ Rooted(ViewOf(graph'), BlocksOf(graph')))
BY DEF Complete, InUse

LEMMA CompleteKept ==
  ASSUME Complete, graph' = graph, NewBlocks \subseteq NewBlocks',
         \A b \in Blocks : InUse(b)' => InUse(b) \/ b \in NewBlocks'
  PROVE  Complete'
BY CompleteFacts

LEMMA ExecuteComplete ==
  ASSUME IInv, SafetyInv, Complete, ExecuteMessage
  PROVE  Complete'
<1>1. PICK views : Seen(views)
  BY DEF SafetyInv
<1>. DEFINE m == msgs[1]
<1>2. /\ m \in Messages /\ Head(msgs) = m /\ msgs # << >> /\ msgs \in Seq(Messages) /\ msgs' = Tail(msgs)
      /\ graph.fault = {} /\ Placed(graph, {}) /\ views[0] = ViewOf(graph)
      /\ graph' = Execute(graph, m)
      /\ OneKeeper(ViewOf(graph)) /\ Allowed(ViewOf(graph), m) /\ OneKeeper(After(ViewOf(graph), m))
      /\ m.type = "NewObject" => m.block \notin BlocksOf(graph)
  BY <1>1, StartsFounded
<1>3. ASSUME NEW b \in NewBlocks
      PROVE  b \in NewBlocks' \/ (m.type = "NewObject" /\ m.block = b)
  BY <1>2, <1>3, AnnouncedTaken
<1>4. heap \in [Blocks -> {"free", "raw", "live", "destroyed", "dropped"}]
  BY DEF IInv, GraphConsistent, TypeOK
<1>5. LET r == graph'.released IN
      IF r.block = Null THEN heap' = heap
      ELSE heap' = [heap EXCEPT ![r.block] = IF r.dtion THEN "destroyed" ELSE "dropped"]
  BY DEF ExecuteMessage
<1>. HIDE DEF m
<1>6. CASE graph'.fault = {"no place for a vertex"}
  BY <1>6, CompleteFacts
<1>7. ASSUME NEW b \in Blocks \cup {Null}, Executed(graph, m, graph', b)
      PROVE  Complete'
  <2>1. Rooted(ViewOf(graph), BlocksOf(graph)) 
        /\ \A c \in Blocks : InUse(c) => c \in NewBlocks \cup BlocksOf(graph)
    BY <1>2, CompleteFacts
  <2>2. /\ Placed(graph, {}) /\ Rooted(ViewOf(graph), BlocksOf(graph)) /\ m \in Messages
        /\ Allowed(ViewOf(graph), m) /\ Executed(graph, m, graph', b)
    BY <1>2, <1>7, <2>1
  <2>3. Rooted(ViewOf(graph'), BlocksOf(graph')) /\ BlocksOf(graph') = Known(graph, m, b)
    BY ONLY <2>2, RootedExecuted
  <2>4. graph'.released.block = b
    <3>1. CASE b = Null
      <4>1. graph'.released = NoRelease
        BY <1>7, <3>1 DEF Executed
      <4>2. NoRelease.block = Null
        BY DEF NoRelease
      <4>. QED  BY ONLY <3>1, <4>1, <4>2
    <3>2. CASE b # Null
      <4>1. graph'.released = [block |-> b, dtion |-> m.type # "AbortedObject"]
        BY <1>7, <3>2 DEF Executed
      <4>. QED  BY ONLY <4>1
    <3>. QED  BY <3>1, <3>2
  <2>5. ASSUME NEW c \in Blocks, InUse(c)'
        PROVE  InUse(c) /\ c # b
    <3>1. CASE b = Null
      <4>1. heap' = heap
        BY <1>5, <2>4, <3>1
      <4>. QED  BY <2>5, <3>1, <4>1, NullAssumption DEF InUse
    <3>2. CASE b # Null
      <4>1. heap'[b] \in {"destroyed", "dropped"} /\ \A x \in Blocks : x # b => heap'[x] = heap[x]
        BY <1>4, <1>5, <2>4, <3>2
      <4>. QED  BY <2>5, <4>1 DEF InUse
    <3>. QED  BY <3>1, <3>2
  <2>6. ASSUME NEW c \in Blocks, InUse(c)'
        PROVE  c \in NewBlocks' \cup BlocksOf(graph')
    <3>1. InUse(c) /\ c # b
      BY <2>5, <2>6
    <3>2. c \in NewBlocks \cup BlocksOf(graph)
      BY <2>1, <3>1
    <3>3. c \in NewBlocks' \/ (m.type = "NewObject" /\ m.block = c) \/ c \in BlocksOf(graph)
      BY <1>3, <3>2
    <3>. QED  BY <2>3, <3>1, <3>3 DEF Known
  <2>. QED  BY <2>3, <2>6, CompleteFacts
<1>8. \/ graph'.fault = {"no place for a vertex"}
      \/ \E b \in Blocks \cup {Null} : Executed(graph, m, graph', b)
  BY <1>2, ExecutedView
<1>. QED  BY <1>6, <1>7, <1>8

LEMMA CompleteStep ==
  ASSUME IInv, SafetyInv, Complete, [Next]_vars
  PROVE  Complete'
<1>1. TypeOK /\ msgs \in Seq(Messages)
      /\ heap \in [Blocks -> {"free", "raw", "live", "destroyed", "dropped"}]
  BY DEF IInv, GraphConsistent, TypeOK
<1>2. ASSUME NEW t \in Threads, Client(t) PROVE Complete'
  <2>1. graph' = graph
    BY <1>2, ClientKeeps
  <2>. QED  BY <1>1, <1>2, <2>1, ClientUses, CompleteKept
<1>3. CASE heap' = heap /\ msgs' = msgs /\ graph' = graph
  <2>1. NewBlocks' = NewBlocks
    BY <1>3 DEF NewBlocks, Announced
  <2>. QED  BY <1>3, <2>1, CompleteKept DEF InUse
<1>4. CASE DestroyMember
  <2>1. /\ heap' = heap /\ graph' = graph
        /\ msgs' = Append(msgs, SptrUnregistrationMsg(<<dying.block, dying.left>>))
    BY <1>4 DEF DestroyMember
  <2>2. NewBlocks \subseteq NewBlocks'
    BY <1>1, <2>1, AnnouncedStay
  <2>. QED  BY <2>1, <2>2, CompleteKept DEF InUse
<1>5. CASE FreeMemory
  <2>1. /\ heap' = [heap EXCEPT ![dying.block] = "free"] /\ graph' = graph /\ msgs' = msgs
    BY <1>5 DEF FreeMemory
  <2>2. NewBlocks' = NewBlocks
    BY <2>1 DEF NewBlocks, Announced
  <2>3. \A b \in Blocks : InUse(b)' => InUse(b)
    BY <1>1, <2>1 DEF InUse
  <2>. QED  BY <2>1, <2>2, <2>3, CompleteKept
<1>6. CASE WaitFor \/ Drained \/ Shutdown \/ UNCHANGED vars
  BY <1>3, <1>6 DEF WaitFor, Drained, Shutdown, vars, gcVars
<1>7. CASE ExecuteMessage
  BY <1>7, ExecuteComplete
<1>. QED  BY <1>2, <1>4, <1>5, <1>6, <1>7 DEF Next, Collector, Stopped

(***************************************************************************)
(* Nothing is ever cut off: every block in use waits for its vertex or has *)
(* one that the pointers outside the blocks of the graph lead to.          *)
(***************************************************************************)
THEOREM NothingIsCutOff == Usage = {} => (Spec => []Complete)
<1>. SUFFICES ASSUME Usage = {} PROVE Spec => []Complete
  OBVIOUS
<1>1. ASSUME Init PROVE Complete
  <2>1. /\ graph = EmptyGraph /\ heap = [b \in Blocks |-> "free"]
    BY <1>1 DEF Init
  <2>2. DOMAIN graph.vertex = {}
    BY <2>1 DEF EmptyGraph
  <2>3. BlocksOf(graph) = {}
    BY <2>2 DEF BlocksOf
  <2>4. \A v : Rooted(v, {})
    BY DEF Rooted
  <2>. QED  BY <2>1, <2>3, <2>4 DEF Complete
<1>2. IInv /\ SafetyInv /\ Complete /\ [Next]_vars => Complete'
  BY CompleteStep
<1>. QED  BY <1>1, <1>2, CollectorInvariance, ViewsInvariance, PTL DEF Spec

-----------------------------------------------------------------------------
(* When nothing is under way and the queue is empty, a block is in use or  *)
(* free, those in use are the ones of the graph, and all pointers lie in   *)
(* them or outside the memory.                                             *)
QuietState(v) ==
  /\ Fits /\ Sees(v) /\ v = ViewOf(graph)
  /\ DOMAIN graph.table = alive
  /\ \A b \in Blocks : InUse(b) <=> heap[b] # "free"
  /\ \A b : b \in BlocksOf(graph) <=> b \in Blocks /\ InUse(b)
  /\ \A s \in alive : Home(s) \in BlocksOf(graph) \cup {Null}
  /\ \A s \in alive : LeadsIn(frames, asgn, ptr, s) = ptr[s]

LEMMA QuietFacts ==
  ASSUME IInv, SafetyInv, NoFault, Complete, Quiet
  PROVE  QuietState(ViewOf(graph))
<1>1. PICK views : Seen(views)
  BY DEF SafetyInv
<1>. DEFINE v == ViewOf(graph)
<1>2. /\ TypeOK /\ Fits /\ GraphOK(graph) /\ EndsExist(graph) /\ BlocksTracked /\ graph.fault = {}
  BY InvFacts DEF GraphInv, SafetyInv, EdgesMatchTable, NoFault
<1>3. /\ msgs = << >> /\ pc # "free" /\ \A t \in Threads : frames[t] = << >> /\ asgn[t] = << >>
  BY DEF Quiet
<1>4. Len(msgs) = 0 /\ \A t \in Threads : 1..Len(frames[t]) = {}
  BY <1>3, EmptySeq
<1>5. Sees(views[0]) /\ views[0] = v
  <2>1. Sees(views[Len(msgs)])
    BY <1>1, <1>2, SeenFacts
  <2>2. Founded(views[0], graph)
    BY <1>1 DEF Seen
  <2>. QED  BY <1>2, <1>4, <2>1, <2>2 DEF Founded
<1>6. DOMAIN graph.table = alive
  <2>1. DOMAIN v = alive
    BY <1>5 DEF Sees, Shows
  <2>2. DOMAIN v = DOMAIN graph.table
    BY <1>2, ViewFacts
  <2>. QED  BY <2>1, <2>2
<1>. HIDE DEF v
<1>7. HeapFits(frames, alive, heap, dying) /\ dying.block = Null
  BY <1>2, <1>3, FitsParts DEF SafetyInv
<1>8. ASSUME NEW b \in Blocks PROVE InUse(b) <=> heap[b] # "free"
  <2>1. heap[b] \in {"free", "raw", "live", "destroyed", "dropped"}
    BY <1>2 DEF TypeOK
  <2>2. heap[b] \in {"destroyed", "dropped"} => b = Null
    BY <1>7 DEF HeapFits
  <2>. QED  BY <2>1, <2>2, NullAssumption DEF InUse
<1>9. ASSUME NEW b PROVE b \in BlocksOf(graph) <=> b \in Blocks /\ InUse(b)
  <2>1. NewBlocks = {}
    BY <1>4 DEF NewBlocks, Announced
  <2>2. b \in Blocks /\ InUse(b) => b \in BlocksOf(graph)
    BY <1>2, <2>1, CompleteFacts
  <2>3. BlocksOf(graph) \subseteq Blocks
    BY <1>2, ViewFacts
  <2>4. b \in BlocksOf(graph) => heap[b] \in {"raw", "live"}
    BY <1>2 DEF BlocksTracked
  <2>. QED  BY <2>2, <2>3, <2>4 DEF InUse
<1>10. ASSUME NEW s \in alive PROVE Home(s) \in BlocksOf(graph) \cup {Null}
  <2>. SUFFICES ASSUME Home(s) # Null PROVE Home(s) \in BlocksOf(graph)
    OBVIOUS
  <2>1. s \in Sptrs /\ Home(s) \in Blocks
    BY <1>2, RootFacts DEF TypeOK
  <2>2. PICK i \in 1..Slots : s = <<Home(s), i>>
    BY <2>1, MemberShape
  <2>3. ~ HasMade(alive, Home(s), 0)
    BY <2>2, SlotsAssumption DEF HasMade
  <2>4. heap[Home(s)] # "free"
    BY <1>7, <2>1, <2>3 DEF HeapFits
  <2>. QED  BY <1>8, <1>9, <2>1, <2>4
<1>11. ASSUME NEW s \in alive PROVE LeadsIn(frames, asgn, ptr, s) = ptr[s]
  <2>1. ~ IsTarget(frames, s)
    BY <1>4 DEF IsTarget
  <2>2. ~ IsAssigned(asgn, s)
    BY <1>3 DEF IsAssigned
  <2>. QED  BY <2>1, <2>2 DEF LeadsIn
<1>12. QuietState(v)
  BY <1>2, <1>5, <1>6, <1>8, <1>9, <1>10, <1>11 DEF QuietState, v
<1>. QED  BY <1>12 DEF v

LEMMA QuietAgrees ==
  ASSUME IInv, SafetyInv, NoFault, Complete, Quiet
  PROVE  /\ DOMAIN graph.table = alive
         /\ \A s \in alive :
              ptr[s] = LET v == graph.table[s].pointed IN
                       IF v = Null THEN Null ELSE graph.vertex[v].addr
         /\ {b \in Blocks : heap[b] # "free"} = Held
<1>. DEFINE v == ViewOf(graph)
            B == BlocksOf(graph)
            S == Reach(v)
<1>1. QuietState(v)
  BY QuietFacts
<1>2. /\ Fits /\ Sees(v) /\ DOMAIN graph.table = alive
      /\ \A b \in Blocks : InUse(b) <=> heap[b] # "free"
      /\ \A b : b \in B <=> b \in Blocks /\ InUse(b)
      /\ \A s \in alive : Home(s) \in B \cup {Null}
      /\ \A s \in alive : LeadsIn(frames, asgn, ptr, s) = ptr[s]
  BY <1>1 DEF QuietState
<1>3. GraphOK(graph) /\ EndsExist(graph) /\ graph.fault = {}
  BY InvFacts DEF GraphInv, EdgesMatchTable, NoFault
<1>4. IsView(v) /\ DOMAIN v = alive /\ S \subseteq B
  BY <1>2, <1>3, ViewFacts
<1>5. Rooted(v, B)
  BY <1>3, CompleteFacts
<1>6. \A s \in DOMAIN graph.table :
        v[s] = LET u == graph.table[s].pointed IN
               IF u = Null THEN Null ELSE graph.vertex[u].addr
  BY DEF ViewOf
<1>. HIDE DEF v, B
<1>7. Closed(v, S)
  BY <1>4, ReachClosed
<1>. HIDE DEF S
<1>8. S = B
  <2>1. LeadsWithin(v, B, S)
    BY <1>2, <1>4, <1>7 DEF LeadsWithin, Closed
  <2>. QED  BY <1>4, <1>5, <2>1, RootedFacts
<1>9. Held = S /\ \A s \in alive : Reaches(v, s) => v[s] = LeadsIn(frames, asgn, ptr, s)
  BY <1>2, SeesReach DEF S
<1>10. \A s \in alive : v[s] = ptr[s]
  BY <1>2, <1>8, <1>9 DEF Reaches, S
<1>11. {b \in Blocks : heap[b] # "free"} = Held
  BY <1>2, <1>8, <1>9
<1>. QED  BY <1>2, <1>6, <1>10, <1>11

(***************************************************************************)
(* When nothing is under way and the queue is empty, the graph shows what  *)
(* the client's pointers are, and what they do not lead to has been freed, *)
(* cycles included.                                                        *)
(***************************************************************************)
THEOREM GraphAgreesWhenQuiet == Usage = {} /\ PlacesSuffice => (Spec => []AgreesWhenQuiet)
<1>. SUFFICES ASSUME Usage = {}, PlacesSuffice PROVE Spec => []AgreesWhenQuiet
  OBVIOUS
<1>1. IInv /\ SafetyInv /\ NoFault /\ Complete => AgreesWhenQuiet
  BY QuietAgrees DEF AgreesWhenQuiet
<1>. QED  BY <1>1, CollectorInvariance, ViewsInvariance, GraphNeverFaults, NothingIsCutOff, PTL

LEMMA NothingHeld ==
  ASSUME IInv, SafetyInv, NoFault, Complete, AfterShutdown, pc = "ended"
  PROVE  /\ \A b \in Blocks : heap[b] = "free"
         /\ DOMAIN graph.table = {} /\ DOMAIN graph.vertex = {}
<1>1. /\ TypeOK /\ GraphInv(graph) /\ graph.fault = {}
  BY InvFacts DEF NoFault
<1>2. /\ ~ Open /\ alive \cap Roots = {} /\ msgs = << >>
      /\ \A t \in Threads : frames[t] = << >> /\ asgn[t] = << >>
  BY DEF AfterShutdown, Open
<1>3. Quiet
  BY <1>2 DEF Quiet
<1>4. DOMAIN graph.table = alive /\ {b \in Blocks : heap[b] # "free"} = Held
  BY <1>3, QuietAgrees
<1>5. Held = {}
  BY <1>1, <1>2, HeldNone
<1>6. QuietState(ViewOf(graph))
  BY <1>3, QuietFacts
<1>7. alive = {}
  <2>1. ASSUME NEW s \in alive PROVE FALSE
    <3>1. Home(s) # Null
      BY <1>1, <1>2, RootFacts DEF TypeOK
    <3>2. Home(s) \in Blocks /\ heap[Home(s)] # "free"
      BY <1>6, <3>1 DEF QuietState
    <3>. QED  BY <1>4, <1>5, <3>2
  <2>. QED  BY <2>1
<1>8. \A u \in DOMAIN graph.vertex : Released(graph, u) \/ IsPointed(graph, u)
  <2>1. PICK views : Seen(views)
    BY DEF SafetyInv
  <2>. QED  BY <1>1, <2>1 DEF Seen, Founded
<1>9. /\ IsFiniteSet(DOMAIN graph.vertex)
      /\ Cardinality(DOMAIN graph.vertex) <= 2 * Cardinality(DOMAIN graph.table)
  BY <1>1, <1>8, FewVertices
<1>10. Cardinality(DOMAIN graph.table) = 0
  BY <1>4, <1>7, FS_EmptySet
<1>11. Cardinality(DOMAIN graph.vertex) \in Nat
  BY <1>9, FS_CardinalityType
<1>12. Cardinality(DOMAIN graph.vertex) = 0
  BY ONLY <1>9, <1>10, <1>11
<1>13. DOMAIN graph.vertex = {}
  BY ONLY <1>9, <1>12, FS_EmptySet
<1>. QED  BY <1>4, <1>5, <1>7, <1>13

(* After the shutdown no memory is left and the graph is empty.            *)
THEOREM NothingIsLeft == Usage = {} /\ PlacesSuffice => (Spec => []NothingLeft)
<1>. SUFFICES ASSUME Usage = {}, PlacesSuffice PROVE Spec => []NothingLeft
  OBVIOUS
<1>1. IInv /\ SafetyInv /\ NoFault /\ Complete /\ AfterShutdown => NothingLeft
  BY NothingHeld DEF NothingLeft
<1>. QED  BY <1>1, CollectorInvariance, ViewsInvariance, GraphNeverFaults, NothingIsCutOff,
             AfterShutdownInvariance, PTL
=============================================================================
