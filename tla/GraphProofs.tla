----------------------------- MODULE GraphProofs ------------------------------
(***************************************************************************)
(* Proofs about the graph of the collector (MemoryDigraph) and about the   *)
(* pools from which its vertices take their memory (DynamicMemPool).       *)
(*                                                                         *)
(* The edges that a vertex counts are the references that the hash table   *)
(* holds. An operation first ends a reference, which takes one edge from   *)
(* two counters and may release and delete vertices, and then makes        *)
(* another. Each of these steps is a lemma; what a message does to the     *)
(* graph (ExecuteFacts) is put together from them.                         *)
(*                                                                         *)
(* The second half says the same of views (CollectorViews): what of the    *)
(* pointers of a graph can be reached, how that answers to what the search *)
(* of IsReachable finds, and what a message makes of the view of a graph   *)
(* (ExecutedView).                                                         *)
(***************************************************************************)
EXTENDS CollectorViews, DynamicMemPool, FiniteSetTheorems, SequenceTheorems, TLAPS

-----------------------------------------------------------------------------
(* The pools: a block of memory has one user at a time. *)

(* What PoolIInv says of one pool, apart from its type. *)
PoolInv(p, m, own) ==
  /\ m.next <= m.size
  /\ \A i \in 0..(m.next - 1) : own[<<p, i>>] = 0 <=> i \in SetOf(m.avail)
  /\ \A i \in SetOf(m.avail) : i < m.next
  /\ \A i, j \in 1..Len(m.avail) : m.avail[i] = m.avail[j] => i = j

(* The blocks of p in use are among those it has given out. *)
UseInv(p, m, own) == \A i \in Indexes : own[<<p, i>>] > 0 => i < m.next

(* The places of a pool are indexes, whichever of the sizes it has. *)
LEMMA SizeFacts ==
  /\ InitialSize \in Nat \ {0} /\ GrownSize \in Nat \ {0}
  /\ Indexes \subseteq Nat
  /\ \A size \in {InitialSize, GrownSize} : \A i \in Nat : i < size => i \in Indexes
<1>1. InitialSize \in Nat \ {0} /\ GrownSize \in Nat \ {0}
  BY SizesAssumption
<1>. QED  BY <1>1 DEF Indexes

(* The stack: what Append adds, and what dropping the last element removes. *)
LEMMA PushFacts ==
  ASSUME NEW S, NEW s \in Seq(S), NEW e \in S, e \notin SetOf(s),
         \A i, j \in 1..Len(s) : s[i] = s[j] => i = j
  PROVE  /\ Append(s, e) \in Seq(S)
         /\ SetOf(Append(s, e)) = SetOf(s) \cup {e}
         /\ \A i, j \in 1..Len(Append(s, e)) :
              Append(s, e)[i] = Append(s, e)[j] => i = j
<1>1. /\ Len(Append(s, e)) = Len(s) + 1
      /\ \A i \in 1..Len(s) : Append(s, e)[i] = s[i]
      /\ Append(s, e)[Len(s) + 1] = e
      /\ Append(s, e) \in Seq(S)
      /\ Len(s) \in Nat
  BY AppendProperties, LenProperties
<1>. QED  BY <1>1 DEF SetOf

(* What taking the last element of a sequence without repetitions leaves. *)
LEMMA PopFacts ==
  ASSUME NEW S, NEW s \in Seq(S), s # << >>,
         \A i, j \in 1..Len(s) : s[i] = s[j] => i = j
  PROVE  LET t == SubSeq(s, 1, Len(s) - 1) IN
         /\ t \in Seq(S)
         /\ s[Len(s)] \in S
         /\ s[Len(s)] \in SetOf(s)
         /\ SetOf(t) = SetOf(s) \ {s[Len(s)]}
         /\ \A i, j \in 1..Len(t) : t[i] = t[j] => i = j
<1>. DEFINE t == SubSeq(s, 1, Len(s) - 1)
<1>1. Len(s) \in Nat /\ Len(s) > 0 /\ \A i \in 1..Len(s) : s[i] \in S
  BY EmptySeq, ElementOfSeq, LenProperties
<1>. DEFINE n == Len(s) - 1
<1>2. n \in Int /\ 1 \in Int /\ \A i \in 1..n : s[i] \in S
  BY <1>1
<1>3. /\ SubSeq(s, 1, n) \in Seq(S)
      /\ Len(SubSeq(s, 1, n)) = IF 1 <= n THEN n - 1 + 1 ELSE 0
      /\ \A i \in 1..(n - 1 + 1) : SubSeq(s, 1, n)[i] = s[1 + i - 1]
  <2>. HIDE DEF n
  <2>. QED  BY <1>2, SubSeqProperties
<1>4. /\ t \in Seq(S)
      /\ Len(t) = Len(s) - 1
      /\ \A i \in 1..(Len(s) - 1) : t[i] = s[i]
  <2>1. t = SubSeq(s, 1, n) /\ n \in Nat /\ n = Len(s) - 1
    BY <1>1
  <2>. HIDE DEF t, n
  <2>2. Len(t) = n
    BY <1>3, <2>1
  <2>3. \A i \in 1..n : i \in 1..(n - 1 + 1) /\ 1 + i - 1 = i
    BY <2>1
  <2>4. \A i \in 1..n : t[i] = s[i]
    BY <1>3, <2>1, <2>3
  <2>. QED  BY <1>3, <2>1, <2>2, <2>4
<1>. QED  BY <1>1, <1>4 DEF SetOf

-----------------------------------------------------------------------------
(* What a MemoryPool that is not empty gives is not in use. *)
LEMMA GiveFacts ==
  ASSUME NEW p \in Pools, NEW m \in MemoryPool, NEW own \in [PoolBlocks -> Nat],
         ~ IsEmpty(m), PoolInv(p, m, own), UseInv(p, m, own),
         NEW i, i = NextIndex(m),
         NEW m2, m2 = WithoutNext(m),
         NEW own2, own2 = [own EXCEPT ![<<p, i>>] = @ + 1]
  PROVE  /\ i \in Indexes /\ own[<<p, i>>] = 0
         /\ m2 \in MemoryPool /\ m2.next > 0
         /\ PoolInv(p, m2, own2) /\ UseInv(p, m2, own2)
<1>1. m.size \in {InitialSize, GrownSize} /\ m.next \in Nat /\ m.avail \in Seq(Indexes)
  BY DEF MemoryPool
<1>2. m = [size |-> m.size, next |-> m.next, avail |-> m.avail]
  BY DEF MemoryPool
<1>3. \A j \in Nat : j < m.size => j \in Indexes
  BY <1>1, SizeFacts
<1>4. CASE m.avail # << >>
  <2>. DEFINE t == SubSeq(m.avail, 1, Len(m.avail) - 1)
  <2>1. /\ i = m.avail[Len(m.avail)]
        /\ m2 = [size |-> m.size, next |-> m.next, avail |-> t]
    BY <1>2, <1>4 DEF NextIndex, WithoutNext
  <2>2. /\ t \in Seq(Indexes) /\ i \in Indexes /\ i \in SetOf(m.avail)
        /\ SetOf(t) = SetOf(m.avail) \ {i}
        /\ \A j, k \in 1..Len(t) : t[j] = t[k] => j = k
    <3>1. \A j, k \in 1..Len(m.avail) : m.avail[j] = m.avail[k] => j = k
      BY DEF PoolInv
    <3>. HIDE DEF PoolInv
    <3>. QED  BY ONLY <1>1, <1>4, <2>1, <3>1, PopFacts
  <2>. HIDE DEF t
  <2>3. i \in 0..(m.next - 1) /\ own[<<p, i>>] = 0
    BY <1>1, <2>2, SizeFacts DEF PoolInv
  <2>4. m2.size = m.size /\ m2.next = m.next /\ m2.avail = t
    BY <2>1
  <2>5. m2 \in MemoryPool /\ m2.next > 0
    <3>1. m2 \in MemoryPool
      BY <1>1, <2>1, <2>2 DEF MemoryPool
    <3>. QED  BY <1>1, <2>3, <2>4, <3>1
  <2>6. \A j \in Indexes : own2[<<p, j>>] = IF j = i THEN 1 ELSE own[<<p, j>>]
    BY <2>2, <2>3 DEF PoolBlocks
  <2>7. \A j \in 0..(m.next - 1) : j \in Indexes
    BY <1>1, <1>3, SizeFacts DEF PoolInv
  <2>8. PoolInv(p, m2, own2)
    BY <1>1, <2>2, <2>3, <2>4, <2>6, <2>7 DEF PoolInv
  <2>9. UseInv(p, m2, own2)
    BY <1>1, <2>3, <2>4, <2>6 DEF UseInv
  <2>. QED  BY <2>2, <2>3, <2>5, <2>8, <2>9
<1>5. CASE m.avail = << >>
  <2>1. i = m.next /\ m2 = [size |-> m.size, next |-> m.next + 1, avail |-> << >>]
    BY <1>2, <1>5 DEF NextIndex, WithoutNext
  <2>2. m2.size = m.size /\ m2.next = m.next + 1 /\ m2.avail = << >>
    BY <2>1
  <2>3. i \in Nat /\ i < m.size /\ m.size \in Nat
    BY <1>1, <1>5, <2>1, SizeFacts DEF IsEmpty, PoolInv
  <2>4. i \in Indexes
    BY <1>3, <2>3
  <2>5. own[<<p, i>>] = 0
    <3>1. own[<<p, i>>] \in Nat
      BY <2>4 DEF PoolBlocks
    <3>2. own[<<p, i>>] > 0 => i < m.next
      BY <2>4 DEF UseInv
    <3>. QED  BY <2>1, <2>3, <3>1, <3>2
  <2>6. m2 \in MemoryPool /\ m2.next > 0
    <3>1. << >> \in Seq(Indexes)
      BY EmptySeq
    <3>. QED  BY <1>1, <2>1, <3>1 DEF MemoryPool
  <2>7. \A j \in Indexes : own2[<<p, j>>] = IF j = i THEN 1 ELSE own[<<p, j>>]
    BY <2>4, <2>5 DEF PoolBlocks
  <2>8. SetOf(m.avail) = {} /\ SetOf(m2.avail) = {} /\ Len(m2.avail) = 0
    BY <1>5, <2>2 DEF SetOf
  <2>9. \A j \in 0..(m2.next - 1) : j \in Indexes /\ (j = i \/ j \in 0..(m.next - 1))
    BY <1>1, <1>3, <2>1, <2>2, <2>3
  <2>10. m2.next <= m2.size
    BY <1>1, <2>1, <2>2, <2>3
  <2>11. \A j \in 0..(m2.next - 1) : own2[<<p, j>>] # 0
    <3>1. \A j \in 0..(m.next - 1) : own[<<p, j>>] # 0
      BY <2>8 DEF PoolInv
    <3>. QED  BY <2>7, <2>9, <3>1
  <2>12. PoolInv(p, m2, own2)
    BY <2>8, <2>10, <2>11 DEF PoolInv
  <2>13. UseInv(p, m2, own2)
    <3>1. \A j \in Indexes : own[<<p, j>>] > 0 => j < m.next
      BY DEF UseInv
    <3>. QED  BY <1>1, <2>1, <2>2, <2>7, <3>1, SizeFacts DEF UseInv
  <2>. QED  BY <2>4, <2>5, <2>6, <2>12, <2>13
<1>. QED  BY <1>4, <1>5

(* A block that comes back goes on the stack of its pool. *)
WithBlock(m, i) == [m EXCEPT !.avail = Append(@, i)]

(* The pool it comes back to stays sound, and has a block to give. *)
LEMMA TakeBackFacts ==
  ASSUME NEW p \in Pools, NEW m \in MemoryPool, NEW own \in [PoolBlocks -> Nat],
         PoolInv(p, m, own), UseInv(p, m, own),
         NEW i \in Indexes, own[<<p, i>>] = 1,
         NEW own2,
         \A j \in Indexes : own2[<<p, j>>] = IF j = i THEN 0 ELSE own[<<p, j>>]
  PROVE  LET m2 == WithBlock(m, i) IN
         /\ m2 \in MemoryPool /\ m2.next = m.next /\ ~ IsEmpty(m2)
         /\ PoolInv(p, m2, own2) /\ UseInv(p, m2, own2)
<1>. DEFINE m2 == WithBlock(m, i)
            t == Append(m.avail, i)
<1>1. m.size \in {InitialSize, GrownSize} /\ m.next \in Nat /\ m.avail \in Seq(Indexes)
  BY DEF MemoryPool
<1>2. m2 = [size |-> m.size, next |-> m.next, avail |-> t]
  <2>1. m = [size |-> m.size, next |-> m.next, avail |-> m.avail]
    BY DEF MemoryPool
  <2>. QED  BY ONLY <2>1, SMTT(30) DEF WithBlock
<1>. HIDE DEF m2
<1>3. i \in 0..(m.next - 1) /\ i \notin SetOf(m.avail)
  <2>1. i < m.next /\ i \in Nat
    BY SizeFacts DEF UseInv
  <2>2. i \in 0..(m.next - 1)
    BY <1>1, <2>1
  <2>. QED  BY <2>2 DEF PoolInv
<1>4. /\ t \in Seq(Indexes) /\ t # << >>
      /\ SetOf(t) = SetOf(m.avail) \cup {i}
      /\ \A j, k \in 1..Len(t) : t[j] = t[k] => j = k
  <2>1. \A j, k \in 1..Len(m.avail) : m.avail[j] = m.avail[k] => j = k
    BY DEF PoolInv
  <2>2. i \in Indexes
    OBVIOUS
  <2>3. t \in Seq(Indexes) /\ t # << >>
    BY <1>1, AppendProperties
  <2>4. /\ SetOf(Append(m.avail, i)) = SetOf(m.avail) \cup {i}
        /\ \A j, k \in 1..Len(Append(m.avail, i)) :
             Append(m.avail, i)[j] = Append(m.avail, i)[k] => j = k
    BY ONLY <1>1, <1>3, <2>1, <2>2, PushFacts
  <2>. QED  BY ONLY <2>3, <2>4 DEF t
<1>. HIDE DEF t
<1>5. m2.size = m.size /\ m2.next = m.next /\ m2.avail = t
  BY <1>2
<1>6. m2 \in MemoryPool
  BY ONLY <1>1, <1>2, <1>4 DEF MemoryPool
<1>7. ~ IsEmpty(m2)
  BY <1>4, <1>5 DEF IsEmpty
<1>8. \A j \in Indexes : own2[<<p, j>>] = IF j = i THEN 0 ELSE own[<<p, j>>]
  OBVIOUS
<1>9. \A j \in 0..(m.next - 1) : j \in Indexes
  BY <1>1, SizeFacts DEF PoolInv
<1>10. \A j \in 0..(m.next - 1) : own2[<<p, j>>] = 0 <=> j \in SetOf(t)
  BY <1>4, <1>8, <1>9 DEF PoolInv
<1>11. m.next <= m.size /\ \A j \in SetOf(t) : j < m.next
  BY <1>1, <1>3, <1>4 DEF PoolInv
<1>12. PoolInv(p, m2, own2)
  BY ONLY <1>4, <1>5, <1>10, <1>11 DEF PoolInv
<1>13. UseInv(p, m2, own2)
  BY <1>1, <1>5, <1>8 DEF UseInv
<1>. QED  BY <1>5, <1>6, <1>7, <1>12, <1>13 DEF m2

-----------------------------------------------------------------------------
(* EveryBlockAccounted, pool by pool. *)
PoolsInv ==
  /\ \A p \in DOMAIN pools :
       PoolInv(p, pools[p], owners) /\ UseInv(p, pools[p], owners) /\ 0 < pools[p].next
  /\ \A p \in Pools \ DOMAIN pools : \A i \in Indexes : owners[<<p, i>>] = 0

(* The accounting of blocks, pool by pool. *)
LEMMA PoolByPool ==
  ASSUME PoolTypeOK
  PROVE  EveryBlockAccounted <=> PoolsInv
<1>1. /\ \A p \in Pools, i \in Indexes : owners[<<p, i>>] \in Nat
      /\ DOMAIN pools \subseteq Pools
  BY DEF PoolTypeOK, PoolBlocks
<1>2. (\A b \in PoolBlocks : owners[b] > 0 => b[1] \in DOMAIN pools /\ b[2] < pools[b[1]].next)
      <=> /\ \A p \in DOMAIN pools : UseInv(p, pools[p], owners)
          /\ \A p \in Pools \ DOMAIN pools : \A i \in Indexes : owners[<<p, i>>] = 0
  <2>1. (\A b \in PoolBlocks : owners[b] > 0 => b[1] \in DOMAIN pools /\ b[2] < pools[b[1]].next)
        <=> \A p \in Pools, i \in Indexes :
              owners[<<p, i>>] > 0 => p \in DOMAIN pools /\ i < pools[p].next
    BY DEF PoolBlocks
  <2>. QED  BY <1>1, <2>1 DEF UseInv
<1>. QED  BY <1>2 DEF EveryBlockAccounted, PoolsInv, PoolInv

(* A step that changes one pool and the owners of its blocks only. *)
LEMMA OnePoolStep ==
  ASSUME PoolTypeOK, PoolsInv,
         NEW p \in Pools, NEW m \in MemoryPool, NEW i \in Indexes, NEW n \in Nat,
         pools' = Put(p, m), owners' = [owners EXCEPT ![<<p, i>>] = n],
         PoolInv(p, m, owners'), UseInv(p, m, owners'), 0 < m.next
  PROVE  /\ DOMAIN pools' = DOMAIN pools \cup {p}
         /\ \A q \in DOMAIN pools' : pools'[q] = IF q = p THEN m ELSE pools[q]
         /\ DOMAIN pools' \subseteq Pools
         /\ \A q \in DOMAIN pools' : pools'[q] \in MemoryPool
         /\ owners' \in [PoolBlocks -> Nat]
         /\ PoolsInv'
<1>1. /\ DOMAIN pools' = DOMAIN pools \cup {p}
      /\ \A q \in DOMAIN pools' : pools'[q] = IF q = p THEN m ELSE pools[q]
  BY DEF Put
<1>2. /\ DOMAIN pools' \subseteq Pools
      /\ \A q \in DOMAIN pools' : pools'[q] \in MemoryPool
      /\ owners' \in [PoolBlocks -> Nat]
  BY <1>1 DEF PoolTypeOK
<1>3. \A q \in Pools, j \in Indexes : q # p => owners'[<<q, j>>] = owners[<<q, j>>]
  BY DEF PoolTypeOK, PoolBlocks
<1>4. ASSUME NEW q \in DOMAIN pools, q # p
      PROVE  PoolInv(q, pools[q], owners') /\ UseInv(q, pools[q], owners')
  <2>1. /\ q \in Pools /\ pools[q].next \in Nat
        /\ pools[q].size \in {InitialSize, GrownSize} /\ pools[q].next <= pools[q].size
    BY DEF PoolTypeOK, MemoryPool, PoolsInv, PoolInv
  <2>2. \A j \in 0..(pools[q].next - 1) : j \in Indexes
    BY <2>1, SizeFacts
  <2>3. PoolInv(q, pools[q], owners) /\ UseInv(q, pools[q], owners)
    BY DEF PoolsInv
  <2>4. PoolInv(q, pools[q], owners')
    BY <1>3, <1>4, <2>1, <2>2, <2>3 DEF PoolInv
  <2>5. UseInv(q, pools[q], owners')
    BY <1>3, <1>4, <2>1, <2>3 DEF UseInv
  <2>. QED  BY <2>4, <2>5
<1>5. \A q \in DOMAIN pools' :
        PoolInv(q, pools'[q], owners') /\ UseInv(q, pools'[q], owners') /\ 0 < pools'[q].next
  BY <1>1, <1>4 DEF PoolsInv
<1>6. \A q \in Pools \ DOMAIN pools' : \A j \in Indexes : owners'[<<q, j>>] = 0
  BY <1>1, <1>3, ZenonT(30) DEF PoolsInv
<1>. QED  BY <1>1, <1>2, <1>5, <1>6 DEF PoolsInv

-----------------------------------------------------------------------------
(* A pool with all its blocks on its stack has none in use: the stack holds *)
(* as many blocks as the pool has, and none twice.                          *)
LEMMA FullFacts ==
  ASSUME NEW p \in Pools, NEW m \in MemoryPool, NEW own \in [PoolBlocks -> Nat],
         PoolInv(p, m, own), UseInv(p, m, own), 0 < m.next, IsFull(m)
  PROVE  \A i \in Indexes : own[<<p, i>>] = 0
<1>. DEFINE stack == m.avail
            places == 0..(m.size - 1)
<1>1. /\ m.size \in Nat \ {0} /\ m.next \in Nat /\ stack \in Seq(Indexes)
      /\ m.next <= m.size /\ Len(stack) = m.size
  BY SizeFacts DEF MemoryPool, PoolInv, IsFull
<1>2. /\ \A i, j \in 1..Len(stack) : stack[i] = stack[j] => i = j
      /\ \A i \in SetOf(stack) : i < m.next
      /\ \A i \in 0..(m.next - 1) : own[<<p, i>>] = 0 <=> i \in SetOf(stack)
  BY DEF PoolInv
<1>3. stack \in [1..m.size -> SetOf(stack)] /\ SetOf(stack) \subseteq Indexes
  BY <1>1, LenProperties, ElementOfSeq DEF SetOf
<1>4. SetOf(stack) \in SUBSET places
  <2>1. ASSUME NEW i \in SetOf(stack) PROVE i \in 0..(m.size - 1)
    <3>1. i \in Nat /\ i < m.next
      BY <1>2, <1>3, SizeFacts
    <3>. QED  BY <1>1, <3>1
  <2>. QED  BY <2>1
<1>5. /\ IsFiniteSet(places) /\ Cardinality(places) = m.size
      /\ IsFiniteSet(1..m.size) /\ Cardinality(1..m.size) = m.size
  <2>1. 0 \in Int /\ 1 \in Int /\ m.size \in Int /\ m.size - 1 \in Int
    BY <1>1
  <2>2. Cardinality(places) = IF 0 > m.size - 1 THEN 0 ELSE m.size - 1 - 0 + 1
    BY <2>1, FS_Interval
  <2>3. Cardinality(1..m.size) = IF 1 > m.size THEN 0 ELSE m.size - 1 + 1
    BY <2>1, FS_Interval
  <2>. QED  BY <1>1, <2>1, <2>2, <2>3, FS_Interval
<1>. HIDE DEF stack, places
<1>6. /\ IsFiniteSet(SetOf(stack)) /\ Cardinality(SetOf(stack)) <= m.size
      /\ Cardinality(SetOf(stack)) \in Nat
      /\ Cardinality(SetOf(stack)) = m.size => SetOf(stack) = places
  BY <1>4, <1>5, FS_Subset, FS_CardinalityType
<1>7. ~ Cardinality(SetOf(stack)) < m.size
  <2>1. SUFFICES ASSUME Cardinality(SetOf(stack)) < Cardinality(1..m.size) PROVE FALSE
    BY <1>5
  <2>2. \E i, j \in 1..m.size : i # j /\ stack[i] = stack[j]
    <3>1. stack \in [1..m.size -> SetOf(stack)]
      BY <1>3
    <3>2. IsFiniteSet(1..m.size) /\ IsFiniteSet(SetOf(stack))
      BY <1>5, <1>6
    <3>. QED  BY ONLY <2>1, <3>1, <3>2, FS_PigeonHole
  <2>3. \A i, j \in 1..m.size : stack[i] = stack[j] => i = j
    BY <1>1, <1>2
  <2>. QED  BY ONLY <2>2, <2>3
<1>8. SetOf(stack) = places
  BY <1>1, <1>6, <1>7
<1>9. \A i \in Indexes : i < m.next => own[<<p, i>>] = 0
  BY <1>1, <1>2, <1>8, SizeFacts DEF places
<1>10. \A i \in Indexes : own[<<p, i>>] \in Nat
  BY DEF PoolBlocks
<1>. QED  BY <1>9, <1>10 DEF UseInv

-----------------------------------------------------------------------------
(* No pool at all. *)
LEMMA PoolInitInv == PoolInit => PoolIInv
<1>. SUFFICES ASSUME PoolInit PROVE PoolIInv
  OBVIOUS
<1>1. /\ DOMAIN pools = {} /\ queue = << >> /\ SetOf(queue) = {} /\ Len(queue) = 0
      /\ owners \in [PoolBlocks -> Nat] /\ \A b \in PoolBlocks : owners[b] = 0
  BY DEF PoolInit, SetOf
<1>2. queue \in Seq(Pools)
  BY <1>1, EmptySeq
<1>. QED  BY <1>1, <1>2 DEF PoolIInv, PoolTypeOK, UniqueOwner, EveryBlockAccounted, QueueSound

(* The invariant as the steps use it, and what is left to show of a step *)
(* that changes one pool.                                                *)
LEMMA OnePoolInv ==
  ASSUME PoolIInv,
         NEW p \in Pools, NEW m \in MemoryPool, NEW i \in Indexes, NEW n \in {0, 1},
         pools' = Put(p, m), owners' = [owners EXCEPT ![<<p, i>>] = n],
         PoolInv(p, m, owners'), UseInv(p, m, owners'), 0 < m.next,
         queue' \in Seq(Pools),
         SetOf(queue') \subseteq DOMAIN pools \cup {p},
         \A j, k \in 1..Len(queue') : queue'[j] = queue'[k] => j = k,
         \A j \in 2..Len(queue') :
           IF queue'[j] = p THEN ~ IsEmpty(m) ELSE ~ IsEmpty(pools[queue'[j]])
  PROVE  PoolIInv'
<1>1. PoolTypeOK /\ PoolsInv
  BY PoolByPool DEF PoolIInv
<1>2. n \in Nat
  OBVIOUS
<1>3. /\ DOMAIN pools' = DOMAIN pools \cup {p}
      /\ \A q \in DOMAIN pools' : pools'[q] = IF q = p THEN m ELSE pools[q]
      /\ DOMAIN pools' \subseteq Pools
      /\ \A q \in DOMAIN pools' : pools'[q] \in MemoryPool
      /\ owners' \in [PoolBlocks -> Nat]
      /\ PoolsInv'
  BY <1>1, <1>2, OnePoolStep
<1>4. PoolTypeOK'
  BY <1>3 DEF PoolTypeOK
<1>5. EveryBlockAccounted'
  BY <1>3, <1>4, PoolByPool, PTL
<1>6. UniqueOwner'
  BY <1>1 DEF PoolIInv, UniqueOwner, PoolTypeOK
<1>7. QueueSound'
  <2>1. SetOf(queue') \subseteq DOMAIN pools'
    BY <1>3
  <2>2. \A j \in 1..Len(queue') : queue'[j] \in DOMAIN pools'
    BY <2>1 DEF SetOf
  <2>3. Len(queue') \in Nat
    BY LenProperties
  <2>4. \A j \in 2..Len(queue') : j \in 1..Len(queue')
    BY <2>3
  <2>5. \A j \in 2..Len(queue') : ~ IsEmpty(pools'[queue'[j]])
    BY <1>3, <2>2, <2>4
  <2>6. SetOf(queue)' = SetOf(queue')
    BY DEF SetOf
  <2>7. \A q : IsEmpty(pools[q])' <=> IsEmpty(pools'[q])
    BY DEF IsEmpty
  <2>. QED  BY <2>1, <2>5, <2>6 DEF QueueSound, IsEmpty
<1>. QED  BY <1>4, <1>5, <1>6, <1>7 DEF PoolIInv

-----------------------------------------------------------------------------
(* What PoolIInv says of the pool p of the queue or of the blocks. *)
LEMMA PoolFacts ==
  ASSUME PoolIInv
  PROVE  /\ queue \in Seq(Pools) /\ Len(queue) \in Nat
         /\ \A k \in 1..Len(queue) : queue[k] \in DOMAIN pools
         /\ \A j, k \in 1..Len(queue) : queue[j] = queue[k] => j = k
         /\ \A k \in 2..Len(queue) : ~ IsEmpty(pools[queue[k]])
         /\ DOMAIN pools \subseteq Pools
         /\ \A q \in DOMAIN pools :
              /\ pools[q] \in MemoryPool /\ 0 < pools[q].next
              /\ PoolInv(q, pools[q], owners) /\ UseInv(q, pools[q], owners)
         /\ owners \in [PoolBlocks -> Nat]
         /\ \A q \in Pools \ DOMAIN pools : \A i \in Indexes : owners[<<q, i>>] = 0
<1>1. PoolTypeOK /\ QueueSound /\ PoolsInv
  BY PoolByPool DEF PoolIInv
<1>2. queue \in Seq(Pools) /\ Len(queue) \in Nat
  BY <1>1, LenProperties DEF PoolTypeOK
<1>3. \A k \in 1..Len(queue) : queue[k] \in DOMAIN pools
  BY <1>1 DEF QueueSound, SetOf
<1>. QED  BY <1>1, <1>2, <1>3 DEF PoolTypeOK, QueueSound, PoolsInv

(* The part of a sequence from place k on. *)
LEMMA SuffixFacts ==
  ASSUME NEW S, NEW s \in Seq(S), NEW k \in 1..Len(s)
  PROVE  LET t == SubSeq(s, k, Len(s)) IN
         /\ t \in Seq(S) /\ Len(t) = Len(s) - k + 1
         /\ \A i \in 1..Len(t) : t[i] = s[k + i - 1]
<1>1. /\ Len(s) \in Nat /\ k \in Int /\ Len(s) \in Int /\ k <= Len(s)
      /\ \A i \in k..Len(s) : s[i] \in S
  BY LenProperties, ElementOfSeq
<1>2. /\ SubSeq(s, k, Len(s)) \in Seq(S)
      /\ Len(SubSeq(s, k, Len(s))) = IF k <= Len(s) THEN Len(s) - k + 1 ELSE 0
      /\ \A i \in 1..(Len(s) - k + 1) : SubSeq(s, k, Len(s))[i] = s[k + i - 1]
  BY <1>1, SubSeqProperties
<1>. QED  BY <1>1, <1>2

(* A block of the pool at the front of the queue is given out. *)
LEMMA GetAvailableStep == PoolIInv /\ GetAvailableBlock => PoolIInv'
<1>. SUFFICES ASSUME PoolIInv, GetAvailableBlock PROVE PoolIInv'
  OBVIOUS
<1>1. PICK k \in 1..Len(queue) :
        /\ ~ IsEmpty(pools[queue[k]])
        /\ pools' = Put(queue[k], WithoutNext(pools[queue[k]]))
        /\ owners' = [owners EXCEPT ![<<queue[k], NextIndex(pools[queue[k]])>>] = @ + 1]
        /\ queue' = SubSeq(queue, k, Len(queue))
  BY DEF GetAvailableBlock
<1>. DEFINE p == queue[k]
            m == pools[p]
            i == NextIndex(m)
            m2 == WithoutNext(m)
<1>2. /\ p \in Pools /\ m \in MemoryPool /\ owners \in [PoolBlocks -> Nat]
      /\ ~ IsEmpty(m) /\ PoolInv(p, m, owners) /\ UseInv(p, m, owners)
  BY <1>1, PoolFacts
<1>3. owners' = [owners EXCEPT ![<<p, i>>] = @ + 1] /\ pools' = Put(p, m2)
  BY <1>1
<1>. HIDE DEF p, m
<1>4. /\ i \in Indexes /\ owners[<<p, i>>] = 0
      /\ m2 \in MemoryPool /\ m2.next > 0
      /\ PoolInv(p, m2, owners') /\ UseInv(p, m2, owners')
  BY <1>2, <1>3, GiveFacts
<1>. HIDE DEF i, m2
<1>5. owners' = [owners EXCEPT ![<<p, i>>] = 1] /\ 0 < m2.next
  BY <1>2, <1>3, <1>4 DEF MemoryPool, PoolBlocks
<1>6. /\ queue' \in Seq(Pools) /\ Len(queue') = Len(queue) - k + 1
      /\ \A j \in 1..Len(queue') : queue'[j] = queue[k + j - 1]
  BY <1>1, PoolFacts, SuffixFacts
<1>7. \A j \in 1..Len(queue') : k + j - 1 \in 1..Len(queue)
  BY <1>6, PoolFacts
<1>8. \A j, l \in 1..Len(queue') : queue'[j] = queue'[l] => j = l
  BY <1>6, <1>7, PoolFacts
<1>9. SetOf(queue') \subseteq DOMAIN pools \cup {p}
  BY <1>6, <1>7, PoolFacts DEF SetOf
<1>10. \A j \in 2..Len(queue') : queue'[j] # p /\ ~ IsEmpty(pools[queue'[j]])
  <2>1. Len(queue') \in Nat
    BY <1>6, LenProperties
  <2>2. ASSUME NEW j \in 2..Len(queue')
        PROVE  queue'[j] # p /\ ~ IsEmpty(pools[queue'[j]])
    <3>1. j \in 1..Len(queue') /\ k + j - 1 \in 2..Len(queue) /\ k # k + j - 1
      BY <1>7, <2>1
    <3>2. queue'[j] = queue[k + j - 1]
      BY <1>6, <3>1
    <3>. QED  BY <1>7, <3>1, <3>2, PoolFacts DEF p
  <2>. QED  BY <2>2
<1>. QED  BY <1>2, <1>3, <1>4, <1>5, <1>6, <1>8, <1>9, <1>10, OnePoolInv

(* A new pool is made and its first block given out. *)
LEMMA GetNewStep ==
  ASSUME NEW p \in Pools, PoolIInv, GetNewPoolBlock(p)
  PROVE  PoolIInv'
<1>. DEFINE size == IF pools = << >> THEN InitialSize ELSE GrownSize
            m == New(size)
            i == NextIndex(m)
            m2 == WithoutNext(m)
<1>1. /\ p \notin DOMAIN pools /\ pools' = Put(p, m2) /\ queue' = <<p>>
      /\ owners' = [owners EXCEPT ![<<p, i>>] = @ + 1]
  BY DEF GetNewPoolBlock
<1>2. m = [size |-> size, next |-> 0, avail |-> << >>] /\ size \in {InitialSize, GrownSize}
  BY DEF New
<1>. HIDE DEF m, size
<1>3. m.size = size /\ m.next = 0 /\ m.avail = << >> /\ SetOf(m.avail) = {} /\ Len(m.avail) = 0
  BY <1>2 DEF SetOf
<1>4. m \in MemoryPool
  BY <1>2, EmptySeq DEF MemoryPool
<1>5. size \in Nat \ {0}
  BY <1>2, SizeFacts
<1>6. ~ IsEmpty(m)
  BY <1>3, <1>5 DEF IsEmpty
<1>7. PoolInv(p, m, owners)
  BY <1>3, <1>5 DEF PoolInv
<1>8. UseInv(p, m, owners) /\ owners \in [PoolBlocks -> Nat]
  BY <1>1, PoolFacts DEF UseInv
<1>9. /\ i \in Indexes /\ owners[<<p, i>>] = 0
      /\ m2 \in MemoryPool /\ m2.next > 0
      /\ PoolInv(p, m2, owners') /\ UseInv(p, m2, owners')
  BY <1>1, <1>4, <1>6, <1>7, <1>8, GiveFacts, ZenonT(30)
<1>. HIDE DEF i, m2
<1>10. owners' = [owners EXCEPT ![<<p, i>>] = 1] /\ 0 < m2.next
  BY <1>1, <1>8, <1>9 DEF MemoryPool, PoolBlocks
<1>11. /\ queue' \in Seq(Pools) /\ Len(queue') = 1 /\ queue'[1] = p
       /\ SetOf(queue') \subseteq DOMAIN pools \cup {p}
       /\ \A j, k \in 1..Len(queue') : queue'[j] = queue'[k] => j = k
       /\ \A j \in 2..Len(queue') : FALSE
  BY <1>1 DEF SetOf
<1>. QED  BY <1>1, <1>9, <1>10, <1>11, OnePoolInv

(* The queue after a pool that was empty has got a block back. *)
LEMMA RequeuedFacts ==
  ASSUME PoolIInv, NEW p \in DOMAIN pools, IsEmpty(pools[p]),
         NEW s, s = Requeued(p)
  PROVE  /\ s \in Seq(Pools)
         /\ SetOf(s) \subseteq DOMAIN pools
         /\ \A i, j \in 1..Len(s) : s[i] = s[j] => i = j
         /\ \A i \in 2..Len(s) : s[i] = p \/ ~ IsEmpty(pools[s[i]])
<1>. DEFINE q == Append(queue, p)
            n == Len(queue)
<1>1. /\ queue \in Seq(Pools) /\ n \in Nat /\ p \in Pools
      /\ \A k \in 1..n : queue[k] \in DOMAIN pools
      /\ \A j, k \in 1..n : queue[j] = queue[k] => j = k
      /\ \A k \in 2..n : ~ IsEmpty(pools[queue[k]])
      /\ DOMAIN pools \subseteq Pools
  BY PoolFacts
<1>2. /\ q \in Seq(Pools) /\ q # << >> /\ Len(q) = n + 1 /\ q[n + 1] = p
      /\ \A k \in 1..n : q[k] = queue[k]
  BY <1>1, AppendProperties
<1>3. /\ Head(q) = q[1]
      /\ Tail(q) \in Seq(Pools) /\ Len(Tail(q)) = n
      /\ \A k \in 1..n : Tail(q)[k] = q[k + 1]
  BY <1>2, <1>1, HeadTailProperties
<1>4. s = IF q[1] = p THEN Tail(q) ELSE q
  BY <1>3 DEF Requeued
<1>. HIDE DEF q, n
<1>5. \A k \in 1..(n + 1) : q[k] \in DOMAIN pools
  BY <1>1, <1>2
<1>6. \A k \in 2..n : q[k] # p
  BY <1>1, <1>2
<1>7. \A j, k \in 1..n : q[j] = q[k] => j = k
  BY <1>1, <1>2
<1>8. CASE q[1] = p
  <2>1. s = Tail(q) /\ Len(s) = n /\ \A k \in 1..n : s[k] = q[k + 1]
    BY <1>3, <1>4, <1>8
  <2>2. \A k \in 1..n : s[k] = IF k = n THEN p ELSE queue[k + 1]
    BY <1>1, <1>2, <2>1
  <2>3. \A k \in 1..n : k = n \/ k + 1 \in 2..n
    BY <1>1
  <2>4. \A j, k \in 1..n : s[j] = s[k] => j = k
    <3>1. \A j \in 1..n : j # n => s[j] # p
      BY <1>1, <1>2, <1>6, <2>2, <2>3
    <3>2. ASSUME NEW j \in 1..n, NEW k \in 1..n, j # n, k # n, s[j] = s[k]
          PROVE  j = k
      <4>1. j + 1 \in 1..n /\ k + 1 \in 1..n /\ queue[j + 1] = queue[k + 1]
        BY <1>1, <2>2, <3>2
      <4>2. j + 1 = k + 1
        BY <1>1, <4>1
      <4>. QED  BY <1>1, <4>2
    <3>3. s[n] = p \/ n = 0
      BY <1>1, <2>2
    <3>. QED  BY <1>1, <3>1, <3>2, <3>3
  <2>5. \A k \in 1..n : s[k] \in DOMAIN pools
    BY <1>1, <2>2, <2>3
  <2>6. \A k \in 2..n : s[k] = p \/ ~ IsEmpty(pools[s[k]])
    BY <1>1, <2>2, <2>3
  <2>7. s \in Seq(Pools) /\ SetOf(s) \subseteq DOMAIN pools
    BY <1>3, <2>1, <2>5 DEF SetOf
  <2>8. Len(s) = n
    BY <2>1
  <2>. QED  BY ONLY <2>4, <2>6, <2>7, <2>8
<1>9. CASE q[1] # p
  <2>1. s = q
    BY <1>4, <1>9
  <2>2. \A k \in 1..n : q[k] # p
    <3>1. \A k \in 1..n : k = 1 \/ k \in 2..n
      BY <1>1
    <3>. QED  BY <1>6, <1>9, <3>1
  <2>3. \A j, k \in 1..Len(q) : q[j] = q[k] => j = k
    <3>1. \A k \in 1..Len(q) : k \in 1..n \/ k = n + 1
      BY <1>1, <1>2
    <3>. QED  BY <1>2, <1>7, <2>2, <3>1
  <2>4. \A k \in 2..Len(q) : q[k] = p \/ ~ IsEmpty(pools[q[k]])
    <3>1. \A k \in 2..Len(q) : k = n + 1 \/ (k \in 2..n /\ k \in 1..n)
      BY <1>1, <1>2
    <3>. QED  BY <1>1, <1>2, <3>1
  <2>. QED  BY <1>2, <1>5, <2>1, <2>3, <2>4 DEF SetOf
<1>. QED  BY <1>8, <1>9

(* A block comes back, and its pool may enter or leave the queue. *)
LEMMA ReturnStep ==
  ASSUME NEW b \in PoolBlocks, PoolIInv, ReturnBlock(b)
  PROVE  PoolIInv'
<1>. DEFINE p == b[1]
            i == b[2]
            m == pools[p]
            m2 == WithBlock(m, i)
<1>1. p \in Pools /\ i \in Indexes /\ b = <<p, i>>
  BY DEF PoolBlocks
<1>2. /\ owners[b] > 0 /\ owners' = [owners EXCEPT ![b] = @ - 1]
      /\ pools' = Put(p, m2)
      /\ queue' = IF IsEmpty(m) THEN Requeued(p) ELSE queue
  BY DEF ReturnBlock, WithBlock
<1>3. owners[<<p, i>>] = 1 /\ p \in DOMAIN pools
  <2>1. owners[b] \in Nat /\ owners[b] <= 1
    BY DEF PoolIInv, PoolTypeOK, UniqueOwner
  <2>2. p \in DOMAIN pools
    BY <1>2 DEF PoolIInv, EveryBlockAccounted
  <2>. QED  BY <1>1, <1>2, <2>1, <2>2
<1>4. /\ m \in MemoryPool /\ owners \in [PoolBlocks -> Nat] /\ 0 < m.next
      /\ PoolInv(p, m, owners) /\ UseInv(p, m, owners)
  BY <1>3, PoolFacts
<1>5. owners' = [owners EXCEPT ![<<p, i>>] = @ - 1]
  BY <1>1, <1>2
<1>6. IsEmpty(m) => m = pools[p]
  OBVIOUS
<1>. HIDE DEF p, i, m
<1>7. /\ m2 \in MemoryPool /\ m2.next = m.next /\ ~ IsEmpty(m2)
      /\ PoolInv(p, m2, owners') /\ UseInv(p, m2, owners')
  <2>. HIDE DEF m2
  <2>1. m2 = WithBlock(m, i)
    BY DEF m2
  <2>2. p \in Pools /\ i \in Indexes /\ owners[<<p, i>>] = 1
    BY <1>1, <1>3
  <2>3. \A j \in Indexes : owners'[<<p, j>>] = IF j = i THEN 0 ELSE owners[<<p, j>>]
    BY <1>1, <1>3, <1>4, <1>5 DEF PoolBlocks
  <2>. QED  BY ONLY <1>4, <2>1, <2>2, <2>3, TakeBackFacts
<1>. HIDE DEF m2
<1>8. owners' = [owners EXCEPT ![<<p, i>>] = 0] /\ 0 < m2.next
  BY <1>3, <1>4, <1>5, <1>7
<1>9. /\ queue' \in Seq(Pools) /\ SetOf(queue') \subseteq DOMAIN pools
      /\ \A j, k \in 1..Len(queue') : queue'[j] = queue'[k] => j = k
      /\ \A k \in 2..Len(queue') : queue'[k] = p \/ ~ IsEmpty(pools[queue'[k]])
  <2>1. CASE IsEmpty(m)
    <3>1. IsEmpty(pools[p]) /\ queue' = Requeued(p)
      BY <1>2, <1>6, <2>1
    <3>. QED  BY <1>3, <3>1, RequeuedFacts
  <2>2. CASE ~ IsEmpty(m)
    BY <1>2, <2>2, PoolFacts DEF SetOf
  <2>. QED  BY <2>1, <2>2
<1>10. SetOf(queue') \subseteq DOMAIN pools \cup {p}
  BY <1>9
<1>11. \A k \in 2..Len(queue') :
         IF queue'[k] = p THEN ~ IsEmpty(m2) ELSE ~ IsEmpty(pools[queue'[k]])
  BY <1>7, <1>9
<1>. QED  BY <1>1, <1>2, <1>7, <1>8, <1>9, <1>10, <1>11, OnePoolInv

(* Whichever pools Shrink deletes, none has a block in use; the queue keeps *)
(* the order of those that stay.                                           *)
LEMMA ShrinkStep == PoolIInv /\ Shrink => PoolIInv'
<1>. SUFFICES ASSUME PoolIInv, Shrink PROVE PoolIInv'
  OBVIOUS
<1>. DEFINE Shrinks(q) == \E k \in 1..Len(queue) : queue[k] = q /\ IsFull(pools[queue[k]])
            kept == {k \in 1..Len(queue) : ~ IsFull(pools[queue[k]])}
            n == Cardinality(kept)
<1>1. /\ pools' = [q \in {r \in DOMAIN pools : ~ Shrinks(r)} |-> pools[q]]
      /\ \E place \in Enumerations(kept) : queue' = [i \in DOMAIN place |-> queue[place[i]]]
      /\ owners' = owners
  BY DEF Shrink
<1>2. PICK place \in Enumerations(kept) : queue' = [i \in DOMAIN place |-> queue[place[i]]]
  BY <1>1
<1>3. /\ queue \in Seq(Pools) /\ Len(queue) \in Nat
      /\ \A k \in 1..Len(queue) : queue[k] \in DOMAIN pools
      /\ \A j, k \in 1..Len(queue) : queue[j] = queue[k] => j = k
      /\ \A k \in 2..Len(queue) : ~ IsEmpty(pools[queue[k]])
      /\ DOMAIN pools \subseteq Pools
      /\ \A q \in DOMAIN pools :
           /\ pools[q] \in MemoryPool /\ 0 < pools[q].next
           /\ PoolInv(q, pools[q], owners) /\ UseInv(q, pools[q], owners)
      /\ owners \in [PoolBlocks -> Nat]
      /\ \A q \in Pools \ DOMAIN pools : \A i \in Indexes : owners[<<q, i>>] = 0
  BY PoolFacts
<1>4. n \in Nat
  <2>1. kept \in SUBSET (1..Len(queue)) /\ IsFiniteSet(1..Len(queue))
    BY <1>3, FS_Interval
  <2>. HIDE DEF kept
  <2>. QED  BY <2>1, FS_Subset, FS_CardinalityType
<1>5. /\ place \in [1..n -> kept]
      /\ \A i, j \in 1..n : i < j => place[i] < place[j]
  BY <1>2 DEF Enumerations
<1>6. /\ queue' = [i \in 1..n |-> queue[place[i]]]
      /\ \A i \in 1..n : /\ place[i] \in 1..Len(queue)
                         /\ ~ IsFull(pools[queue[place[i]]])
  BY <1>2, <1>5
<1>. HIDE DEF n
<1>7. /\ queue' \in Seq(Pools) /\ Len(queue') = n
      /\ \A i \in 1..n : queue'[i] = queue[place[i]]
  <2>1. \A i \in 1..n : queue[place[i]] \in Pools
    BY <1>3, <1>6
  <2>. QED  BY <1>4, <1>6, <2>1
<1>8. /\ DOMAIN pools' = {r \in DOMAIN pools : ~ Shrinks(r)}
      /\ \A q \in DOMAIN pools' : pools'[q] = pools[q]
  BY <1>1
<1>9. \A i \in 1..n : queue'[i] \in DOMAIN pools'
  <2>1. ASSUME NEW i \in 1..n PROVE queue[place[i]] \in DOMAIN pools'
    <3>1. queue[place[i]] \in DOMAIN pools /\ ~ IsFull(pools[queue[place[i]]])
      BY <1>3, <1>6
    <3>. QED  BY <1>8, <3>1
  <2>. QED  BY <1>7, <2>1
<1>10. \A i, j \in 1..n : queue'[i] = queue'[j] => i = j
  <2>1. \A i, j \in 1..n : queue'[i] = queue'[j] => place[i] = place[j]
    BY <1>3, <1>6, <1>7
  <2>2. \A i, j \in 1..n : i = j \/ i < j \/ j < i
    BY <1>4
  <2>3. \A i \in 1..n : place[i] \in Nat
    BY <1>3, <1>6
  <2>. QED  BY <1>5, <2>1, <2>2, <2>3
<1>11. \A i \in 2..n : ~ IsEmpty(pools'[queue'[i]])
  <2>1. ASSUME NEW i \in 2..n PROVE ~ IsEmpty(pools'[queue'[i]])
    <3>1. 1 \in 1..n /\ i \in 1..n /\ 1 < i
      BY <1>4
    <3>2. place[1] < place[i] /\ place[1] \in 1..Len(queue) /\ place[i] \in 1..Len(queue)
      BY <1>5, <1>6, <3>1
    <3>3. place[i] \in 2..Len(queue)
      BY <1>3, <3>2
    <3>4. queue'[i] = queue[place[i]] /\ pools'[queue'[i]] = pools[queue'[i]]
      BY <1>7, <1>8, <1>9, <3>1
    <3>. QED  BY <1>3, <3>3, <3>4
  <2>. QED  BY <2>1
<1>12. \A q \in Pools \ DOMAIN pools' : \A i \in Indexes : owners[<<q, i>>] = 0
  <2>1. ASSUME NEW q \in DOMAIN pools, Shrinks(q)
        PROVE  \A i \in Indexes : owners[<<q, i>>] = 0
    <3>1. /\ q \in Pools /\ pools[q] \in MemoryPool /\ 0 < pools[q].next /\ IsFull(pools[q])
          /\ PoolInv(q, pools[q], owners) /\ UseInv(q, pools[q], owners)
          /\ owners \in [PoolBlocks -> Nat]
      BY <1>3, <2>1
    <3>. QED  BY ONLY <3>1, FullFacts
  <2>. QED  BY <1>3, <1>8, <2>1
<1>13. PoolTypeOK'
  BY <1>1, <1>3, <1>7, <1>8 DEF PoolTypeOK
<1>14. PoolsInv'
  BY <1>1, <1>3, <1>8, <1>12 DEF PoolsInv
<1>15. EveryBlockAccounted'
  BY <1>13, <1>14, PoolByPool, PTL
<1>16. UniqueOwner'
  BY <1>1 DEF PoolIInv, UniqueOwner
<1>17. QueueSound'
  BY <1>7, <1>9, <1>10, <1>11 DEF QueueSound, SetOf, IsEmpty
<1>. QED  BY <1>13, <1>15, <1>16, <1>17 DEF PoolIInv

(* The inductive invariant, and with it the properties it is made of. *)
THEOREM PoolInvariance == PoolSpec => []PoolIInv
<1>1. ASSUME PoolIInv, [PoolNext]_poolVars PROVE PoolIInv'
  <2>1. CASE GetAvailableBlock
    BY <1>1, <2>1, GetAvailableStep
  <2>2. ASSUME NEW p \in Pools, GetNewPoolBlock(p) PROVE PoolIInv'
    BY <1>1, <2>2, GetNewStep
  <2>3. ASSUME NEW b \in PoolBlocks, ReturnBlock(b) PROVE PoolIInv'
    BY <1>1, <2>3, ReturnStep
  <2>4. CASE Shrink
    BY <1>1, <2>4, ShrinkStep
  <2>5. CASE UNCHANGED poolVars
    BY <1>1, <2>5 DEF poolVars, PoolIInv, PoolTypeOK, UniqueOwner, EveryBlockAccounted, QueueSound,
                      SetOf, IsEmpty
  <2>. QED  BY <1>1, <2>1, <2>2, <2>3, <2>4, <2>5 DEF PoolNext
<1>. QED  BY <1>1, PoolInitInv, PTL DEF PoolSpec

(* Pools, queue and owners keep their types: no pool has a size of its own. *)
THEOREM PoolTypeCorrect == PoolSpec => []PoolTypeOK
BY PoolInvariance, PTL DEF PoolIInv

(* A block is given to one user at a time, for pools of any size, in any *)
(* number, and however often they are deleted and made again.            *)
THEOREM SingleUse == PoolSpec => []UniqueOwner
BY PoolInvariance, PTL DEF PoolIInv

(* Every block of a pool is unused, in use or on its stack once, and a *)
(* deleted pool has no block in use.                                   *)
THEOREM Accounting == PoolSpec => []EveryBlockAccounted
BY PoolInvariance, PTL DEF PoolIInv

(* The queue never refers to a deleted pool, nor twice to the same. *)
THEOREM QueueIntegrity == PoolSpec => []QueueSound
BY PoolInvariance, PTL DEF PoolIInv

-----------------------------------------------------------------------------
(* What the list of edges holds after an edge comes in or goes. *)

Copies(e, B) == IF BagIn(e, B) THEN B[e] ELSE 0

LEMMA BagAddFacts ==
  ASSUME NEW B, IsABag(B), NEW o, NEW C, C = B (+) SetToBag({o})
  PROVE  IsABag(C) /\ BagToSet(C) = BagToSet(B) \cup {o}
BY DEF IsABag, BagToSet, SetToBag, (+)

LEMMA BagRemoveFacts ==
  ASSUME NEW B, IsABag(B), NEW o, BagIn(o, B), NEW C, C = B (-) SetToBag({o})
  PROVE  /\ IsABag(C) /\ BagToSet(C) \subseteq BagToSet(B)
         /\ \A e : Copies(e, C) = Copies(e, B) - (IF e = o THEN 1 ELSE 0)
BY DEF IsABag, BagToSet, SetToBag, (-), Copies, BagIn

LEMMA BagFacts ==
  ASSUME NEW B, IsABag(B)
  PROVE  \A e : Copies(e, B) \in Nat /\ (Copies(e, B) = 0 <=> e \notin BagToSet(B))
BY DEF IsABag, BagToSet, Copies, BagIn

LEMMA CopiesAreEdges == \A g, e, v : EdgesFrom(g, e, v) = Copies(e, g.vertex[v].edges)
BY DEF EdgesFrom, Copies

LEMMA VertexFacts ==
  ASSUME NEW g, GraphOK(g)
  PROVE  \A v \in DOMAIN g.vertex :
           /\ IsVertex(g.vertex[v]) /\ v \in Vertices /\ v # Null
           /\ g.vertex[v].out \in Nat
           /\ \A e : EdgesFrom(g, e, v) \in Nat
           /\ HasAnyEdges(g, v) <=> (\E e \in Origins : EdgesFrom(g, e, v) > 0) \/ g.vertex[v].out > 0
<1>. SUFFICES ASSUME NEW v \in DOMAIN g.vertex
              PROVE  /\ IsVertex(g.vertex[v]) /\ v \in Vertices /\ v # Null
                     /\ g.vertex[v].out \in Nat
                     /\ \A e : EdgesFrom(g, e, v) \in Nat
                     /\ HasAnyEdges(g, v) <=> (\E e \in Origins : EdgesFrom(g, e, v) > 0)
                                               \/ g.vertex[v].out > 0
  OBVIOUS
<1>1. IsVertex(g.vertex[v]) /\ v \in Vertices /\ v # Null
  BY NullAssumption DEF GraphOK
<1>2. /\ g.vertex[v].out \in Nat /\ IsABag(g.vertex[v].edges)
      /\ BagToSet(g.vertex[v].edges) \subseteq Origins
  BY <1>1 DEF IsVertex
<1>3. \A e : /\ Copies(e, g.vertex[v].edges) \in Nat
             /\ Copies(e, g.vertex[v].edges) = 0 <=> e \notin BagToSet(g.vertex[v].edges)
  BY <1>2, BagFacts
<1>4. \A e : EdgesFrom(g, e, v) = Copies(e, g.vertex[v].edges)
  BY CopiesAreEdges
<1>5. HasAnyEdges(g, v) <=> (\E e \in Origins : EdgesFrom(g, e, v) > 0) \/ g.vertex[v].out > 0
  BY <1>2, <1>3, <1>4 DEF HasAnyEdges
<1>. QED  BY <1>1, <1>2, <1>3, <1>4, <1>5

(* What an edge adds to the two counters, and nothing else. *)
LEMMA AddEdgeFacts ==
  ASSUME NEW g, GraphOK(g), NEW o \in Origins, NEW v \in DOMAIN g.vertex,
         NEW h, h = AddEdge(g, o, v)
  PROVE  /\ GraphOK(h)
         /\ h.table = g.table /\ h.fault = g.fault /\ h.released = g.released
         /\ DOMAIN h.vertex = DOMAIN g.vertex
         /\ \A u \in DOMAIN g.vertex :
              /\ h.vertex[u].addr = g.vertex[u].addr
              /\ h.vertex[u].out = g.vertex[u].out + (IF u = o THEN 1 ELSE 0)
              /\ \A e : EdgesFrom(h, e, u) = EdgesFrom(g, e, u)
                                              + (IF u = v /\ e = o THEN 1 ELSE 0)
<1>. DEFINE bag(u) == IF u = v THEN g.vertex[u].edges (+) SetToBag({o}) ELSE g.vertex[u].edges
            out(u) == IF u = o THEN g.vertex[u].out + 1 ELSE g.vertex[u].out
<1>1. /\ DOMAIN h = DOMAIN g
      /\ h.table = g.table /\ h.fault = g.fault /\ h.released = g.released
      /\ DOMAIN h.vertex = DOMAIN g.vertex
      /\ \A u \in DOMAIN g.vertex :
           h.vertex[u] = [g.vertex[u] EXCEPT !.edges = bag(u), !.out = out(u)]
  BY DEF AddEdge, GraphOK
<1>2. ASSUME NEW u \in DOMAIN g.vertex
      PROVE  /\ IsVertex(h.vertex[u]) /\ h.vertex[u].addr = g.vertex[u].addr
             /\ h.vertex[u].out = g.vertex[u].out + (IF u = o THEN 1 ELSE 0)
             /\ \A e : EdgesFrom(h, e, u) = EdgesFrom(g, e, u) + (IF u = v /\ e = o THEN 1 ELSE 0)
  <2>1. IsVertex(g.vertex[u])
    BY DEF GraphOK
  <2>2. /\ DOMAIN h.vertex[u] = {"addr", "edges", "out"}
        /\ h.vertex[u].addr = g.vertex[u].addr
        /\ h.vertex[u].edges = bag(u) /\ h.vertex[u].out = out(u)
    BY <1>1, <2>1 DEF IsVertex
  <2>3. /\ IsABag(g.vertex[u].edges) /\ BagToSet(g.vertex[u].edges) \subseteq Origins
        /\ g.vertex[u].out \in Nat /\ g.vertex[u].addr \in Blocks \cup {Null}
    BY <2>1 DEF IsVertex
  <2>4. /\ IsABag(bag(u)) /\ BagToSet(bag(u)) \subseteq Origins
        /\ \A e : Copies(e, bag(u)) = Copies(e, g.vertex[u].edges) + (IF u = v /\ e = o THEN 1 ELSE 0)
    <3>1. CASE u = v
      <4>. DEFINE B == g.vertex[u].edges
                  C == bag(u)
      <4>1. IsABag(B) /\ C = B (+) SetToBag({o})
        BY <2>3, <3>1
      <4>2. /\ IsABag(C) /\ BagToSet(C) = BagToSet(B) \cup {o}
            /\ \A e : Copies(e, C) = Copies(e, B) + (IF e = o THEN 1 ELSE 0)
        <5>. HIDE DEF B, C
        <5>1. IsABag(C) /\ BagToSet(C) = BagToSet(B) \cup {o}
          BY ONLY <4>1, BagAddFacts
        <5>2. \A e : Copies(e, C) = Copies(e, B) + (IF e = o THEN 1 ELSE 0)
          BY ONLY <4>1 DEF IsABag, BagToSet, SetToBag, (+), Copies, BagIn
        <5>. QED  BY <5>1, <5>2
      <4>. QED  BY <2>3, <3>1, <4>2
    <3>2. CASE u # v
      BY <2>3, <3>2, BagFacts
    <3>. QED  BY <3>1, <3>2
  <2>. HIDE DEF bag
  <2>5. IsVertex(h.vertex[u])
    BY <2>2, <2>3, <2>4 DEF IsVertex
  <2>6. \A e : EdgesFrom(h, e, u) = EdgesFrom(g, e, u) + (IF u = v /\ e = o THEN 1 ELSE 0)
    BY <2>2, <2>4, CopiesAreEdges
  <2>. QED  BY <2>2, <2>3, <2>5, <2>6
<1>. HIDE DEF bag, out
<1>3. GraphOK(h)
  BY <1>1, <1>2 DEF GraphOK
<1>. QED  BY <1>1, <1>2, <1>3

(* What the loss of an edge takes from the two counters. *)
LEMMA RemoveEdgeFacts ==
  ASSUME NEW g, GraphOK(g), NEW o \in Origins, NEW v \in DOMAIN g.vertex,
         BagIn(o, g.vertex[v].edges), o \in DOMAIN g.vertex => g.vertex[o].out # 0,
         NEW h, h = RemoveEdge(g, o, v)
  PROVE  /\ GraphOK(h)
         /\ h.table = g.table /\ h.fault = g.fault /\ h.released = g.released
         /\ DOMAIN h.vertex = DOMAIN g.vertex
         /\ \A u \in DOMAIN g.vertex :
              /\ h.vertex[u].addr = g.vertex[u].addr
              /\ h.vertex[u].out = g.vertex[u].out - (IF u = o THEN 1 ELSE 0)
              /\ \A e : EdgesFrom(h, e, u) = EdgesFrom(g, e, u)
                                              - (IF u = v /\ e = o THEN 1 ELSE 0)
<1>. DEFINE bag(u) == IF u = v THEN g.vertex[u].edges (-) SetToBag({o}) ELSE g.vertex[u].edges
            out(u) == IF u = o THEN g.vertex[u].out - 1 ELSE g.vertex[u].out
<1>1. /\ DOMAIN h = DOMAIN g
      /\ h.table = g.table /\ h.fault = g.fault /\ h.released = g.released
      /\ DOMAIN h.vertex = DOMAIN g.vertex
      /\ \A u \in DOMAIN g.vertex :
           h.vertex[u] = [g.vertex[u] EXCEPT !.edges = bag(u), !.out = out(u)]
  BY DEF RemoveEdge, GraphOK
<1>2. ASSUME NEW u \in DOMAIN g.vertex
      PROVE  /\ IsVertex(h.vertex[u]) /\ h.vertex[u].addr = g.vertex[u].addr
             /\ h.vertex[u].out = g.vertex[u].out - (IF u = o THEN 1 ELSE 0)
             /\ \A e : EdgesFrom(h, e, u) = EdgesFrom(g, e, u) - (IF u = v /\ e = o THEN 1 ELSE 0)
  <2>1. IsVertex(g.vertex[u])
    BY DEF GraphOK
  <2>2. /\ DOMAIN h.vertex[u] = {"addr", "edges", "out"}
        /\ h.vertex[u].addr = g.vertex[u].addr
        /\ h.vertex[u].edges = bag(u) /\ h.vertex[u].out = out(u)
    BY <1>1, <2>1 DEF IsVertex
  <2>3. /\ IsABag(g.vertex[u].edges) /\ BagToSet(g.vertex[u].edges) \subseteq Origins
        /\ g.vertex[u].out \in Nat /\ g.vertex[u].addr \in Blocks \cup {Null}
    BY <2>1 DEF IsVertex
  <2>4. /\ IsABag(bag(u)) /\ BagToSet(bag(u)) \subseteq Origins
        /\ \A e : Copies(e, bag(u)) = Copies(e, g.vertex[u].edges) - (IF u = v /\ e = o THEN 1 ELSE 0)
    <3>1. CASE u = v
      BY <2>3, <3>1, BagRemoveFacts
    <3>2. CASE u # v
      BY <2>3, <3>2, BagFacts
    <3>. QED  BY <3>1, <3>2
  <2>. HIDE DEF bag
  <2>5. out(u) \in Nat
    BY <2>3
  <2>6. IsVertex(h.vertex[u])
    BY <2>2, <2>3, <2>4, <2>5 DEF IsVertex
  <2>7. \A e : EdgesFrom(h, e, u) = EdgesFrom(g, e, u) - (IF u = v /\ e = o THEN 1 ELSE 0)
    BY <2>2, <2>4, CopiesAreEdges
  <2>. QED  BY <2>2, <2>3, <2>6, <2>7
<1>. HIDE DEF bag, out
<1>3. GraphOK(h)
  BY <1>1, <1>2 DEF GraphOK
<1>. QED  BY <1>1, <1>2, <1>3

(* A vertex that goes takes nothing with it but itself. *)
LEMMA DeleteFacts ==
  ASSUME NEW g, GraphOK(g), NEW v \in DOMAIN g.vertex, NEW h, h = DeleteVertex(g, v)
  PROVE  /\ GraphOK(h)
         /\ h.table = g.table /\ h.fault = g.fault /\ h.released = g.released
         /\ DOMAIN h.vertex = DOMAIN g.vertex \ {v}
         /\ \A u \in DOMAIN h.vertex : h.vertex[u] = g.vertex[u]
<1>1. /\ DOMAIN h = DOMAIN g
      /\ h.table = g.table /\ h.fault = g.fault /\ h.released = g.released
      /\ DOMAIN h.vertex = DOMAIN g.vertex \ {v}
      /\ \A u \in DOMAIN h.vertex : h.vertex[u] = g.vertex[u]
  BY DEF DeleteVertex, GraphOK
<1>2. GraphOK(h)
  BY <1>1 DEF GraphOK
<1>. QED  BY <1>1, <1>2

LEMMA FaultyFacts ==
  ASSUME NEW g, GraphOK(g), NEW kind
  PROVE  LET h == Faulty(g, kind) IN
         /\ GraphOK(h) /\ h.fault = g.fault \cup {kind} /\ h.fault # {}
         /\ h.table = g.table /\ h.vertex = g.vertex /\ h.released = g.released
<1>. DEFINE h == Faulty(g, kind)
<1>1. /\ DOMAIN h = DOMAIN g /\ h.fault = g.fault \cup {kind}
      /\ h.table = g.table /\ h.vertex = g.vertex /\ h.released = g.released
  BY DEF Faulty, GraphOK
<1>. HIDE DEF h
<1>2. GraphOK(h)
  BY <1>1 DEF GraphOK
<1>. QED  BY <1>1, <1>2 DEF h

(* What it changes to let a pointer refer to another vertex, or to none. *)
LEMMA PointFacts ==
  ASSUME NEW g, GraphOK(g), NEW s \in DOMAIN g.table, NEW v \in Vertices \cup {Null},
         NEW h, h = [g EXCEPT !.table[s].pointed = v]
  PROVE  /\ GraphOK(h)
         /\ h.vertex = g.vertex /\ h.fault = g.fault /\ h.released = g.released
         /\ DOMAIN h.table = DOMAIN g.table
         /\ h.table[s].pointed = v
         /\ \A p \in DOMAIN g.table : p # s => h.table[p] = g.table[p]
         /\ \A p \in DOMAIN g.table : h.table[p].container = g.table[p].container
         /\ \A p \in DOMAIN g.table : Origin(h, p) = Origin(g, p)
<1>1. /\ DOMAIN h = DOMAIN g
      /\ h.vertex = g.vertex /\ h.fault = g.fault /\ h.released = g.released
      /\ DOMAIN h.table = DOMAIN g.table
      /\ h.table[s] = [g.table[s] EXCEPT !.pointed = v]
      /\ \A p \in DOMAIN g.table : p # s => h.table[p] = g.table[p]
  BY DEF GraphOK
<1>2. g.table[s] \in Element
  BY DEF GraphOK
<1>3. /\ h.table[s] \in Element /\ h.table[s].pointed = v
      /\ h.table[s].container = g.table[s].container
  BY <1>1, <1>2 DEF Element
<1>4. GraphOK(h)
  BY <1>1, <1>3 DEF GraphOK
<1>5. \A p \in DOMAIN g.table : h.table[p].container = g.table[p].container
  BY <1>1, <1>3
<1>6. \A p \in DOMAIN g.table : Origin(h, p) = Origin(g, p)
  BY <1>5 DEF Origin
<1>. QED  BY <1>1, <1>3, <1>4, <1>5, <1>6

LEMMA TableFacts ==
  ASSUME NEW g, GraphOK(g), NEW s \in DOMAIN g.table
  PROVE  /\ s \in Sptrs /\ s \notin Vertices
         /\ g.table[s].pointed \in Vertices \cup {Null}
         /\ g.table[s].container \in Vertices \cup {Null}
         /\ Origin(g, s) \in Origins
         /\ \A v \in Vertices : Origin(g, s) = v <=> g.table[s].container = v
<1>1. s \in Sptrs /\ s \notin Vertices
  BY PlacesAssumption DEF GraphOK
<1>2. /\ g.table[s].pointed \in Vertices \cup {Null}
      /\ g.table[s].container \in Vertices \cup {Null}
  BY DEF GraphOK, Element
<1>. QED  BY <1>1, <1>2, NullAssumption DEF Origin, Origins

-----------------------------------------------------------------------------
(* The counters and the table *)

LEMMA OneMore ==
  ASSUME NEW A, IsFiniteSet(A), NEW x, x \notin A
  PROVE  Cardinality(A \cup {x}) = Cardinality(A) + 1
BY FS_AddElement

LEMMA OneLess ==
  ASSUME NEW A, IsFiniteSet(A), NEW x \in A
  PROVE  Cardinality(A \ {x}) = Cardinality(A) - 1 /\ Cardinality(A) # 0
BY FS_RemoveElement, FS_EmptySet

LEMMA CountFacts ==
  ASSUME NEW g, IsFiniteSet(DOMAIN g.table)
  PROVE  /\ \A o, v : IsFiniteSet(Incoming(g, o, v)) /\ Cardinality(Incoming(g, o, v)) \in Nat
         /\ \A v : IsFiniteSet(Outgoing(g, v)) /\ Cardinality(Outgoing(g, v)) \in Nat
<1>1. \A o, v : Incoming(g, o, v) \subseteq DOMAIN g.table /\ Outgoing(g, v) \subseteq DOMAIN g.table
  BY DEF Incoming, Outgoing
<1>. QED  BY <1>1, FS_Subset, FS_CardinalityType

(* Only the edges and the table matter. *)
LEMMA MatchCongruence ==
  ASSUME NEW g, NEW h, h.table = g.table, DOMAIN h.vertex = DOMAIN g.vertex,
         \A u \in DOMAIN g.vertex :
           h.vertex[u].edges = g.vertex[u].edges /\ h.vertex[u].out = g.vertex[u].out
  PROVE  /\ EdgesMatchTable(g) => EdgesMatchTable(h)
         /\ \A u \in DOMAIN g.vertex : HasAnyEdges(g, u) <=> HasAnyEdges(h, u)
<1>1. /\ \A p : Origin(h, p) = Origin(g, p)
      /\ \A o, v : Incoming(h, o, v) = Incoming(g, o, v)
      /\ \A v : Outgoing(h, v) = Outgoing(g, v)
  BY DEF Origin, Incoming, Outgoing
<1>2. \A o : \A v \in DOMAIN g.vertex : EdgesFrom(h, o, v) = EdgesFrom(g, o, v)
  BY DEF EdgesFrom, BagIn
<1>3. EndsExist(g) => EndsExist(h)
  BY <1>1 DEF EndsExist
<1>4. \A u \in DOMAIN g.vertex : HasAnyEdges(g, u) <=> HasAnyEdges(h, u)
  BY DEF HasAnyEdges
<1>5. EdgesMatchTable(g) => EdgesMatchTable(h)
  BY <1>1, <1>2, <1>3 DEF EdgesMatchTable
<1>. QED  BY <1>4, <1>5

(* A vertex that no edge leads to or from is not needed by the table. *)
LEMMA DeleteMatch ==
  ASSUME NEW g, GraphOK(g), IsFiniteSet(DOMAIN g.table), EdgesMatchTable(g),
         NEW v \in DOMAIN g.vertex, ~ HasAnyEdges(g, v),
         NEW h, h = DeleteVertex(g, v)
  PROVE  EdgesMatchTable(h)
<1>1. /\ h.table = g.table /\ DOMAIN h.vertex = DOMAIN g.vertex \ {v}
      /\ \A u \in DOMAIN h.vertex : h.vertex[u] = g.vertex[u]
  BY DeleteFacts
<1>2. /\ v \in Vertices /\ v # Null
      /\ g.vertex[v].out = 0 /\ \A e \in Origins : EdgesFrom(g, e, v) = 0
  BY VertexFacts
<1>3. /\ Cardinality(Outgoing(g, v)) = 0
      /\ \A e \in Origins : Cardinality(Incoming(g, e, v)) = 0
  BY <1>2 DEF EdgesMatchTable
<1>4. Outgoing(g, v) = {} /\ \A e \in Origins : Incoming(g, e, v) = {}
  BY <1>3, CountFacts, FS_EmptySet
<1>5. /\ \A p : Origin(h, p) = Origin(g, p)
      /\ \A e, u : Incoming(h, e, u) = Incoming(g, e, u)
      /\ \A u : Outgoing(h, u) = Outgoing(g, u)
  BY <1>1 DEF Origin, Incoming, Outgoing
<1>6. ASSUME NEW s \in DOMAIN h.table, h.table[s].pointed # Null
      PROVE  {h.table[s].pointed, Origin(h, s)} \cap Vertices \subseteq DOMAIN h.vertex
  <2>1. {g.table[s].pointed, Origin(g, s)} \cap Vertices \subseteq DOMAIN g.vertex
    BY <1>1, <1>6 DEF EdgesMatchTable, EndsExist
  <2>2. Origin(g, s) \in Origins /\ (Origin(g, s) = v => g.table[s].container = v)
    BY <1>1, <1>2, TableFacts
  <2>3. g.table[s].pointed # v
    BY <1>1, <1>4, <2>2 DEF Incoming
  <2>4. Origin(g, s) # v
    BY <1>1, <1>4, <1>6, <2>2 DEF Outgoing
  <2>. QED  BY <1>1, <1>5, <2>1, <2>3, <2>4
<1>7. \A e : \A u \in DOMAIN h.vertex : EdgesFrom(h, e, u) = EdgesFrom(g, e, u)
  BY <1>1 DEF EdgesFrom
<1>8. \A u \in DOMAIN h.vertex :
        /\ \A e \in Origins : EdgesFrom(h, e, u) = Cardinality(Incoming(h, e, u))
        /\ h.vertex[u].out = Cardinality(Outgoing(h, u))
  BY <1>1, <1>5, <1>7 DEF EdgesMatchTable
<1>. QED  BY <1>6, <1>8 DEF EdgesMatchTable, EndsExist

(* What the pointers at an origin are when one of them refers elsewhere. *)
LEMMA PointedSets ==
  ASSUME NEW g, GraphOK(g), NEW s \in DOMAIN g.table,
         NEW h, DOMAIN h.table = DOMAIN g.table,
         NEW v, v = h.table[s].pointed,
         \A p \in DOMAIN g.table : p # s => h.table[p] = g.table[p],
         \A p \in DOMAIN g.table : h.table[p].container = g.table[p].container
  PROVE  /\ \A p \in DOMAIN g.table : Origin(h, p) = Origin(g, p)
         /\ \A e : \A u \in Vertices :
              /\ u = v /\ e = Origin(g, s) => Incoming(h, e, u) = Incoming(g, e, u) \cup {s}
              /\ u # v \/ e # Origin(g, s) => Incoming(h, e, u) = Incoming(g, e, u) \ {s}
         /\ \A u \in Vertices :
              /\ u = Origin(g, s) /\ v # Null => Outgoing(h, u) = Outgoing(g, u) \cup {s}
              /\ u # Origin(g, s) \/ v = Null => Outgoing(h, u) = Outgoing(g, u) \ {s}
         /\ EndsExist(g) /\ (v = Null \/ {v, Origin(g, s)} \cap Vertices \subseteq DOMAIN g.vertex)
              => \A p \in DOMAIN h.table : h.table[p].pointed # Null =>
                   {h.table[p].pointed, Origin(h, p)} \cap Vertices \subseteq DOMAIN g.vertex
<1>. DEFINE T == h.table
            U == g.table
<1>2. /\ DOMAIN T = DOMAIN U
      /\ T[s].pointed = v
      /\ \A p \in DOMAIN U : p # s => T[p].pointed = U[p].pointed
      /\ \A p \in DOMAIN U : T[p].container = U[p].container
  OBVIOUS
<1>4. \A p \in DOMAIN U : Origin(h, p) = Origin(g, p)
  BY <1>2 DEF Origin
<1>5. /\ \A u \in Vertices : u # Null /\ (Origin(g, s) = u <=> U[s].container = u)
  BY TableFacts, NullAssumption
<1>6. /\ \A e, u : Incoming(h, e, u) = {p \in DOMAIN T : T[p].pointed = u /\ Origin(h, p) = e}
      /\ \A e, u : Incoming(g, e, u) = {p \in DOMAIN U : U[p].pointed = u /\ Origin(g, p) = e}
      /\ \A u : Outgoing(h, u) = {p \in DOMAIN T : T[p].container = u /\ T[p].pointed # Null}
      /\ \A u : Outgoing(g, u) = {p \in DOMAIN U : U[p].container = u /\ U[p].pointed # Null}
  BY DEF Incoming, Outgoing
<1>7. s \in DOMAIN U
  OBVIOUS
<1>8. EndsExist(g) => \A p \in DOMAIN U : U[p].pointed # Null =>
        {U[p].pointed, Origin(g, p)} \cap Vertices \subseteq DOMAIN g.vertex
  BY DEF EndsExist
<1>. HIDE DEF T, U
<1>9. ASSUME NEW e, NEW u \in Vertices
      PROVE  /\ u = v /\ e = Origin(g, s) => Incoming(h, e, u) = Incoming(g, e, u) \cup {s}
             /\ u # v \/ e # Origin(g, s) => Incoming(h, e, u) = Incoming(g, e, u) \ {s}
  <2>1. CASE u = v /\ e = Origin(g, s)
    BY <1>2, <1>4, <1>6, <1>7, <2>1
  <2>2. CASE ~ (u = v /\ e = Origin(g, s))
    BY <1>2, <1>4, <1>6, <1>7, <2>2
  <2>. QED  BY <2>1, <2>2
<1>10. ASSUME NEW u \in Vertices
       PROVE  /\ u = Origin(g, s) /\ v # Null => Outgoing(h, u) = Outgoing(g, u) \cup {s}
              /\ u # Origin(g, s) \/ v = Null => Outgoing(h, u) = Outgoing(g, u) \ {s}
  <2>1. CASE Origin(g, s) = u /\ v # Null
    BY <1>2, <1>5, <1>6, <1>7, <2>1
  <2>2. CASE ~ (Origin(g, s) = u /\ v # Null)
    BY <1>2, <1>5, <1>6, <1>7, <2>2
  <2>. QED  BY <2>1, <2>2
<1>11. ASSUME EndsExist(g), v = Null \/ {v, Origin(g, s)} \cap Vertices \subseteq DOMAIN g.vertex,
              NEW p \in DOMAIN T, T[p].pointed # Null
       PROVE  {T[p].pointed, Origin(h, p)} \cap Vertices \subseteq DOMAIN g.vertex
  <2>1. CASE p = s
    BY <1>2, <1>4, <1>11, <2>1
  <2>2. CASE p # s
    BY <1>2, <1>4, <1>8, <1>11, <2>2
  <2>. QED  BY <2>1, <2>2
<1>. QED  BY <1>4, <1>9, <1>10, <1>11 DEF T, U

(* The edge of a reference is there, and goes with it. *)
LEMMA UnlinkMatch ==
  ASSUME NEW g, GraphOK(g), IsFiniteSet(DOMAIN g.table), EdgesMatchTable(g),
         NEW s \in DOMAIN g.table, g.table[s].pointed # Null,
         NEW v, v = g.table[s].pointed, NEW o, o = Origin(g, s),
         NEW k, k = [g EXCEPT !.table[s].pointed = Null],
         NEW h, h = RemoveEdge(k, o, v)
  PROVE  /\ {v, o} \cap Vertices \subseteq DOMAIN g.vertex
         /\ BagIn(o, g.vertex[v].edges) /\ (o \in Vertices => g.vertex[o].out # 0)
         /\ EdgesMatchTable(h)
<1>1. /\ {v, o} \cap Vertices \subseteq DOMAIN g.vertex
      /\ v \in Vertices /\ o \in Origins /\ v \in DOMAIN g.vertex
      /\ \A u \in Vertices : o = u <=> g.table[s].container = u
  BY TableFacts DEF EdgesMatchTable, EndsExist
<1>2. s \in Incoming(g, o, v) /\ (o \in Vertices => s \in Outgoing(g, o))
  BY <1>1 DEF Incoming, Outgoing
<1>3. /\ \A e, u : IsFiniteSet(Incoming(g, e, u)) /\ Cardinality(Incoming(g, e, u)) \in Nat
      /\ \A u : IsFiniteSet(Outgoing(g, u)) /\ Cardinality(Outgoing(g, u)) \in Nat
  BY CountFacts
<1>4. /\ Cardinality(Incoming(g, o, v) \ {s}) = Cardinality(Incoming(g, o, v)) - 1
      /\ Cardinality(Incoming(g, o, v)) # 0
  BY <1>2, <1>3, OneLess
<1>5. o \in Vertices => /\ Cardinality(Outgoing(g, o) \ {s}) = Cardinality(Outgoing(g, o)) - 1
                        /\ Cardinality(Outgoing(g, o)) # 0
  BY <1>2, <1>3, OneLess
<1>6. BagIn(o, g.vertex[v].edges) /\ (o \in Vertices => g.vertex[o].out # 0)
  BY <1>1, <1>4, <1>5 DEF EdgesMatchTable, EdgesFrom
<1>7. /\ GraphOK(k) /\ k.vertex = g.vertex
      /\ DOMAIN k.table = DOMAIN g.table /\ k.table[s].pointed = Null
      /\ \A p \in DOMAIN g.table : p # s => k.table[p] = g.table[p]
      /\ \A p \in DOMAIN g.table : k.table[p].container = g.table[p].container
  BY PointFacts
<1>8. /\ GraphOK(k) /\ v \in DOMAIN k.vertex /\ BagIn(o, k.vertex[v].edges)
      /\ o \in DOMAIN k.vertex => k.vertex[o].out # 0
      /\ o \in Origins /\ h = RemoveEdge(k, o, v)
  BY <1>1, <1>6, <1>7 DEF GraphOK
<1>9. /\ h.table = k.table /\ DOMAIN h.vertex = DOMAIN k.vertex
      /\ \A u \in DOMAIN k.vertex :
           /\ h.vertex[u].out = k.vertex[u].out - (IF u = o THEN 1 ELSE 0)
           /\ \A e : EdgesFrom(h, e, u) = EdgesFrom(k, e, u) - (IF u = v /\ e = o THEN 1 ELSE 0)
  BY ONLY <1>8, RemoveEdgeFacts
<1>10. \A u, e : EdgesFrom(k, e, u) = EdgesFrom(g, e, u)
  BY <1>7 DEF EdgesFrom
<1>11. \A u \in DOMAIN g.vertex : u \in Vertices /\ u # Null
  BY VertexFacts
<1>w. PICK w : w = Null
  OBVIOUS
<1>12. /\ GraphOK(g) /\ EndsExist(g) /\ o = Origin(g, s)
       /\ w = Null \/ {w, Origin(g, s)} \cap Vertices \subseteq DOMAIN g.vertex
       /\ DOMAIN h.table = DOMAIN g.table /\ w = h.table[s].pointed
       /\ \A p \in DOMAIN g.table : p # s => h.table[p] = g.table[p]
       /\ \A p \in DOMAIN g.table : h.table[p].container = g.table[p].container
  BY <1>w, <1>7, <1>9 DEF EdgesMatchTable
<1>13. /\ \A p \in DOMAIN h.table : h.table[p].pointed # Null =>
            {h.table[p].pointed, Origin(h, p)} \cap Vertices \subseteq DOMAIN g.vertex
       /\ \A u \in DOMAIN g.vertex : Outgoing(h, u) = Outgoing(g, u) \ {s}
       /\ \A u \in DOMAIN g.vertex : \A e : Incoming(h, e, u) = Incoming(g, e, u) \ {s}
  <2>1. \A p \in DOMAIN h.table : h.table[p].pointed # Null =>
          {h.table[p].pointed, Origin(h, p)} \cap Vertices \subseteq DOMAIN g.vertex
    BY ONLY <1>12, PointedSets
  <2>2. \A u \in Vertices : u # o \/ w = Null => Outgoing(h, u) = Outgoing(g, u) \ {s}
    BY ONLY <1>12, PointedSets
  <2>3. ASSUME NEW u \in Vertices, NEW e, u # w
        PROVE  Incoming(h, e, u) = Incoming(g, e, u) \ {s}
    BY ONLY <1>12, <2>3, PointedSets
  <2>. QED  BY <1>w, <1>11, <2>1, <2>2, <2>3
<1>14. EndsExist(h)
  <2>1. DOMAIN h.vertex = DOMAIN g.vertex
    BY <1>7, <1>9
  <2>. QED  BY <1>13, <2>1 DEF EndsExist
<1>15. ASSUME NEW u \in DOMAIN g.vertex, NEW e \in Origins
       PROVE  EdgesFrom(h, e, u) = Cardinality(Incoming(h, e, u))
  <2>1. EdgesFrom(g, e, u) = Cardinality(Incoming(g, e, u))
    BY DEF EdgesMatchTable
  <2>2. EdgesFrom(h, e, u) = EdgesFrom(g, e, u) - (IF u = v /\ e = o THEN 1 ELSE 0)
    BY <1>7, <1>9, <1>10
  <2>3. CASE u = v /\ e = o
    BY <1>4, <1>13, <2>1, <2>2, <2>3
  <2>4. CASE u # v \/ e # o
    <3>1. s \notin Incoming(g, e, u)
      BY <2>4 DEF Incoming
    <3>2. Incoming(h, e, u) = Incoming(g, e, u)
      BY <1>13, <3>1
    <3>. QED  BY <1>3, <2>1, <2>2, <2>4, <3>2
  <2>. QED  BY <2>3, <2>4
<1>16. ASSUME NEW u \in DOMAIN g.vertex
       PROVE  h.vertex[u].out = Cardinality(Outgoing(h, u))
  <2>1. g.vertex[u].out = Cardinality(Outgoing(g, u))
    BY DEF EdgesMatchTable
  <2>2. h.vertex[u].out = g.vertex[u].out - (IF u = o THEN 1 ELSE 0)
    BY <1>7, <1>9
  <2>3. Outgoing(h, u) = Outgoing(g, u) \ {s}
    BY <1>13
  <2>4. CASE u = o
    BY <1>5, <1>11, <2>1, <2>2, <2>3, <2>4
  <2>5. CASE u # o
    <3>1. s \notin Outgoing(g, u)
      BY <1>1, <1>11, <2>5 DEF Outgoing
    <3>2. Outgoing(h, u) = Outgoing(g, u)
      BY <2>3, <3>1
    <3>. QED  BY <1>3, <2>1, <2>2, <2>5, <3>2
  <2>. QED  BY <2>4, <2>5
<1>17. EdgesMatchTable(h)
  BY <1>7, <1>9, <1>14, <1>15, <1>16 DEF EdgesMatchTable
<1>. QED  BY <1>1, <1>6, <1>17

(* The edge of a new reference comes with it. *)
LEMMA LinkMatch ==
  ASSUME NEW g, GraphOK(g), IsFiniteSet(DOMAIN g.table), EdgesMatchTable(g),
         NEW s \in DOMAIN g.table, g.table[s].pointed = Null,
         NEW v \in Vertices, NEW o, o = Origin(g, s),
         {v, o} \cap Vertices \subseteq DOMAIN g.vertex,
         NEW k, k = [g EXCEPT !.table[s].pointed = v],
         NEW h, h = AddEdge(k, o, v)
  PROVE  EdgesMatchTable(h)
<1>1. /\ o \in Origins /\ v \in DOMAIN g.vertex /\ v # Null
      /\ \A u \in Vertices : o = u <=> g.table[s].container = u
  BY TableFacts, NullAssumption
<1>2. \A u \in DOMAIN g.vertex : u \in Vertices /\ u # Null
  BY VertexFacts
<1>3. /\ \A e, u : IsFiniteSet(Incoming(g, e, u)) /\ Cardinality(Incoming(g, e, u)) \in Nat
      /\ \A u : IsFiniteSet(Outgoing(g, u)) /\ Cardinality(Outgoing(g, u)) \in Nat
  BY CountFacts
<1>4. s \notin Incoming(g, o, v) /\ s \notin Outgoing(g, o)
  BY <1>1 DEF Incoming, Outgoing
<1>5. /\ Cardinality(Incoming(g, o, v) \cup {s}) = Cardinality(Incoming(g, o, v)) + 1
      /\ Cardinality(Outgoing(g, o) \cup {s}) = Cardinality(Outgoing(g, o)) + 1
  BY <1>3, <1>4, OneMore
<1>6. /\ GraphOK(k) /\ k.vertex = g.vertex
      /\ DOMAIN k.table = DOMAIN g.table /\ k.table[s].pointed = v
      /\ \A p \in DOMAIN g.table : p # s => k.table[p] = g.table[p]
      /\ \A p \in DOMAIN g.table : k.table[p].container = g.table[p].container
  BY PointFacts
<1>7. GraphOK(k) /\ v \in DOMAIN k.vertex /\ o \in Origins /\ h = AddEdge(k, o, v)
  BY <1>1, <1>6
<1>8. /\ h.table = k.table /\ DOMAIN h.vertex = DOMAIN k.vertex
      /\ \A u \in DOMAIN k.vertex :
           /\ h.vertex[u].out = k.vertex[u].out + (IF u = o THEN 1 ELSE 0)
           /\ \A e : EdgesFrom(h, e, u) = EdgesFrom(k, e, u) + (IF u = v /\ e = o THEN 1 ELSE 0)
  BY ONLY <1>7, AddEdgeFacts
<1>9. \A u, e : EdgesFrom(k, e, u) = EdgesFrom(g, e, u)
  BY <1>6 DEF EdgesFrom
<1>10. /\ GraphOK(g) /\ EndsExist(g)
       /\ o = Origin(g, s) /\ v # Null /\ {v, o} \cap Vertices \subseteq DOMAIN g.vertex
       /\ DOMAIN h.table = DOMAIN g.table /\ v = h.table[s].pointed
       /\ \A p \in DOMAIN g.table : p # s => h.table[p] = g.table[p]
       /\ \A p \in DOMAIN g.table : h.table[p].container = g.table[p].container
  <2>1. GraphOK(g) /\ EndsExist(g) /\ o = Origin(g, s) /\ {v, o} \cap Vertices \subseteq DOMAIN g.vertex
    BY DEF EdgesMatchTable
  <2>2. h.table = k.table
    BY <1>8
  <2>. QED  BY ONLY <1>1, <1>6, <2>1, <2>2
<1>11. /\ \A p \in DOMAIN h.table : h.table[p].pointed # Null =>
            {h.table[p].pointed, Origin(h, p)} \cap Vertices \subseteq DOMAIN g.vertex
       /\ \A u \in Vertices :
            /\ u = o => Outgoing(h, u) = Outgoing(g, u) \cup {s}
            /\ u # o => Outgoing(h, u) = Outgoing(g, u) \ {s}
       /\ \A u \in Vertices : \A e :
            /\ u = v /\ e = o => Incoming(h, e, u) = Incoming(g, e, u) \cup {s}
            /\ u # v \/ e # o => Incoming(h, e, u) = Incoming(g, e, u) \ {s}
  <2>1. \A p \in DOMAIN h.table : h.table[p].pointed # Null =>
          {h.table[p].pointed, Origin(h, p)} \cap Vertices \subseteq DOMAIN g.vertex
    BY ONLY <1>10, PointedSets
  <2>2. \A u \in Vertices :
          /\ u = o => Outgoing(h, u) = Outgoing(g, u) \cup {s}
          /\ u # o => Outgoing(h, u) = Outgoing(g, u) \ {s}
    BY ONLY <1>10, PointedSets
  <2>3. \A u \in Vertices : \A e :
          /\ u = v /\ e = o => Incoming(h, e, u) = Incoming(g, e, u) \cup {s}
          /\ u # v \/ e # o => Incoming(h, e, u) = Incoming(g, e, u) \ {s}
    BY ONLY <1>10, PointedSets
  <2>. QED  BY <2>1, <2>2, <2>3
<1>12. EndsExist(h)
  <2>1. DOMAIN h.vertex = DOMAIN g.vertex
    BY <1>6, <1>8
  <2>. QED  BY <1>11, <2>1 DEF EndsExist
<1>13. ASSUME NEW u \in DOMAIN g.vertex, NEW e \in Origins
       PROVE  EdgesFrom(h, e, u) = Cardinality(Incoming(h, e, u))
  <2>1. EdgesFrom(g, e, u) = Cardinality(Incoming(g, e, u))
    BY DEF EdgesMatchTable
  <2>2. EdgesFrom(h, e, u) = EdgesFrom(g, e, u) + (IF u = v /\ e = o THEN 1 ELSE 0)
    BY <1>6, <1>8, <1>9
  <2>3. CASE u = v /\ e = o
    BY <1>2, <1>5, <1>11, <2>1, <2>2, <2>3
  <2>4. CASE u # v \/ e # o
    <3>1. s \notin Incoming(g, e, u)
      BY <1>2 DEF Incoming
    <3>2. Incoming(h, e, u) = Incoming(g, e, u)
      BY <1>2, <1>11, <2>4, <3>1
    <3>. QED  BY <1>3, <2>1, <2>2, <2>4, <3>2
  <2>. QED  BY <2>3, <2>4
<1>14. ASSUME NEW u \in DOMAIN g.vertex
       PROVE  h.vertex[u].out = Cardinality(Outgoing(h, u))
  <2>1. g.vertex[u].out = Cardinality(Outgoing(g, u))
    BY DEF EdgesMatchTable
  <2>2. h.vertex[u].out = g.vertex[u].out + (IF u = o THEN 1 ELSE 0)
    BY <1>6, <1>8
  <2>3. CASE u = o
    BY <1>2, <1>5, <1>11, <2>1, <2>2, <2>3
  <2>4. CASE u # o
    <3>1. s \notin Outgoing(g, u)
      BY DEF Outgoing
    <3>2. Outgoing(h, u) = Outgoing(g, u)
      <4>1. Outgoing(h, u) = Outgoing(g, u) \ {s}
        BY <1>2, <1>11, <2>4
      <4>. QED  BY <3>1, <4>1
    <3>. QED  BY <1>3, <2>1, <2>2, <2>4, <3>2
  <2>. QED  BY <2>3, <2>4
<1>. QED  BY <1>6, <1>8, <1>12, <1>13, <1>14 DEF EdgesMatchTable

-----------------------------------------------------------------------------
(* What an operation leaves of the graph when it is only the vertices W    *)
(* that may lose their block or be deleted.                                *)
KeepsBut(g, h, W) ==
  /\ DOMAIN h.vertex \subseteq DOMAIN g.vertex
  /\ \A u \in DOMAIN h.vertex : h.vertex[u].addr \in {g.vertex[u].addr, Null}
  /\ \A u \in DOMAIN g.vertex \ W : u \in DOMAIN h.vertex /\ h.vertex[u].addr = g.vertex[u].addr

Follows(g, h, W) == GraphOK(h) /\ h.table = g.table /\ KeepsBut(g, h, W)

(* Every vertex but those in W is kept for something. *)
NoLostBut(g, W) == \A v \in DOMAIN g.vertex \ W : ~ Released(g, v) \/ HasAnyEdges(g, v)

LEMMA HasAnyEdgesFacts ==
  ASSUME NEW g, NEW h, NEW u, h.vertex[u] = g.vertex[u]
  PROVE  (HasAnyEdges(h, u) <=> HasAnyEdges(g, u)) /\ (Released(h, u) <=> Released(g, u))
BY DEF HasAnyEdges, Released

LEMMA LeaveOriginFacts ==
  ASSUME NEW g, GraphOK(g), NEW o \in Origins, o \in Vertices => o \in DOMAIN g.vertex,
         NEW h, h = LeaveOrigin(g, o)
  PROVE  /\ Follows(g, h, {o}) /\ h.released = g.released
         /\ h.fault \in {g.fault, g.fault \cup {"isolated but not released"}}
         /\ \A W : NoLostBut(g, W \cup {o}) => NoLostBut(h, W)
         /\ IsFiniteSet(DOMAIN g.table) /\ EdgesMatchTable(g) => EdgesMatchTable(h)
<1>1. CASE o \in Sptrs \/ HasAnyEdges(g, o)
  <2>1. h = g
    BY <1>1 DEF LeaveOrigin
  <2>2. o \notin DOMAIN g.vertex \/ HasAnyEdges(g, o)
    BY <1>1, PlacesAssumption DEF GraphOK
  <2>3. \A W : NoLostBut(g, W \cup {o}) => NoLostBut(h, W)
    BY <2>1, <2>2 DEF NoLostBut
  <2>. QED  BY <2>1, <2>3 DEF Follows, KeepsBut
<1>2. CASE o \notin Sptrs /\ ~ HasAnyEdges(g, o) /\ Released(g, o)
  <2>1. o \in DOMAIN g.vertex /\ h = DeleteVertex(g, o)
    BY <1>2 DEF LeaveOrigin, Origins
  <2>2. /\ GraphOK(h)
        /\ h.table = g.table /\ h.fault = g.fault /\ h.released = g.released
        /\ DOMAIN h.vertex = DOMAIN g.vertex \ {o}
        /\ \A u \in DOMAIN h.vertex : h.vertex[u] = g.vertex[u]
    BY <2>1, DeleteFacts
  <2>3. Follows(g, h, {o})
    BY <2>2 DEF Follows, KeepsBut
  <2>4. \A W : NoLostBut(g, W \cup {o}) => NoLostBut(h, W)
    BY <2>2, HasAnyEdgesFacts DEF NoLostBut
  <2>5. IsFiniteSet(DOMAIN g.table) /\ EdgesMatchTable(g) => EdgesMatchTable(h)
    BY <1>2, <2>1, DeleteMatch
  <2>. QED  BY <2>2, <2>3, <2>4, <2>5
<1>3. CASE o \notin Sptrs /\ ~ HasAnyEdges(g, o) /\ ~ Released(g, o)
  <2>1. GraphOK(g) /\ h = Faulty(g, "isolated but not released")
    BY <1>3 DEF LeaveOrigin
  <2>2. /\ GraphOK(h) /\ h.fault = g.fault \cup {"isolated but not released"}
        /\ h.table = g.table /\ h.vertex = g.vertex /\ h.released = g.released
    BY ONLY <2>1, FaultyFacts
  <2>3. Follows(g, h, {o})
    BY <2>2 DEF Follows, KeepsBut
  <2>4. \A u : (HasAnyEdges(h, u) <=> HasAnyEdges(g, u)) /\ (Released(h, u) <=> Released(g, u))
    BY <2>2, HasAnyEdgesFacts
  <2>5. \A W : NoLostBut(g, W \cup {o}) => NoLostBut(h, W)
    BY <1>3, <2>2, <2>4 DEF NoLostBut
  <2>6. EdgesMatchTable(g) => EdgesMatchTable(h)
    BY <2>2, MatchCongruence
  <2>. QED  BY <2>2, <2>3, <2>5, <2>6
<1>. QED  BY <1>1, <1>2, <1>3

(* A block is given back once: its vertex no longer has it, or is gone. *)
GivesBack(g, h) ==
  \/ h.released = g.released
  \/ \E u \in DOMAIN g.vertex :
       /\ g.vertex[u].addr # Null /\ h.released.block = g.vertex[u].addr
       /\ u \in DOMAIN h.vertex => h.vertex[u].addr = Null

LEMMA CollectFacts ==
  ASSUME NEW g, GraphOK(g), NEW v \in DOMAIN g.vertex, ~ Released(g, v),
         NEW allowDtion \in BOOLEAN, NEW h, h = Collect(g, v, allowDtion)
  PROVE  /\ Follows(g, h, {v}) /\ GivesBack(g, h) /\ h.fault = g.fault
         /\ NoLostBut(g, {v}) => NoLostBut(h, {})
         /\ IsFiniteSet(DOMAIN g.table) /\ EdgesMatchTable(g) => EdgesMatchTable(h)
<1>. DEFINE gone == [g EXCEPT !.vertex[v].addr = Null,
                              !.released = [block |-> g.vertex[v].addr, dtion |-> allowDtion]]
<1>1. IsVertex(g.vertex[v]) /\ v \in Vertices
  BY VertexFacts
<1>2. /\ DOMAIN gone = DOMAIN g /\ gone.table = g.table /\ gone.fault = g.fault
      /\ gone.released = [block |-> g.vertex[v].addr, dtion |-> allowDtion]
      /\ DOMAIN gone.vertex = DOMAIN g.vertex
      /\ gone.vertex[v] = [g.vertex[v] EXCEPT !.addr = Null]
      /\ \A u \in DOMAIN g.vertex : u # v => gone.vertex[u] = g.vertex[u]
  BY DEF GraphOK
<1>3. gone.vertex[v].addr = Null /\ gone.vertex[v].edges = g.vertex[v].edges
      /\ gone.vertex[v].out = g.vertex[v].out /\ IsVertex(gone.vertex[v])
  BY <1>1, <1>2 DEF IsVertex
<1>4. h = IF HasAnyEdges(gone, v) THEN gone ELSE DeleteVertex(gone, v)
  BY DEF Collect
<1>. HIDE DEF gone
<1>5. g.vertex[v].addr \in Blocks \cup {Null} /\ g.vertex[v].addr # Null
  BY <1>1 DEF IsVertex, Released
<1>6. GraphOK(gone)
  <2>1. gone.released \in [block : Blocks \cup {Null}, dtion : BOOLEAN]
    BY <1>2, <1>5
  <2>2. \A u \in DOMAIN gone.vertex : IsVertex(gone.vertex[u])
    BY <1>2, <1>3 DEF GraphOK
  <2>. QED  BY <1>2, <2>1, <2>2 DEF GraphOK
<1>7. /\ EdgesMatchTable(g) => EdgesMatchTable(gone)
      /\ \A u \in DOMAIN g.vertex : HasAnyEdges(g, u) <=> HasAnyEdges(gone, u)
  <2>1. /\ gone.table = g.table /\ DOMAIN gone.vertex = DOMAIN g.vertex
        /\ \A u \in DOMAIN g.vertex :
             gone.vertex[u].edges = g.vertex[u].edges /\ gone.vertex[u].out = g.vertex[u].out
    BY <1>2, <1>3
  <2>. QED  BY <2>1, MatchCongruence
<1>8. gone.released.block = g.vertex[v].addr
  BY <1>2
<1>9. CASE HasAnyEdges(gone, v)
  <2>1. h = gone
    BY <1>4, <1>9
  <2>2. Follows(g, h, {v}) /\ GivesBack(g, h)
    BY <1>2, <1>3, <1>5, <1>6, <1>8, <2>1 DEF Follows, KeepsBut, GivesBack
  <2>3. NoLostBut(g, {v}) => NoLostBut(h, {})
    BY <1>2, <1>7, <1>9, <2>1 DEF NoLostBut, Released
  <2>. QED  BY <1>2, <1>7, <2>1, <2>2, <2>3
<1>10. CASE ~ HasAnyEdges(gone, v)
  <2>1. v \in DOMAIN gone.vertex /\ h = DeleteVertex(gone, v)
    BY <1>2, <1>4, <1>10
  <2>2. /\ GraphOK(h)
        /\ h.table = gone.table /\ h.fault = gone.fault /\ h.released = gone.released
        /\ DOMAIN h.vertex = DOMAIN gone.vertex \ {v}
        /\ \A u \in DOMAIN h.vertex : h.vertex[u] = gone.vertex[u]
    BY <1>6, <2>1, DeleteFacts
  <2>3. Follows(g, h, {v}) /\ GivesBack(g, h)
    BY <1>2, <1>5, <1>8, <2>2 DEF Follows, KeepsBut, GivesBack
  <2>4. \A u \in DOMAIN h.vertex : h.vertex[u] = g.vertex[u]
    BY <1>2, <2>2
  <2>5. NoLostBut(g, {v}) => NoLostBut(h, {})
    BY <1>2, <2>2, <2>4, HasAnyEdgesFacts DEF NoLostBut
  <2>6. IsFiniteSet(DOMAIN g.table) /\ EdgesMatchTable(g) => EdgesMatchTable(h)
    BY <1>2, <1>6, <1>7, <1>10, <2>1, DeleteMatch
  <2>. QED  BY <1>2, <2>2, <2>3, <2>5, <2>6
<1>. QED  BY <1>9, <1>10

LEMMA SettleFacts ==
  ASSUME NEW g, GraphOK(g), NEW v \in Vertices, NEW allowDtion \in BOOLEAN,
         NEW h, h = Settle(g, v, allowDtion)
  PROVE  /\ Follows(g, h, {v}) /\ GivesBack(g, h)
         /\ h.fault \in {g.fault, g.fault \cup {"vertex used after delete"}}
         /\ NoLostBut(g, {v}) => NoLostBut(h, {})
         /\ IsFiniteSet(DOMAIN g.table) /\ EdgesMatchTable(g) => EdgesMatchTable(h)
<1>1. CASE v \notin DOMAIN g.vertex
  <2>1. GraphOK(g) /\ h = Faulty(g, "vertex used after delete")
    BY <1>1 DEF Settle
  <2>2. /\ GraphOK(h) /\ h.fault = g.fault \cup {"vertex used after delete"}
        /\ h.table = g.table /\ h.vertex = g.vertex /\ h.released = g.released
    BY ONLY <2>1, FaultyFacts
  <2>3. Follows(g, h, {v}) /\ GivesBack(g, h)
    BY <2>2 DEF Follows, KeepsBut, GivesBack
  <2>4. \A u : (HasAnyEdges(h, u) <=> HasAnyEdges(g, u)) /\ (Released(h, u) <=> Released(g, u))
    BY <2>2, HasAnyEdgesFacts
  <2>5. NoLostBut(g, {v}) => NoLostBut(h, {})
    BY <1>1, <2>2, <2>4 DEF NoLostBut
  <2>6. EdgesMatchTable(g) => EdgesMatchTable(h)
    BY <2>2, MatchCongruence
  <2>. QED  BY <2>2, <2>3, <2>5, <2>6
<1>2. CASE v \in DOMAIN g.vertex /\ h = g /\ (~ Released(g, v) \/ HasAnyEdges(g, v))
  <2>1. Follows(g, h, {v}) /\ GivesBack(g, h)
    BY <1>2 DEF Follows, KeepsBut, GivesBack
  <2>2. NoLostBut(g, {v}) => NoLostBut(h, {})
    BY <1>2 DEF NoLostBut
  <2>. QED  BY <1>2, <2>1, <2>2
<1>3. CASE v \in DOMAIN g.vertex /\ ~ Released(g, v) /\ h = Collect(g, v, allowDtion)
  BY <1>3, CollectFacts
<1>4. CASE v \in DOMAIN g.vertex /\ ~ HasAnyEdges(g, v) /\ h = DeleteVertex(g, v)
  <2>1. /\ GraphOK(h)
        /\ h.table = g.table /\ h.fault = g.fault /\ h.released = g.released
        /\ DOMAIN h.vertex = DOMAIN g.vertex \ {v}
        /\ \A u \in DOMAIN h.vertex : h.vertex[u] = g.vertex[u]
    BY <1>4, DeleteFacts
  <2>2. Follows(g, h, {v}) /\ GivesBack(g, h)
    BY <2>1 DEF Follows, KeepsBut, GivesBack
  <2>3. NoLostBut(g, {v}) => NoLostBut(h, {})
    BY <2>1, HasAnyEdgesFacts DEF NoLostBut
  <2>4. IsFiniteSet(DOMAIN g.table) /\ EdgesMatchTable(g) => EdgesMatchTable(h)
    BY <1>4, DeleteMatch
  <2>. QED  BY <2>1, <2>2, <2>3, <2>4
<1>. QED  BY <1>1, <1>2, <1>3, <1>4 DEF Settle

LEMMA KeepsChain ==
  ASSUME NEW g, NEW h, NEW k, NEW V, NEW W, KeepsBut(g, h, V), KeepsBut(h, k, W)
  PROVE  KeepsBut(g, k, V \cup W)
BY DEF KeepsBut

(* The vertices that the end of a reference concerns. *)
Ends(g, s) ==
  IF g.table[s].pointed = Null THEN {} ELSE {g.table[s].pointed, Origin(g, s)}

(* The end of a reference: the faults that are left are those of Settle    *)
(* and LeaveOrigin.                                                        *)
LEMMA UnmakeFacts ==
  ASSUME NEW g, GraphOK(g), IsFiniteSet(DOMAIN g.table), EdgesMatchTable(g), NoLostVertex(g),
         NEW s \in DOMAIN g.table, NEW allowDtion \in BOOLEAN,
         NEW h, h = UnmakeReference(g, s, allowDtion)
  PROVE  /\ GraphOK(h) /\ EdgesMatchTable(h) /\ NoLostVertex(h)
         /\ DOMAIN h.table = DOMAIN g.table /\ h.table[s].pointed = Null
         /\ KeepsBut(g, h, Ends(g, s)) /\ GivesBack(g, h)
         /\ h.fault \subseteq g.fault \cup {"isolated but not released", "vertex used after delete"}
<1>. DEFINE v == g.table[s].pointed
            o == Origin(g, s)
            k == [g EXCEPT !.table[s].pointed = Null]
            cut == RemoveEdge(k, o, v)
            left == LeaveOrigin(cut, o)
<1>1. /\ GraphOK(k) /\ k.vertex = g.vertex /\ k.fault = g.fault /\ k.released = g.released
      /\ DOMAIN k.table = DOMAIN g.table /\ k.table[s].pointed = Null
      /\ \A p \in DOMAIN g.table : p # s => k.table[p] = g.table[p]
      /\ \A p \in DOMAIN g.table : k.table[p].container = g.table[p].container
  BY PointFacts
<1>2. v \in Vertices \cup {Null} /\ o \in Origins
  BY TableFacts
<1>3. h = IF v = Null THEN k
          ELSE IF ~ ({v, o} \cap Vertices \subseteq DOMAIN g.vertex)
          THEN Faulty(k, "vertex used after delete")
          ELSE IF ~ BagIn(o, g.vertex[v].edges) \/ (o \in Vertices /\ g.vertex[o].out = 0)
          THEN Faulty(k, "no such edge")
          ELSE Settle(left, v, allowDtion)
  BY DEF UnmakeReference
<1>4. CASE v = Null
  <2>1. h = k
    BY <1>3, <1>4
  <2>2. \A u \in DOMAIN g.vertex : u # Null
    BY VertexFacts
  <2>3. /\ \A p \in DOMAIN g.table : Origin(k, p) = Origin(g, p)
        /\ \A p \in DOMAIN g.table : k.table[p].pointed = g.table[p].pointed
    BY <1>1, <1>4 DEF Origin
  <2>4. /\ \A e, u : Incoming(k, e, u) = Incoming(g, e, u)
        /\ \A u : Outgoing(k, u) = Outgoing(g, u)
    BY <1>1, <2>3 DEF Incoming, Outgoing
  <2>5. \A e, u : EdgesFrom(k, e, u) = EdgesFrom(g, e, u)
    BY <1>1 DEF EdgesFrom
  <2>6. EndsExist(k)
    BY <1>1, <2>3 DEF EndsExist, EdgesMatchTable
  <2>7. EdgesMatchTable(k)
    BY <1>1, <2>4, <2>5, <2>6 DEF EdgesMatchTable
  <2>8. NoLostVertex(k)
    BY <1>1, HasAnyEdgesFacts DEF NoLostVertex
  <2>9. KeepsBut(g, k, Ends(g, s)) /\ GivesBack(g, k)
    BY <1>1, <1>4 DEF KeepsBut, GivesBack, Ends
  <2>. QED  BY <1>1, <2>1, <2>7, <2>8, <2>9
<1>5. CASE v # Null
  <2>1. /\ {v, o} \cap Vertices \subseteq DOMAIN g.vertex
        /\ BagIn(o, g.vertex[v].edges) /\ (o \in Vertices => g.vertex[o].out # 0)
        /\ EdgesMatchTable(cut)
    BY <1>5, UnlinkMatch
  <2>2. h = Settle(left, v, allowDtion)
    BY <1>3, <1>5, <2>1
  <2>3. /\ v \in Vertices /\ v \in DOMAIN k.vertex /\ BagIn(o, k.vertex[v].edges)
        /\ o \in DOMAIN k.vertex => k.vertex[o].out # 0
    BY <1>1, <1>2, <1>5, <2>1 DEF GraphOK
  <2>. HIDE DEF v, o, k
  <2>4. /\ GraphOK(cut)
        /\ cut.table = k.table /\ cut.fault = k.fault /\ cut.released = k.released
        /\ DOMAIN cut.vertex = DOMAIN k.vertex
        /\ \A u \in DOMAIN k.vertex :
             /\ cut.vertex[u].addr = k.vertex[u].addr
             /\ cut.vertex[u].out = k.vertex[u].out - (IF u = o THEN 1 ELSE 0)
             /\ \A e : EdgesFrom(cut, e, u) = EdgesFrom(k, e, u) - (IF u = v /\ e = o THEN 1 ELSE 0)
    BY <1>1, <1>2, <2>3, RemoveEdgeFacts
  <2>. HIDE DEF cut
  <2>5. o \in Vertices => o \in DOMAIN cut.vertex
    BY <1>1, <2>1, <2>4
  <2>6. NoLostBut(cut, {v} \cup {o})
    <3>1. ASSUME NEW u \in DOMAIN cut.vertex \ {v, o}
          PROVE  ~ Released(cut, u) \/ HasAnyEdges(cut, u)
      <4>1. u \in DOMAIN k.vertex /\ u \in DOMAIN g.vertex
        BY <1>1, <2>4
      <4>2. /\ cut.vertex[u].addr = k.vertex[u].addr
            /\ k.vertex[u].out \in Nat /\ cut.vertex[u].out \in Nat
            /\ \A e : EdgesFrom(k, e, u) \in Nat /\ EdgesFrom(cut, e, u) \in Nat
            /\ cut.vertex[u].out = k.vertex[u].out - 0
            /\ \A e : EdgesFrom(cut, e, u) = EdgesFrom(k, e, u) - 0
        BY <1>1, <2>4, <4>1, VertexFacts
      <4>3. HasAnyEdges(k, u) <=> (\E e \in Origins : EdgesFrom(k, e, u) > 0) \/ k.vertex[u].out > 0
        BY <1>1, <4>1, VertexFacts
      <4>4. HasAnyEdges(cut, u) <=>
              (\E e \in Origins : EdgesFrom(cut, e, u) > 0) \/ cut.vertex[u].out > 0
        BY <2>4, VertexFacts
      <4>5. HasAnyEdges(cut, u) <=> HasAnyEdges(k, u)
        BY <4>2, <4>3, <4>4
      <4>6. ~ Released(k, u) \/ HasAnyEdges(k, u)
        BY <1>1, <4>1, HasAnyEdgesFacts DEF NoLostVertex
      <4>. QED  BY <4>2, <4>5, <4>6 DEF Released
    <3>. QED  BY <3>1 DEF NoLostBut
  <2>7. /\ Follows(cut, left, {o}) /\ left.released = cut.released
        /\ left.fault \in {cut.fault, cut.fault \cup {"isolated but not released"}}
        /\ NoLostBut(left, {v})
        /\ IsFiniteSet(DOMAIN cut.table) => EdgesMatchTable(left)
    BY <1>2, <2>1, <2>4, <2>5, <2>6, LeaveOriginFacts
  <2>. HIDE DEF left
  <2>8. GraphOK(left) /\ left.table = cut.table /\ KeepsBut(cut, left, {o})
    BY <2>7 DEF Follows
  <2>9. IsFiniteSet(DOMAIN left.table) /\ IsFiniteSet(DOMAIN cut.table)
    BY <1>1, <2>4, <2>8
  <2>a. EdgesMatchTable(left)
    BY <2>7, <2>9
  <2>10. /\ Follows(left, h, {v}) /\ GivesBack(left, h)
         /\ h.fault \in {left.fault, left.fault \cup {"vertex used after delete"}}
         /\ NoLostBut(h, {}) /\ EdgesMatchTable(h)
    <3>1. /\ GraphOK(left) /\ v \in Vertices /\ h = Settle(left, v, allowDtion)
          /\ NoLostBut(left, {v}) /\ IsFiniteSet(DOMAIN left.table) /\ EdgesMatchTable(left)
      BY <2>2, <2>3, <2>7, <2>8, <2>9, <2>a
    <3>2. /\ Follows(left, h, {v}) /\ GivesBack(left, h)
          /\ h.fault \in {left.fault, left.fault \cup {"vertex used after delete"}}
      BY ONLY <3>1, SettleFacts
    <3>3. NoLostBut(h, {}) /\ EdgesMatchTable(h)
      BY ONLY <3>1, SettleFacts
    <3>. QED  BY <3>2, <3>3
  <2>11. GraphOK(h) /\ h.table = left.table /\ KeepsBut(left, h, {v})
    BY <2>10 DEF Follows
  <2>12. KeepsBut(g, cut, {})
    BY <1>1, <2>4 DEF KeepsBut
  <2>13. KeepsBut(g, left, {o})
    BY <2>8, <2>12, KeepsChain
  <2>14. KeepsBut(g, h, {v, o})
    <3>1. KeepsBut(g, h, {o} \cup {v})
      BY <2>11, <2>13, KeepsChain
    <3>. QED  BY <3>1
  <2>15. GivesBack(g, h)
    BY <1>1, <2>4, <2>7, <2>10, <2>13 DEF GivesBack, KeepsBut
  <2>16. NoLostVertex(h)
    BY <2>10 DEF NoLostBut, NoLostVertex
  <2>17. h.table = k.table
    BY <2>4, <2>8, <2>11
  <2>18. h.fault \subseteq g.fault \cup {"isolated but not released", "vertex used after delete"}
    BY <1>1, <2>4, <2>7, <2>10
  <2>19. Ends(g, s) = {v, o}
    BY <1>5 DEF Ends, v, o
  <2>. QED  BY <1>1, <2>10, <2>11, <2>14, <2>15, <2>16, <2>17, <2>18, <2>19
<1>. QED  BY <1>4, <1>5

(* A new reference, from a pointer that has none. *)
LEMMA MakeFacts ==
  ASSUME NEW g, GraphOK(g), IsFiniteSet(DOMAIN g.table), EdgesMatchTable(g), NoLostVertex(g),
         NEW s \in DOMAIN g.table, g.table[s].pointed = Null, NEW v \in Vertices,
         NEW h, h = MakeReference(g, s, v)
  PROVE  /\ GraphOK(h) /\ EdgesMatchTable(h) /\ NoLostVertex(h)
         /\ IsFiniteSet(DOMAIN h.table)
         /\ KeepsBut(g, h, {}) /\ h.released = g.released
         /\ h.fault \subseteq g.fault \cup {"vertex used after delete"}
<1>. DEFINE o == Origin(g, s)
            k == [g EXCEPT !.table[s].pointed = v]
<1>1. /\ GraphOK(k) /\ k.vertex = g.vertex /\ k.fault = g.fault /\ k.released = g.released
      /\ DOMAIN k.table = DOMAIN g.table
  BY PointFacts
<1>2. v # Null /\ o \in Origins
  BY TableFacts, NullAssumption
<1>3. h = IF {v, o} \cap Vertices \subseteq DOMAIN g.vertex THEN AddEdge(k, o, v)
          ELSE Faulty(g, "vertex used after delete")
  BY <1>2 DEF MakeReference
<1>4. CASE ~ ({v, o} \cap Vertices \subseteq DOMAIN g.vertex)
  <2>1. GraphOK(g) /\ h = Faulty(g, "vertex used after delete")
    BY <1>3, <1>4
  <2>2. /\ GraphOK(h) /\ h.fault = g.fault \cup {"vertex used after delete"}
        /\ h.table = g.table /\ h.vertex = g.vertex /\ h.released = g.released
    BY ONLY <2>1, FaultyFacts
  <2>3. EdgesMatchTable(h)
    BY <2>2, MatchCongruence
  <2>4. NoLostVertex(h)
    BY <2>2, HasAnyEdgesFacts DEF NoLostVertex
  <2>. QED  BY <2>2, <2>3, <2>4 DEF KeepsBut
<1>5. CASE {v, o} \cap Vertices \subseteq DOMAIN g.vertex
  <2>1. h = AddEdge(k, o, v) /\ v \in DOMAIN k.vertex
    BY <1>1, <1>3, <1>5
  <2>2. EdgesMatchTable(h)
    BY <1>5, <2>1, LinkMatch
  <2>. HIDE DEF k, o
  <2>3. /\ GraphOK(h)
        /\ h.table = k.table /\ h.fault = k.fault /\ h.released = k.released
        /\ DOMAIN h.vertex = DOMAIN k.vertex
        /\ \A u \in DOMAIN k.vertex :
             /\ h.vertex[u].addr = k.vertex[u].addr
             /\ h.vertex[u].out = k.vertex[u].out + (IF u = o THEN 1 ELSE 0)
             /\ \A e : EdgesFrom(h, e, u) = EdgesFrom(k, e, u) + (IF u = v /\ e = o THEN 1 ELSE 0)
    BY <1>1, <1>2, <2>1, AddEdgeFacts
  <2>4. ASSUME NEW u \in DOMAIN h.vertex PROVE ~ Released(h, u) \/ HasAnyEdges(h, u)
    <3>1. u \in DOMAIN k.vertex /\ u \in DOMAIN g.vertex
      BY <1>1, <2>3
    <3>2. /\ k.vertex[u].out \in Nat /\ h.vertex[u].out >= k.vertex[u].out
          /\ \A e : EdgesFrom(k, e, u) \in Nat /\ EdgesFrom(h, e, u) >= EdgesFrom(k, e, u)
      BY <1>1, <2>3, <3>1, VertexFacts
    <3>3. HasAnyEdges(k, u) <=> (\E e \in Origins : EdgesFrom(k, e, u) > 0) \/ k.vertex[u].out > 0
      BY <1>1, <3>1, VertexFacts
    <3>4. /\ HasAnyEdges(h, u) <=> (\E e \in Origins : EdgesFrom(h, e, u) > 0) \/ h.vertex[u].out > 0
          /\ h.vertex[u].out \in Nat /\ \A e : EdgesFrom(h, e, u) \in Nat
      BY <2>3, VertexFacts
    <3>5. HasAnyEdges(k, u) => HasAnyEdges(h, u)
      BY <3>2, <3>3, <3>4
    <3>6. ~ Released(k, u) \/ HasAnyEdges(k, u)
      BY <1>1, <3>1, HasAnyEdgesFacts DEF NoLostVertex
    <3>. QED  BY <2>3, <3>1, <3>5, <3>6 DEF Released
  <2>5. KeepsBut(g, h, {})
    BY <1>1, <2>3 DEF KeepsBut
  <2>6. NoLostVertex(h)
    BY <2>4 DEF NoLostVertex
  <2>. QED  BY <1>1, <2>2, <2>3, <2>5, <2>6
<1>. QED  BY <1>4, <1>5

-----------------------------------------------------------------------------
(* The operations *)

(* What holds of the graph between two messages. *)
GraphInv(g) ==
  /\ GraphOK(g) /\ IsFiniteSet(DOMAIN g.table)
  /\ EdgesMatchTable(g) /\ NoLostVertex(g) /\ OneVertexPerBlock(g)

(* The faults that depend on what the client does. *)
ClientFaults ==
  {"isolated but not released", "vertex used after delete", "lookup without end",
   "pointer inserted twice", "no place for a vertex"}

(* What an operation makes of a graph: no block comes in, and one that is  *)
(* given back goes out.                                                    *)
Outcome(g, h) ==
  /\ GraphInv(h)
  /\ BlocksOf(h) \subseteq BlocksOf(g)
  /\ h.released = g.released \/ h.released.block \in BlocksOf(g) \ BlocksOf(h)
  /\ h.fault \subseteq g.fault \cup ClientFaults

LEMMA KeepsBlocks ==
  ASSUME NEW g, NEW h, NEW W, KeepsBut(g, h, W), OneVertexPerBlock(g)
  PROVE  /\ OneVertexPerBlock(h) /\ BlocksOf(h) \subseteq BlocksOf(g)
         /\ GivesBack(g, h) => \/ h.released = g.released
                               \/ h.released.block \in BlocksOf(g) \ BlocksOf(h)
         /\ \A u \in DOMAIN g.vertex \ W : g.vertex[u].addr # Null => g.vertex[u].addr \in BlocksOf(h)
<1>1. /\ DOMAIN h.vertex \subseteq DOMAIN g.vertex
      /\ \A u \in DOMAIN h.vertex : h.vertex[u].addr \in {g.vertex[u].addr, Null}
  BY DEF KeepsBut
<1>2. OneVertexPerBlock(h) /\ BlocksOf(h) \subseteq BlocksOf(g)
  BY <1>1 DEF OneVertexPerBlock, BlocksOf
<1>3. ASSUME NEW u \in DOMAIN g.vertex, g.vertex[u].addr # Null,
             u \in DOMAIN h.vertex => h.vertex[u].addr = Null
      PROVE  g.vertex[u].addr \in BlocksOf(g) \ BlocksOf(h)
  BY <1>1, <1>3 DEF OneVertexPerBlock, BlocksOf
<1>4. GivesBack(g, h) => h.released = g.released \/ h.released.block \in BlocksOf(g) \ BlocksOf(h)
  BY <1>3 DEF GivesBack
<1>5. \A u \in DOMAIN g.vertex \ W : g.vertex[u].addr # Null => g.vertex[u].addr \in BlocksOf(h)
  BY DEF KeepsBut, BlocksOf
<1>. QED  BY <1>2, <1>4, <1>5

LEMMA FaultyOutcome ==
  ASSUME NEW g, GraphInv(g), NEW kind \in ClientFaults
  PROVE  Outcome(g, Faulty(g, kind)) /\ BlocksOf(Faulty(g, kind)) = BlocksOf(g)
<1>. DEFINE h == Faulty(g, kind)
<1>1. GraphOK(g)
  BY DEF GraphInv
<1>2. /\ GraphOK(h) /\ h.fault = g.fault \cup {kind}
      /\ h.table = g.table /\ h.vertex = g.vertex /\ h.released = g.released
  BY <1>1, FaultyFacts
<1>. HIDE DEF h
<1>3. EdgesMatchTable(h)
  BY <1>2, MatchCongruence DEF GraphInv
<1>4. NoLostVertex(h)
  BY <1>2, HasAnyEdgesFacts DEF NoLostVertex, GraphInv
<1>5. OneVertexPerBlock(h) /\ BlocksOf(h) = BlocksOf(g)
  BY <1>2 DEF OneVertexPerBlock, BlocksOf, GraphInv
<1>6. GraphInv(h)
  BY <1>2, <1>3, <1>4, <1>5 DEF GraphInv
<1>. QED  BY <1>2, <1>5, <1>6 DEF Outcome, h

LEMMA OutcomeChain ==
  ASSUME NEW g, NEW h, NEW k, Outcome(g, h), GraphInv(k), KeepsBut(h, k, {}),
         k.released = h.released, k.fault \subseteq h.fault \cup ClientFaults
  PROVE  Outcome(g, k) /\ BlocksOf(k) = BlocksOf(h)
<1>1. BlocksOf(k) = BlocksOf(h)
  BY DEF KeepsBut, BlocksOf
<1>. QED  BY <1>1 DEF Outcome

LEMMA UnmakeOutcome ==
  ASSUME NEW g, GraphInv(g), NEW s \in DOMAIN g.table, NEW allowDtion \in BOOLEAN,
         NEW h, h = UnmakeReference(g, s, allowDtion)
  PROVE  /\ Outcome(g, h)
         /\ DOMAIN h.table = DOMAIN g.table /\ h.table[s].pointed = Null
         /\ KeepsBut(g, h, Ends(g, s))
<1>1. /\ GraphOK(g) /\ IsFiniteSet(DOMAIN g.table) /\ EdgesMatchTable(g) /\ NoLostVertex(g)
      /\ h = UnmakeReference(g, s, allowDtion)
  BY DEF GraphInv
<1>2. /\ GraphOK(h) /\ EdgesMatchTable(h) /\ NoLostVertex(h)
      /\ DOMAIN h.table = DOMAIN g.table /\ h.table[s].pointed = Null
      /\ KeepsBut(g, h, Ends(g, s)) /\ GivesBack(g, h)
  BY ONLY <1>1, UnmakeFacts
<1>3. h.fault \subseteq g.fault \cup {"isolated but not released", "vertex used after delete"}
  BY ONLY <1>1, UnmakeFacts
<1>4. /\ OneVertexPerBlock(h) /\ BlocksOf(h) \subseteq BlocksOf(g)
      /\ h.released = g.released \/ h.released.block \in BlocksOf(g) \ BlocksOf(h)
  BY <1>2, KeepsBlocks DEF GraphInv
<1>5. h.fault \subseteq g.fault \cup ClientFaults
  BY <1>3 DEF ClientFaults
<1>6. GraphInv(h)
  BY <1>1, <1>2, <1>4 DEF GraphInv
<1>. QED  BY <1>2, <1>4, <1>5, <1>6 DEF Outcome

LEMMA MakeOutcome ==
  ASSUME NEW g, NEW h, Outcome(g, h), NEW s \in DOMAIN h.table, h.table[s].pointed = Null,
         NEW v \in Vertices, NEW k, k = MakeReference(h, s, v)
  PROVE  Outcome(g, k) /\ BlocksOf(k) = BlocksOf(h)
<1>1. /\ GraphOK(h) /\ IsFiniteSet(DOMAIN h.table) /\ EdgesMatchTable(h) /\ NoLostVertex(h)
      /\ OneVertexPerBlock(h) /\ h.table[s].pointed = Null /\ k = MakeReference(h, s, v)
  BY DEF Outcome, GraphInv
<1>2. /\ GraphOK(k) /\ EdgesMatchTable(k) /\ NoLostVertex(k)
      /\ IsFiniteSet(DOMAIN k.table)
      /\ KeepsBut(h, k, {}) /\ k.released = h.released
      /\ k.fault \subseteq h.fault \cup {"vertex used after delete"}
  <2>1. GraphOK(k) /\ EdgesMatchTable(k) /\ NoLostVertex(k) /\ IsFiniteSet(DOMAIN k.table)
    BY ONLY <1>1, MakeFacts
  <2>2. KeepsBut(h, k, {}) /\ k.released = h.released
    BY ONLY <1>1, MakeFacts
  <2>3. k.fault \subseteq h.fault \cup {"vertex used after delete"}
    BY ONLY <1>1, MakeFacts
  <2>. QED  BY ONLY <2>1, <2>2, <2>3
<1>3. OneVertexPerBlock(k)
  BY <1>1, <1>2, KeepsBlocks
<1>4. GraphInv(k)
  BY <1>1, <1>2, <1>3 DEF GraphInv
<1>5. k.fault \subseteq h.fault \cup ClientFaults
  BY <1>2 DEF ClientFaults
<1>. QED  BY <1>2, <1>4, <1>5, OutcomeChain

LEMMA GetVertexFacts ==
  ASSUME NEW g, GraphOK(g), NEW b, b # Null
  PROVE  /\ b \in BlocksOf(g) => /\ GetVertex(g, b) \in DOMAIN g.vertex /\ GetVertex(g, b) \in Vertices
                                 /\ GetVertex(g, b) # Null
         /\ b \notin BlocksOf(g) => GetVertex(g, b) = Null
<1>1. b \in BlocksOf(g) <=> \E v \in DOMAIN g.vertex : g.vertex[v].addr = b
  BY DEF BlocksOf
<1>2. (\E v \in DOMAIN g.vertex : g.vertex[v].addr = b) => GetVertex(g, b) \in DOMAIN g.vertex
  BY DEF GetVertex
<1>3. ~ (\E v \in DOMAIN g.vertex : g.vertex[v].addr = b) => GetVertex(g, b) = Null
  BY DEF GetVertex
<1>. QED  BY <1>1, <1>2, <1>3, VertexFacts

(* The vertex of the new address survives the end of the old reference. *)
LEMMA ResetToFacts ==
  ASSUME NEW g, GraphInv(g), NEW s, NEW b, NEW allowDtion \in BOOLEAN,
         b # Null => \E u \in DOMAIN g.vertex :
           /\ g.vertex[u].addr = b
           /\ s \in DOMAIN g.table => u \notin Ends(g, s),
         NEW h, h = ResetPointerTo(g, s, b, allowDtion)
  PROVE  Outcome(g, h) /\ (b # Null => b \in BlocksOf(h))
<1>1. CASE s \notin DOMAIN g.table
  <2>1. h = Faulty(g, "lookup without end")
    BY <1>1 DEF ResetPointerTo
  <2>2. Outcome(g, h) /\ BlocksOf(h) = BlocksOf(g)
    BY <2>1, FaultyOutcome DEF ClientFaults
  <2>. QED  BY <2>2 DEF BlocksOf
<1>2. CASE s \in DOMAIN g.table
  <2>. DEFINE unmade == UnmakeReference(g, s, allowDtion)
  <2>1. h = IF b = Null THEN unmade ELSE MakeReference(unmade, s, GetVertex(unmade, b))
    BY <1>2 DEF ResetPointerTo
  <2>2. /\ Outcome(g, unmade)
        /\ DOMAIN unmade.table = DOMAIN g.table /\ unmade.table[s].pointed = Null
        /\ KeepsBut(g, unmade, Ends(g, s))
    BY <1>2, UnmakeOutcome
  <2>. HIDE DEF unmade
  <2>3. CASE b = Null
    BY <2>1, <2>2, <2>3
  <2>4. CASE b # Null
    <3>1. PICK u \in DOMAIN g.vertex :
            g.vertex[u].addr = b /\ u \notin Ends(g, s)
      BY <1>2, <2>4
    <3>2. b \in BlocksOf(unmade)
      BY <2>2, <2>4, <3>1 DEF KeepsBut, BlocksOf
    <3>3. GetVertex(unmade, b) \in Vertices
      BY <2>2, <2>4, <3>2, GetVertexFacts DEF Outcome, GraphInv
    <3>4. Outcome(g, h) /\ BlocksOf(h) = BlocksOf(unmade)
      BY <1>2, <2>1, <2>2, <2>4, <3>3, MakeOutcome
    <3>. QED  BY <3>2, <3>4
  <2>. QED  BY <2>3, <2>4
<1>. QED  BY <1>1, <1>2

LEMMA InsertFacts ==
  ASSUME NEW g, GraphInv(g), NEW s \in Sptrs, s \notin DOMAIN g.table,
         NEW h, h = InsertPointer(g, s)
  PROVE  /\ Outcome(g, h) /\ s \in DOMAIN h.table /\ h.table[s].pointed = Null
         /\ \A p \in DOMAIN g.table : p \in DOMAIN h.table /\ h.table[p] = g.table[p]
<1>. DEFINE c == GetContainerVertex(g, s)
            element == [pointed |-> Null, container |-> c]
<1>1. /\ GraphOK(g) /\ IsFiniteSet(DOMAIN g.table)
      /\ EdgesMatchTable(g) /\ NoLostVertex(g) /\ OneVertexPerBlock(g)
  BY DEF GraphInv
<1>2. c \in Vertices \cup {Null}
  BY <1>1 DEF GetContainerVertex, GetVertex, GraphOK
<1>. HIDE DEF c
<1>3. /\ DOMAIN h = DOMAIN g
      /\ h.vertex = g.vertex /\ h.fault = g.fault /\ h.released = g.released
      /\ DOMAIN h.table = DOMAIN g.table \cup {s}
      /\ h.table[s] = element
      /\ \A p \in DOMAIN g.table : h.table[p] = g.table[p]
  BY <1>1 DEF InsertPointer, GraphOK, c
<1>4. element \in Element
  BY <1>2 DEF Element
<1>5. GraphOK(h)
  BY <1>1, <1>3, <1>4 DEF GraphOK
<1>6. h.table[s].pointed = Null
  BY <1>3
<1>7. IsFiniteSet(DOMAIN h.table)
  BY <1>1, <1>3, FS_AddElement
<1>8. \A p \in DOMAIN g.table : Origin(h, p) = Origin(g, p)
  BY <1>3 DEF Origin
<1>9. /\ \A u : u # Null => \A e : Incoming(h, e, u) = Incoming(g, e, u)
      /\ \A u : Outgoing(h, u) = Outgoing(g, u)
  BY <1>3, <1>6, <1>8 DEF Incoming, Outgoing
<1>10. EndsExist(h)
  BY <1>1, <1>3, <1>6, <1>8 DEF EndsExist, EdgesMatchTable
<1>11. \A e, u : EdgesFrom(h, e, u) = EdgesFrom(g, e, u)
  BY <1>3 DEF EdgesFrom
<1>12. \A u \in DOMAIN g.vertex : u # Null
  BY <1>1, VertexFacts
<1>13. EdgesMatchTable(h)
  <2>1. ASSUME NEW u \in DOMAIN h.vertex
        PROVE  /\ \A e \in Origins : EdgesFrom(h, e, u) = Cardinality(Incoming(h, e, u))
               /\ h.vertex[u].out = Cardinality(Outgoing(h, u))
    BY <1>1, <1>3, <1>9, <1>11, <1>12 DEF EdgesMatchTable
  <2>. QED  BY <1>10, <2>1 DEF EdgesMatchTable
<1>14. NoLostVertex(h)
  BY <1>1, <1>3, HasAnyEdgesFacts DEF NoLostVertex
<1>15. OneVertexPerBlock(h) /\ BlocksOf(h) = BlocksOf(g)
  BY <1>1, <1>3 DEF OneVertexPerBlock, BlocksOf
<1>16. GraphInv(h)
  BY <1>5, <1>7, <1>13, <1>14, <1>15 DEF GraphInv
<1>17. Outcome(g, h)
  BY <1>3, <1>15, <1>16 DEF Outcome
<1>. QED  BY <1>3, <1>6, <1>17

LEMMA RemoveFacts ==
  ASSUME NEW g, NEW k, Outcome(g, k), NEW s \in DOMAIN k.table, k.table[s].pointed = Null,
         NEW h, h = [k EXCEPT !.table = [p \in DOMAIN @ \ {s} |-> @[p]]]
  PROVE  Outcome(g, h)
<1>1. /\ GraphOK(k) /\ IsFiniteSet(DOMAIN k.table)
      /\ EdgesMatchTable(k) /\ NoLostVertex(k) /\ OneVertexPerBlock(k)
  BY DEF GraphInv, Outcome
<1>2. /\ DOMAIN h = DOMAIN k
      /\ h.vertex = k.vertex /\ h.fault = k.fault /\ h.released = k.released
      /\ DOMAIN h.table = DOMAIN k.table \ {s}
      /\ \A p \in DOMAIN h.table : h.table[p] = k.table[p]
  BY <1>1 DEF GraphOK
<1>3. GraphOK(h)
  BY <1>1, <1>2 DEF GraphOK
<1>4. IsFiniteSet(DOMAIN h.table)
  BY <1>1, <1>2, FS_RemoveElement
<1>5. \A p \in DOMAIN h.table : Origin(h, p) = Origin(k, p)
  BY <1>2 DEF Origin
<1>6. /\ \A u : u # Null => \A e : Incoming(h, e, u) = Incoming(k, e, u)
      /\ \A u : Outgoing(h, u) = Outgoing(k, u)
  BY <1>2, <1>5 DEF Incoming, Outgoing
<1>7. EndsExist(h)
  BY <1>1, <1>2, <1>5 DEF EndsExist, EdgesMatchTable
<1>8. \A e, u : EdgesFrom(h, e, u) = EdgesFrom(k, e, u)
  BY <1>2 DEF EdgesFrom
<1>9. \A u \in DOMAIN k.vertex : u # Null
  BY <1>1, VertexFacts
<1>10. EdgesMatchTable(h)
  <2>1. ASSUME NEW u \in DOMAIN h.vertex
        PROVE  /\ \A e \in Origins : EdgesFrom(h, e, u) = Cardinality(Incoming(h, e, u))
               /\ h.vertex[u].out = Cardinality(Outgoing(h, u))
    BY <1>1, <1>2, <1>6, <1>8, <1>9 DEF EdgesMatchTable
  <2>. QED  BY <1>7, <2>1 DEF EdgesMatchTable
<1>11. NoLostVertex(h)
  BY <1>1, <1>2, HasAnyEdgesFacts DEF NoLostVertex
<1>12. OneVertexPerBlock(h)
  BY <1>1, <1>2 DEF OneVertexPerBlock
<1>13. GraphInv(h)
  BY <1>3, <1>4, <1>10, <1>11, <1>12 DEF GraphInv
<1>14. KeepsBut(k, h, {})
  BY <1>2 DEF KeepsBut
<1>. QED  BY <1>2, <1>13, <1>14, OutcomeChain

(* A vertex is added where none was, and no pointer refers to it yet. *)
LEMMA AddRegularVertexFacts ==
  ASSUME NEW g, GraphInv(g), NEW b \in Blocks, b \notin BlocksOf(g),
         NEW h, h = AddRegularVertex(g, b)
  PROVE  \/ h = Faulty(g, "no place for a vertex")
         \/ /\ GraphInv(h) /\ BlocksOf(h) = BlocksOf(g) \cup {b}
            /\ h.fault = g.fault /\ h.released = g.released
            /\ \E new \in DOMAIN h.vertex :
                 /\ h.vertex[new].addr = b
                 /\ \A s \in DOMAIN h.table : new \notin Ends(h, s)
<1>1. /\ GraphOK(g) /\ IsFiniteSet(DOMAIN g.table)
      /\ EdgesMatchTable(g) /\ NoLostVertex(g) /\ OneVertexPerBlock(g)
  BY DEF GraphInv
<1>2. b # Null /\ GetVertex(g, b) = Null
  BY <1>1, NullAssumption, GetVertexFacts
<1>3. CASE Vertices \subseteq DOMAIN g.vertex
  BY <1>2, <1>3 DEF AddRegularVertex
<1>4. CASE ~ (Vertices \subseteq DOMAIN g.vertex)
  <2>. DEFINE new == CHOOSE v \in Vertices : v \notin DOMAIN g.vertex
              fresh == [addr |-> b, edges |-> EmptyBag, out |-> 0]
  <2>1. new \in Vertices /\ new \notin DOMAIN g.vertex
    BY <1>4
  <2>2. h = [g EXCEPT !.vertex = [v \in DOMAIN @ \cup {new} |-> IF v = new THEN fresh ELSE @[v]]]
    BY <1>2, <1>4 DEF AddRegularVertex
  <2>3. IsVertex(fresh)
    BY DEF IsVertex, EmptyBag, SetToBag, IsABag, BagToSet
  <2>4. \A e : ~ BagIn(e, fresh.edges)
    BY DEF BagIn, BagToSet, EmptyBag, SetToBag
  <2>5. fresh.addr = b /\ fresh.out = 0
    OBVIOUS
  <2>. HIDE DEF new, fresh
  <2>6. /\ DOMAIN h = DOMAIN g
        /\ h.table = g.table /\ h.fault = g.fault /\ h.released = g.released
        /\ DOMAIN h.vertex = DOMAIN g.vertex \cup {new}
        /\ h.vertex[new] = fresh
        /\ \A u \in DOMAIN g.vertex : h.vertex[u] = g.vertex[u]
    BY <1>1, <2>1, <2>2 DEF GraphOK
  <2>7. GraphOK(h)
    BY <1>1, <2>1, <2>3, <2>6 DEF GraphOK
  <2>8. \A s : Origin(h, s) = Origin(g, s)
    BY <2>6 DEF Origin
  <2>9. \A s \in DOMAIN g.table : g.table[s].pointed # Null =>
          {g.table[s].pointed, Origin(g, s)} \cap Vertices \subseteq DOMAIN g.vertex
    BY <1>1 DEF EdgesMatchTable, EndsExist
  <2>10. \A s \in DOMAIN g.table : g.table[s].pointed # Null =>
           new # g.table[s].pointed /\ new # Origin(g, s) /\ g.table[s].container # new
    <3>1. ASSUME NEW s \in DOMAIN g.table, g.table[s].pointed # Null
          PROVE  new # g.table[s].pointed /\ new # Origin(g, s) /\ g.table[s].container # new
      <4>1. new # g.table[s].pointed /\ new # Origin(g, s)
        BY <2>1, <2>9, <3>1
      <4>2. Origin(g, s) = new <=> g.table[s].container = new
        BY <1>1, <2>1, TableFacts
      <4>. QED  BY <4>1, <4>2
    <3>. QED  BY <3>1
  <2>11. new # Null
    BY <2>1, NullAssumption
  <2>12. /\ \A e, u : Incoming(h, e, u) = Incoming(g, e, u)
         /\ \A u : Outgoing(h, u) = Outgoing(g, u)
    BY <2>6, <2>8 DEF Incoming, Outgoing
  <2>13. (\A e : Incoming(g, e, new) = {}) /\ Outgoing(g, new) = {}
    BY <2>10, <2>11 DEF Incoming, Outgoing
  <2>14. EndsExist(h)
    BY <2>6, <2>8, <2>9 DEF EndsExist
  <2>15. ASSUME NEW u \in DOMAIN h.vertex
         PROVE  /\ \A e \in Origins : EdgesFrom(h, e, u) = Cardinality(Incoming(h, e, u))
                /\ h.vertex[u].out = Cardinality(Outgoing(h, u))
    <3>1. CASE u = new
      <4>1. (\A e : EdgesFrom(h, e, u) = 0) /\ h.vertex[u].out = 0
        BY <2>4, <2>5, <2>6, <3>1 DEF EdgesFrom
      <4>. QED  BY <2>12, <2>13, <3>1, <4>1, FS_EmptySet
    <3>2. CASE u \in DOMAIN g.vertex
      <4>1. (\A e : EdgesFrom(h, e, u) = EdgesFrom(g, e, u)) /\ h.vertex[u].out = g.vertex[u].out
        BY <2>6, <3>2 DEF EdgesFrom
      <4>. QED  BY <1>1, <2>12, <3>2, <4>1 DEF EdgesMatchTable
    <3>. QED  BY <2>6, <3>1, <3>2
  <2>16. EdgesMatchTable(h)
    BY <2>14, <2>15 DEF EdgesMatchTable
  <2>17. NoLostVertex(h)
    BY <1>1, <1>2, <2>5, <2>6, HasAnyEdgesFacts DEF NoLostVertex, Released
  <2>18. OneVertexPerBlock(h) /\ BlocksOf(h) = BlocksOf(g) \cup {b}
    <3>1. \A u \in DOMAIN g.vertex : g.vertex[u].addr # b
      BY <1>2 DEF BlocksOf
    <3>. QED  BY <1>1, <1>2, <2>5, <2>6, <3>1 DEF OneVertexPerBlock, BlocksOf
  <2>19. GraphInv(h)
    BY <1>1, <2>6, <2>7, <2>16, <2>17, <2>18 DEF GraphInv
  <2>20. /\ new \in DOMAIN h.vertex /\ h.vertex[new].addr = b
         /\ \A s \in DOMAIN h.table : new \notin Ends(h, s)
    BY <2>5, <2>6, <2>8, <2>10 DEF Ends
  <2>. QED  BY <2>6, <2>18, <2>19, <2>20
<1>. QED  BY <1>3, <1>4

LEMMA ResetLikeFacts ==
  ASSUME NEW g, GraphInv(g), NEW left, NEW right, NEW h, h = ResetPointerLike(g, left, right)
  PROVE  Outcome(g, h)
<1>1. CASE ~ ({left, right} \subseteq DOMAIN g.table)
  <2>1. h = Faulty(g, "lookup without end")
    BY <1>1 DEF ResetPointerLike
  <2>. QED  BY <2>1, FaultyOutcome DEF ClientFaults
<1>2. CASE {left, right} \subseteq DOMAIN g.table
  <2>. DEFINE v == g.table[right].pointed
              unmade == UnmakeReference(g, left, TRUE)
  <2>1. h = IF v = Null THEN unmade ELSE MakeReference(unmade, left, v)
    BY <1>2 DEF ResetPointerLike
  <2>2. v \in Vertices \cup {Null}
    BY <1>2, TableFacts DEF GraphInv
  <2>3. /\ Outcome(g, unmade)
        /\ DOMAIN unmade.table = DOMAIN g.table /\ unmade.table[left].pointed = Null
    BY <1>2, UnmakeOutcome
  <2>. HIDE DEF v, unmade
  <2>4. CASE v = Null
    BY <2>1, <2>3, <2>4
  <2>5. CASE v # Null
    BY <1>2, <2>1, <2>2, <2>3, <2>5, MakeOutcome
  <2>. QED  BY <2>4, <2>5
<1>. QED  BY <1>1, <1>2

LEMMA ReleaseFacts ==
  ASSUME NEW g, GraphInv(g), NEW s, NEW h, h = ReleasePointer(g, s)
  PROVE  Outcome(g, h)
<1>1. CASE s \notin DOMAIN g.table
  BY <1>1, FaultyOutcome DEF ReleasePointer, ClientFaults
<1>2. CASE s \in DOMAIN g.table
  BY <1>2, UnmakeOutcome DEF ReleasePointer
<1>. QED  BY <1>1, <1>2

LEMMA UnregisterFacts ==
  ASSUME NEW g, GraphInv(g), NEW s, NEW h, h = RemovePointer(g, s)
  PROVE  Outcome(g, h)
<1>1. CASE s \notin DOMAIN g.table
  BY <1>1, FaultyOutcome DEF RemovePointer, ClientFaults
<1>2. CASE s \in DOMAIN g.table
  <2>. DEFINE unmade == UnmakeReference(g, s, TRUE)
  <2>1. h = [unmade EXCEPT !.table = [p \in DOMAIN @ \ {s} |-> @[p]]]
    BY <1>2 DEF RemovePointer
  <2>2. /\ Outcome(g, unmade)
        /\ DOMAIN unmade.table = DOMAIN g.table /\ unmade.table[s].pointed = Null
    BY <1>2, UnmakeOutcome
  <2>. HIDE DEF unmade
  <2>. QED  BY <1>2, <2>1, <2>2, RemoveFacts
<1>. QED  BY <1>1, <1>2

LEMMA RegisterFacts ==
  ASSUME NEW g, GraphInv(g), NEW s \in Sptrs, NEW h, h = AddPointer(g, s)
  PROVE  Outcome(g, h)
<1>1. CASE s \in DOMAIN g.table
  BY <1>1, FaultyOutcome DEF AddPointer, ClientFaults
<1>2. CASE s \notin DOMAIN g.table
  BY <1>2, InsertFacts DEF AddPointer
<1>. QED  BY <1>1, <1>2

LEMMA RegisterCopyFacts ==
  ASSUME NEW g, GraphInv(g), NEW left \in Sptrs, NEW right,
         NEW h, h = AddPointerOnCopy(g, left, right)
  PROVE  Outcome(g, h)
<1>1. CASE left \in DOMAIN g.table
  BY <1>1, FaultyOutcome DEF AddPointerOnCopy, ClientFaults
<1>2. CASE left \notin DOMAIN g.table /\ right \notin DOMAIN g.table
  BY <1>2, FaultyOutcome DEF AddPointerOnCopy, ClientFaults
<1>3. CASE left \notin DOMAIN g.table /\ right \in DOMAIN g.table
  <2>. DEFINE v == g.table[right].pointed
              inserted == InsertPointer(g, left)
  <2>1. h = IF v = Null THEN inserted ELSE MakeReference(inserted, left, v)
    BY <1>3 DEF AddPointerOnCopy
  <2>2. v \in Vertices \cup {Null}
    BY <1>3, TableFacts DEF GraphInv
  <2>3. Outcome(g, inserted) /\ left \in DOMAIN inserted.table /\ inserted.table[left].pointed = Null
    BY <1>3, InsertFacts
  <2>. HIDE DEF v, inserted
  <2>4. CASE v = Null
    BY <2>1, <2>3, <2>4
  <2>5. CASE v # Null
    BY <2>1, <2>2, <2>3, <2>5, MakeOutcome
  <2>. QED  BY <2>4, <2>5
<1>. QED  BY <1>1, <1>2, <1>3

(* The first reference to a new block. *)
Untouched(g) == GraphInv(g) /\ g.fault = {} /\ g.released = NoRelease

Allocated(g, b, h) ==
  /\ GraphInv(h) /\ BlocksOf(h) \subseteq BlocksOf(g) \cup {b}
  /\ h.released = NoRelease \/ h.released.block \in BlocksOf(g) \ BlocksOf(h)
  /\ h.fault \subseteq ClientFaults

LEMMA NewObjectFacts ==
  ASSUME NEW g, Untouched(g),
         NEW b \in Blocks, b \notin BlocksOf(g),
         NEW added, added = AddRegularVertex(g, b)
  PROVE  \/ Outcome(g, added) /\ added.fault # {}
         \/ /\ added.fault = {}
            /\ \A s : Allocated(g, b, ResetPointerTo(added, s, b, TRUE))
<1>. DEFINE full == Faulty(g, "no place for a vertex")
<1>1. /\ GraphInv(g) /\ b \in Blocks /\ b \notin BlocksOf(g) /\ added = AddRegularVertex(g, b)
      /\ g.fault = {} /\ g.released = NoRelease
  BY DEF Untouched
<1>2. \/ added = full
      \/ /\ GraphInv(added) /\ BlocksOf(added) = BlocksOf(g) \cup {b}
         /\ added.fault = g.fault /\ added.released = g.released
         /\ \E new \in DOMAIN added.vertex :
              /\ added.vertex[new].addr = b
              /\ \A p \in DOMAIN added.table : new \notin Ends(added, p)
  BY ONLY <1>1, AddRegularVertexFacts
<1>3. CASE added = full
  <2>1. "no place for a vertex" \in ClientFaults /\ GraphOK(g)
    BY <1>1 DEF ClientFaults, GraphInv
  <2>2. Outcome(g, added)
    BY <1>1, <1>3, <2>1, FaultyOutcome
  <2>3. added.fault # {}
    BY ONLY <1>3, <2>1 DEF Faulty, GraphOK
  <2>. QED  BY <2>2, <2>3
<1>4. CASE added # full
  <2>. HIDE DEF full
  <2>1. /\ GraphInv(added) /\ BlocksOf(added) = BlocksOf(g) \cup {b}
        /\ added.fault = {} /\ added.released = NoRelease
        /\ \E new \in DOMAIN added.vertex :
             /\ added.vertex[new].addr = b
             /\ \A p \in DOMAIN added.table : new \notin Ends(added, p)
    BY <1>1, <1>2, <1>4
  <2>2. b # Null
    BY NullAssumption
  <2>3. ASSUME NEW s, NEW h, h = ResetPointerTo(added, s, b, TRUE)
        PROVE  Allocated(g, b, h)
    <3>1. \E u \in DOMAIN added.vertex :
            /\ added.vertex[u].addr = b
            /\ s \in DOMAIN added.table => u \notin Ends(added, s)
      BY <2>1
    <3>2. Outcome(added, h) /\ b \in BlocksOf(h)
      BY <2>1, <2>2, <2>3, <3>1, ResetToFacts
    <3>. QED  BY <2>1, <3>2 DEF Outcome, Allocated
  <2>. QED  BY <2>1, <2>3
<1>. QED  BY <1>3, <1>4

(* What a message does to the graph. *)
LEMMA ExecuteFacts ==
  ASSUME NEW g, GraphInv(g), g.fault = {}, NEW m \in Messages,
         m.type = "NewObject" => m.block \notin BlocksOf(g),
         NEW h, h = Execute(g, m)
  PROVE  /\ GraphInv(h)
         /\ \A b \in BlocksOf(h) : b \in BlocksOf(g) \/ (m.type = "NewObject" /\ b = m.block)
         /\ h.released = NoRelease \/ h.released.block \in BlocksOf(g) \ BlocksOf(h)
         /\ h.fault \subseteq ClientFaults
<1>. DEFINE k == [g EXCEPT !.released = NoRelease]
<1>1. GraphOK(g)
  BY DEF GraphInv
<1>2. /\ DOMAIN k = DOMAIN g /\ k.released = NoRelease
      /\ k.table = g.table /\ k.vertex = g.vertex /\ k.fault = {}
  BY <1>1 DEF GraphOK
<1>3. h = CASE m.type = "NewObject" ->
                 (LET added == AddRegularVertex(k, m.block) IN
                  IF added.fault # {} THEN added ELSE ResetPointerTo(added, m.sptr, m.block, TRUE))
            [] m.type = "AbortedObject"        -> ResetPointerTo(k, m.sptr, Null, FALSE)
            [] m.type = "ReferenceUpdate"      -> ResetPointerLike(k, m.sptr, m.other)
            [] m.type = "ReferenceRelease"     -> ReleasePointer(k, m.sptr)
            [] m.type = "SptrRegistration"     -> AddPointer(k, m.sptr)
            [] m.type = "SptrCopyRegistration" -> AddPointerOnCopy(k, m.sptr, m.other)
            [] m.type = "SptrUnregistration"   -> RemovePointer(k, m.sptr)
  BY DEF Execute
<1>. HIDE DEF k
<1>4. GraphInv(k) /\ BlocksOf(k) = BlocksOf(g)
  <2>1. k.released \in [block : Blocks \cup {Null}, dtion : BOOLEAN]
    BY <1>2 DEF NoRelease
  <2>2. GraphOK(k)
    BY <1>1, <1>2, <2>1 DEF GraphOK
  <2>3. EdgesMatchTable(k)
    BY <1>2, MatchCongruence DEF GraphInv
  <2>4. NoLostVertex(k)
    BY <1>2, HasAnyEdgesFacts DEF NoLostVertex, GraphInv
  <2>5. OneVertexPerBlock(k) /\ BlocksOf(k) = BlocksOf(g)
    BY <1>2 DEF OneVertexPerBlock, BlocksOf, GraphInv
  <2>. QED  BY <1>2, <2>2, <2>3, <2>4, <2>5 DEF GraphInv
<1>5. /\ m.type \in {"NewObject", "AbortedObject", "ReferenceUpdate", "ReferenceRelease",
                     "SptrRegistration", "SptrCopyRegistration", "SptrUnregistration"}
      /\ m.sptr \in Sptrs /\ (m.type = "NewObject" => m.block \in Blocks)
  BY DEF Messages
<1>6. ASSUME Outcome(k, h)
      PROVE  /\ GraphInv(h)
             /\ \A b \in BlocksOf(h) : b \in BlocksOf(g) \/ (m.type = "NewObject" /\ b = m.block)
             /\ h.released = NoRelease \/ h.released.block \in BlocksOf(g) \ BlocksOf(h)
             /\ h.fault \subseteq ClientFaults
  <2>1. GraphInv(h) /\ BlocksOf(h) \subseteq BlocksOf(k)
    BY <1>6 DEF Outcome
  <2>2. h.released = NoRelease \/ h.released.block \in BlocksOf(k) \ BlocksOf(h)
    BY <1>2, <1>6 DEF Outcome
  <2>3. h.fault \subseteq ClientFaults
    BY <1>2, <1>6 DEF Outcome
  <2>. QED  BY ONLY <1>4, <2>1, <2>2, <2>3
<1>7. CASE m.type = "NewObject"
  <2>1. PICK b \in Blocks : b = m.block
    BY <1>5, <1>7
  <2>. DEFINE added == AddRegularVertex(k, b)
  <2>2. /\ added.fault # {} => h = added
        /\ added.fault = {} => h = ResetPointerTo(added, m.sptr, b, TRUE)
    BY <1>3, <1>7, <2>1
  <2>3. b \notin BlocksOf(k)
    BY <1>4, <1>7, <2>1
  <2>4. added = AddRegularVertex(k, b)
    OBVIOUS
  <2>5. Untouched(k)
    BY <1>2, <1>4 DEF Untouched
  <2>. HIDE DEF added
  <2>6. \/ Outcome(k, added) /\ added.fault # {}
        \/ added.fault = {} /\ \A s : Allocated(k, b, ResetPointerTo(added, s, b, TRUE))
    BY ONLY <2>3, <2>4, <2>5, NewObjectFacts
  <2>7. Allocated(k, b, h)
    <3>1. CASE added.fault # {}
      BY <1>2, <2>2, <2>6, <3>1 DEF Outcome, Allocated
    <3>2. CASE added.fault = {}
      BY <2>2, <2>6, <3>2
    <3>. QED  BY <3>1, <3>2
  <2>. QED  BY ONLY <1>4, <1>7, <2>1, <2>7 DEF Allocated
<1>8. CASE m.type = "AbortedObject"
  <2>1. h = ResetPointerTo(k, m.sptr, Null, FALSE)
    BY ONLY <1>3, <1>8
  <2>2. Outcome(k, h)
    BY ONLY <1>4, <2>1, ResetToFacts
  <2>. QED  BY <1>6, <2>2
<1>9. CASE m.type = "ReferenceUpdate"
  <2>1. h = ResetPointerLike(k, m.sptr, m.other)
    BY ONLY <1>3, <1>9
  <2>. QED  BY <1>4, <1>6, <2>1, ResetLikeFacts
<1>10. CASE m.type = "ReferenceRelease"
  <2>1. h = ReleasePointer(k, m.sptr)
    BY ONLY <1>3, <1>10
  <2>. QED  BY <1>4, <1>6, <2>1, ReleaseFacts
<1>11. CASE m.type = "SptrRegistration"
  <2>1. h = AddPointer(k, m.sptr)
    BY ONLY <1>3, <1>11
  <2>. QED  BY <1>4, <1>5, <1>6, <2>1, RegisterFacts
<1>12. CASE m.type = "SptrCopyRegistration"
  <2>1. h = AddPointerOnCopy(k, m.sptr, m.other)
    BY ONLY <1>3, <1>12
  <2>. QED  BY <1>4, <1>5, <1>6, <2>1, RegisterCopyFacts
<1>13. CASE m.type = "SptrUnregistration"
  <2>1. h = RemovePointer(k, m.sptr)
    BY ONLY <1>3, <1>13
  <2>. QED  BY <1>4, <1>6, <2>1, UnregisterFacts
<1>. QED  BY <1>5, <1>7, <1>8, <1>9, <1>10, <1>11, <1>12, <1>13

-----------------------------------------------------------------------------
(* Views, and what can be reached in them. *)

LEMMA ReachClosed ==
  ASSUME NEW view, IsView(view)
  PROVE  Reach(view) \subseteq Blocks /\ Null \notin Reach(view) /\ Closed(view, Reach(view))
<1>1. Reach(view) \subseteq Blocks /\ Null \notin Reach(view)
  BY NullAssumption DEF Reach
<1>2. ASSUME NEW s \in DOMAIN view, Home(s) \in Reach(view) \cup {Null}, view[s] # Null
      PROVE  view[s] \in Reach(view)
  <2>1. view[s] \in Blocks
    BY <1>2 DEF IsView
  <2>2. ASSUME NEW S \in SUBSET Blocks, Closed(view, S) PROVE view[s] \in S
    <3>1. Home(s) \in S \cup {Null}
      BY <1>2, <2>2 DEF Reach
    <3>. QED  BY <1>2, <2>2, <3>1 DEF Closed
  <2>. QED  BY <2>1, <2>2 DEF Reach
<1>. QED  BY <1>1, <1>2 DEF Closed

LEMMA ReachLeast ==
  ASSUME NEW view, NEW S \in SUBSET Blocks, Closed(view, S)
  PROVE  Reach(view) \subseteq S
BY DEF Reach

LEMMA ReachMonotone ==
  ASSUME NEW v, NEW w, IsView(w), DOMAIN v \subseteq DOMAIN w,
         \A s \in DOMAIN v : v[s] \in {w[s], Null}
  PROVE  Reach(v) \subseteq Reach(w)
<1>1. Reach(w) \in SUBSET Blocks /\ Closed(w, Reach(w))
  BY ReachClosed
<1>2. Closed(v, Reach(w))
  BY <1>1 DEF Closed
<1>. QED  BY <1>1, <1>2, ReachLeast

LEMMA WithoutFacts ==
  ASSUME NEW v, IsView(v), NEW s
  PROVE  /\ IsView(Without(v, s)) /\ DOMAIN Without(v, s) = DOMAIN v \ {s}
         /\ \A p \in DOMAIN v \ {s} : Without(v, s)[p] = v[p]
         /\ Reach(Without(v, s)) \subseteq Reach(v)
<1>1. /\ DOMAIN Without(v, s) = DOMAIN v \ {s}
      /\ \A p \in DOMAIN v \ {s} : Without(v, s)[p] = v[p]
  BY DEF Without
<1>2. IsView(Without(v, s))
  BY <1>1 DEF IsView, Without
<1>3. Reach(Without(v, s)) \subseteq Reach(v)
  BY <1>1, ReachMonotone
<1>. QED  BY <1>1, <1>2, <1>3

LEMMA MessageTypes ==
  ASSUME NEW m \in Messages
  PROVE  /\ m.type \in {"NewObject", "AbortedObject", "ReferenceUpdate", "ReferenceRelease",
                        "SptrRegistration", "SptrCopyRegistration", "SptrUnregistration"}
         /\ m.sptr \in Sptrs /\ (m.type = "NewObject" => m.block \in Blocks)
BY DEF Messages

(* What a message adds to what can be reached is at most its new block. *)
LEMMA AfterFacts ==
  ASSUME NEW v, IsView(v), NEW m \in Messages, Allowed(v, m), NEW w, w = After(v, m)
  PROVE  /\ IsView(w)
         /\ \A s \in DOMAIN v : s # m.sptr => s \in DOMAIN w
         /\ m.sptr \in DOMAIN w <=> m.type # "SptrUnregistration"
         /\ \A s \in DOMAIN w : s # m.sptr => s \in DOMAIN v
         /\ \A s \in DOMAIN w : w[s] = IF s = m.sptr THEN NewTarget(v, m) ELSE v[s]
         /\ NewTarget(v, m) \in Blocks \cup {Null}
         /\ \A b \in Reach(w) : b \in Reach(Without(v, m.sptr)) \/ (m.type = "NewObject" /\ b = m.block)
<1>1. /\ DOMAIN w = IF m.type = "SptrUnregistration" THEN DOMAIN v \ {m.sptr}
                    ELSE DOMAIN v \cup {m.sptr}
      /\ \A s \in DOMAIN w : w[s] = IF s = m.sptr THEN NewTarget(v, m) ELSE v[s]
      /\ w = [s \in DOMAIN w |-> w[s]]
  BY DEF After
<1>2. /\ m.sptr \in Sptrs /\ (m.type = "NewObject" => m.block \in Blocks)
  BY MessageTypes
<1>3. m.type \in Copying => /\ m.other \in DOMAIN v \ {m.sptr}
                            /\ Reaches(Without(v, m.sptr), m.other)
  BY DEF Allowed
<1>4. NewTarget(v, m) \in Blocks \cup {Null}
  BY <1>2, <1>3 DEF NewTarget, Copying, IsView
<1>5. \A s \in DOMAIN w : s # m.sptr => s \in DOMAIN v
  BY <1>1
<1>6. IsView(w)
  BY <1>1, <1>2, <1>4, <1>5 DEF IsView
<1>. DEFINE R == Reach(Without(v, m.sptr))
            S == {b \in Blocks : b \in R \/ (m.type = "NewObject" /\ b = m.block)}
<1>7. /\ IsView(Without(v, m.sptr)) /\ DOMAIN Without(v, m.sptr) = DOMAIN v \ {m.sptr}
      /\ \A p \in DOMAIN v \ {m.sptr} : Without(v, m.sptr)[p] = v[p]
  BY WithoutFacts
<1>8. R \subseteq Blocks /\ Closed(Without(v, m.sptr), R)
  BY <1>7, ReachClosed
<1>9. ASSUME NEW s \in DOMAIN w, Home(s) \in S \cup {Null}, w[s] # Null
      PROVE  w[s] \in S
  <2>1. CASE s = m.sptr /\ m.type = "NewObject"
    BY <1>1, <1>2, <2>1 DEF NewTarget
  <2>2. CASE s = m.sptr /\ m.type \in Copying
    <3>1. w[s] = v[m.other] /\ m.other \in DOMAIN Without(v, m.sptr)
      BY <1>1, <1>3, <1>7, <2>2 DEF NewTarget, Copying
    <3>2. w[s] = Without(v, m.sptr)[m.other] /\ Home(m.other) \in R \cup {Null}
      BY <1>3, <1>7, <2>2, <3>1 DEF Reaches
    <3>3. w[s] \in R
      BY <1>8, <1>9, <3>1, <3>2 DEF Closed
    <3>. QED  BY <1>8, <3>3
  <2>3. CASE s = m.sptr /\ m.type # "NewObject" /\ m.type \notin Copying
    BY <1>1, <1>9, <2>3 DEF NewTarget, Copying
  <2>4. CASE s # m.sptr
    <3>1. s \in DOMAIN v \ {m.sptr} /\ w[s] = v[s]
      BY <1>1, <1>5, <2>4
    <3>2. m.type = "NewObject" => Home(s) # m.block
      BY <3>1 DEF Allowed
    <3>3. Home(s) \in R \cup {Null}
      BY <1>9, <3>2
    <3>4. w[s] \in R
      BY <1>7, <1>8, <1>9, <3>1, <3>3 DEF Closed
    <3>. QED  BY <1>8, <3>4
  <2>. QED  BY <2>1, <2>2, <2>3, <2>4
<1>10. Closed(w, S) /\ S \in SUBSET Blocks
  BY <1>9 DEF Closed
<1>11. Reach(w) \subseteq S
  BY <1>10, ReachLeast
<1>. QED  BY <1>1, <1>4, <1>5, <1>6, <1>11

(* A block that cannot be reached can be purged. *)
LEMMA PurgedFacts ==
  ASSUME NEW v, IsView(v), NEW b, b \notin Reach(v), NEW w, w = Purged(v, b)
  PROVE  /\ IsView(w) /\ DOMAIN w = DOMAIN v
         /\ \A s \in DOMAIN v : w[s] = IF v[s] = b THEN Null ELSE v[s]
         /\ Reach(w) = Reach(v)
<1>1. /\ DOMAIN w = DOMAIN v
      /\ \A s \in DOMAIN v : w[s] = IF v[s] = b THEN Null ELSE v[s]
      /\ w = [s \in DOMAIN w |-> w[s]]
  BY DEF Purged
<1>2. IsView(w)
  BY <1>1 DEF IsView
<1>3. Reach(w) \subseteq Reach(v)
  BY <1>1, ReachMonotone
<1>4. /\ Reach(v) \subseteq Blocks /\ Closed(v, Reach(v))
      /\ Reach(w) \subseteq Blocks /\ Closed(w, Reach(w))
  BY <1>2, ReachClosed
<1>5. Closed(v, Reach(w))
  <2>1. ASSUME NEW s \in DOMAIN v, Home(s) \in Reach(w) \cup {Null}, v[s] # Null
        PROVE  v[s] \in Reach(w)
    <3>1. v[s] \in Reach(v)
      BY <1>3, <1>4, <2>1 DEF Closed
    <3>2. w[s] = v[s]
      BY <1>1, <3>1
    <3>. QED  BY <1>1, <1>4, <2>1, <3>2 DEF Closed
  <2>. QED  BY <2>1 DEF Closed
<1>6. Reach(v) \subseteq Reach(w)
  BY <1>4, <1>5, ReachLeast
<1>. QED  BY <1>1, <1>2, <1>3, <1>6

LEMMA PurgedNothing ==
  ASSUME NEW v, IsView(v)
  PROVE  Purged(v, Null) = v
<1>1. \A s \in DOMAIN v : (IF v[s] = Null THEN Null ELSE v[s]) = v[s]
  OBVIOUS
<1>2. Purged(v, Null) = [s \in DOMAIN v |-> v[s]]
  BY <1>1 DEF Purged
<1>. QED  BY <1>2 DEF IsView

(* The messages that are still to come are not disturbed by it. *)
LEMMA PurgedCommutes ==
  ASSUME NEW v, IsView(v), NEW m \in Messages, Allowed(v, m), NEW b, b \notin Reach(v),
         m.type = "NewObject" => m.block # b
  PROVE  /\ Allowed(Purged(v, b), m)
         /\ Purged(After(v, m), b) = After(Purged(v, b), m)
<1>. DEFINE p == Purged(v, b)
            x == Without(v, m.sptr)
<1>1. /\ IsView(p) /\ DOMAIN p = DOMAIN v /\ Reach(p) = Reach(v)
      /\ \A s \in DOMAIN v : p[s] = IF v[s] = b THEN Null ELSE v[s]
  BY PurgedFacts
<1>2. /\ IsView(x) /\ DOMAIN x = DOMAIN v \ {m.sptr} /\ Reach(x) \subseteq Reach(v)
      /\ \A s \in DOMAIN v \ {m.sptr} : x[s] = v[s]
  BY WithoutFacts
<1>3. Without(p, m.sptr) = Purged(x, b)
  <2>1. \A s \in DOMAIN v \ {m.sptr} : p[s] = (IF x[s] = b THEN Null ELSE x[s])
    BY <1>1, <1>2
  <2>2. Without(p, m.sptr) = [s \in DOMAIN v \ {m.sptr} |-> p[s]]
    BY <1>1 DEF Without
  <2>3. Purged(x, b) = [s \in DOMAIN v \ {m.sptr} |-> IF x[s] = b THEN Null ELSE x[s]]
    BY <1>2 DEF Purged
  <2>. HIDE DEF p, x
  <2>. QED  BY ONLY <2>1, <2>2, <2>3
<1>4. Reach(Without(p, m.sptr)) = Reach(x)
  BY <1>2, <1>3, PurgedFacts
<1>5. /\ m.type \in Copying => m.other \in DOMAIN v \ {m.sptr} /\ Reaches(x, m.other)
      /\ m.type \in Registering <=> m.sptr \notin DOMAIN v
      /\ m.type \in Registering \cup Copying \cup {"NewObject"} => Reaches(v, m.sptr)
      /\ m.type = "NewObject" => \A s \in DOMAIN v : v[s] # m.block /\ Home(s) # m.block
  BY DEF Allowed
<1>6. m.type = "NewObject" => m.block # Null
  BY MessageTypes, NullAssumption
<1>7. Allowed(p, m)
  <2>1. m.type \in Copying => m.other \in DOMAIN p \ {m.sptr} /\ Reaches(Without(p, m.sptr), m.other)
    BY <1>1, <1>4, <1>5 DEF Reaches
  <2>2. m.type \in Registering \cup Copying \cup {"NewObject"} => Reaches(p, m.sptr)
    BY <1>1, <1>5 DEF Reaches
  <2>3. m.type = "NewObject" => \A s \in DOMAIN p : p[s] # m.block /\ Home(s) # m.block
    BY <1>1, <1>5, <1>6
  <2>. HIDE DEF p
  <2>. QED  BY <1>1, <1>5, <2>1, <2>2, <2>3 DEF Allowed
<1>8. NewTarget(p, m) = IF NewTarget(v, m) = b THEN Null ELSE NewTarget(v, m)
  <2>1. CASE m.type \in Copying
    BY <1>1, <1>5, <2>1 DEF NewTarget, Copying
  <2>2. CASE m.type \notin Copying
    BY <2>2 DEF NewTarget, Copying
  <2>. QED  BY <2>1, <2>2
<1>9. Purged(After(v, m), b) = After(p, m)
  <2>. DEFINE D == IF m.type = "SptrUnregistration" THEN DOMAIN v \ {m.sptr} ELSE DOMAIN v \cup {m.sptr}
              w == After(v, m)
  <2>1. DOMAIN w = D /\ \A s \in D : w[s] = IF s = m.sptr THEN NewTarget(v, m) ELSE v[s]
    BY DEF After
  <2>2. \A s \in D : s # m.sptr => s \in DOMAIN v
    OBVIOUS
  <2>3. After(p, m) = [s \in D |-> IF s = m.sptr THEN NewTarget(p, m) ELSE p[s]]
    BY <1>1 DEF After
  <2>4. Purged(w, b) = [s \in D |-> IF w[s] = b THEN Null ELSE w[s]]
    BY <2>1 DEF Purged
  <2>. HIDE DEF p, w, D
  <2>5. \A s \in D : (IF w[s] = b THEN Null ELSE w[s]) = (IF s = m.sptr THEN NewTarget(p, m) ELSE p[s])
    BY <1>1, <1>8, <2>1, <2>2
  <2>. QED  BY ONLY <2>3, <2>4, <2>5 DEF w
<1>. QED  BY <1>7, <1>9

-----------------------------------------------------------------------------
(* What the graph says of what can be reached. *)

LEMMA RootFacts ==
  \A s \in Sptrs : /\ s \in Roots <=> Home(s) = Null
                   /\ s \notin Roots => Home(s) \in Blocks
BY NullAssumption DEF Sptrs, Members, MemberOf, Home

LEMMA ViewFacts ==
  ASSUME NEW g, GraphOK(g), EndsExist(g)
  PROVE  /\ IsView(ViewOf(g)) /\ DOMAIN ViewOf(g) = DOMAIN g.table
         /\ \A s \in DOMAIN g.table :
              /\ g.table[s].pointed = Null => ViewOf(g)[s] = Null
              /\ g.table[s].pointed # Null =>
                   /\ g.table[s].pointed \in DOMAIN g.vertex
                   /\ ViewOf(g)[s] = g.vertex[g.table[s].pointed].addr
              /\ ViewOf(g)[s] # Null => ViewOf(g)[s] \in BlocksOf(g)
         /\ BlocksOf(g) \subseteq Blocks /\ Reach(ViewOf(g)) \subseteq BlocksOf(g)
<1>. DEFINE V == ViewOf(g)
<1>1. /\ DOMAIN V = DOMAIN g.table
      /\ \A s \in DOMAIN g.table :
           V[s] = IF g.table[s].pointed = Null THEN Null ELSE g.vertex[g.table[s].pointed].addr
      /\ V = [s \in DOMAIN V |-> V[s]]
  BY DEF ViewOf
<1>. HIDE DEF V
<1>2. \A s \in DOMAIN g.table : g.table[s].pointed # Null => g.table[s].pointed \in DOMAIN g.vertex
  BY TableFacts DEF EndsExist
<1>3. \A v \in DOMAIN g.vertex : g.vertex[v].addr \in Blocks \cup {Null}
  BY VertexFacts DEF IsVertex
<1>4. BlocksOf(g) \subseteq Blocks
  BY <1>3 DEF BlocksOf
<1>5. \A s \in DOMAIN g.table : V[s] # Null => V[s] \in BlocksOf(g)
  BY <1>1, <1>2 DEF BlocksOf
<1>6. IsView(V)
  BY <1>1, <1>2, <1>3 DEF IsView, GraphOK
<1>7. Closed(V, BlocksOf(g))
  BY <1>1, <1>5 DEF Closed
<1>8. Reach(V) \subseteq BlocksOf(g)
  BY <1>4, <1>7, ReachLeast
<1>. QED  BY <1>1, <1>2, <1>4, <1>5, <1>6, <1>8 DEF V

LEMMA ContainerExists ==
  ASSUME NEW g, GraphOK(g), EndsExist(g), NEW p \in DOMAIN g.table,
         g.table[p].pointed # Null, g.table[p].container # Null
  PROVE  g.table[p].container \in DOMAIN g.vertex
<1>1. g.table[p].container \in Vertices
  BY DEF GraphOK, Element
<1>. QED  BY <1>1 DEF EndsExist, Origin

(* Each reference of the table is an edge, and each edge is a reference. *)
LEMMA PointedHasEdges ==
  ASSUME NEW g, GraphOK(g), IsFiniteSet(DOMAIN g.table), EdgesMatchTable(g),
         NEW p \in DOMAIN g.table, NEW u, u = g.table[p].pointed, u # Null
  PROVE  u \in DOMAIN g.vertex /\ BagIn(Origin(g, p), g.vertex[u].edges) /\ HasAnyEdges(g, u)
<1>1. u \in Vertices /\ u \in DOMAIN g.vertex /\ Origin(g, p) \in Origins
  BY TableFacts DEF EdgesMatchTable, EndsExist
<1>. DEFINE I == Incoming(g, Origin(g, p), u)
<1>2. p \in I /\ IsFiniteSet(I)
  <2>1. p \in I
    BY DEF Incoming
  <2>2. IsFiniteSet(I)
    BY CountFacts
  <2>. QED  BY <2>1, <2>2
<1>3. Cardinality(I) # 0
  BY <1>2, FS_EmptySet
<1>4. EdgesFrom(g, Origin(g, p), u) # 0
  BY <1>1, <1>3 DEF EdgesMatchTable
<1>5. BagIn(Origin(g, p), g.vertex[u].edges)
  BY <1>4 DEF EdgesFrom
<1>. QED  BY <1>1, <1>5 DEF BagIn, HasAnyEdges

LEMMA OriginOfEdge ==
  ASSUME NEW g, GraphOK(g), IsFiniteSet(DOMAIN g.table), EdgesMatchTable(g),
         NEW u \in DOMAIN g.vertex, NEW o \in BagToSet(g.vertex[u].edges)
  PROVE  \E p \in DOMAIN g.table : g.table[p].pointed = u /\ Origin(g, p) = o
<1>1. IsABag(g.vertex[u].edges) /\ BagToSet(g.vertex[u].edges) \subseteq Origins
  BY VertexFacts DEF IsVertex
<1>2. o \in Origins /\ BagIn(o, g.vertex[u].edges) /\ g.vertex[u].edges[o] > 0
  BY <1>1 DEF BagIn, IsABag, BagToSet
<1>3. EdgesFrom(g, o, u) # 0
  BY <1>2 DEF EdgesFrom
<1>4. Cardinality(Incoming(g, o, u)) # 0
  BY <1>2, <1>3 DEF EdgesMatchTable
<1>5. Incoming(g, o, u) # {}
  BY <1>4, FS_EmptySet
<1>. QED  BY <1>5 DEF Incoming

(* The vertex of a block that can be reached is found to be reachable: the *)
(* origins of the edges that come in are roots, or one reachable vertex.   *)
LEMMA ReachedIsFound ==
  ASSUME NEW g, GraphOK(g), IsFiniteSet(DOMAIN g.table), EdgesMatchTable(g),
         OneVertexPerBlock(g), WellPlaced(g), OneKeeper(ViewOf(g)),
         NEW v \in DOMAIN g.vertex, g.vertex[v].addr \in Reach(ViewOf(g))
  PROVE  IsReachable(g, v)
<1>1. SUFFICES ASSUME NEW X \in SUBSET DOMAIN g.vertex,
                      \A u \in DOMAIN g.vertex : LeadsBack(g, u, X) => u \in X
               PROVE  v \in X
  BY DEF IsReachable
<1>. DEFINE V == ViewOf(g)
            S == {b \in Blocks : \E u \in X : g.vertex[u].addr = b}
<1>2. /\ IsView(V) /\ DOMAIN V = DOMAIN g.table
      /\ \A s \in DOMAIN g.table :
           /\ g.table[s].pointed = Null => V[s] = Null
           /\ g.table[s].pointed # Null => /\ g.table[s].pointed \in DOMAIN g.vertex
                                           /\ V[s] = g.vertex[g.table[s].pointed].addr
           /\ V[s] # Null => V[s] \in BlocksOf(g)
      /\ BlocksOf(g) \subseteq Blocks
  BY ViewFacts DEF EdgesMatchTable
<1>3. \A s \in DOMAIN g.table : s \in Sptrs
  BY DEF GraphOK
<1>4. \A s, r \in DOMAIN V : Home(s) # Null /\ V[s] # Null /\ Home(r) # Null /\ V[r] = V[s] =>
        Home(r) = Home(s)
  BY DEF OneKeeper
<1>. HIDE DEF V
<1>5. ASSUME NEW s \in DOMAIN V, Home(s) \in S \cup {Null}, V[s] # Null
      PROVE  V[s] \in S
  <2>. DEFINE w == g.table[s].pointed
  <2>1. s \in DOMAIN g.table /\ w # Null /\ w \in DOMAIN g.vertex /\ V[s] = g.vertex[w].addr
    BY <1>2, <1>5
  <2>2. V[s] \in Blocks
    BY <1>2, <1>5 DEF IsView
  <2>3. BagIn(Origin(g, s), g.vertex[w].edges)
    BY <2>1, PointedHasEdges
  <2>. HIDE DEF w
  <2>4. CASE s \in Roots
    <3>1. Origin(g, s) = s /\ s \in Sptrs
      BY <1>3, <2>1, <2>4 DEF WellPlaced, Origin
    <3>2. HasRootEdges(g, w)
      BY <2>3, <3>1 DEF HasRootEdges, BagIn
    <3>3. w \in X
      BY <1>1, <2>1, <3>2 DEF LeadsBack
    <3>. QED  BY <2>1, <2>2, <3>3
  <2>5. CASE s \notin Roots
    <3>1. Home(s) \in S /\ Home(s) # Null
      BY <1>3, <1>5, <2>1, <2>5, RootFacts
    <3>2. PICK u \in X : g.vertex[u].addr = Home(s)
      BY <3>1
    <3>3. Home(s) \in BlocksOf(g) /\ u \in DOMAIN g.vertex
      BY <3>1, <3>2 DEF BlocksOf
    <3>4. ASSUME NEW r \in DOMAIN g.table, Home(r) = Home(s)
          PROVE  Origin(g, r) = u
      <4>1. /\ g.table[r].container \in DOMAIN g.vertex
            /\ g.vertex[g.table[r].container].addr = Home(s)
        BY <3>3, <3>4 DEF WellPlaced
      <4>2. g.table[r].container = u
        BY <3>1, <3>2, <3>3, <4>1 DEF OneVertexPerBlock
      <4>3. u # Null
        BY <3>3, VertexFacts
      <4>. QED  BY <4>2, <4>3 DEF Origin
    <3>5. Origin(g, s) = u /\ u \in Vertices
      BY <2>1, <3>3, <3>4, VertexFacts
    <3>6. Predecessors(g, w) # {}
      BY <2>3, <3>5 DEF Predecessors, BagIn
    <3>7. ASSUME NEW p \in Predecessors(g, w) PROVE ~ Released(g, p) /\ p \in X
      <4>1. PICK r \in DOMAIN g.table : g.table[r].pointed = w /\ Origin(g, r) = p
        BY <2>1, OriginOfEdge DEF Predecessors
      <4>2. p \in Vertices /\ g.table[r].container = p /\ p # Null
        BY <4>1, TableFacts, NullAssumption DEF Predecessors
      <4>3. r \notin Roots
        BY <4>2 DEF WellPlaced
      <4>4. Home(r) # Null
        BY <1>3, <4>3, RootFacts
      <4>5. V[r] = V[s]
        BY <1>2, <2>1, <4>1
      <4>6. Home(r) = Home(s)
        BY <1>2, <1>4, <1>5, <3>1, <4>4, <4>5
      <4>. QED  BY <3>1, <3>2, <3>4, <4>1, <4>6 DEF Released
    <3>8. w \in X
      BY <1>1, <2>1, <3>6, <3>7 DEF LeadsBack
    <3>. QED  BY <2>1, <2>2, <3>8
  <2>. QED  BY <2>4, <2>5
<1>6. S \in SUBSET Blocks /\ Closed(V, S)
  BY <1>5 DEF Closed
<1>7. Reach(V) \subseteq S
  BY <1>6, ReachLeast
<1>8. PICK u \in X : g.vertex[u].addr = g.vertex[v].addr
  BY <1>7 DEF V
<1>9. g.vertex[v].addr # Null
  BY NullAssumption DEF Reach
<1>. QED  BY <1>8, <1>9 DEF OneVertexPerBlock

(* And the vertex that is found to be reachable is that of such a block,   *)
(* when it has one.                                                        *)
LEMMA FoundIsReached ==
  ASSUME NEW g, GraphOK(g), IsFiniteSet(DOMAIN g.table), EdgesMatchTable(g), WellPlaced(g),
         NEW v \in DOMAIN g.vertex, IsReachable(g, v)
  PROVE  g.vertex[v].addr \in Reach(ViewOf(g)) \cup {Null}
<1>. DEFINE V == ViewOf(g)
            X == {u \in DOMAIN g.vertex : g.vertex[u].addr \in Reach(V) \cup {Null}}
<1>1. /\ IsView(V) /\ DOMAIN V = DOMAIN g.table
      /\ \A s \in DOMAIN g.table :
           g.table[s].pointed # Null => V[s] = g.vertex[g.table[s].pointed].addr
  BY ViewFacts DEF EdgesMatchTable
<1>2. \A s \in DOMAIN g.table : s \in Sptrs
  BY DEF GraphOK
<1>3. Closed(V, Reach(V))
  BY <1>1, ReachClosed
<1>. HIDE DEF V
<1>4. ASSUME NEW u \in DOMAIN g.vertex, LeadsBack(g, u, X) PROVE u \in X
  <2>1. u # Null /\ u \in Vertices
    BY VertexFacts
  <2>2. ASSUME NEW s \in DOMAIN g.table, g.table[s].pointed = u, Home(s) \in Reach(V) \cup {Null}
        PROVE  u \in X
    <3>1. V[s] = g.vertex[u].addr
      BY <1>1, <2>1, <2>2
    <3>2. V[s] # Null => V[s] \in Reach(V)
      BY <1>1, <1>3, <2>2 DEF Closed
    <3>. QED  BY <3>1, <3>2
  <2>3. CASE HasRootEdges(g, u)
    <3>1. PICK o \in BagToSet(g.vertex[u].edges) : o \in Sptrs
      BY <2>3 DEF HasRootEdges
    <3>2. PICK s \in DOMAIN g.table : g.table[s].pointed = u /\ Origin(g, s) = o
      BY OriginOfEdge
    <3>3. g.table[s].container = Null
      <4>1. g.table[s].container \in Vertices \cup {Null} /\ o \notin Vertices
        BY <3>1, TableFacts, PlacesAssumption
      <4>. QED  BY <3>2, <4>1 DEF Origin
    <3>4. Home(s) = Null
      BY <1>2, <3>3, RootFacts DEF WellPlaced
    <3>. QED  BY <2>2, <3>2, <3>4
  <2>4. CASE Predecessors(g, u) # {} /\ \A w \in Predecessors(g, u) : ~ Released(g, w) /\ w \in X
    <3>1. PICK w \in Predecessors(g, u) : TRUE
      BY <2>4
    <3>2. w \in BagToSet(g.vertex[u].edges) /\ w \in Vertices /\ w # Null
      BY <3>1, NullAssumption, PlacesAssumption DEF Predecessors
    <3>3. PICK s \in DOMAIN g.table : g.table[s].pointed = u /\ Origin(g, s) = w
      BY <3>2, OriginOfEdge
    <3>4. w = g.table[s].container
      <4>1. s \notin Vertices
        BY <1>2, PlacesAssumption
      <4>. QED  BY <3>2, <3>3, <4>1 DEF Origin
    <3>5. g.vertex[w].addr \in {Null, Home(s)}
      BY <2>1, <3>2, <3>3, <3>4 DEF WellPlaced
    <3>6. g.vertex[w].addr \in Reach(V)
      BY <2>4, <3>1 DEF Released
    <3>7. Home(s) \in Reach(V)
      <4>1. g.vertex[w].addr # Null
        BY <2>4, <3>1 DEF Released
      <4>. QED  BY <3>5, <3>6, <4>1
    <3>. QED  BY <2>2, <3>3, <3>7
  <2>. QED  BY <1>4, <2>3, <2>4 DEF LeadsBack
<1>5. v \in X
  <2>1. X \in SUBSET DOMAIN g.vertex
    OBVIOUS
  <2>. HIDE DEF X
  <2>. QED  BY <1>4, <2>1 DEF IsReachable
<1>. QED  BY <1>5 DEF V

(* A vertex that is found to be reachable has a pointer that refers to it. *)
LEMMA FoundIsPointed ==
  ASSUME NEW g, GraphOK(g), IsFiniteSet(DOMAIN g.table), EdgesMatchTable(g),
         NEW v \in DOMAIN g.vertex, IsReachable(g, v)
  PROVE  IsPointed(g, v)
<1>. DEFINE X == {u \in DOMAIN g.vertex : BagToSet(g.vertex[u].edges) # {}}
<1>1. \A u \in DOMAIN g.vertex : LeadsBack(g, u, X) => u \in X
  BY DEF LeadsBack, HasRootEdges, Predecessors
<1>2. v \in X
  BY <1>1 DEF IsReachable
<1>3. PICK o \in BagToSet(g.vertex[v].edges) : TRUE
  BY <1>2
<1>4. \E p \in DOMAIN g.table : g.table[p].pointed = v /\ Origin(g, p) = o
  BY <1>3, OriginOfEdge
<1>. QED  BY <1>4 DEF IsPointed

(* The end of a reference, up to what becomes of the vertex it was to: the *)
(* origin of the edge is deleted only when it has been released.           *)
Unlinked(g, s) ==
  LET v == g.table[s].pointed
      o == Origin(g, s)
  IN LeaveOrigin(RemoveEdge([g EXCEPT !.table[s].pointed = Null], o, v), o)

LEMMA UnlinkedFacts ==
  ASSUME NEW g, GraphInv(g), WellPlaced(g), NEW s \in DOMAIN g.table,
         g.table[s].pointed # Null,
         \A u \in DOMAIN g.vertex : u = Origin(g, s) => Released(g, u) \/ IsPointed(g, u),
         NEW left, left = Unlinked(g, s)
  PROVE  /\ GraphOK(left) /\ EdgesMatchTable(left)
         /\ left.fault = g.fault /\ left.released = g.released
         /\ DOMAIN left.table = DOMAIN g.table /\ left.table[s].pointed = Null
         /\ \A p \in DOMAIN g.table : /\ left.table[p].container = g.table[p].container
                                      /\ p # s => left.table[p] = g.table[p]
         /\ g.table[s].pointed \in DOMAIN left.vertex /\ DOMAIN left.vertex \subseteq DOMAIN g.vertex
         /\ \A u \in DOMAIN left.vertex : left.vertex[u].addr = g.vertex[u].addr
         /\ \A u \in DOMAIN g.vertex : g.vertex[u].addr # Null => u \in DOMAIN left.vertex
<1>. DEFINE v == g.table[s].pointed
            o == Origin(g, s)
            k == [g EXCEPT !.table[s].pointed = Null]
            cut == RemoveEdge(k, o, v)
<1>1. GraphOK(g) /\ IsFiniteSet(DOMAIN g.table) /\ EdgesMatchTable(g)
  BY DEF GraphInv
<1>2. /\ {v, o} \cap Vertices \subseteq DOMAIN g.vertex
      /\ BagIn(o, g.vertex[v].edges) /\ (o \in Vertices => g.vertex[o].out # 0)
      /\ EdgesMatchTable(cut)
  BY <1>1, UnlinkMatch
<1>3. /\ v \in Vertices /\ v \in DOMAIN g.vertex /\ o \in Origins
      /\ o \in Vertices => o = g.table[s].container
  BY <1>1, <1>2, TableFacts
<1>4. /\ GraphOK(k) /\ k.vertex = g.vertex /\ k.fault = g.fault /\ k.released = g.released
      /\ DOMAIN k.table = DOMAIN g.table /\ k.table[s].pointed = Null
      /\ \A p \in DOMAIN g.table : p # s => k.table[p] = g.table[p]
      /\ \A p \in DOMAIN g.table : k.table[p].container = g.table[p].container
  BY <1>1, PointFacts
<1>5. /\ v \in DOMAIN k.vertex /\ BagIn(o, k.vertex[v].edges)
      /\ o \in DOMAIN k.vertex => k.vertex[o].out # 0
  BY <1>1, <1>2, <1>3, <1>4 DEF GraphOK
<1>6. left = LeaveOrigin(cut, o) /\ cut = RemoveEdge(k, o, v)
  BY DEF Unlinked
<1>. HIDE DEF cut, k
<1>7. /\ GraphOK(cut)
      /\ cut.table = k.table /\ cut.fault = k.fault /\ cut.released = k.released
      /\ DOMAIN cut.vertex = DOMAIN k.vertex
      /\ \A u \in DOMAIN k.vertex : cut.vertex[u].addr = k.vertex[u].addr
  <2>1. /\ GraphOK(k) /\ o \in Origins /\ v \in DOMAIN k.vertex
        /\ BagIn(o, k.vertex[v].edges) /\ (o \in DOMAIN k.vertex => k.vertex[o].out # 0)
        /\ cut = RemoveEdge(k, o, v)
    BY <1>3, <1>4, <1>5, <1>6
  <2>. QED  BY ONLY <2>1, RemoveEdgeFacts
<1>8. v # o
  BY <1>3, PlacesAssumption DEF WellPlaced
<1>9. CASE left = cut
  BY <1>2, <1>3, <1>4, <1>7, <1>9
<1>10. CASE o \notin Sptrs /\ ~ HasAnyEdges(cut, o) /\ Released(cut, o) /\ left = DeleteVertex(cut, o)
  <2>1. o \in DOMAIN cut.vertex
    BY <1>2, <1>3, <1>4, <1>7, <1>10 DEF Origins
  <2>2. /\ GraphOK(left)
        /\ left.table = cut.table /\ left.fault = cut.fault /\ left.released = cut.released
        /\ DOMAIN left.vertex = DOMAIN cut.vertex \ {o}
        /\ \A u \in DOMAIN left.vertex : left.vertex[u] = cut.vertex[u]
    BY <1>7, <1>10, <2>1, DeleteFacts
  <2>3. IsFiniteSet(DOMAIN cut.table)
    BY <1>1, <1>4, <1>7
  <2>4. EdgesMatchTable(left)
    BY <1>2, <1>7, <1>10, <2>1, <2>3, DeleteMatch
  <2>5. \A u \in DOMAIN g.vertex : g.vertex[u].addr # Null => u \in DOMAIN left.vertex
    BY <1>4, <1>7, <1>10, <2>2 DEF Released
  <2>. QED  BY <1>3, <1>4, <1>7, <1>8, <2>2, <2>4, <2>5
<1>11. CASE o \notin Sptrs /\ ~ HasAnyEdges(cut, o) /\ ~ Released(cut, o)
  <2>1. o \in Vertices /\ o \in DOMAIN g.vertex
    BY <1>2, <1>3, <1>11 DEF Origins
  <2>2. ~ Released(g, o)
    BY <1>4, <1>7, <1>11, <2>1 DEF Released
  <2>3. PICK p \in DOMAIN g.table : g.table[p].pointed = o
    BY <2>1, <2>2 DEF IsPointed
  <2>4. p # s
    BY <1>8, <2>3
  <2>5. p \in DOMAIN cut.table /\ cut.table[p].pointed = o /\ o # Null
    BY <1>4, <1>7, <2>1, <2>3, <2>4, NullAssumption
  <2>6. IsFiniteSet(DOMAIN cut.table)
    BY <1>1, <1>4, <1>7
  <2>7. HasAnyEdges(cut, o)
    BY <1>2, <1>7, <2>5, <2>6, PointedHasEdges
  <2>. QED  BY <1>11, <2>7
<1>. QED  BY <1>6, <1>9, <1>10, <1>11 DEF LeaveOrigin

(* No block is released when the one that s refers to can be reached still.*)
Spared(g, s, b) ==
  b = Null /\ s \in DOMAIN ViewOf(g) /\ ViewOf(g)[s] # Null =>
    ViewOf(g)[s] \in Reach(Without(ViewOf(g), s))

(* What the end of the reference of s has made of the graph g, when b is   *)
(* the block it has released, if any.                                      *)
Ended(g, s, allowDtion, h, b) ==
  /\ h.fault = g.fault
  /\ DOMAIN h.table = DOMAIN g.table /\ h.table[s].pointed = Null
  /\ \A p \in DOMAIN g.table : /\ h.table[p].container = g.table[p].container
                               /\ p # s => h.table[p] = g.table[p]
  /\ DOMAIN h.vertex \subseteq DOMAIN g.vertex
  /\ \A u \in DOMAIN h.vertex :
       h.vertex[u].addr = IF g.vertex[u].addr = b THEN Null ELSE g.vertex[u].addr
  /\ \A u \in DOMAIN g.vertex : g.vertex[u].addr \notin {Null, b} => u \in DOMAIN h.vertex
  /\ \A u \in DOMAIN h.vertex : IsPointed(g, u) => Released(h, u) \/ IsPointed(h, u)
  /\ b \notin Reach(Without(ViewOf(g), s))
  /\ Spared(g, s, b)
  /\ IF b = Null THEN h.released = g.released
     ELSE h.released = [block |-> b, dtion |-> allowDtion] /\ b = ViewOf(g)[s]

LEMMA EndedView ==
  ASSUME NEW g, GraphInv(g), WellPlaced(g), OneKeeper(ViewOf(g)),
         NEW s \in DOMAIN g.table,
         \A u \in DOMAIN g.vertex : u = Origin(g, s) => Released(g, u) \/ IsPointed(g, u),
         NEW allowDtion \in BOOLEAN, NEW h, h = UnmakeReference(g, s, allowDtion)
  PROVE  \E b \in Blocks \cup {Null} : Ended(g, s, allowDtion, h, b)
<1>. DEFINE v == g.table[s].pointed
            o == Origin(g, s)
            k == [g EXCEPT !.table[s].pointed = Null]
            left == Unlinked(g, s)
            V == ViewOf(g)
            R == Reach(Without(V, s))
<1>1. /\ GraphOK(g) /\ IsFiniteSet(DOMAIN g.table) /\ EdgesMatchTable(g) /\ EndsExist(g)
      /\ OneVertexPerBlock(g)
  BY DEF GraphInv, EdgesMatchTable
<1>2. /\ GraphOK(k) /\ k.vertex = g.vertex /\ k.fault = g.fault /\ k.released = g.released
      /\ DOMAIN k.table = DOMAIN g.table /\ k.table[s].pointed = Null
      /\ \A p \in DOMAIN g.table : p # s => k.table[p] = g.table[p]
      /\ \A p \in DOMAIN g.table : k.table[p].container = g.table[p].container
  BY <1>1, PointFacts
<1>3. v \in Vertices \cup {Null} /\ o \in Origins
  BY <1>1, TableFacts
<1>4. h = IF v = Null THEN k
          ELSE IF ~ ({v, o} \cap Vertices \subseteq DOMAIN g.vertex)
          THEN Faulty(k, "vertex used after delete")
          ELSE IF ~ BagIn(o, g.vertex[v].edges) \/ (o \in Vertices /\ g.vertex[o].out = 0)
          THEN Faulty(k, "no such edge")
          ELSE Settle(left, v, allowDtion)
  BY DEF UnmakeReference, Unlinked
<1>5. /\ IsView(V) /\ DOMAIN V = DOMAIN g.table
      /\ \A p \in DOMAIN g.table :
           /\ g.table[p].pointed = Null => V[p] = Null
           /\ g.table[p].pointed # Null => /\ g.table[p].pointed \in DOMAIN g.vertex
                                           /\ V[p] = g.vertex[g.table[p].pointed].addr
  BY <1>1, ViewFacts
<1>6. /\ IsView(Without(V, s)) /\ DOMAIN Without(V, s) = DOMAIN V \ {s}
      /\ \A p \in DOMAIN V \ {s} : Without(V, s)[p] = V[p]
  BY <1>5, WithoutFacts
<1>7. Null \notin R
  BY <1>6, ReachClosed
<1>. HIDE DEF R
<1>8. CASE v = Null
  <2>1. h = k
    BY <1>4, <1>8
  <2>2. \A u \in DOMAIN g.vertex : u # Null
    BY <1>1, VertexFacts
  <2>3. \A u \in DOMAIN g.vertex : IsPointed(g, u) => IsPointed(k, u)
    BY <1>2, <1>8, <2>2 DEF IsPointed
  <2>4. Spared(g, s, Null)
    BY <1>5, <1>8 DEF Spared
  <2>. HIDE DEF k, V
  <2>5. Ended(g, s, allowDtion, h, Null)
    BY <1>2, <1>7, <2>1, <2>3, <2>4 DEF Ended, R, V
  <2>. QED  BY <2>5
<1>9. CASE v # Null
  <2>1. h = Settle(left, v, allowDtion)
    <3>1. /\ {v, o} \cap Vertices \subseteq DOMAIN g.vertex
          /\ BagIn(o, g.vertex[v].edges) /\ (o \in Vertices => g.vertex[o].out # 0)
      BY <1>1, <1>9, UnlinkMatch
    <3>. QED  BY <1>4, <1>9, <3>1
  <2>2. /\ GraphOK(left) /\ EdgesMatchTable(left)
        /\ left.fault = g.fault /\ left.released = g.released
        /\ DOMAIN left.table = DOMAIN g.table /\ left.table[s].pointed = Null
        /\ \A p \in DOMAIN g.table : /\ left.table[p].container = g.table[p].container
                                     /\ p # s => left.table[p] = g.table[p]
        /\ v \in DOMAIN left.vertex /\ DOMAIN left.vertex \subseteq DOMAIN g.vertex
        /\ \A u \in DOMAIN left.vertex : left.vertex[u].addr = g.vertex[u].addr
        /\ \A u \in DOMAIN g.vertex : g.vertex[u].addr # Null => u \in DOMAIN left.vertex
    BY <1>9, UnlinkedFacts
  <2>. HIDE DEF left, k
  <2>3. IsFiniteSet(DOMAIN left.table)
    BY <1>1, <1>2, <2>2
  (* what the graph says then is what it said, without s *)
  <2>4. /\ IsView(ViewOf(left)) /\ DOMAIN ViewOf(left) = DOMAIN V
        /\ ViewOf(left)[s] = Null
        /\ \A p \in DOMAIN V : p # s => ViewOf(left)[p] = V[p]
    <3>. HIDE DEF V
    <3>1. /\ IsView(ViewOf(left)) /\ DOMAIN ViewOf(left) = DOMAIN left.table
          /\ \A p \in DOMAIN left.table :
               /\ left.table[p].pointed = Null => ViewOf(left)[p] = Null
               /\ left.table[p].pointed # Null =>
                    /\ left.table[p].pointed \in DOMAIN left.vertex
                    /\ ViewOf(left)[p] = left.vertex[left.table[p].pointed].addr
      BY <2>2, ViewFacts DEF EdgesMatchTable
    <3>2. DOMAIN left.table = DOMAIN V /\ left.table[s].pointed = Null
      BY <1>2, <1>5, <2>2
    <3>3. ASSUME NEW p \in DOMAIN V, p # s PROVE ViewOf(left)[p] = V[p]
      <4>1. left.table[p] = g.table[p] /\ p \in DOMAIN g.table
        BY <1>5, <2>2, <3>3
      <4>. QED  BY <1>5, <2>2, <3>1, <3>2, <4>1
    <3>. QED  BY <1>5, <3>1, <3>2, <3>3
  <2>5. OneKeeper(ViewOf(left))
    BY <2>4 DEF OneKeeper
  <2>6. R \subseteq Reach(ViewOf(left))
    <3>1. \A p \in DOMAIN Without(V, s) : Without(V, s)[p] = ViewOf(left)[p]
      BY <1>6, <2>4
    <3>2. DOMAIN Without(V, s) \subseteq DOMAIN ViewOf(left)
      BY <1>6, <2>4
    <3>. HIDE DEF V
    <3>. QED  BY <2>4, <3>1, <3>2, ReachMonotone DEF R
  <2>7. OneVertexPerBlock(left) /\ WellPlaced(left)
    <3>1. OneVertexPerBlock(left)
      BY <1>1, <2>2 DEF OneVertexPerBlock
    <3>2. BlocksOf(left) \subseteq BlocksOf(g)
      BY <2>2 DEF BlocksOf
    <3>3. ASSUME NEW p \in DOMAIN left.table
          PROVE  /\ p \in Roots <=> left.table[p].container = Null
                 /\ Home(p) \in BlocksOf(left) =>
                      /\ left.table[p].container \in DOMAIN left.vertex
                      /\ left.vertex[left.table[p].container].addr = Home(p)
                 /\ left.table[p].pointed # Null =>
                      /\ left.table[p].pointed # left.table[p].container
                      /\ left.table[p].container # Null =>
                           left.vertex[left.table[p].container].addr \in {Null, Home(p)}
      <4>1. p \in DOMAIN g.table /\ left.table[p].container = g.table[p].container
        BY <2>2
      <4>2. left.table[p].pointed \in {g.table[p].pointed, Null}
        BY <1>2, <2>2, <4>1
      <4>3. Home(p) \in BlocksOf(left) => Home(p) # Null
        BY DEF BlocksOf
      <4>4. Home(p) \in BlocksOf(g) =>
              /\ g.table[p].container \in DOMAIN g.vertex
              /\ g.vertex[g.table[p].container].addr = Home(p)
        BY <4>1 DEF WellPlaced
      <4>5. /\ p \in Roots <=> g.table[p].container = Null
            /\ g.table[p].pointed # Null =>
                 /\ g.table[p].pointed # g.table[p].container
                 /\ g.table[p].container # Null =>
                      g.vertex[g.table[p].container].addr \in {Null, Home(p)}
        BY <4>1 DEF WellPlaced
      <4>6. left.table[p].pointed # Null /\ left.table[p].container # Null =>
              left.table[p].container \in DOMAIN left.vertex
        BY <2>2, ContainerExists DEF EdgesMatchTable
      <4>. QED  BY <2>2, <3>2, <4>1, <4>2, <4>3, <4>4, <4>5, <4>6
    <3>. QED  BY <3>1, <3>3 DEF WellPlaced
  <2>8. \A u \in DOMAIN left.vertex : u # v => (IsPointed(g, u) => IsPointed(left, u))
    BY <2>2 DEF IsPointed
  <2>13. IsReachable(left, v) => IsPointed(left, v)
    BY <2>2, <2>3, FoundIsPointed
  <2>14. V[s] = left.vertex[v].addr
    BY <1>5, <1>9, <2>2
  <2>15. Reach(ViewOf(left)) \subseteq R
    <3>1. Closed(Without(V, s), R) /\ R \in SUBSET Blocks
      BY <1>6, ReachClosed DEF R
    <3>. HIDE DEF V
    <3>2. Closed(ViewOf(left), R)
      BY <1>6, <2>4, <3>1 DEF Closed
    <3>. QED  BY <3>1, <3>2, ReachLeast
  <2>16. Released(left, v) \/ IsReachable(left, v) => Spared(g, s, Null)
    <3>1. IsReachable(left, v) => left.vertex[v].addr \in Reach(ViewOf(left)) \cup {Null}
      BY <2>2, <2>3, <2>7, FoundIsReached
    <3>. QED  BY <2>14, <2>15, <3>1 DEF Released, Spared, R
  <2>9. CASE h = left /\ (Released(left, v) \/ IsReachable(left, v))
    <3>1. \A u \in DOMAIN h.vertex : IsPointed(g, u) => Released(h, u) \/ IsPointed(h, u)
      BY <2>8, <2>9, <2>13
    <3>. HIDE DEF V
    <3>2. Ended(g, s, allowDtion, h, Null)
      BY <1>2, <1>7, <2>2, <2>9, <2>16, <3>1 DEF Ended, R, V
    <3>. QED  BY <3>2
  <2>10. CASE Released(left, v) /\ h = DeleteVertex(left, v)
    <3>1. /\ h.table = left.table /\ h.fault = left.fault /\ h.released = left.released
          /\ DOMAIN h.vertex = DOMAIN left.vertex \ {v}
          /\ \A u \in DOMAIN h.vertex : h.vertex[u] = left.vertex[u]
      BY <2>2, <2>10, DeleteFacts
    <3>2. \A u \in DOMAIN h.vertex : IsPointed(g, u) => Released(h, u) \/ IsPointed(h, u)
      BY <2>8, <3>1 DEF IsPointed
    <3>3. \A u \in DOMAIN g.vertex : g.vertex[u].addr # Null => u \in DOMAIN h.vertex
      BY <2>2, <2>10, <3>1 DEF Released
    <3>. HIDE DEF V
    <3>4. Ended(g, s, allowDtion, h, Null)
      BY <1>2, <1>7, <2>2, <2>10, <2>16, <3>1, <3>2, <3>3 DEF Ended, R, V
    <3>. QED  BY <3>4
  <2>11. CASE ~ Released(left, v) /\ ~ IsReachable(left, v) /\ h = Collect(left, v, allowDtion)
    <3>. DEFINE b == g.vertex[v].addr
                gone == [left EXCEPT !.vertex[v].addr = Null,
                                     !.released = [block |-> left.vertex[v].addr, dtion |-> allowDtion]]
    <3>1. /\ left.vertex[v].addr = b /\ b # Null /\ v \in DOMAIN g.vertex
          /\ IsVertex(g.vertex[v])
      BY <1>1, <2>2, <2>11, VertexFacts DEF Released
    <3>2. b \in Blocks /\ b = V[s]
      BY <1>5, <1>9, <3>1 DEF IsVertex
    <3>3. b \notin R
      <4>1. b \notin Reach(ViewOf(left))
        BY <2>2, <2>3, <2>5, <2>7, <2>11, <3>1, ReachedIsFound
      <4>. QED  BY <2>6, <4>1
    <3>4. h = IF HasAnyEdges(gone, v) THEN gone ELSE DeleteVertex(gone, v)
      BY <2>11 DEF Collect
    <3>5. IsVertex(left.vertex[v])
      BY <2>2, VertexFacts
    <3>6. /\ gone.table = left.table /\ gone.fault = left.fault
          /\ gone.released = [block |-> b, dtion |-> allowDtion]
          /\ DOMAIN gone.vertex = DOMAIN left.vertex
          /\ gone.vertex[v].addr = Null
          /\ \A u \in DOMAIN left.vertex : u # v => gone.vertex[u] = left.vertex[u]
      <4>1. /\ gone.table = left.table /\ gone.fault = left.fault
            /\ gone.released = [block |-> b, dtion |-> allowDtion]
            /\ DOMAIN gone.vertex = DOMAIN left.vertex
            /\ gone.vertex[v] = [left.vertex[v] EXCEPT !.addr = Null]
            /\ \A u \in DOMAIN left.vertex : u # v => gone.vertex[u] = left.vertex[u]
        BY <2>2, <3>1 DEF GraphOK
      <4>. HIDE DEF gone
      <4>2. gone.vertex[v].addr = Null
        BY ONLY <3>5, <4>1 DEF IsVertex
      <4>. QED  BY <4>1, <4>2
    <3>. HIDE DEF gone
    <3>7. /\ h.table = left.table /\ h.fault = left.fault
          /\ h.released = [block |-> b, dtion |-> allowDtion]
          /\ DOMAIN h.vertex \subseteq DOMAIN left.vertex
          /\ \A u \in DOMAIN left.vertex : u # v => u \in DOMAIN h.vertex /\ h.vertex[u] = left.vertex[u]
          /\ v \in DOMAIN h.vertex => h.vertex[v].addr = Null
      <4>1. CASE h = gone
        BY <3>6, <4>1
      <4>2. CASE h = DeleteVertex(gone, v)
        <5>1. DOMAIN gone = DOMAIN left
          BY DEF gone
        <5>2. /\ h.table = gone.table /\ h.fault = gone.fault /\ h.released = gone.released
              /\ DOMAIN h.vertex = DOMAIN gone.vertex \ {v}
              /\ \A u \in DOMAIN h.vertex : h.vertex[u] = gone.vertex[u]
          BY <2>2, <4>2, <5>1 DEF DeleteVertex, GraphOK
        <5>. QED  BY <3>6, <5>2
      <4>. QED  BY <3>4, <4>1, <4>2
    <3>8. \A u \in DOMAIN g.vertex : g.vertex[u].addr = b => u = v
      BY <1>1, <3>1 DEF OneVertexPerBlock
    <3>9. \A u \in DOMAIN h.vertex :
            h.vertex[u].addr = IF g.vertex[u].addr = b THEN Null ELSE g.vertex[u].addr
      BY <2>2, <3>7, <3>8
    <3>10. \A u \in DOMAIN g.vertex : g.vertex[u].addr \notin {Null, b} => u \in DOMAIN h.vertex
      BY <2>2, <3>7
    <3>11. \A u \in DOMAIN h.vertex : IsPointed(g, u) => Released(h, u) \/ IsPointed(h, u)
      BY <2>8, <3>7 DEF IsPointed, Released
    <3>. HIDE DEF b, V
    <3>12. Ended(g, s, allowDtion, h, b)
      <4>1. Spared(g, s, b)
        BY <3>1 DEF Spared
      <4>. QED  BY <1>2, <2>2, <3>1, <3>2, <3>3, <3>7, <3>9, <3>10, <3>11, <4>1 DEF Ended, R, V
    <3>. QED  BY <3>2, <3>12
  <2>12. \/ h = left /\ (Released(left, v) \/ IsReachable(left, v))
         \/ Released(left, v) /\ h = DeleteVertex(left, v)
         \/ ~ Released(left, v) /\ ~ IsReachable(left, v) /\ h = Collect(left, v, allowDtion)
    BY <2>1, <2>2 DEF Settle
  <2>. QED  BY <2>9, <2>10, <2>11, <2>12
<1>. QED  BY <1>8, <1>9

-----------------------------------------------------------------------------
(* What each operation makes of the graph and of its view.                 *)

(* Between two messages W is {}; while a new block has its vertex but no   *)
(* pointer yet, W holds that vertex.                                       *)
Placed(g, W) ==
  /\ GraphInv(g) /\ WellPlaced(g)
  /\ \A v \in DOMAIN g.vertex \ W : Released(g, v) \/ IsPointed(g, v)

SameBut(g, s, h) ==
  /\ DOMAIN h.table = DOMAIN g.table
  /\ \A p \in DOMAIN g.table : /\ h.table[p].container = g.table[p].container
                               /\ p # s => h.table[p] = g.table[p]

Unmade(g, s, W, h, b) ==
  /\ Placed(h, W) /\ h.fault = g.fault /\ SameBut(g, s, h) /\ h.table[s].pointed = Null
  /\ DOMAIN h.vertex \subseteq DOMAIN g.vertex
  /\ \A u \in DOMAIN h.vertex :
       h.vertex[u].addr = IF g.vertex[u].addr = b THEN Null ELSE g.vertex[u].addr
  /\ BlocksOf(h) = BlocksOf(g) \ {b}
  /\ b \notin Reach(Without(ViewOf(g), s)) /\ Spared(g, s, b)
  /\ \A p \in DOMAIN g.table :
       ViewOf(h)[p] = IF p = s \/ ViewOf(g)[p] = b THEN Null ELSE ViewOf(g)[p]

Gives(g, s, allowDtion, h, b) ==
  IF b = Null THEN h.released = g.released
  ELSE h.released = [block |-> b, dtion |-> allowDtion] /\ b = ViewOf(g)[s]

LEMMA UnmadeView ==
  ASSUME NEW g, NEW W, Placed(g, W), OneKeeper(ViewOf(g)),
         NEW s \in DOMAIN g.table, \A u \in W : u # Origin(g, s),
         NEW allowDtion \in BOOLEAN, NEW h, h = UnmakeReference(g, s, allowDtion)
  PROVE  \E b \in Blocks \cup {Null} : Unmade(g, s, W, h, b) /\ Gives(g, s, allowDtion, h, b)
<1>1. /\ GraphInv(g) /\ WellPlaced(g)
      /\ \A v \in DOMAIN g.vertex \ W : Released(g, v) \/ IsPointed(g, v)
  BY DEF Placed
<1>2. \A u \in DOMAIN g.vertex : u = Origin(g, s) => Released(g, u) \/ IsPointed(g, u)
  BY <1>1
<1>3. PICK b \in Blocks \cup {Null} : Ended(g, s, allowDtion, h, b)
  BY <1>1, <1>2, EndedView
<1>4. /\ h.fault = g.fault
      /\ DOMAIN h.table = DOMAIN g.table /\ h.table[s].pointed = Null
      /\ \A p \in DOMAIN g.table : h.table[p].container = g.table[p].container
      /\ \A p \in DOMAIN g.table : p # s => h.table[p] = g.table[p]
      /\ DOMAIN h.vertex \subseteq DOMAIN g.vertex
      /\ \A u \in DOMAIN h.vertex :
           h.vertex[u].addr = IF g.vertex[u].addr = b THEN Null ELSE g.vertex[u].addr
      /\ \A u \in DOMAIN g.vertex : g.vertex[u].addr \notin {Null, b} => u \in DOMAIN h.vertex
      /\ \A u \in DOMAIN h.vertex : IsPointed(g, u) => Released(h, u) \/ IsPointed(h, u)
      /\ b \notin Reach(Without(ViewOf(g), s)) /\ Spared(g, s, b)
  BY <1>3 DEF Ended
<1>5. Gives(g, s, allowDtion, h, b)
  BY <1>3 DEF Ended, Gives
<1>6. GraphInv(h)
  BY <1>1, UnmakeOutcome DEF Outcome
<1>7. /\ GraphOK(g) /\ EndsExist(g) /\ GraphOK(h) /\ EndsExist(h)
  BY <1>1, <1>6 DEF GraphInv, EdgesMatchTable
<1>8. BlocksOf(h) = BlocksOf(g) \ {b}
  BY <1>4 DEF BlocksOf
<1>9. WellPlaced(h)
  <2>1. ASSUME NEW p \in DOMAIN h.table
        PROVE  /\ p \in Roots <=> h.table[p].container = Null
               /\ Home(p) \in BlocksOf(h) =>
                    /\ h.table[p].container \in DOMAIN h.vertex
                    /\ h.vertex[h.table[p].container].addr = Home(p)
               /\ h.table[p].pointed # Null =>
                    /\ h.table[p].pointed # h.table[p].container
                    /\ h.table[p].container # Null =>
                         h.vertex[h.table[p].container].addr \in {Null, Home(p)}
    <3>1. p \in DOMAIN g.table /\ h.table[p].container = g.table[p].container
      BY <1>4
    <3>2. /\ p \in Roots <=> g.table[p].container = Null
          /\ Home(p) \in BlocksOf(g) =>
                    /\ g.table[p].container \in DOMAIN g.vertex
                    /\ g.vertex[g.table[p].container].addr = Home(p)
          /\ g.table[p].pointed # Null =>
               /\ g.table[p].pointed # g.table[p].container
               /\ g.table[p].container # Null =>
                    g.vertex[g.table[p].container].addr \in {Null, Home(p)}
      BY <1>1, <3>1 DEF WellPlaced
    <3>3. Home(p) \in BlocksOf(h) => Home(p) \in BlocksOf(g) /\ Home(p) # b /\ Home(p) # Null
      BY <1>8 DEF BlocksOf
    <3>4. h.table[p].pointed \in {g.table[p].pointed, Null}
      BY <1>4, <3>1
    <3>5. h.table[p].pointed # Null =>
            /\ g.table[p].pointed # Null
            /\ h.table[p].container # Null => h.table[p].container \in DOMAIN h.vertex
      BY <1>7, <3>4, ContainerExists
    <3>. QED  BY <1>4, <3>1, <3>2, <3>3, <3>4, <3>5
  <2>. QED  BY <2>1 DEF WellPlaced
<1>10. \A v \in DOMAIN h.vertex \ W : Released(h, v) \/ IsPointed(h, v)
  BY <1>1, <1>4 DEF Released
<1>11. Placed(h, W)
  BY <1>6, <1>9, <1>10 DEF Placed
<1>12. ASSUME NEW p \in DOMAIN g.table
       PROVE  ViewOf(h)[p] = IF p = s \/ ViewOf(g)[p] = b THEN Null ELSE ViewOf(g)[p]
  <2>1. /\ ViewOf(h)[p] = IF h.table[p].pointed = Null THEN Null ELSE h.vertex[h.table[p].pointed].addr
        /\ ViewOf(g)[p] = IF g.table[p].pointed = Null THEN Null ELSE g.vertex[g.table[p].pointed].addr
    BY <1>4 DEF ViewOf
  <2>2. h.table[p].pointed # Null => h.table[p].pointed \in DOMAIN h.vertex
    BY <1>4, <1>7, TableFacts DEF EndsExist
  <2>. QED  BY <1>4, <2>1, <2>2
<1>13. SameBut(g, s, h)
  BY <1>4 DEF SameBut
<1>14. Unmade(g, s, W, h, b)
  BY <1>4, <1>8, <1>11, <1>12, <1>13 DEF Unmade
<1>. QED  BY <1>5, <1>14

(* A new reference to a vertex that exists. *)
Less(W, v) == W \ {v}

LEMMA MadeView ==
  ASSUME NEW g, NEW W, Placed(g, W), NEW s \in DOMAIN g.table, g.table[s].pointed = Null,
         NEW v \in DOMAIN g.vertex, v # g.table[s].container,
         s \in Roots \/ Home(s) \in BlocksOf(g),
         NEW h, h = MakeReference(g, s, v)
  PROVE  /\ Placed(h, Less(W, v)) /\ h.fault = g.fault /\ h.released = g.released
         /\ SameBut(g, s, h) /\ h.table[s].pointed = v /\ BlocksOf(h) = BlocksOf(g)
         /\ ViewOf(h)[s] = g.vertex[v].addr
         /\ \A p \in DOMAIN g.table : p # s => ViewOf(h)[p] = ViewOf(g)[p]
<1>. DEFINE o == Origin(g, s)
            k == [g EXCEPT !.table[s].pointed = v]
<1>1. /\ GraphInv(g) /\ WellPlaced(g)
      /\ \A u \in DOMAIN g.vertex \ W : Released(g, u) \/ IsPointed(g, u)
      /\ GraphOK(g) /\ EndsExist(g)
  BY DEF Placed, GraphInv, EdgesMatchTable
<1>2. v \in Vertices /\ v # Null
  BY <1>1, VertexFacts
<1>3. o \in Origins /\ (o \in Vertices => o \in DOMAIN g.vertex)
  <2>1. o \in Origins /\ s \in Sptrs /\ s \notin Vertices
    BY <1>1, TableFacts
  <2>2. s \in Roots => o = s
    BY <1>1 DEF WellPlaced, Origin
  <2>3. s \notin Roots => o \in DOMAIN g.vertex
    <3>1. Home(s) \in BlocksOf(g) => g.table[s].container \in DOMAIN g.vertex
      BY <1>1 DEF WellPlaced
    <3>2. s \notin Roots => g.table[s].container # Null
      BY <1>1 DEF WellPlaced
    <3>. QED  BY <3>1, <3>2 DEF Origin
  <2>. QED  BY <2>1, <2>2, <2>3
<1>4. h = AddEdge(k, o, v)
  BY <1>2, <1>3 DEF MakeReference
<1>5. /\ GraphOK(k) /\ k.vertex = g.vertex /\ k.fault = g.fault /\ k.released = g.released
      /\ DOMAIN k.table = DOMAIN g.table /\ k.table[s].pointed = v
      /\ \A p \in DOMAIN g.table : p # s => k.table[p] = g.table[p]
      /\ \A p \in DOMAIN g.table : k.table[p].container = g.table[p].container
  BY <1>1, <1>2, PointFacts
<1>. HIDE DEF k, o
<1>6. /\ h.table = k.table /\ h.fault = k.fault /\ h.released = k.released
      /\ DOMAIN h.vertex = DOMAIN k.vertex
      /\ \A u \in DOMAIN k.vertex : h.vertex[u].addr = k.vertex[u].addr
  <2>1. GraphOK(k) /\ o \in Origins /\ v \in DOMAIN k.vertex /\ h = AddEdge(k, o, v)
    BY <1>3, <1>4, <1>5
  <2>. QED  BY ONLY <2>1, AddEdgeFacts
<1>7. GraphInv(h)
  <2>1. Outcome(g, g)
    BY <1>1 DEF Outcome
  <2>2. Outcome(g, h)
    BY <1>2, <2>1, MakeOutcome
  <2>. QED  BY <2>2 DEF Outcome
<1>8. SameBut(g, s, h) /\ h.table[s].pointed = v
  BY <1>5, <1>6 DEF SameBut
<1>9. BlocksOf(h) = BlocksOf(g)
  BY <1>5, <1>6 DEF BlocksOf
<1>10. WellPlaced(h)
  <2>1. ASSUME NEW p \in DOMAIN h.table
        PROVE  /\ p \in Roots <=> h.table[p].container = Null
               /\ Home(p) \in BlocksOf(h) =>
                    /\ h.table[p].container \in DOMAIN h.vertex
                    /\ h.vertex[h.table[p].container].addr = Home(p)
               /\ h.table[p].pointed # Null =>
                    /\ h.table[p].pointed # h.table[p].container
                    /\ h.table[p].container # Null =>
                         h.vertex[h.table[p].container].addr \in {Null, Home(p)}
    <3>1. p \in DOMAIN g.table /\ h.table[p].container = g.table[p].container
      BY <1>5, <1>6
    <3>2. /\ p \in Roots <=> g.table[p].container = Null
          /\ Home(p) \in BlocksOf(g) =>
                    /\ g.table[p].container \in DOMAIN g.vertex
                    /\ g.vertex[g.table[p].container].addr = Home(p)
          /\ g.table[p].pointed # Null =>
               /\ g.table[p].pointed # g.table[p].container
               /\ g.table[p].container # Null =>
                    g.vertex[g.table[p].container].addr \in {Null, Home(p)}
      BY <1>1, <3>1 DEF WellPlaced
    <3>3. IF p = s THEN h.table[p].pointed = v ELSE h.table[p].pointed = g.table[p].pointed
      BY <1>5, <1>6, <3>1
    <3>4. g.table[p].pointed # Null /\ g.table[p].container # Null =>
            g.table[p].container \in DOMAIN g.vertex
      BY <1>1, <3>1, ContainerExists
    <3>5. p = s /\ h.table[p].container # Null => Home(p) \in BlocksOf(g)
      BY <3>1, <3>2
    <3>. QED  BY <1>5, <1>6, <1>9, <3>1, <3>2, <3>3, <3>4, <3>5
  <2>. QED  BY <2>1 DEF WellPlaced
<1>11. ASSUME NEW u \in DOMAIN h.vertex \ (W \ {v}) PROVE Released(h, u) \/ IsPointed(h, u)
  <2>1. CASE u = v
    BY <1>5, <1>6, <2>1 DEF IsPointed
  <2>2. CASE u # v
    <3>1. u \in DOMAIN g.vertex \ W /\ h.vertex[u].addr = g.vertex[u].addr
      BY <1>5, <1>6, <2>2
    <3>2. IsPointed(g, u) => IsPointed(h, u)
      <4>1. u # Null
        BY <1>1, <3>1, VertexFacts
      <4>2. \A p \in DOMAIN g.table : g.table[p].pointed = u => p # s
        BY <4>1
      <4>. QED  BY <1>5, <1>6, <4>2 DEF IsPointed
    <3>. QED  BY <1>1, <3>1, <3>2 DEF Released
  <2>. QED  BY <2>1, <2>2
<1>12. Placed(h, Less(W, v))
  BY <1>7, <1>10, <1>11 DEF Placed, Less
<1>13. ViewOf(h)[s] = g.vertex[v].addr
  BY <1>2, <1>5, <1>6 DEF ViewOf
<1>14. ASSUME NEW p \in DOMAIN g.table, p # s PROVE ViewOf(h)[p] = ViewOf(g)[p]
  <2>1. h.table[p] = g.table[p] /\ p \in DOMAIN h.table
    BY <1>5, <1>6, <1>14
  <2>2. g.table[p].pointed # Null => g.table[p].pointed \in DOMAIN g.vertex
    BY <1>1, TableFacts DEF EndsExist
  <2>. QED  BY <1>5, <1>6, <2>1, <2>2 DEF ViewOf
<1>. QED  BY <1>5, <1>6, <1>8, <1>9, <1>12, <1>13, <1>14

LEMMA InsertedView ==
  ASSUME NEW g, Placed(g, {}), NEW s \in Sptrs, s \notin DOMAIN g.table,
         s \in Roots \/ Home(s) \in BlocksOf(g),
         NEW h, h = InsertPointer(g, s)
  PROVE  /\ Placed(h, {}) /\ h.fault = g.fault /\ h.released = g.released
         /\ h.vertex = g.vertex /\ BlocksOf(h) = BlocksOf(g)
         /\ DOMAIN h.table = DOMAIN g.table \cup {s} /\ h.table[s].pointed = Null
         /\ \A p \in DOMAIN g.table : h.table[p] = g.table[p]
         /\ \A p \in DOMAIN h.table : ViewOf(h)[p] = IF p = s THEN Null ELSE ViewOf(g)[p]
<1>1. /\ GraphInv(g) /\ WellPlaced(g) /\ GraphOK(g)
      /\ \A u \in DOMAIN g.vertex : Released(g, u) \/ IsPointed(g, u)
  BY DEF Placed, GraphInv
<1>. DEFINE c == GetContainerVertex(g, s)
            element == [pointed |-> Null, container |-> c]
<1>2. /\ s \in Roots <=> c = Null
      /\ s \notin Roots => c \in DOMAIN g.vertex /\ g.vertex[c].addr = Home(s)
  <2>1. CASE s \in Roots
    BY <2>1 DEF GetContainerVertex
  <2>2. CASE s \notin Roots
    <3>1. \E v \in DOMAIN g.vertex : g.vertex[v].addr = Home(s)
      BY <2>2 DEF BlocksOf
    <3>2. c \in DOMAIN g.vertex /\ g.vertex[c].addr = Home(s)
      BY <2>2, <3>1 DEF GetContainerVertex, GetVertex
    <3>. QED  BY <1>1, <2>2, <3>2, VertexFacts
  <2>. QED  BY <2>1, <2>2
<1>. HIDE DEF c
<1>3. /\ h.vertex = g.vertex /\ h.fault = g.fault /\ h.released = g.released
      /\ DOMAIN h.table = DOMAIN g.table \cup {s}
      /\ h.table[s] = element
      /\ \A p \in DOMAIN g.table : h.table[p] = g.table[p]
  BY <1>1 DEF InsertPointer, GraphOK, c
<1>4. GraphInv(h)
  BY <1>1, InsertFacts DEF Outcome
<1>5. BlocksOf(h) = BlocksOf(g)
  BY <1>3 DEF BlocksOf
<1>6. WellPlaced(h)
  <2>1. ASSUME NEW p \in DOMAIN h.table
        PROVE  /\ p \in Roots <=> h.table[p].container = Null
               /\ Home(p) \in BlocksOf(h) =>
                    /\ h.table[p].container \in DOMAIN h.vertex
                    /\ h.vertex[h.table[p].container].addr = Home(p)
               /\ h.table[p].pointed # Null =>
                     /\ h.table[p].pointed # h.table[p].container
                     /\ h.table[p].container # Null =>
                          h.vertex[h.table[p].container].addr \in {Null, Home(p)}
    <3>1. CASE p = s
      <4>1. h.table[p].container = c /\ h.table[p].pointed = Null
        BY <1>3, <3>1
      <4>2. s \in Roots => Home(s) \notin BlocksOf(h)
        BY DEF Home, BlocksOf
      <4>. QED  BY <1>2, <1>3, <3>1, <4>1, <4>2
    <3>2. CASE p # s
      <4>1. p \in DOMAIN g.table /\ h.table[p] = g.table[p]
        BY <1>3, <3>2
      <4>. QED  BY <1>1, <1>3, <1>5, <4>1 DEF WellPlaced
    <3>. QED  BY <3>1, <3>2
  <2>. QED  BY <2>1 DEF WellPlaced
<1>7. \A u \in DOMAIN h.vertex : Released(h, u) \/ IsPointed(h, u)
  BY <1>1, <1>3 DEF Released, IsPointed
<1>8. Placed(h, {})
  BY <1>4, <1>6, <1>7 DEF Placed
<1>9. h.table[s].pointed = Null
  BY <1>3
<1>10. \A p \in DOMAIN h.table : ViewOf(h)[p] = IF p = s THEN Null ELSE ViewOf(g)[p]
  BY <1>3, <1>9 DEF ViewOf
<1>. QED  BY <1>3, <1>5, <1>8, <1>9, <1>10

Added(g, b, h, new) ==
  /\ Placed(h, {new}) /\ h.fault = g.fault /\ h.released = g.released
  /\ new \notin DOMAIN g.vertex /\ h.vertex[new].addr = b
  /\ BlocksOf(h) = BlocksOf(g) \cup {b}
  /\ h.table = g.table /\ ViewOf(h) = ViewOf(g)
  /\ DOMAIN h.vertex = DOMAIN g.vertex \cup {new}

LEMMA AddedView ==
  ASSUME NEW g, Placed(g, {}), NEW b \in Blocks, b \notin BlocksOf(g),
         \A p \in DOMAIN g.table : Home(p) # b,
         NEW h, h = AddRegularVertex(g, b)
  PROVE  \/ h = Faulty(g, "no place for a vertex") /\ Vertices \subseteq DOMAIN g.vertex
         \/ \E new \in DOMAIN h.vertex : Added(g, b, h, new)
<1>1. /\ GraphInv(g) /\ WellPlaced(g) /\ GraphOK(g) /\ EndsExist(g)
      /\ \A u \in DOMAIN g.vertex : Released(g, u) \/ IsPointed(g, u)
  BY DEF Placed, GraphInv, EdgesMatchTable
<1>2. b # Null /\ GetVertex(g, b) = Null
  BY <1>1, NullAssumption, GetVertexFacts
<1>3. CASE Vertices \subseteq DOMAIN g.vertex
  BY <1>2, <1>3 DEF AddRegularVertex
<1>4. CASE ~ (Vertices \subseteq DOMAIN g.vertex)
  <2>. DEFINE new == CHOOSE v \in Vertices : v \notin DOMAIN g.vertex
              fresh == [addr |-> b, edges |-> EmptyBag, out |-> 0]
  <2>1. new \in Vertices /\ new \notin DOMAIN g.vertex
    BY <1>4
  <2>2. h = [g EXCEPT !.vertex = [v \in DOMAIN @ \cup {new} |-> IF v = new THEN fresh ELSE @[v]]]
    BY <1>2, <1>4 DEF AddRegularVertex
  <2>3. fresh.addr = b
    OBVIOUS
  <2>. HIDE DEF new, fresh
  <2>4. /\ h.table = g.table /\ h.fault = g.fault /\ h.released = g.released
        /\ DOMAIN h.vertex = DOMAIN g.vertex \cup {new}
        /\ h.vertex[new].addr = b
        /\ \A u \in DOMAIN g.vertex : h.vertex[u] = g.vertex[u]
    BY <1>1, <2>1, <2>2, <2>3 DEF GraphOK
  <2>6. GraphInv(h) /\ BlocksOf(h) = BlocksOf(g) \cup {b}
    <3>1. \/ h = Faulty(g, "no place for a vertex")
          \/ GraphInv(h) /\ BlocksOf(h) = BlocksOf(g) \cup {b}
      <4>1. GraphInv(g) /\ b \in Blocks /\ b \notin BlocksOf(g) /\ h = AddRegularVertex(g, b)
        BY <1>1
      <4>. QED  BY ONLY <4>1, AddRegularVertexFacts
    <3>2. h.vertex # g.vertex
      BY <2>1, <2>4
    <3>3. Faulty(g, "no place for a vertex").vertex = g.vertex
      BY <1>1, FaultyFacts
    <3>. QED  BY <3>1, <3>2, <3>3
  <2>7. WellPlaced(h)
    <3>1. ASSUME NEW p \in DOMAIN h.table
          PROVE  /\ p \in Roots <=> h.table[p].container = Null
                 /\ Home(p) \in BlocksOf(h) =>
                      /\ h.table[p].container \in DOMAIN h.vertex
                      /\ h.vertex[h.table[p].container].addr = Home(p)
                 /\ h.table[p].pointed # Null =>
                     /\ h.table[p].pointed # h.table[p].container
                     /\ h.table[p].container # Null =>
                          h.vertex[h.table[p].container].addr \in {Null, Home(p)}
      <4>1. p \in DOMAIN g.table /\ h.table[p] = g.table[p] /\ Home(p) # b
        BY <2>4
      <4>2. Home(p) \in BlocksOf(h) => Home(p) \in BlocksOf(g)
        BY <2>6, <4>1
      <4>3. g.table[p].pointed # Null /\ g.table[p].container # Null =>
              g.table[p].container \in DOMAIN g.vertex
        BY <1>1, <4>1, ContainerExists
      <4>. QED  BY <1>1, <2>4, <4>1, <4>2, <4>3 DEF WellPlaced
    <3>. QED  BY <3>1 DEF WellPlaced
  <2>8. \A u \in DOMAIN h.vertex \ {new} : Released(h, u) \/ IsPointed(h, u)
    BY <1>1, <2>4 DEF Released, IsPointed
  <2>9. Placed(h, {new})
    BY <2>6, <2>7, <2>8 DEF Placed
  <2>10. ViewOf(h) = ViewOf(g)
    <3>1. ASSUME NEW p \in DOMAIN g.table, g.table[p].pointed # Null
          PROVE  h.vertex[g.table[p].pointed].addr = g.vertex[g.table[p].pointed].addr
      <4>1. g.table[p].pointed \in DOMAIN g.vertex
        BY <1>1, <3>1, TableFacts DEF EndsExist
      <4>. QED  BY <2>4, <4>1
    <3>. QED  BY <2>4, <3>1 DEF ViewOf
  <2>11. new \in DOMAIN h.vertex
    BY <2>4
  <2>. QED  BY <2>1, <2>4, <2>6, <2>9, <2>10, <2>11 DEF Added
<1>. QED  BY <1>3, <1>4

LEMMA RemovedView ==
  ASSUME NEW g, Placed(g, {}), NEW s \in DOMAIN g.table, g.table[s].pointed = Null,
         NEW h, h = [g EXCEPT !.table = [p \in DOMAIN @ \ {s} |-> @[p]]]
  PROVE  /\ Placed(h, {}) /\ h.fault = g.fault /\ h.released = g.released
         /\ DOMAIN h.table = DOMAIN g.table \ {s} /\ BlocksOf(h) = BlocksOf(g)
         /\ \A p \in DOMAIN h.table : ViewOf(h)[p] = ViewOf(g)[p]
<1>1. /\ GraphInv(g) /\ WellPlaced(g) /\ GraphOK(g)
      /\ \A u \in DOMAIN g.vertex : Released(g, u) \/ IsPointed(g, u)
  BY DEF Placed, GraphInv
<1>2. /\ h.vertex = g.vertex /\ h.fault = g.fault /\ h.released = g.released
      /\ DOMAIN h.table = DOMAIN g.table \ {s}
      /\ \A p \in DOMAIN h.table : h.table[p] = g.table[p]
  BY <1>1 DEF GraphOK
<1>3. GraphInv(h)
  <2>1. Outcome(g, g)
    BY <1>1 DEF Outcome
  <2>2. Outcome(g, h)
    BY <2>1, RemoveFacts
  <2>. QED  BY <2>2 DEF Outcome
<1>4. WellPlaced(h)
  BY <1>1, <1>2 DEF WellPlaced, BlocksOf
<1>5. \A u \in DOMAIN h.vertex : Released(h, u) \/ IsPointed(h, u)
  <2>1. \A u \in DOMAIN g.vertex : u # Null
    BY <1>1, VertexFacts
  <2>. QED  BY <1>1, <1>2, <2>1 DEF Released, IsPointed
<1>6. Placed(h, {})
  BY <1>3, <1>4, <1>5 DEF Placed
<1>. QED  BY <1>2, <1>6 DEF ViewOf, BlocksOf

(* A pointer that can be reached does not need itself for that. *)
LEMMA ReachedWithout ==
  ASSUME NEW v, IsView(v), NEW s, Home(s) # Null
  PROVE  Home(s) \in Reach(v) => Home(s) \in Reach(Without(v, s))
<1>. DEFINE R == Reach(Without(v, s))
<1>1. /\ IsView(Without(v, s)) /\ DOMAIN Without(v, s) = DOMAIN v \ {s}
      /\ \A p \in DOMAIN v \ {s} : Without(v, s)[p] = v[p]
  BY WithoutFacts
<1>2. R \in SUBSET Blocks /\ Closed(Without(v, s), R)
  BY <1>1, ReachClosed
<1>3. SUFFICES ASSUME Home(s) \notin R PROVE Reach(v) \subseteq R
  OBVIOUS
<1>4. Closed(v, R)
  BY <1>1, <1>2, <1>3 DEF Closed
<1>. QED  BY <1>2, <1>4, ReachLeast

(* A pointer that can be reached gets another reference. *)
LEMMA ResetView ==
  ASSUME NEW g, NEW W, Placed(g, W), NEW s \in DOMAIN g.table, Reaches(ViewOf(g), s),
         NEW unmade, NEW b, Unmade(g, s, W, unmade, b),
         NEW v \in DOMAIN unmade.vertex, g.vertex[v].addr # Null => g.vertex[v].addr # Home(s),
         NEW h, h = MakeReference(unmade, s, v)
  PROVE  /\ Placed(h, Less(W, v)) /\ h.fault = g.fault /\ h.released = unmade.released
         /\ DOMAIN h.table = DOMAIN g.table /\ BlocksOf(h) = BlocksOf(g) \ {b}
         /\ ViewOf(h)[s] = IF g.vertex[v].addr = b THEN Null ELSE g.vertex[v].addr
         /\ \A p \in DOMAIN g.table : p # s =>
              ViewOf(h)[p] = IF ViewOf(g)[p] = b THEN Null ELSE ViewOf(g)[p]
<1>1. /\ Placed(unmade, W) /\ unmade.fault = g.fault
      /\ SameBut(g, s, unmade) /\ unmade.table[s].pointed = Null
      /\ \A u \in DOMAIN unmade.vertex :
           unmade.vertex[u].addr = IF g.vertex[u].addr = b THEN Null ELSE g.vertex[u].addr
      /\ BlocksOf(unmade) = BlocksOf(g) \ {b}
      /\ b \notin Reach(Without(ViewOf(g), s))
      /\ \A p \in DOMAIN g.table :
           ViewOf(unmade)[p] = IF p = s \/ ViewOf(g)[p] = b THEN Null ELSE ViewOf(g)[p]
  BY DEF Unmade
<1>2. /\ GraphOK(g) /\ EndsExist(g) /\ WellPlaced(unmade) /\ s \in DOMAIN unmade.table
      /\ DOMAIN unmade.table = DOMAIN g.table
  BY <1>1 DEF Placed, GraphInv, EdgesMatchTable, SameBut
<1>3. /\ IsView(ViewOf(g)) /\ Reach(ViewOf(g)) \subseteq BlocksOf(g) /\ s \in Sptrs
  BY <1>2, ViewFacts, TableFacts
<1>4. s \in Roots \/ Home(s) \in BlocksOf(unmade)
  <2>1. CASE Home(s) = Null
    BY <1>3, <2>1, RootFacts
  <2>2. CASE Home(s) # Null
    <3>1. Home(s) \in Reach(ViewOf(g))
      BY <2>2 DEF Reaches
    <3>2. Home(s) \in Reach(Without(ViewOf(g), s))
      BY <1>3, <2>2, <3>1, ReachedWithout
    <3>. QED  BY <1>1, <1>3, <3>1, <3>2
  <2>. QED  BY <2>1, <2>2
<1>5. v # unmade.table[s].container
  <2>1. CASE s \in Roots
    <3>1. unmade.table[s].container = Null
      BY <1>2, <2>1 DEF WellPlaced
    <3>2. v # Null
      BY <1>1, VertexFacts DEF Placed, GraphInv
    <3>. QED  BY <3>1, <3>2
  <2>2. CASE Home(s) \in BlocksOf(unmade)
    <3>1. unmade.vertex[unmade.table[s].container].addr = Home(s)
      BY <1>2, <2>2 DEF WellPlaced
    <3>2. Home(s) # Null
      BY <2>2 DEF BlocksOf
    <3>3. unmade.vertex[v].addr # Home(s)
      BY <1>1, <3>2
    <3>. QED  BY <3>1, <3>3
  <2>. QED  BY <1>4, <2>1, <2>2
<1>6. /\ Placed(h, Less(W, v)) /\ h.fault = unmade.fault /\ h.released = unmade.released
      /\ SameBut(unmade, s, h) /\ BlocksOf(h) = BlocksOf(unmade)
      /\ ViewOf(h)[s] = unmade.vertex[v].addr
      /\ \A p \in DOMAIN unmade.table : p # s => ViewOf(h)[p] = ViewOf(unmade)[p]
  <2>1. /\ Placed(unmade, W) /\ s \in DOMAIN unmade.table /\ unmade.table[s].pointed = Null
        /\ v \in DOMAIN unmade.vertex /\ v # unmade.table[s].container
        /\ s \in Roots \/ Home(s) \in BlocksOf(unmade)
        /\ h = MakeReference(unmade, s, v)
    BY <1>1, <1>2, <1>4, <1>5
  <2>. QED  BY ONLY <2>1, MadeView
<1>. QED  BY <1>1, <1>2, <1>6 DEF SameBut

(* The blocks of the graph after a message.                                *)
Known(g, m, b) ==
  (IF m.type = "NewObject" THEN BlocksOf(g) \cup {m.block} ELSE BlocksOf(g)) \ {b}

(* What a message does to the graph, b being the block that is released.   *)
Executed(g, m, h, b) ==
  /\ Placed(h, {}) /\ h.fault = {}
  /\ b \notin Reach(Without(ViewOf(g), m.sptr)) /\ Spared(g, m.sptr, b)
  /\ BlocksOf(h) = Known(g, m, b)
  /\ m.type = "NewObject" => b # m.block
  /\ IF b = Null THEN h.released = NoRelease
     ELSE /\ h.released = [block |-> b, dtion |-> m.type # "AbortedObject"]
          /\ m.sptr \in DOMAIN ViewOf(g) /\ b = ViewOf(g)[m.sptr]
  /\ ViewOf(h) = Purged(After(ViewOf(g), m), b)

IsMap(w) == w = [s \in DOMAIN w |-> w[s]]

LEMMA PurgedAfter ==
  ASSUME NEW v, NEW m, NEW b, NEW w, IsMap(w),
         DOMAIN w = DOMAIN After(v, m),
         \A s \in DOMAIN w :
           /\ s = m.sptr => w[s] = IF NewTarget(v, m) = b THEN Null ELSE NewTarget(v, m)
           /\ s # m.sptr => w[s] = IF v[s] = b THEN Null ELSE v[s]
  PROVE  w = Purged(After(v, m), b)
<1>. DEFINE a == After(v, m)
<1>1. DOMAIN a = DOMAIN w /\ \A s \in DOMAIN w : a[s] = IF s = m.sptr THEN NewTarget(v, m) ELSE v[s]
  BY DEF After
<1>2. Purged(a, b) = [s \in DOMAIN w |-> IF a[s] = b THEN Null ELSE a[s]]
  BY <1>1 DEF Purged
<1>. HIDE DEF a
<1>3. \A s \in DOMAIN w : w[s] = IF a[s] = b THEN Null ELSE a[s]
  BY <1>1
<1>4. Purged(a, b) = [s \in DOMAIN w |-> w[s]]
  BY <1>2, <1>3
<1>. QED  BY <1>4 DEF a, IsMap

LEMMA ViewIsMap == \A g : IsMap(ViewOf(g)) /\ DOMAIN ViewOf(g) = DOMAIN g.table
BY DEF ViewOf, IsMap

(* A graph from which a message may start. *)
Starts(g, m) ==
  /\ Placed(g, {}) /\ g.fault = {} /\ g.released = NoRelease
  /\ OneKeeper(ViewOf(g)) /\ OneKeeper(After(ViewOf(g), m))
  /\ m \in Messages /\ Allowed(ViewOf(g), m)

LEMMA StartFacts ==
  ASSUME NEW g, NEW m, Starts(g, m)
  PROVE  /\ Placed(g, {}) /\ g.fault = {} /\ g.released = NoRelease /\ OneKeeper(ViewOf(g))
         /\ GraphOK(g) /\ EndsExist(g) /\ GraphInv(g) /\ WellPlaced(g)
         /\ IsView(ViewOf(g)) /\ DOMAIN ViewOf(g) = DOMAIN g.table
         /\ \A s \in DOMAIN g.table :
              /\ g.table[s].pointed = Null => ViewOf(g)[s] = Null
              /\ g.table[s].pointed # Null =>
                   /\ g.table[s].pointed \in DOMAIN g.vertex
                   /\ ViewOf(g)[s] = g.vertex[g.table[s].pointed].addr
         /\ BlocksOf(g) \subseteq Blocks /\ Reach(ViewOf(g)) \subseteq BlocksOf(g)
         /\ m.sptr \in Sptrs
         /\ m.type \in Registering <=> m.sptr \notin DOMAIN g.table
         /\ Null \notin Reach(Without(ViewOf(g), m.sptr))
<1>1. /\ Placed(g, {}) /\ g.fault = {} /\ g.released = NoRelease /\ OneKeeper(ViewOf(g))
      /\ m \in Messages /\ Allowed(ViewOf(g), m)
  BY DEF Starts
<1>2. GraphOK(g) /\ EndsExist(g) /\ GraphInv(g) /\ WellPlaced(g)
  BY <1>1 DEF Placed, GraphInv, EdgesMatchTable
<1>3. /\ IsView(ViewOf(g)) /\ DOMAIN ViewOf(g) = DOMAIN g.table
      /\ \A s \in DOMAIN g.table :
              /\ g.table[s].pointed = Null => ViewOf(g)[s] = Null
              /\ g.table[s].pointed # Null =>
                   /\ g.table[s].pointed \in DOMAIN g.vertex
                   /\ ViewOf(g)[s] = g.vertex[g.table[s].pointed].addr
      /\ BlocksOf(g) \subseteq Blocks /\ Reach(ViewOf(g)) \subseteq BlocksOf(g)
  BY <1>2, ViewFacts
<1>4. m.sptr \in Sptrs
  BY <1>1, MessageTypes
<1>5. m.type \in Registering <=> m.sptr \notin DOMAIN g.table
  BY <1>1, <1>3 DEF Allowed
<1>6. Null \notin Reach(Without(ViewOf(g), m.sptr))
  BY NullAssumption DEF Reach
<1>. QED  BY <1>1, <1>2, <1>3, <1>4, <1>5, <1>6

(* The pointer of the message is made null. *)
LEMMA NulledView ==
  ASSUME NEW g, NEW m, Starts(g, m), m.type \in {"AbortedObject", "ReferenceRelease"},
         NEW h, h = UnmakeReference(g, m.sptr, m.type # "AbortedObject")
  PROVE  \E b \in Blocks \cup {Null} : Executed(g, m, h, b)
<1>1. /\ Placed(g, {}) /\ g.fault = {} /\ g.released = NoRelease /\ OneKeeper(ViewOf(g))
      /\ DOMAIN ViewOf(g) = DOMAIN g.table /\ m.sptr \in DOMAIN g.table
  BY StartFacts DEF Registering
<1>. DEFINE a == m.type # "AbortedObject"
<1>2. a \in BOOLEAN
  OBVIOUS
<1>3. h = UnmakeReference(g, m.sptr, a)
  OBVIOUS
<1>. HIDE DEF a
<1>4. PICK b \in Blocks \cup {Null} : Unmade(g, m.sptr, {}, h, b) /\ Gives(g, m.sptr, a, h, b)
  BY <1>1, <1>2, <1>3, UnmadeView
<1>5. /\ Placed(h, {}) /\ h.fault = {}
      /\ b \notin Reach(Without(ViewOf(g), m.sptr)) /\ Spared(g, m.sptr, b)
      /\ BlocksOf(h) = BlocksOf(g) \ {b}
      /\ DOMAIN h.table = DOMAIN g.table
      /\ \A p \in DOMAIN g.table :
           ViewOf(h)[p] = IF p = m.sptr \/ ViewOf(g)[p] = b THEN Null ELSE ViewOf(g)[p]
  BY <1>1, <1>4 DEF Unmade, SameBut
<1>6. NewTarget(ViewOf(g), m) = Null
  BY DEF NewTarget
<1>7. ViewOf(h) = Purged(After(ViewOf(g), m), b)
  <2>1. /\ IsMap(ViewOf(h))
        /\ DOMAIN ViewOf(h) = DOMAIN ViewOf(g) /\ m.sptr \in DOMAIN ViewOf(g)
    BY <1>1, <1>5, ViewIsMap
  <2>2. DOMAIN ViewOf(h) = DOMAIN After(ViewOf(g), m)
    BY <2>1 DEF After
  <2>3. \A s \in DOMAIN ViewOf(h) :
          /\ s = m.sptr =>
               ViewOf(h)[s] = IF NewTarget(ViewOf(g), m) = b THEN Null ELSE NewTarget(ViewOf(g), m)
          /\ s # m.sptr => ViewOf(h)[s] = IF ViewOf(g)[s] = b THEN Null ELSE ViewOf(g)[s]
    BY <1>1, <1>5, <1>6, <2>1
  <2>. QED  BY ONLY <2>1, <2>2, <2>3, PurgedAfter
<1>8. IF b = Null THEN h.released = NoRelease
      ELSE /\ h.released = [block |-> b, dtion |-> m.type # "AbortedObject"]
           /\ m.sptr \in DOMAIN ViewOf(g) /\ b = ViewOf(g)[m.sptr]
  BY <1>1, <1>4 DEF Gives, a
<1>. QED  BY <1>5, <1>7, <1>8 DEF Executed, Known

LEMMA UnregisteredView ==
  ASSUME NEW g, NEW m, Starts(g, m), m.type = "SptrUnregistration",
         NEW h, h = RemovePointer(g, m.sptr)
  PROVE  \E b \in Blocks \cup {Null} : Executed(g, m, h, b)
<1>1. /\ Placed(g, {}) /\ g.fault = {} /\ g.released = NoRelease /\ OneKeeper(ViewOf(g))
      /\ DOMAIN ViewOf(g) = DOMAIN g.table /\ m.sptr \in DOMAIN g.table
  BY StartFacts DEF Registering
<1>. DEFINE k == UnmakeReference(g, m.sptr, TRUE)
<1>2. h = [k EXCEPT !.table = [p \in DOMAIN @ \ {m.sptr} |-> @[p]]]
  BY <1>1 DEF RemovePointer
<1>3. k = UnmakeReference(g, m.sptr, TRUE)
  OBVIOUS
<1>. HIDE DEF k
<1>4. PICK b \in Blocks \cup {Null} : Unmade(g, m.sptr, {}, k, b) /\ Gives(g, m.sptr, TRUE, k, b)
  BY <1>1, <1>3, UnmadeView
<1>5. /\ Placed(k, {}) /\ k.fault = {} /\ k.table[m.sptr].pointed = Null
      /\ b \notin Reach(Without(ViewOf(g), m.sptr)) /\ Spared(g, m.sptr, b)
      /\ BlocksOf(k) = BlocksOf(g) \ {b}
      /\ DOMAIN k.table = DOMAIN g.table
      /\ \A p \in DOMAIN g.table :
           ViewOf(k)[p] = IF p = m.sptr \/ ViewOf(g)[p] = b THEN Null ELSE ViewOf(g)[p]
  BY <1>1, <1>4 DEF Unmade, SameBut
<1>6. /\ Placed(h, {}) /\ h.fault = k.fault /\ h.released = k.released
      /\ DOMAIN h.table = DOMAIN k.table \ {m.sptr} /\ BlocksOf(h) = BlocksOf(k)
      /\ \A p \in DOMAIN h.table : ViewOf(h)[p] = ViewOf(k)[p]
  <2>1. Placed(k, {}) /\ m.sptr \in DOMAIN k.table /\ k.table[m.sptr].pointed = Null
    BY <1>1, <1>5
  <2>. QED  BY ONLY <1>2, <2>1, RemovedView
<1>7. ViewOf(h) = Purged(After(ViewOf(g), m), b)
  <2>1. /\ IsMap(ViewOf(h))
        /\ DOMAIN ViewOf(h) = DOMAIN ViewOf(g) \ {m.sptr}
    BY <1>1, <1>5, <1>6, ViewIsMap
  <2>2. DOMAIN ViewOf(h) = DOMAIN After(ViewOf(g), m)
    BY <2>1 DEF After
  <2>3. \A s \in DOMAIN ViewOf(h) :
          /\ s = m.sptr =>
               ViewOf(h)[s] = IF NewTarget(ViewOf(g), m) = b THEN Null ELSE NewTarget(ViewOf(g), m)
          /\ s # m.sptr => ViewOf(h)[s] = IF ViewOf(g)[s] = b THEN Null ELSE ViewOf(g)[s]
    BY <1>1, <1>5, <1>6, <2>1
  <2>. QED  BY ONLY <2>1, <2>2, <2>3, PurgedAfter
<1>8. IF b = Null THEN h.released = NoRelease
      ELSE /\ h.released = [block |-> b, dtion |-> m.type # "AbortedObject"]
           /\ m.sptr \in DOMAIN ViewOf(g) /\ b = ViewOf(g)[m.sptr]
  BY <1>1, <1>4, <1>6 DEF Gives
<1>. QED  BY <1>5, <1>6, <1>7, <1>8 DEF Executed, Known

LEMMA RegisteredView ==
  ASSUME NEW g, NEW m, Starts(g, m), m.type = "SptrRegistration",
         NEW h, h = AddPointer(g, m.sptr)
  PROVE  Executed(g, m, h, Null)
<1>1. /\ Placed(g, {}) /\ g.fault = {} /\ g.released = NoRelease
      /\ DOMAIN ViewOf(g) = DOMAIN g.table /\ m.sptr \in Sptrs /\ m.sptr \notin DOMAIN g.table
      /\ Reach(ViewOf(g)) \subseteq BlocksOf(g)
      /\ Null \notin Reach(Without(ViewOf(g), m.sptr))
  BY StartFacts DEF Registering
<1>2. h = InsertPointer(g, m.sptr)
  BY <1>1 DEF AddPointer
<1>3. m.sptr \in Roots \/ Home(m.sptr) \in BlocksOf(g)
  <2>1. Reaches(ViewOf(g), m.sptr)
    BY DEF Starts, Allowed, Registering
  <2>. QED  BY <1>1, <2>1, RootFacts DEF Reaches
<1>4. /\ Placed(h, {}) /\ h.fault = g.fault /\ h.released = g.released
      /\ DOMAIN h.table = DOMAIN g.table \cup {m.sptr} /\ BlocksOf(h) = BlocksOf(g)
      /\ \A p \in DOMAIN h.table : ViewOf(h)[p] = IF p = m.sptr THEN Null ELSE ViewOf(g)[p]
  BY <1>1, <1>2, <1>3, InsertedView
<1>5. ViewOf(h) = Purged(After(ViewOf(g), m), Null)
  <2>1. IsMap(ViewOf(h)) /\ DOMAIN ViewOf(h) = DOMAIN h.table
    BY ViewIsMap
  <2>2. DOMAIN ViewOf(h) = DOMAIN After(ViewOf(g), m)
    BY <1>1, <1>4, <2>1 DEF After
  <2>3. NewTarget(ViewOf(g), m) = Null
    BY DEF NewTarget
  <2>4. \A s \in DOMAIN ViewOf(h) :
          /\ s = m.sptr =>
               ViewOf(h)[s] = IF NewTarget(ViewOf(g), m) = Null THEN Null ELSE NewTarget(ViewOf(g), m)
          /\ s # m.sptr => ViewOf(h)[s] = IF ViewOf(g)[s] = Null THEN Null ELSE ViewOf(g)[s]
    BY <1>4, <2>1, <2>3
  <2>. QED  BY ONLY <2>1, <2>2, <2>4, PurgedAfter
<1>6. BlocksOf(h) = Known(g, m, Null) /\ Spared(g, m.sptr, Null)
  BY <1>1, <1>4 DEF Known, BlocksOf, Spared
<1>. QED  BY <1>1, <1>4, <1>5, <1>6 DEF Executed

LEMMA CopiedView ==
  ASSUME NEW g, NEW m, Starts(g, m), m.type = "SptrCopyRegistration",
         NEW h, h = AddPointerOnCopy(g, m.sptr, m.other)
  PROVE  Executed(g, m, h, Null)
<1>. DEFINE V == ViewOf(g)
            v == g.table[m.other].pointed
            k == InsertPointer(g, m.sptr)
<1>1. /\ Placed(g, {}) /\ g.fault = {} /\ g.released = NoRelease
      /\ DOMAIN V = DOMAIN g.table /\ m.sptr \in Sptrs /\ m.sptr \notin DOMAIN g.table
      /\ Reach(V) \subseteq BlocksOf(g)
      /\ Null \notin Reach(Without(V, m.sptr))
      /\ \A s \in DOMAIN g.table :
              /\ g.table[s].pointed = Null => V[s] = Null
              /\ g.table[s].pointed # Null =>
                   g.table[s].pointed \in DOMAIN g.vertex /\ V[s] = g.vertex[g.table[s].pointed].addr
  BY StartFacts DEF Registering
<1>2. m.other \in DOMAIN g.table /\ m.other # m.sptr
  BY <1>1 DEF Starts, Allowed, Copying
<1>3. h = IF v = Null THEN k ELSE MakeReference(k, m.sptr, v)
  BY <1>1, <1>2 DEF AddPointerOnCopy
<1>4. m.sptr \in Roots \/ Home(m.sptr) \in BlocksOf(g)
  <2>1. Reaches(V, m.sptr)
    BY DEF Starts, Allowed, Registering
  <2>. QED  BY <1>1, <2>1, RootFacts DEF Reaches
<1>5. /\ Placed(k, {}) /\ k.fault = g.fault /\ k.released = g.released /\ k.vertex = g.vertex
      /\ DOMAIN k.table = DOMAIN g.table \cup {m.sptr} /\ k.table[m.sptr].pointed = Null
      /\ BlocksOf(k) = BlocksOf(g)
      /\ \A p \in DOMAIN k.table : ViewOf(k)[p] = IF p = m.sptr THEN Null ELSE V[p]
  BY <1>1, <1>4, InsertedView
<1>6. NewTarget(V, m) = V[m.other]
  BY DEF NewTarget
<1>. HIDE DEF k, v, V
<1>9. Spared(g, m.sptr, Null) /\ \A n : BlocksOf(n) = BlocksOf(g) => BlocksOf(n) = Known(g, m, Null)
  BY <1>1 DEF Known, BlocksOf, Spared, V
<1>7. CASE v = Null
  <2>1. h = k /\ V[m.other] = Null
    BY <1>1, <1>2, <1>3, <1>7 DEF v
  <2>2. V = ViewOf(g)
    BY DEF V
  <2>3. IsMap(ViewOf(h)) /\ DOMAIN ViewOf(h) = DOMAIN h.table
    BY ViewIsMap
  <2>4. DOMAIN ViewOf(h) = DOMAIN After(V, m)
    BY <1>1, <1>5, <2>1, <2>3 DEF After
  <2>5. \A s \in DOMAIN ViewOf(h) :
          /\ s = m.sptr => ViewOf(h)[s] = IF NewTarget(V, m) = Null THEN Null ELSE NewTarget(V, m)
          /\ s # m.sptr => ViewOf(h)[s] = IF V[s] = Null THEN Null ELSE V[s]
    BY <1>5, <1>6, <2>1, <2>3
  <2>6. ViewOf(h) = Purged(After(V, m), Null)
    BY ONLY <2>3, <2>4, <2>5, PurgedAfter
  <2>. QED  BY <1>1, <1>5, <1>9, <2>1, <2>6 DEF Executed, V
<1>8. CASE v # Null
  <2>1. h = MakeReference(k, m.sptr, v) /\ v \in DOMAIN k.vertex /\ V[m.other] = g.vertex[v].addr
    BY <1>1, <1>2, <1>3, <1>5, <1>8 DEF v
  <2>2. m.sptr \in DOMAIN k.table
    BY <1>5
  <2>3. m.sptr \in Roots \/ Home(m.sptr) \in BlocksOf(k)
    BY <1>4, <1>5 DEF BlocksOf
  <2>4. Home(m.sptr) # Null => V[m.other] # Home(m.sptr)
    <3>1. /\ m.sptr \in DOMAIN After(V, m) /\ After(V, m)[m.sptr] = V[m.other]
      BY <1>6 DEF After
    <3>2. OneKeeper(After(V, m))
      BY DEF Starts, V
    <3>. QED  BY <3>1, <3>2 DEF OneKeeper
  <2>5. v # k.table[m.sptr].container
    <3>1. WellPlaced(k) /\ GraphOK(k)
      BY <1>5 DEF Placed, GraphInv
    <3>2. CASE m.sptr \in Roots
      <4>1. k.table[m.sptr].container = Null
        BY <2>2, <3>1, <3>2 DEF WellPlaced
      <4>2. v # Null
        BY <1>8
      <4>. QED  BY <4>1, <4>2
    <3>3. CASE Home(m.sptr) \in BlocksOf(k)
      <4>1. k.vertex[k.table[m.sptr].container].addr = Home(m.sptr)
        BY <2>2, <3>1, <3>3 DEF WellPlaced
      <4>2. Home(m.sptr) # Null
        BY <3>3 DEF BlocksOf
      <4>. QED  BY <1>5, <2>1, <2>4, <4>1, <4>2
    <3>. QED  BY <2>3, <3>2, <3>3
  <2>6. /\ Placed(h, Less({}, v)) /\ h.fault = k.fault /\ h.released = k.released
        /\ SameBut(k, m.sptr, h) /\ BlocksOf(h) = BlocksOf(k)
        /\ ViewOf(h)[m.sptr] = k.vertex[v].addr
        /\ \A p \in DOMAIN k.table : p # m.sptr => ViewOf(h)[p] = ViewOf(k)[p]
    <3>1. Placed(k, {}) /\ k.table[m.sptr].pointed = Null
      BY <1>5
    <3>. QED  BY ONLY <2>1, <2>2, <2>3, <2>5, <3>1, MadeView
  <2>7. Placed(h, {})
    <3>1. Less({}, v) = {}
      BY DEF Less
    <3>. QED  BY ONLY <2>6, <3>1
  <2>8. IsMap(ViewOf(h)) /\ DOMAIN ViewOf(h) = DOMAIN h.table
    BY ViewIsMap
  <2>9. DOMAIN ViewOf(h) = DOMAIN g.table \cup {m.sptr}
    BY <1>5, <2>6, <2>8 DEF SameBut
  <2>10. DOMAIN ViewOf(h) = DOMAIN After(V, m)
    BY <1>1, <2>9 DEF After
  <2>11. \A s \in DOMAIN ViewOf(h) :
          /\ s = m.sptr => ViewOf(h)[s] = IF NewTarget(V, m) = Null THEN Null ELSE NewTarget(V, m)
          /\ s # m.sptr => ViewOf(h)[s] = IF V[s] = Null THEN Null ELSE V[s]
    BY <1>5, <1>6, <2>1, <2>6, <2>9
  <2>12. ViewOf(h) = Purged(After(V, m), Null)
    BY ONLY <2>8, <2>10, <2>11, PurgedAfter
  <2>. QED  BY <1>1, <1>5, <1>9, <2>6, <2>7, <2>12 DEF Executed, V
<1>. QED  BY <1>7, <1>8

LEMMA AssignedView ==
  ASSUME NEW g, NEW m, Starts(g, m), m.type = "ReferenceUpdate",
         NEW h, h = ResetPointerLike(g, m.sptr, m.other)
  PROVE  \E b \in Blocks \cup {Null} : Executed(g, m, h, b)
<1>. DEFINE V == ViewOf(g)
            v == g.table[m.other].pointed
            k == UnmakeReference(g, m.sptr, TRUE)
            a == m.type # "AbortedObject"
<1>1. /\ Placed(g, {}) /\ g.fault = {} /\ g.released = NoRelease /\ OneKeeper(V)
      /\ IsView(V) /\ DOMAIN V = DOMAIN g.table /\ m.sptr \in DOMAIN g.table
      /\ \A s \in DOMAIN g.table :
              /\ g.table[s].pointed = Null => V[s] = Null
              /\ g.table[s].pointed # Null =>
                   g.table[s].pointed \in DOMAIN g.vertex /\ V[s] = g.vertex[g.table[s].pointed].addr
  BY StartFacts DEF Registering
<1>2. m.other \in DOMAIN g.table /\ m.other # m.sptr /\ Reaches(Without(V, m.sptr), m.other)
  BY <1>1 DEF Starts, Allowed, Copying
<1>3. h = IF v = Null THEN k ELSE MakeReference(k, m.sptr, v)
  BY <1>1, <1>2 DEF ResetPointerLike
<1>4. Reaches(V, m.sptr)
  BY DEF Starts, Allowed, Copying
<1>5. NewTarget(V, m) = V[m.other]
  BY DEF NewTarget
<1>6. k = UnmakeReference(g, m.sptr, TRUE)
  OBVIOUS
<1>. HIDE DEF k
<1>7. PICK b \in Blocks \cup {Null} : Unmade(g, m.sptr, {}, k, b) /\ Gives(g, m.sptr, TRUE, k, b)
  BY <1>1, <1>6, UnmadeView
<1>8. /\ Placed(k, {}) /\ k.fault = {}
      /\ b \notin Reach(Without(V, m.sptr)) /\ Spared(g, m.sptr, b)
      /\ BlocksOf(k) = BlocksOf(g) \ {b}
      /\ DOMAIN k.table = DOMAIN g.table /\ k.table[m.other] = g.table[m.other]
      /\ DOMAIN k.vertex \subseteq DOMAIN g.vertex
      /\ \A p \in DOMAIN g.table : ViewOf(k)[p] = IF p = m.sptr \/ V[p] = b THEN Null ELSE V[p]
  BY <1>1, <1>2, <1>7 DEF Unmade, SameBut
<1>9. V[m.other] # b \/ b = Null
  <2>1. V[m.other] = Null \/ V[m.other] \in Reach(Without(V, m.sptr))
    <3>1. /\ IsView(Without(V, m.sptr)) /\ m.other \in DOMAIN Without(V, m.sptr)
          /\ Without(V, m.sptr)[m.other] = V[m.other]
      <4>1. IsView(Without(V, m.sptr))
        BY <1>1, WithoutFacts
      <4>. QED  BY <1>1, <1>2, <4>1 DEF Without
    <3>2. Closed(Without(V, m.sptr), Reach(Without(V, m.sptr)))
      BY <3>1, ReachClosed
    <3>. QED  BY <1>2, <3>1, <3>2 DEF Closed, Reaches
  <2>. QED  BY <1>8, <2>1
<1>10. IF b = Null THEN k.released = NoRelease
       ELSE /\ k.released = [block |-> b, dtion |-> a]
            /\ m.sptr \in DOMAIN V /\ b = V[m.sptr]
  BY <1>1, <1>7 DEF Gives
<1>. HIDE DEF v, V, a
<1>11. ASSUME Placed(h, {}), h.fault = {}, h.released = k.released, DOMAIN h.table = DOMAIN g.table,
              BlocksOf(h) = BlocksOf(g) \ {b},
              \A p \in DOMAIN g.table :
                /\ p = m.sptr => ViewOf(h)[p] = V[m.other]
                /\ p # m.sptr => ViewOf(h)[p] = IF V[p] = b THEN Null ELSE V[p]
       PROVE  Executed(g, m, h, b)
  <2>1. IsMap(ViewOf(h)) /\ DOMAIN ViewOf(h) = DOMAIN g.table
    BY <1>11, ViewIsMap
  <2>2. DOMAIN ViewOf(h) = DOMAIN After(V, m)
    BY <1>1, <2>1 DEF After
  <2>3. \A s \in DOMAIN ViewOf(h) :
          /\ s = m.sptr => ViewOf(h)[s] = IF NewTarget(V, m) = b THEN Null ELSE NewTarget(V, m)
          /\ s # m.sptr => ViewOf(h)[s] = IF V[s] = b THEN Null ELSE V[s]
    BY <1>5, <1>9, <1>11, <2>1
  <2>4. ViewOf(h) = Purged(After(V, m), b)
    BY ONLY <2>1, <2>2, <2>3, PurgedAfter
  <2>. QED  BY <1>8, <1>10, <1>11, <2>4 DEF Executed, Known, V, a
<1>12. CASE v = Null
  <2>1. h = k /\ V[m.other] = Null
    BY <1>1, <1>2, <1>3, <1>12 DEF v
  <2>2. \A p \in DOMAIN g.table :
          /\ p = m.sptr => ViewOf(h)[p] = V[m.other]
          /\ p # m.sptr => ViewOf(h)[p] = IF V[p] = b THEN Null ELSE V[p]
    BY <1>8, <2>1
  <2>. QED  BY <1>8, <1>11, <2>1, <2>2
<1>13. CASE v # Null
  <2>1. h = MakeReference(k, m.sptr, v) /\ V[m.other] = g.vertex[v].addr
    BY <1>1, <1>2, <1>3, <1>13 DEF v
  <2>2. v \in DOMAIN k.vertex
    <3>1. GraphOK(k) /\ EndsExist(k) /\ k.table[m.other].pointed = v /\ m.other \in DOMAIN k.table
      BY <1>2, <1>8 DEF Placed, GraphInv, EdgesMatchTable, v
    <3>. QED  BY <1>13, <3>1, TableFacts DEF EndsExist
  <2>3. g.vertex[v].addr # Null => g.vertex[v].addr # Home(m.sptr)
    <3>1. m.sptr \in DOMAIN After(V, m) /\ After(V, m)[m.sptr] = V[m.other]
      BY <1>5 DEF After
    <3>2. OneKeeper(After(V, m))
      BY DEF Starts, V
    <3>. QED  BY <2>1, <3>1, <3>2 DEF OneKeeper
  <2>4. /\ Placed(h, Less({}, v)) /\ h.fault = g.fault /\ h.released = k.released
        /\ DOMAIN h.table = DOMAIN g.table /\ BlocksOf(h) = BlocksOf(g) \ {b}
        /\ ViewOf(h)[m.sptr] = IF g.vertex[v].addr = b THEN Null ELSE g.vertex[v].addr
        /\ \A p \in DOMAIN g.table : p # m.sptr =>
             ViewOf(h)[p] = IF V[p] = b THEN Null ELSE V[p]
    <3>1. /\ Placed(g, {}) /\ m.sptr \in DOMAIN g.table /\ Reaches(ViewOf(g), m.sptr)
          /\ Unmade(g, m.sptr, {}, k, b) /\ v \in DOMAIN k.vertex
          /\ g.vertex[v].addr # Null => g.vertex[v].addr # Home(m.sptr)
          /\ h = MakeReference(k, m.sptr, v) /\ V = ViewOf(g)
      BY <1>1, <1>4, <1>7, <2>1, <2>2, <2>3 DEF V
    <3>. QED  BY ONLY <3>1, ResetView
  <2>5. Placed(h, {})
    <3>1. Less({}, v) = {}
      BY DEF Less
    <3>. QED  BY ONLY <2>4, <3>1
  <2>6. \A p \in DOMAIN g.table :
          /\ p = m.sptr => ViewOf(h)[p] = V[m.other]
          /\ p # m.sptr => ViewOf(h)[p] = IF V[p] = b THEN Null ELSE V[p]
    BY <1>9, <2>1, <2>4
  <2>. QED  BY <1>1, <1>11, <2>4, <2>5, <2>6
<1>. QED  BY <1>12, <1>13

LEMMA AnnouncedView ==
  ASSUME NEW g, NEW m, Starts(g, m), m.type = "NewObject", m.block \notin BlocksOf(g),
         NEW k, k = AddRegularVertex(g, m.block), k.fault = {},
         NEW h, h = ResetPointerTo(k, m.sptr, m.block, TRUE)
  PROVE  \E b \in Blocks \cup {Null} : Executed(g, m, h, b)
<1>. DEFINE V == ViewOf(g)
            c == m.block
            a == m.type # "AbortedObject"
            j == UnmakeReference(k, m.sptr, TRUE)
            v == GetVertex(j, c)
<1>1. /\ Placed(g, {}) /\ g.fault = {} /\ g.released = NoRelease /\ OneKeeper(V)
      /\ GraphOK(g) /\ WellPlaced(g)
      /\ IsView(V) /\ DOMAIN V = DOMAIN g.table /\ m.sptr \in DOMAIN g.table /\ m.sptr \in Sptrs
      /\ Reach(V) \subseteq BlocksOf(g)
      /\ \A s \in DOMAIN g.table : V[s] # Null => V[s] \in BlocksOf(g)
  BY StartFacts, ViewFacts DEF Registering
<1>2. c \in Blocks /\ c # Null /\ c \notin BlocksOf(g)
  BY MessageTypes, NullAssumption DEF Starts
<1>3. /\ Reaches(V, m.sptr) /\ \A s \in DOMAIN g.table : Home(s) # c
  BY <1>1 DEF Starts, Allowed
<1>4. GraphOK(g) => Faulty(g, "no place for a vertex").fault # {}
  BY FaultyFacts
<1>5. PICK new \in DOMAIN k.vertex :
        /\ Placed(k, {new}) /\ k.fault = g.fault /\ k.released = g.released
        /\ new \notin DOMAIN g.vertex /\ k.vertex[new].addr = c
        /\ BlocksOf(k) = BlocksOf(g) \cup {c}
        /\ k.table = g.table /\ ViewOf(k) = V
        /\ DOMAIN k.vertex = DOMAIN g.vertex \cup {new}
  <2>1. \/ k = Faulty(g, "no place for a vertex") /\ Vertices \subseteq DOMAIN g.vertex
        \/ \E new \in DOMAIN k.vertex : Added(g, c, k, new)
    <3>1. /\ Placed(g, {}) /\ c \in Blocks /\ c \notin BlocksOf(g)
          /\ \A p \in DOMAIN g.table : Home(p) # c
          /\ k = AddRegularVertex(g, c)
      BY <1>1, <1>2, <1>3
    <3>. HIDE DEF c
    <3>. QED  BY ONLY <3>1, AddedView
  <2>. QED  BY <1>1, <1>4, <2>1 DEF Added
<1>6. \A u \in {new} : u # Origin(k, m.sptr)
  <2>1. /\ m.sptr \in Roots <=> g.table[m.sptr].container = Null
        /\ Home(m.sptr) \in BlocksOf(g) => g.table[m.sptr].container \in DOMAIN g.vertex
    BY <1>1 DEF WellPlaced
  <2>2. m.sptr \in Roots \/ Home(m.sptr) \in BlocksOf(g)
    BY <1>1, <1>3, RootFacts DEF Reaches
  <2>3. m.sptr \notin Vertices /\ new \in Vertices /\ new # Null
    <3>1. GraphOK(k)
      BY <1>5 DEF Placed, GraphInv
    <3>. QED  BY <1>1, <1>5, <3>1, TableFacts, VertexFacts
  <2>. QED  BY <1>1, <1>5, <2>1, <2>2, <2>3 DEF Origin
<1>7. j = UnmakeReference(k, m.sptr, TRUE)
  OBVIOUS
<1>8. h = MakeReference(j, m.sptr, v)
  BY <1>1, <1>2, <1>5 DEF ResetPointerTo
<1>9. NewTarget(V, m) = c
  BY DEF NewTarget
<1>. HIDE DEF j
<1>10. PICK b \in Blocks \cup {Null} :
         Unmade(k, m.sptr, {new}, j, b) /\ Gives(k, m.sptr, TRUE, j, b)
  <2>1. Placed(k, {new}) /\ OneKeeper(ViewOf(k)) /\ m.sptr \in DOMAIN k.table /\ TRUE \in BOOLEAN
    BY <1>1, <1>5
  <2>. QED  BY ONLY <1>6, <1>7, <2>1, UnmadeView
<1>11. /\ Placed(j, {new}) /\ j.fault = {}
       /\ b \notin Reach(Without(V, m.sptr)) /\ Spared(g, m.sptr, b)
       /\ DOMAIN j.vertex \subseteq DOMAIN k.vertex
       /\ \A u \in DOMAIN j.vertex :
            j.vertex[u].addr = IF k.vertex[u].addr = b THEN Null ELSE k.vertex[u].addr
       /\ BlocksOf(j) = BlocksOf(k) \ {b}
  <2>1. Spared(k, m.sptr, b) => Spared(g, m.sptr, b)
    BY <1>5 DEF Spared
  <2>. QED  BY <1>1, <1>5, <1>10, <2>1 DEF Unmade
<1>12. IF b = Null THEN j.released = NoRelease
       ELSE j.released = [block |-> b, dtion |-> a] /\ b = V[m.sptr]
  BY <1>1, <1>5, <1>10 DEF Gives
<1>13. b # c
  BY <1>1, <1>2, <1>12
<1>14. v = new /\ v \in DOMAIN j.vertex
  <2>1. c \in BlocksOf(j) /\ GraphOK(k) /\ OneVertexPerBlock(k)
    BY <1>5, <1>11, <1>13 DEF Placed, GraphInv
  <2>2. \E u \in DOMAIN j.vertex : j.vertex[u].addr = c
    BY <2>1 DEF BlocksOf
  <2>3. v \in DOMAIN j.vertex /\ j.vertex[v].addr = c
    BY <2>2 DEF GetVertex
  <2>4. v \in DOMAIN k.vertex /\ k.vertex[v].addr = c
    BY <1>2, <1>11, <2>3
  <2>. QED  BY <1>2, <1>5, <2>1, <2>3, <2>4 DEF OneVertexPerBlock
<1>. HIDE DEF v, V, a, c
<1>15. /\ Placed(h, Less({new}, v)) /\ h.fault = k.fault /\ h.released = j.released
       /\ DOMAIN h.table = DOMAIN k.table /\ BlocksOf(h) = BlocksOf(k) \ {b}
       /\ ViewOf(h)[m.sptr] = IF k.vertex[v].addr = b THEN Null ELSE k.vertex[v].addr
       /\ \A p \in DOMAIN k.table : p # m.sptr =>
            ViewOf(h)[p] = IF ViewOf(k)[p] = b THEN Null ELSE ViewOf(k)[p]
  <2>1. /\ Placed(k, {new}) /\ m.sptr \in DOMAIN k.table /\ Reaches(ViewOf(k), m.sptr)
        /\ Unmade(k, m.sptr, {new}, j, b) /\ v \in DOMAIN j.vertex
        /\ k.vertex[v].addr # Null => k.vertex[v].addr # Home(m.sptr)
        /\ h = MakeReference(j, m.sptr, v)
    BY <1>1, <1>3, <1>5, <1>8, <1>10, <1>14
  <2>. QED  BY ONLY <2>1, ResetView
<1>16. Placed(h, {})
  <2>1. Less({new}, v) = {}
    BY <1>14 DEF Less
  <2>. QED  BY ONLY <1>15, <2>1
<1>17. ViewOf(h) = Purged(After(V, m), b)
  <2>1. IsMap(ViewOf(h)) /\ DOMAIN ViewOf(h) = DOMAIN g.table
    BY <1>5, <1>15, ViewIsMap
  <2>2. DOMAIN ViewOf(h) = DOMAIN After(V, m)
    BY <1>1, <2>1 DEF After
  <2>3. \A s \in DOMAIN ViewOf(h) :
          /\ s = m.sptr => ViewOf(h)[s] = IF NewTarget(V, m) = b THEN Null ELSE NewTarget(V, m)
          /\ s # m.sptr => ViewOf(h)[s] = IF V[s] = b THEN Null ELSE V[s]
    BY <1>5, <1>9, <1>14, <1>15, <2>1
  <2>. QED  BY ONLY <2>1, <2>2, <2>3, PurgedAfter
<1>18. BlocksOf(h) = Known(g, m, b)
  BY <1>5, <1>15 DEF Known, c
<1>. QED  BY <1>1, <1>5, <1>11, <1>12, <1>13, <1>15, <1>16, <1>17, <1>18 DEF Executed, V, a, c

(* What a message does to a graph, seen by its views: it releases at most  *)
(* one block, which could not be reached without the message's pointer.    *)
LEMMA ExecutedView ==
  ASSUME NEW g, Placed(g, {}), g.fault = {}, OneKeeper(ViewOf(g)),
         NEW m \in Messages, Allowed(ViewOf(g), m), OneKeeper(After(ViewOf(g), m)),
         m.type = "NewObject" => m.block \notin BlocksOf(g),
         NEW h, h = Execute(g, m)
  PROVE  \/ /\ h.fault = {"no place for a vertex"} /\ h.released = NoRelease
            /\ Vertices \subseteq DOMAIN g.vertex
         \/ \E b \in Blocks \cup {Null} : Executed(g, m, h, b)
<1>. DEFINE k == [g EXCEPT !.released = NoRelease]
<1>1. GraphOK(g) /\ GraphInv(g) /\ WellPlaced(g)
  BY DEF GraphInv, Placed
<1>2. /\ DOMAIN k = DOMAIN g /\ k.released = NoRelease
      /\ k.table = g.table /\ k.vertex = g.vertex /\ k.fault = {}
  BY <1>1 DEF GraphOK
<1>3. /\ m.type = "NewObject" =>
           h = LET added == AddRegularVertex(k, m.block) IN
               IF added.fault # {} THEN added ELSE ResetPointerTo(added, m.sptr, m.block, TRUE)
      /\ m.type = "AbortedObject"        => h = ResetPointerTo(k, m.sptr, Null, FALSE)
      /\ m.type = "ReferenceUpdate"      => h = ResetPointerLike(k, m.sptr, m.other)
      /\ m.type = "ReferenceRelease"     => h = ReleasePointer(k, m.sptr)
      /\ m.type = "SptrRegistration"     => h = AddPointer(k, m.sptr)
      /\ m.type = "SptrCopyRegistration" => h = AddPointerOnCopy(k, m.sptr, m.other)
      /\ m.type = "SptrUnregistration"   => h = RemovePointer(k, m.sptr)
  BY DEF Execute
<1>. HIDE DEF k
<1>4. GraphInv(k) /\ BlocksOf(k) = BlocksOf(g)
  <2>1. k.released \in [block : Blocks \cup {Null}, dtion : BOOLEAN]
    BY <1>2 DEF NoRelease
  <2>2. GraphOK(k)
    BY <1>1, <1>2, <2>1 DEF GraphOK
  <2>3. EdgesMatchTable(k)
    BY <1>1, <1>2, MatchCongruence DEF GraphInv
  <2>4. NoLostVertex(k)
    BY <1>1, <1>2, HasAnyEdgesFacts DEF NoLostVertex, GraphInv
  <2>5. OneVertexPerBlock(k) /\ BlocksOf(k) = BlocksOf(g)
    BY <1>1, <1>2 DEF OneVertexPerBlock, BlocksOf, GraphInv
  <2>. QED  BY <1>1, <1>2, <2>2, <2>3, <2>4, <2>5 DEF GraphInv
<1>5. ViewOf(k) = ViewOf(g)
  BY <1>2 DEF ViewOf
<1>6. Placed(k, {})
  <2>1. WellPlaced(k)
    BY <1>1, <1>2, <1>4 DEF WellPlaced
  <2>2. \A v \in DOMAIN k.vertex : Released(k, v) \/ IsPointed(k, v)
    BY <1>2 DEF Placed, Released, IsPointed
  <2>. QED  BY <1>4, <2>1, <2>2 DEF Placed
<1>7. Starts(k, m)
  BY <1>2, <1>5, <1>6 DEF Starts
<1>8. m.sptr \in DOMAIN k.table \/ m.type \in Registering
  BY <1>7, StartFacts
<1>9. SUFFICES \/ /\ h.fault = {"no place for a vertex"} /\ h.released = NoRelease
                  /\ Vertices \subseteq DOMAIN g.vertex
               \/ \E b \in Blocks \cup {Null} : Executed(k, m, h, b)
  <2>1. \A b : Executed(k, m, h, b) => Executed(g, m, h, b)
    BY <1>4, <1>5 DEF Executed, Known, Spared
  <2>. QED  BY <2>1
<1>10. CASE m.type = "NewObject"
  <2>. DEFINE added == AddRegularVertex(k, m.block)
  <2>1. /\ added.fault # {} => h = added
        /\ added.fault = {} => h = ResetPointerTo(added, m.sptr, m.block, TRUE)
    BY <1>3, <1>10
  <2>2. added = AddRegularVertex(k, m.block)
    OBVIOUS
  <2>3. m.block \notin BlocksOf(k) /\ m.block \in Blocks
    BY <1>4, <1>10, MessageTypes
  <2>. HIDE DEF added
  <2>4. CASE added.fault = {}
    <3>1. h = ResetPointerTo(added, m.sptr, m.block, TRUE)
      BY <2>1, <2>4
    <3>2. \E b \in Blocks \cup {Null} : Executed(k, m, h, b)
      BY ONLY <1>7, <1>10, <2>2, <2>3, <2>4, <3>1, AnnouncedView
    <3>. QED  BY <3>2
  <2>5. CASE added.fault # {}
    <3>1. \A p \in DOMAIN k.table : Home(p) # m.block
      BY <1>2, <1>10, ViewIsMap DEF Allowed
    <3>2. \/ added = Faulty(k, "no place for a vertex") /\ Vertices \subseteq DOMAIN k.vertex
          \/ \E new \in DOMAIN added.vertex : Added(k, m.block, added, new)
      BY ONLY <1>6, <2>2, <2>3, <3>1, AddedView
    <3>3. added = Faulty(k, "no place for a vertex") /\ Vertices \subseteq DOMAIN k.vertex
      BY <1>2, <2>5, <3>2 DEF Added
    <3>4. added.fault = {"no place for a vertex"} /\ added.released = NoRelease
      BY <1>2, <1>4, <3>3 DEF Faulty, GraphInv, GraphOK
    <3>. QED  BY <1>2, <2>1, <2>5, <3>3, <3>4
  <2>. QED  BY <2>4, <2>5
<1>11. CASE m.type = "AbortedObject"
  <2>1. h = UnmakeReference(k, m.sptr, m.type # "AbortedObject")
    BY <1>3, <1>8, <1>11 DEF ResetPointerTo, Registering
  <2>. QED  BY <1>7, <1>11, <2>1, NulledView
<1>12. CASE m.type = "ReferenceRelease"
  <2>1. h = UnmakeReference(k, m.sptr, m.type # "AbortedObject")
    BY <1>3, <1>8, <1>12 DEF ReleasePointer, Registering
  <2>. QED  BY <1>7, <1>12, <2>1, NulledView
<1>13. CASE m.type = "ReferenceUpdate"
  BY <1>3, <1>7, <1>13, AssignedView
<1>14. CASE m.type = "SptrRegistration"
  BY <1>3, <1>7, <1>14, RegisteredView
<1>15. CASE m.type = "SptrCopyRegistration"
  BY <1>3, <1>7, <1>15, CopiedView
<1>16. CASE m.type = "SptrUnregistration"
  BY <1>3, <1>7, <1>16, UnregisteredView
<1>. QED  BY <1>10, <1>11, <1>12, <1>13, <1>14, <1>15, <1>16, MessageTypes

-----------------------------------------------------------------------------
(* Why nothing stays behind. *)

(* What a message, and the end of block b, make of a view v and of a set B *)
(* of blocks; the block of NewObject is new.                               *)
Turns(v, B, m, b, w, C) ==
  /\ w = Purged(After(v, m), b)
  /\ C = (IF m.type = "NewObject" THEN B \cup {m.block} ELSE B) \ {b}
  /\ m.type = "NewObject" => b # m.block
  /\ b # Null => m.sptr \in DOMAIN v /\ b = v[m.sptr]
  /\ b = Null /\ m.sptr \in DOMAIN v /\ v[m.sptr] # Null =>
       v[m.sptr] \in Reach(Without(v, m.sptr))

(* S is closed under the pointers outside B and those in S. *)
LeadsWithin(v, B, S) ==
  \A s \in DOMAIN v : Home(s) \notin B \ S /\ v[s] # Null => v[s] \in S

LEMMA RootedFacts ==
  \A v, B : Rooted(v, B) <=> \A S \in SUBSET B : LeadsWithin(v, B, S) => S = B
BY DEF Rooted, LeadsWithin

LEMMA RootedAfter ==
  ASSUME NEW v, IsView(v), NEW B \in SUBSET Blocks, Rooted(v, B),
         \A s \in DOMAIN v : v[s] # Null => v[s] \in B,
         NEW m \in Messages, Allowed(v, m), NEW b, NEW w, NEW C, Turns(v, B, m, b, w, C)
  PROVE  Rooted(w, C)
<1>. DEFINE c == m.sptr
            a == After(v, m)
<1>1. /\ w = Purged(a, b)
      /\ C = (IF m.type = "NewObject" THEN B \cup {m.block} ELSE B) \ {b}
      /\ m.type = "NewObject" => b # m.block
      /\ b # Null => c \in DOMAIN v /\ b = v[c]
      /\ b = Null /\ c \in DOMAIN v /\ v[c] # Null => v[c] \in Reach(Without(v, c))
  BY DEF Turns
<1>2. /\ \A s \in DOMAIN v : s # c => s \in DOMAIN a
      /\ c \in DOMAIN a <=> m.type # "SptrUnregistration"
      /\ \A s \in DOMAIN a : a[s] = IF s = c THEN NewTarget(v, m) ELSE v[s]
  BY AfterFacts
<1>3. DOMAIN w = DOMAIN a /\ \A s \in DOMAIN a : w[s] = IF a[s] = b THEN Null ELSE a[s]
  BY <1>1 DEF Purged
<1>4. m.type = "NewObject" =>
        /\ \A s \in DOMAIN v : v[s] # m.block /\ Home(s) # m.block
        /\ c \in DOMAIN v /\ m.block # Null
  BY MessageTypes, NullAssumption DEF Allowed, Registering
<1>5. /\ IsView(Without(v, c)) /\ DOMAIN Without(v, c) = DOMAIN v \ {c}
      /\ \A p \in DOMAIN v \ {c} : Without(v, c)[p] = v[p]
  BY WithoutFacts
<1>. HIDE DEF a
<1>6. SUFFICES ASSUME NEW S \in SUBSET C, LeadsWithin(w, C, S) PROVE S = C
  BY RootedFacts
<1>. DEFINE T == {x \in B : x \in S \/ x = b}
<1>7. ASSUME NEW s \in DOMAIN v, s # c, Home(s) \notin B \ T, v[s] # Null
      PROVE  v[s] \in T
  <2>1. CASE v[s] = b
    BY <1>7, <2>1
  <2>2. CASE v[s] # b
    <3>1. s \in DOMAIN w /\ w[s] = v[s]
      BY <1>2, <1>3, <1>7, <2>2
    <3>2. Home(s) \notin C \ S
      BY <1>1, <1>4, <1>7
    <3>3. v[s] \in S
      BY <1>6, <1>7, <3>1, <3>2 DEF LeadsWithin
    <3>. QED  BY <1>7, <3>3
  <2>. QED  BY <2>1, <2>2
<1>8. ASSUME c \in DOMAIN v, v[c] # Null
      PROVE  v[c] \in T
  <2>1. CASE b = Null
    <3>1. T \in SUBSET Blocks
      OBVIOUS
    <3>2. Null \notin B
      BY NullAssumption
    <3>. HIDE DEF T
    <3>3. Closed(Without(v, c), T)
      BY <1>5, <1>7, <3>2 DEF Closed
    <3>4. Reach(Without(v, c)) \subseteq T
      BY <3>1, <3>3, ReachLeast
    <3>. QED  BY <1>1, <1>8, <2>1, <3>4
  <2>2. CASE b # Null
    BY <1>1, <1>8, <2>2
  <2>. QED  BY <2>1, <2>2
<1>9. LeadsWithin(v, B, T)
  <2>. HIDE DEF T
  <2>. QED  BY <1>7, <1>8 DEF LeadsWithin
<1>10. T = B
  <2>1. T \in SUBSET B
    OBVIOUS
  <2>. HIDE DEF T
  <2>. QED  BY <1>9, <2>1, RootedFacts
<1>11. \A x \in B : x # b => x \in S
  BY <1>10
<1>12. ASSUME m.type = "NewObject" PROVE m.block \in S
  <2>1. w[c] = m.block /\ c \in DOMAIN w /\ m.block # Null
    BY <1>1, <1>2, <1>3, <1>4, <1>12 DEF NewTarget
  <2>2. Home(c) \notin C \ S
    BY <1>1, <1>4, <1>11, <1>12
  <2>. QED  BY <1>6, <2>1, <2>2 DEF LeadsWithin
<1>. QED  BY <1>1, <1>11, <1>12

LEMMA RootedExecuted ==
  ASSUME NEW g, Placed(g, {}), Rooted(ViewOf(g), BlocksOf(g)),
         NEW m \in Messages, Allowed(ViewOf(g), m), NEW h, NEW b, Executed(g, m, h, b)
  PROVE  Rooted(ViewOf(h), BlocksOf(h)) /\ BlocksOf(h) = Known(g, m, b)
<1>. DEFINE v == ViewOf(g)
            B == BlocksOf(g)
            w == ViewOf(h)
            C == BlocksOf(h)
<1>1. GraphOK(g) /\ EndsExist(g)
  BY DEF Placed, GraphInv, EdgesMatchTable
<1>2. /\ IsView(v) /\ B \in SUBSET Blocks /\ DOMAIN v = DOMAIN g.table
      /\ \A s \in DOMAIN v : v[s] # Null => v[s] \in B
  BY <1>1, ViewFacts
<1>3. Turns(v, B, m, b, w, C)
  BY DEF Executed, Known, Spared, Turns
<1>4. Rooted(v, B) /\ m \in Messages /\ Allowed(v, m)
  OBVIOUS
<1>. HIDE DEF v, B, w, C
<1>5. Rooted(w, C)
  BY ONLY <1>2, <1>3, <1>4, RootedAfter
<1>. QED  BY <1>5 DEF w, C, Executed
=============================================================================
