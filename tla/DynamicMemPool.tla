---------------------------- MODULE DynamicMemPool ----------------------------
(***************************************************************************)
(* utils::DynamicMemPool and utils::MemoryPool, from which the garbage     *)
(* collector takes its Vertex objects (operators new and delete of Vertex).*)
(* The dynamic pool keeps a set of memory pools and a queue of those with  *)
(* blocks to give; it makes a new pool when the queue has nothing left,    *)
(* and Shrink, once in every round of the collector, deletes pools whose   *)
(* blocks have all come back. One thread uses it.                          *)
(***************************************************************************)
EXTENDS Integers, Sequences, FiniteSets

CONSTANTS
  Pools,            (* base addresses at which a pool can be allocated      *)
  InitialSize,      (* blocks in the first pool                             *)
  FactorNum,        (* the growing factor is the fraction                   *)
  FactorDen,        (*   FactorNum / FactorDen                              *)
  MaxSize           (* the largest uint16_t                                 *)

(* The size of the pools that follow. A pool cannot be zero-sized.          *)
GrownSize ==
  LET product == (InitialSize * FactorNum) \div FactorDen
  IN IF product < MaxSize THEN product ELSE MaxSize

ASSUME SizesAssumption ==
  /\ InitialSize \in Nat \ {0}
  /\ FactorNum \in Nat /\ FactorDen \in Nat \ {0} /\ MaxSize \in Nat
  /\ GrownSize \in Nat \ {0}

VARIABLES
  pools,   (* m_memPools: for each pool its number of blocks, how many of   *)
           (* them have ever been given out, and the stack of those that    *)
           (* have come back                                                *)
  queue,   (* m_availableMemPools                                           *)
  owners   (* history: how many times each block is in use                  *)

poolVars == <<pools, queue, owners>>

Indexes == 0..(IF InitialSize > GrownSize THEN InitialSize ELSE GrownSize) - 1
PoolBlocks == Pools \X Indexes

PoolInit ==
  /\ pools = << >>
  /\ queue = << >>
  /\ owners = [b \in PoolBlocks |-> 0]

-----------------------------------------------------------------------------
(* MemoryPool *)

IsEmpty(m) == m.next = m.size /\ m.avail = << >>
IsFull(m) == Len(m.avail) = m.size \/ m.next = 0

(* The block that comes next: the last one returned, or one never used. *)
NextIndex(m) == IF m.avail # << >> THEN m.avail[Len(m.avail)] ELSE m.next

(* mutant: the block that is given stays on the stack *)
WithoutNextKept(m) ==
  IF m.avail # << >> THEN m ELSE [m EXCEPT !.next = @ + 1]

WithoutNext(m) ==
  IF m.avail # << >> THEN [m EXCEPT !.avail = SubSeq(@, 1, Len(@) - 1)]
  ELSE [m EXCEPT !.next = @ + 1]

New(size) == [size |-> size, next |-> 0, avail |-> << >>]

Put(p, m) == [q \in DOMAIN pools \cup {p} |-> IF q = p THEN m ELSE pools[q]]

-----------------------------------------------------------------------------
(* DynamicMemPool *)

(* Empty pools at the front are dropped until one has a block to give. *)
GetAvailableBlock ==
  \E k \in 1..Len(queue) :
    /\ \A j \in 1..(k - 1) : IsEmpty(pools[queue[j]])
    /\ ~ IsEmpty(pools[queue[k]])
    /\ LET p == queue[k] IN
       /\ pools' = Put(p, WithoutNext(pools[p]))
       /\ owners' = [owners EXCEPT ![<<p, NextIndex(pools[p])>>] = @ + 1]
    /\ queue' = SubSeq(queue, k, Len(queue))

(* There is no memory available in the pools of the queue: a new pool. *)
GetNewPoolBlock(p) ==
  /\ \A k \in 1..Len(queue) : IsEmpty(pools[queue[k]])
  /\ p \notin DOMAIN pools
  /\ LET m == New(IF pools = << >> THEN InitialSize ELSE GrownSize) IN
     /\ pools' = Put(p, WithoutNext(m))
     /\ owners' = [owners EXCEPT ![<<p, NextIndex(m)>>] = @ + 1]
  /\ queue' = <<p>>

(* mutant: a pool that gets its first block back is queued in any case *)
RequeuedAlways(p) == Append(queue, p)

(* The pool that gets its first block back may be in front of the queue: *)
(* then it moves to the end.                                             *)
Requeued(p) ==
  LET q == Append(queue, p) IN IF Head(q) = p THEN Tail(q) ELSE q

ReturnBlock(b) ==
  /\ owners[b] > 0
  /\ LET m == pools[b[1]] IN
     /\ queue' = IF IsEmpty(m) THEN Requeued(b[1]) ELSE queue
     /\ pools' = Put(b[1], [m EXCEPT !.avail = Append(@, b[2])])
  /\ owners' = [owners EXCEPT ![b] = @ - 1]

(* The way to list a set of numbers in increasing order. *)
Enumerations(K) ==
  {place \in [1..Cardinality(K) -> K] :
     \A i, j \in 1..Cardinality(K) : i < j => place[i] < place[j]}

(* mutant: a pool is full when blocks have come back, not when all have *)
ShrinkAnyReturned ==
  LET deletable(p) == pools[p].avail # << >>
      kept == {k \in 1..Len(queue) : ~ deletable(queue[k])}
  IN /\ pools' = [p \in {q \in DOMAIN pools :
                        ~ \E k \in 1..Len(queue) : queue[k] = q /\ deletable(q)} |-> pools[p]]
     /\ \E place \in Enumerations(kept) : queue' = [i \in DOMAIN place |-> queue[place[i]]]
     /\ UNCHANGED owners

(* The full pools of the queue are deleted; the others keep their order. *)
Shrink ==
  LET full(p) == IsFull(pools[p])
      kept == {k \in 1..Len(queue) : ~ full(queue[k])}
  IN /\ pools' = [p \in {q \in DOMAIN pools :
                        ~ \E k \in 1..Len(queue) : queue[k] = q /\ full(q)} |-> pools[p]]
     /\ \E place \in Enumerations(kept) : queue' = [i \in DOMAIN place |-> queue[place[i]]]
     /\ UNCHANGED owners

PoolNext ==
  \/ GetAvailableBlock
  \/ \E p \in Pools : GetNewPoolBlock(p)
  \/ \E b \in PoolBlocks : ReturnBlock(b)
  \/ Shrink

PoolSpec == PoolInit /\ [][PoolNext]_poolVars

-----------------------------------------------------------------------------
(* Properties *)

SetOf(s) == {s[i] : i \in 1..Len(s)}

MemoryPool == [size : {InitialSize, GrownSize}, next : Nat, avail : Seq(Indexes)]

(* Types: a pool has one of two sizes, a block a number of owners. *)
PoolTypeOK ==
  /\ DOMAIN pools \subseteq Pools
  /\ \A p \in DOMAIN pools : pools[p] \in MemoryPool
  /\ queue \in Seq(Pools)
  /\ owners \in [PoolBlocks -> Nat]

(***************************************************************************)
(* A block is given to one user at a time, however it went back and forth. *)
(***************************************************************************)
UniqueOwner == \A b \in PoolBlocks : owners[b] <= 1

(***************************************************************************)
(* Every block of a pool that has been given out is in use or has come     *)
(* back, and is in the stack once. So no pool is deleted while one of its  *)
(* blocks is in use (the assertion in the destructor of MemoryPool).       *)
(***************************************************************************)
EveryBlockAccounted ==
  /\ \A b \in PoolBlocks : owners[b] > 0 => b[1] \in DOMAIN pools /\ b[2] < pools[b[1]].next
  /\ \A p \in DOMAIN pools :
       /\ 0 < pools[p].next /\ pools[p].next <= pools[p].size
       /\ \A i \in 0..(pools[p].next - 1) : owners[<<p, i>>] = 0 <=> i \in SetOf(pools[p].avail)
       /\ \A i \in SetOf(pools[p].avail) : i < pools[p].next
       /\ \A i, j \in 1..Len(pools[p].avail) :
            pools[p].avail[i] = pools[p].avail[j] => i = j

(***************************************************************************)
(* The queue has no dangling pointer and no pool twice, and only its first *)
(* pool can be empty.                                                      *)
(***************************************************************************)
QueueSound ==
  /\ SetOf(queue) \subseteq DOMAIN pools
  /\ \A i, j \in 1..Len(queue) : queue[i] = queue[j] => i = j
  /\ \A i \in 2..Len(queue) : ~ IsEmpty(pools[queue[i]])

(* The inductive invariant. *)
PoolIInv == PoolTypeOK /\ UniqueOwner /\ EveryBlockAccounted /\ QueueSound

(***************************************************************************)
(* A new pool is made only when the existing pools have no memory          *)
(* available, as the comment on that branch of GetFreeBlock says.          *)
(***************************************************************************)
GrowsOnlyWhenEmpty ==
  [][DOMAIN pools' \ DOMAIN pools # {} => \A p \in DOMAIN pools : IsEmpty(pools[p])]_poolVars
=============================================================================
