-------------------------- MODULE AddressesHashTable --------------------------
(***************************************************************************)
(* memory::AddressesHashTable, which the graph of the garbage collector    *)
(* looks smart pointers up in: open addressing, linear probing, an array   *)
(* that doubles and halves. One thread uses it; each turn of each of its   *)
(* loops is a step here, so that a loop that finds no end is seen.         *)
(***************************************************************************)
EXTENDS Integers, FiniteSets

CONSTANTS
  Keys,             (* addresses of smart pointers                          *)
  Values,           (* the blocks that an element refers to                 *)
  Hashes,           (* the outputs of Hash                                  *)
  Fold(_, _),       (* XorFold of a hash to the indexes of a table's size   *)
  InitialSize,      (* 2 to the power of initialSizeLog2                    *)
  ThresholdNum,     (* loadFactorThreshold is the fraction                  *)
  ThresholdDen,     (*   ThresholdNum / ThresholdDen                        *)
  MaxSize,          (* bound: no insertion that would expand further        *)
  Null

ASSUME KeysAssumption == Null \notin Keys

ASSUME FoldAssumption ==
  \A h \in Hashes : \A size \in 1..MaxSize : Fold(h, size) \in 0..(size - 1)

(* A threshold of one or more would let the table fill up. *)
ASSUME SizeAssumption ==
  /\ InitialSize \in Nat \ {0} /\ MaxSize \in Nat /\ InitialSize <= MaxSize
  /\ ThresholdNum \in Nat /\ ThresholdDen \in Nat /\ ThresholdNum < ThresholdDen

VARIABLES
  hash,       (* which function Hash is: the hash of every address          *)
  size,       (* the length of m_bucketArray, 2 ^ m_outHashSizeInBits       *)
  buckets,    (* m_bucketArray                                              *)
  count,      (* m_elementsCount                                            *)
  refs,       (* the references to elements that the graph has at hand      *)
  pc,         (* the loop that is running                                   *)
  arg,        (* the element that is inserted, or the key looked up         *)
  idx,        (* where the loop stands                                      *)
  moved,      (* the element that is displaced                              *)
  fresh,      (* newArray                                                   *)
  source      (* the index in the old array of the next element to rehash   *)

vars == <<hash, size, buckets, count, refs, pc, arg, idx, moved, fresh, source>>

Element == [key : Keys, val : Values]
Vacant == [key |-> Null, val |-> Null]
NoRefs == [k \in {} |-> 0]

IsVacant(e) == e.key = Null
Indexes(n) == 0..(n - 1)
Occupied(b, n) == {i \in Indexes(n) : ~ IsVacant(b[i])}
EmptyArray(n) == [i \in Indexes(n) |-> Vacant]
Home(k, n) == Fold(hash[k], n)

Following(i, n) == IF i + 1 < n THEN i + 1 ELSE 0

(* mutant: expand no sooner than when the table is more than full *)
OverloadedLate == count > size

Overloaded == count * ThresholdDen > size * ThresholdNum

Underloaded(n) == 3 * n * ThresholdDen < size * ThresholdNum

Elements(b, I) == {b[i] : i \in I}
Stored == Elements(buckets, Occupied(buckets, size))

(* While the new element has taken its place, the displaced one has none. *)
Entries == Stored \cup (IF pc = "displace" THEN {moved} ELSE {})
KeysStored == {e.key : e \in Entries}

Init ==
  /\ hash \in [Keys -> Hashes]
  /\ size = 0 /\ buckets = EmptyArray(0) /\ count = 0
  /\ refs = NoRefs
  /\ pc = "idle" /\ arg = Vacant /\ idx = 0 /\ moved = Vacant
  /\ fresh = EmptyArray(0) /\ source = 0

-----------------------------------------------------------------------------
(* ExpandTable, ShrinkTable *)

(* The first array has nothing to rehash. *)
Allocate ==
  /\ size' = InitialSize
  /\ buckets' = EmptyArray(InitialSize)
  /\ UNCHANGED <<fresh, source>>

RehashTo(n) ==
  /\ fresh' = EmptyArray(n)
  /\ source' = 0
  /\ UNCHANGED <<size, buckets>>

NewSize == IF pc \in {"expand", "expand probe"} THEN 2 * size ELSE size \div 2

(* mutant: the element takes its place whoever has it *)
RehashOver(loop, probe) ==
  /\ pc = loop /\ source < size
  /\ source' = source + 1
  /\ fresh' = IF IsVacant(buckets[source]) THEN fresh
              ELSE [fresh EXCEPT ![Home(buckets[source].key, NewSize)] = buckets[source]]
  /\ UNCHANGED <<hash, size, buckets, count, refs, pc, arg, idx, moved>>

(* The next element of the old array goes to its place, if that is vacant. *)
Rehash(loop, probe) ==
  /\ pc = loop /\ source < size
  /\ LET element == buckets[source]
         home == Home(element.key, NewSize)
     IN \/ /\ IsVacant(element)
           /\ source' = source + 1
           /\ UNCHANGED <<pc, idx, fresh>>
        \/ /\ ~ IsVacant(element) /\ IsVacant(fresh[home])
           /\ fresh' = [fresh EXCEPT ![home] = element]
           /\ source' = source + 1
           /\ UNCHANGED <<pc, idx>>
        \/ /\ ~ IsVacant(element) /\ ~ IsVacant(fresh[home])
           /\ pc' = probe /\ idx' = home
           /\ UNCHANGED <<fresh, source>>
  /\ UNCHANGED <<hash, size, buckets, count, refs, arg, moved>>

RehashProbe(loop, probe) ==
  /\ pc = probe
  /\ LET next == Following(idx, NewSize) IN
     IF IsVacant(fresh[next])
       THEN /\ fresh' = [fresh EXCEPT ![next] = buckets[source]]
            /\ source' = source + 1
            /\ pc' = loop /\ idx' = 0
       ELSE idx' = next /\ UNCHANGED <<fresh, source, pc>>
  /\ UNCHANGED <<hash, size, buckets, count, refs, arg, moved>>

RehashEnd(loop, next) ==
  /\ pc = loop /\ source = size
  /\ size' = NewSize /\ buckets' = fresh
  /\ fresh' = EmptyArray(0)
  /\ source' = 0
  /\ pc' = next
  /\ UNCHANGED <<hash, count, refs, arg, idx, moved>>

-----------------------------------------------------------------------------
(* Insert. The graph has no use for references of before. *)

(* The call returns, and its local variables are gone. *)
Return == pc' = "idle" /\ idx' = 0 /\ arg' = Vacant

InsertBegin(k, v) ==
  /\ pc = "idle" /\ k \notin KeysStored
  /\ arg' = [key |-> k, val |-> v]
  /\ refs' = NoRefs
  /\ \/ /\ size = 0
        /\ pc' = "place" /\ Allocate
     \/ /\ size > 0 /\ Overloaded /\ 2 * size <= MaxSize
        /\ pc' = "expand" /\ RehashTo(2 * size)
     \/ /\ size > 0 /\ ~ Overloaded
        /\ pc' = "place" /\ UNCHANGED <<size, buckets, fresh, source>>
  /\ UNCHANGED <<hash, count, idx, moved>>

(* mutant: an element is counted only when its place was vacant *)
PlaceUncounted ==
  /\ pc = "place"
  /\ LET home == Home(arg.key, size) IN
     /\ buckets' = [buckets EXCEPT ![home] = arg]
     /\ refs' = [k \in {arg.key} |-> home]
     /\ moved' = buckets[home]
     /\ IF IsVacant(buckets[home])
          THEN count' = count + 1 /\ Return
          ELSE pc' = "displace" /\ idx' = home /\ UNCHANGED <<count, arg>>
  /\ UNCHANGED <<hash, size, fresh, source>>

(* The new element takes the place its hash gives, whoever has it. *)
Place ==
  /\ pc = "place"
  /\ LET home == Home(arg.key, size) IN
     /\ buckets' = [buckets EXCEPT ![home] = arg]
     /\ refs' = [k \in {arg.key} |-> home]
     /\ moved' = buckets[home]
     /\ IF IsVacant(buckets[home])
          THEN Return
          ELSE pc' = "displace" /\ idx' = home /\ UNCHANGED arg
  /\ count' = count + 1
  /\ UNCHANGED <<hash, size, fresh, source>>

(* The element that was displaced moves to the first vacant position. *)
Displace ==
  /\ pc = "displace"
  /\ LET next == Following(idx, size) IN
     IF IsVacant(buckets[next])
       THEN /\ buckets' = [buckets EXCEPT ![next] = moved]
            /\ moved' = Vacant
            /\ Return
       ELSE idx' = next /\ UNCHANGED <<buckets, moved, pc, arg>>
  /\ UNCHANGED <<hash, size, count, refs, fresh, source>>

-----------------------------------------------------------------------------
(* Lookup, of an address that is in the table *)

With(k, i) == [l \in DOMAIN refs \cup {k} |-> IF l = k THEN i ELSE refs[l]]

LookupBegin(k) ==
  /\ pc = "idle" /\ k \in KeysStored
  /\ LET home == Home(k, size) IN
     IF buckets[home].key = k
       THEN refs' = With(k, home) /\ UNCHANGED <<pc, idx, arg>>
       ELSE pc' = "lookup" /\ idx' = home /\ arg' = [key |-> k, val |-> Null] /\ UNCHANGED refs
  /\ UNCHANGED <<hash, size, buckets, count, moved, fresh, source>>

(* mutant: a vacant bucket ends the search, as if nothing were ever removed *)
LookupToVacant ==
  /\ pc = "lookup"
  /\ LET next == Following(idx, size) IN
     IF buckets[next].key \in {arg.key, Null}
       THEN refs' = With(arg.key, next) /\ Return
       ELSE idx' = next /\ UNCHANGED <<refs, pc, arg>>
  /\ UNCHANGED <<hash, size, buckets, count, moved, fresh, source>>

Lookup ==
  /\ pc = "lookup"
  /\ LET next == Following(idx, size) IN
     IF buckets[next].key = arg.key
       THEN refs' = With(arg.key, next) /\ Return
       ELSE idx' = next /\ UNCHANGED <<refs, pc, arg>>
  /\ UNCHANGED <<hash, size, buckets, count, moved, fresh, source>>

-----------------------------------------------------------------------------
(* What the graph does with a reference *)

SetPointedMemBlock(k, v) ==
  /\ pc = "idle" /\ k \in DOMAIN refs
  /\ buckets' = [buckets EXCEPT ![refs[k]].val = v]
  /\ UNCHANGED <<hash, size, count, refs, pc, arg, idx, moved, fresh, source>>

Remove(k) ==
  /\ pc = "idle" /\ k \in DOMAIN refs
  /\ count' = count - 1
  /\ refs' = NoRefs
  /\ buckets' = [buckets EXCEPT ![refs[k]] = Vacant]
  /\ IF size > InitialSize /\ Underloaded(count - 1)
       THEN /\ pc' = "shrink"
            /\ fresh' = EmptyArray(size \div 2) /\ source' = 0
       ELSE UNCHANGED <<pc, fresh, source>>
  /\ UNCHANGED <<hash, size, arg, idx, moved>>

(* The references go when the message of the graph has been executed. *)
MessageEnd ==
  /\ pc = "idle" /\ DOMAIN refs # {}
  /\ refs' = NoRefs
  /\ UNCHANGED <<hash, size, buckets, count, pc, arg, idx, moved, fresh, source>>

-----------------------------------------------------------------------------
Loops ==
  \/ Rehash("expand", "expand probe") \/ RehashProbe("expand", "expand probe")
  \/ RehashEnd("expand", "place")
  \/ Rehash("shrink", "shrink probe") \/ RehashProbe("shrink", "shrink probe")
  \/ RehashEnd("shrink", "idle")
  \/ Place \/ Displace \/ Lookup

Calls ==
  \E k \in Keys :
    \/ \E v \in Values : InsertBegin(k, v) \/ SetPointedMemBlock(k, v)
    \/ LookupBegin(k)
    \/ Remove(k)

Next == Loops \/ Calls \/ MessageEnd

Spec == Init /\ [][Next]_vars

(* The thread that has called a function runs it. *)
FairSpec == Spec /\ WF_vars(Loops)

-----------------------------------------------------------------------------
(* Properties *)

PCs == {"idle", "expand", "expand probe", "shrink", "shrink probe", "place", "displace", "lookup"}

(* Types. *)
TypeOK ==
  /\ hash \in [Keys -> Hashes]
  /\ size \in 0..MaxSize /\ count \in Nat
  /\ buckets \in [Indexes(size) -> Element \cup {Vacant}]
  /\ pc \in PCs /\ idx \in Nat /\ source \in 0..size
  /\ moved \in Element \cup {Vacant}
  /\ arg \in [key : Keys, val : Values \cup {Null}] \cup {Vacant}
  /\ DOMAIN refs \subseteq Keys
  /\ \A k \in DOMAIN refs : refs[k] \in Indexes(size)

(* A reference that the graph has at hand is to the element of the smart   *)
(* pointer it was returned for: what Insert and Lookup return, whatever    *)
(* was displaced, and until the next Insert or Remove.                     *)
RefDenotesItsKey == \A k \in DOMAIN refs : buckets[refs[k]].key = k

(* Every loop has what it looks for: a vacant bucket in the array it       *)
(* probes, or the key. The loops of Insert, Lookup, ExpandTable and        *)
(* ShrinkTable have no other way to end.                                   *)
RoomToProbe ==
  /\ pc = "displace" => \E i \in Indexes(size) : IsVacant(buckets[i])
  /\ pc \in {"expand probe", "shrink probe"} => \E i \in Indexes(NewSize) : IsVacant(fresh[i])
  /\ pc = "lookup" => \E i \in Indexes(size) : buckets[i].key = arg.key

(* The table implements the map that the graph works with: expanding,      *)
(* shrinking and displacing lose nothing, and repeat nothing.              *)
Map == INSTANCE AddressMap WITH entries <- Entries
ImplementsMap == Map!Spec

(* Every call returns. *)
EveryCallReturns == pc # "idle" ~> pc = "idle"

-----------------------------------------------------------------------------
(* The inductive invariant *)

Expanding == pc \in {"expand", "expand probe"}
Shrinking == pc \in {"shrink", "shrink probe"}

Unique(b, n) ==
  \A i, j \in Occupied(b, n) : b[i].key = b[j].key => i = j

CountInv ==
  /\ count = Cardinality(Occupied(buckets, size)) + (IF pc = "displace" THEN 1 ELSE 0)
  /\ count <= size
  /\ pc = "place" => count < size
  /\ Expanding => size > 0 /\ 2 * size <= MaxSize
  /\ Shrinking => size > 1 /\ 3 * count < size

KeysInv ==
  /\ Unique(buckets, size)
  /\ pc = "displace" =>
       /\ moved \in Element /\ idx \in Indexes(size)
       /\ \A i \in Indexes(size) : buckets[i].key # moved.key
  /\ pc = "place" \/ Expanding =>
       /\ arg \in Element
       /\ \A i \in Indexes(size) : buckets[i].key # arg.key
  /\ pc = "lookup" =>
       /\ idx \in Indexes(size)
       /\ \E i \in Occupied(buckets, size) : buckets[i].key = arg.key
  /\ pc \notin {"idle", "displace", "lookup"} => DOMAIN refs = {}

(* The elements of before the source are in the new array. *)
RehashInv ==
  Expanding \/ Shrinking =>
    LET done == Occupied(buckets, size) \cap Indexes(source) IN
    /\ fresh \in [Indexes(NewSize) -> Element \cup {Vacant}]
    /\ Unique(fresh, NewSize)
    /\ Elements(fresh, Occupied(fresh, NewSize)) = Elements(buckets, done)
    /\ Cardinality(Occupied(fresh, NewSize)) = Cardinality(done)
    /\ pc \in {"expand probe", "shrink probe"} =>
         idx \in Indexes(NewSize) /\ source \in Occupied(buckets, size)

(* The inductive invariant: m_elementsCount counts the elements, none is   *)
(* there twice, and the new array holds what has been rehashed.            *)
IInv == TypeOK /\ CountInv /\ KeysInv /\ RehashInv /\ RefDenotesItsKey
===============================================================================
