----------------------- MODULE AddressesHashTableProofs -----------------------
(***************************************************************************)
(* Proofs about AddressesHashTable, for any addresses, any hash function   *)
(* and any sizes with a threshold below one: it implements AddressMap, a   *)
(* reference is to the element it was returned for, and every probe has    *)
(* something to find. That the probes then end is left to the model        *)
(* checker: liveness is out of reach here.                                 *)
(***************************************************************************)
EXTENDS AddressesHashTable, FiniteSetTheorems, TLAPS

-----------------------------------------------------------------------------
(* Arrays. The lemmas name an array after a change c, the one before b. *)

(* There are finitely many occupied buckets, and no more than there are buckets. *)
LEMMA OccupiedFinite ==
  ASSUME NEW n \in Nat, NEW b
  PROVE  /\ IsFiniteSet(Occupied(b, n))
         /\ Cardinality(Occupied(b, n)) \in Nat
         /\ Cardinality(Occupied(b, n)) <= n
<1>1. IsFiniteSet(Indexes(n)) /\ Cardinality(Indexes(n)) = n
  <2>1. IsFiniteSet(0..(n - 1)) /\ Cardinality(0..(n - 1)) = IF 0 > n - 1 THEN 0 ELSE (n - 1) - 0 + 1
    BY FS_Interval
  <2>. QED  BY <2>1 DEF Indexes
<1>2. Occupied(b, n) \in SUBSET Indexes(n)
  BY DEF Occupied
<1>3. IsFiniteSet(Occupied(b, n)) /\ Cardinality(Occupied(b, n)) <= Cardinality(Indexes(n))
  BY <1>1, <1>2, FS_Subset
<1>. QED  BY <1>1, <1>3, FS_CardinalityType

(* An array with fewer elements than buckets has a vacant one. *)
LEMMA VacantExists ==
  ASSUME NEW n \in Nat, NEW b, Cardinality(Occupied(b, n)) < n
  PROVE  \E i \in Indexes(n) : IsVacant(b[i])
<1>1. SUFFICES ASSUME \A i \in Indexes(n) : ~ IsVacant(b[i])  PROVE FALSE
  OBVIOUS
<1>2. Occupied(b, n) = 0..(n - 1)
  BY <1>1 DEF Occupied, Indexes
<1>3. Cardinality(0..(n - 1)) = IF 0 > n - 1 THEN 0 ELSE (n - 1) - 0 + 1
  BY FS_Interval
<1>. QED  BY <1>2, <1>3

(* An element goes to a vacant bucket. *)
LEMMA PutFacts ==
  ASSUME NEW n \in Nat, NEW b, NEW c, NEW i \in Indexes(n),
         IsVacant(b[i]), ~ IsVacant(c[i]),
         \A j \in Indexes(n) : j # i => c[j] = b[j]
  PROVE  /\ Occupied(c, n) = Occupied(b, n) \cup {i}
         /\ Cardinality(Occupied(c, n)) = Cardinality(Occupied(b, n)) + 1
         /\ Elements(c, Occupied(c, n)) = Elements(b, Occupied(b, n)) \cup {c[i]}
         /\ Unique(b, n) /\ (\A j \in Occupied(b, n) : b[j].key # c[i].key) => Unique(c, n)
<1>1. Occupied(c, n) = Occupied(b, n) \cup {i} /\ i \notin Occupied(b, n)
  BY DEF Occupied
<1>2. Cardinality(Occupied(c, n)) = Cardinality(Occupied(b, n)) + 1
  BY <1>1, OccupiedFinite, FS_AddElement
<1>3. \A j \in Occupied(b, n) : j # i /\ j \in Indexes(n) /\ c[j] = b[j]
  BY <1>1 DEF Occupied
<1>4. Elements(c, Occupied(c, n)) = Elements(b, Occupied(b, n)) \cup {c[i]}
  BY <1>1, <1>3 DEF Elements
<1>5. Unique(b, n) /\ (\A j \in Occupied(b, n) : b[j].key # c[i].key) => Unique(c, n)
  BY <1>1, <1>3 DEF Unique
<1>. QED  BY <1>1, <1>2, <1>4, <1>5

(* An element takes the bucket of another. *)
LEMMA ReplaceFacts ==
  ASSUME NEW n \in Nat, NEW b, NEW c, NEW i \in Occupied(b, n),
         ~ IsVacant(c[i]),
         \A j \in Indexes(n) : j # i => c[j] = b[j],
         Unique(b, n),
         \A j \in Occupied(b, n) : j # i => b[j].key # c[i].key
  PROVE  /\ Occupied(c, n) = Occupied(b, n)
         /\ Unique(c, n)
         /\ Elements(c, Occupied(c, n)) =
              {x \in Elements(b, Occupied(b, n)) : x.key # b[i].key} \cup {c[i]}
<1>1. Occupied(c, n) = Occupied(b, n)
  BY DEF Occupied
<1>2. \A j \in Occupied(b, n) : j # i => c[j] = b[j]
  BY DEF Occupied
<1>3. Unique(c, n)
  BY <1>1, <1>2 DEF Unique
<1>4. Elements(c, Occupied(c, n)) = Elements(b, Occupied(b, n) \ {i}) \cup {c[i]}
  BY <1>1, <1>2 DEF Elements
<1>5. Elements(b, Occupied(b, n) \ {i}) = {x \in Elements(b, Occupied(b, n)) : x.key # b[i].key}
  BY DEF Unique, Elements
<1>. QED  BY <1>1, <1>3, <1>4, <1>5

(* A bucket is vacated. *)
LEMMA VacateFacts ==
  ASSUME NEW n \in Nat, NEW b, NEW c, NEW i \in Occupied(b, n),
         IsVacant(c[i]),
         \A j \in Indexes(n) : j # i => c[j] = b[j],
         Unique(b, n)
  PROVE  /\ Occupied(c, n) = Occupied(b, n) \ {i}
         /\ Cardinality(Occupied(c, n)) = Cardinality(Occupied(b, n)) - 1
         /\ Unique(c, n)
         /\ Elements(c, Occupied(c, n)) =
              {x \in Elements(b, Occupied(b, n)) : x.key # b[i].key}
<1>1. Occupied(c, n) = Occupied(b, n) \ {i}
  BY DEF Occupied
<1>2. Cardinality(Occupied(c, n)) = Cardinality(Occupied(b, n)) - 1
  BY <1>1, OccupiedFinite, FS_RemoveElement
<1>3. \A j \in Occupied(b, n) : j # i => c[j] = b[j]
  BY DEF Occupied
<1>4. Unique(c, n)
  BY <1>1, <1>3 DEF Unique
<1>5. Elements(c, Occupied(c, n)) = Elements(b, Occupied(b, n) \ {i})
  BY <1>1, <1>3 DEF Elements
<1>6. Elements(b, Occupied(b, n) \ {i}) = {x \in Elements(b, Occupied(b, n)) : x.key # b[i].key}
  BY DEF Unique, Elements
<1>. QED  BY <1>1, <1>2, <1>4, <1>5, <1>6

(* A new array has no element. *)
LEMMA EmptyFacts ==
  ASSUME NEW n \in Nat
  PROVE  /\ EmptyArray(n) \in [Indexes(n) -> Element \cup {Vacant}]
         /\ Occupied(EmptyArray(n), n) = {}
         /\ Cardinality(Occupied(EmptyArray(n), n)) = 0
         /\ Unique(EmptyArray(n), n)
<1>1. \A i \in Indexes(n) : EmptyArray(n)[i] = Vacant /\ IsVacant(EmptyArray(n)[i])
  BY DEF EmptyArray, IsVacant, Vacant
<1>2. Occupied(EmptyArray(n), n) = {}
  BY <1>1 DEF Occupied
<1>. QED  BY <1>1, <1>2, FS_EmptySet DEF EmptyArray, Unique

(* Elements have a key, which is not null. *)
LEMMA ElementFacts ==
  /\ \A e \in Element : ~ IsVacant(e) /\ e.key \in Keys
  /\ IsVacant(Vacant)
  /\ \A e \in Element \cup {Vacant} : IsVacant(e) \/ e \in Element
BY KeysAssumption DEF Element, Vacant, IsVacant

(* The next bucket is a bucket: the probe wraps around. *)
LEMMA FollowingFacts ==
  ASSUME NEW n \in Nat, NEW i \in Indexes(n)
  PROVE  Following(i, n) \in Indexes(n)
BY DEF Indexes, Following

-----------------------------------------------------------------------------
(* Arithmetic of the load factor *)

(* Below the threshold there is a vacant bucket; so there is in half the array when it shrinks. *)
LEMMA LoadFacts ==
  ASSUME NEW c \in Nat, NEW s \in Nat
  PROVE  /\ ~ (c * ThresholdDen > s * ThresholdNum) /\ s > 0 => c < s
         /\ 3 * c * ThresholdDen < s * ThresholdNum => 3 * c < s
<1>. DEFINE N == ThresholdNum  D == ThresholdDen
<1>1. N \in Nat /\ D \in Nat /\ N < D
  BY SizeAssumption
<1>2. s * N <= s * D /\ (s > 0 => s * N < s * D)
  BY <1>1
<1>3. c >= s => c * D >= s * D
  BY <1>1
<1>4. 3 * c >= s => 3 * c * D >= s * D
  BY <1>1
<1>5. c * D \in Nat /\ s * D \in Nat /\ s * N \in Nat /\ 3 * c * D \in Nat
  BY <1>1
<1>6. ~ (c * D > s * N) /\ s > 0 => c < s
  BY <1>2, <1>3, <1>5
<1>7. 3 * c * D < s * N => 3 * c < s
  BY <1>2, <1>4, <1>5
<1>. QED  BY <1>6, <1>7

-----------------------------------------------------------------------------
(* The inductive invariant *)

(* The home of an address is a bucket. *)
LEMMA HomeFacts ==
  ASSUME TypeOK, NEW k \in Keys, NEW n \in 1..MaxSize
  PROVE  Home(k, n) \in Indexes(n)
<1>1. hash[k] \in Hashes
  BY DEF TypeOK
<1>. QED  BY <1>1, FoldAssumption DEF Home, Indexes

(* The size of the array that is rehashed to. *)
LEMMA NewSizeFacts ==
  ASSUME TypeOK, CountInv, Expanding \/ Shrinking
  PROVE  /\ NewSize \in 1..MaxSize
         /\ count < NewSize
         /\ NewSize \in Nat
<1>0. size \in Nat /\ MaxSize \in Nat /\ size <= MaxSize /\ count \in Nat
  BY SizeAssumption DEF TypeOK
<1>1. CASE Expanding
  <2>1. size > 0 /\ 2 * size <= MaxSize /\ count <= size /\ NewSize = 2 * size
    BY <1>1 DEF CountInv, Expanding, NewSize
  <2>. QED  BY <1>0, <2>1
<1>2. CASE Shrinking
  <2>1. size > 1 /\ 3 * count < size /\ NewSize = size \div 2
    BY <1>2 DEF CountInv, Shrinking, NewSize
  <2>. QED  BY <1>0, <2>1
<1>. QED  BY <1>1, <1>2

(* The table before its first array. *)
LEMMA InitInv == Init => IInv
<1>. SUFFICES ASSUME Init PROVE IInv
  OBVIOUS
<1>1. EmptyArray(0) \in [Indexes(0) -> Element \cup {Vacant}]
      /\ Cardinality(Occupied(EmptyArray(0), 0)) = 0 /\ Unique(EmptyArray(0), 0)
  BY EmptyFacts
<1>2. size = 0 /\ buckets = EmptyArray(0) /\ count = 0 /\ pc = "idle" /\ idx = 0 /\ source = 0
      /\ arg = Vacant /\ moved = Vacant /\ hash \in [Keys -> Hashes] /\ DOMAIN refs = {}
  BY DEF Init, NoRefs
<1>3. TypeOK
  BY <1>1, <1>2, SizeAssumption DEF TypeOK, PCs, Vacant
<1>4. CountInv
  BY <1>1, <1>2 DEF CountInv, Expanding, Shrinking
<1>5. KeysInv
  BY <1>1, <1>2 DEF KeysInv, Expanding
<1>6. RehashInv /\ RefDenotesItsKey
  BY <1>2 DEF RehashInv, Expanding, Shrinking, RefDenotesItsKey
<1>. QED  BY <1>3, <1>4, <1>5, <1>6 DEF IInv

(* The element at the source, when the new array gets it in bucket i. *)
LEMMA RehashedFacts ==
  ASSUME IInv, Expanding \/ Shrinking, source < size, NEW i \in Indexes(NewSize),
         ~ IsVacant(buckets[source]), IsVacant(fresh[i]),
         fresh' = [fresh EXCEPT ![i] = buckets[source]], source' = source + 1
  PROVE  LET done == Occupied(buckets, size) \cap Indexes(source') IN
         /\ fresh' \in [Indexes(NewSize) -> Element \cup {Vacant}]
         /\ Unique(fresh', NewSize)
         /\ Elements(fresh', Occupied(fresh', NewSize)) = Elements(buckets, done)
         /\ Cardinality(Occupied(fresh', NewSize)) = Cardinality(done)
<1>. DEFINE done == Occupied(buckets, size) \cap Indexes(source)
            then == Occupied(buckets, size) \cap Indexes(source')
            e == buckets[source]
            n == NewSize
            f == fresh'
<1>1. /\ size \in Nat /\ source \in Nat /\ n \in Nat
      /\ buckets \in [Indexes(size) -> Element \cup {Vacant}]
      /\ source \in Indexes(size)
  BY NewSizeFacts DEF IInv, TypeOK, Indexes
<1>2. /\ fresh \in [Indexes(n) -> Element \cup {Vacant}]
      /\ Unique(fresh, n)
      /\ Elements(fresh, Occupied(fresh, n)) = Elements(buckets, done)
      /\ Cardinality(Occupied(fresh, n)) = Cardinality(done)
      /\ Unique(buckets, size)
  BY DEF IInv, RehashInv, KeysInv
<1>3. e \in Element /\ source \in Occupied(buckets, size)
  BY <1>1, ElementFacts DEF Occupied
<1>4. then = done \cup {source} /\ source \notin done
  BY <1>1, <1>3 DEF Indexes
<1>5. \A j \in Occupied(fresh, n) : fresh[j].key # e.key
  <2>1. TAKE j \in Occupied(fresh, n)
  <2>2. PICK k \in done : fresh[j] = buckets[k]
    BY <1>2 DEF Elements
  <2>3. k # source /\ k \in Occupied(buckets, size)
    BY <1>4
  <2>. QED  BY <1>2, <1>3, <2>2, <2>3 DEF Unique
<1>6. f[i] = e /\ (\A j \in Indexes(n) : j # i => f[j] = fresh[j])
      /\ f \in [Indexes(n) -> Element \cup {Vacant}]
  BY <1>2, <1>3
<1>7. IsVacant(fresh[i]) /\ ~ IsVacant(e) /\ i \in Indexes(n)
  OBVIOUS
<1>8. /\ Cardinality(Occupied(f, n)) = Cardinality(Occupied(fresh, n)) + 1
      /\ Elements(f, Occupied(f, n)) = Elements(fresh, Occupied(fresh, n)) \cup {e}
      /\ Unique(f, n)
  <2>. HIDE DEF f, n, e
  <2>1. /\ n \in Nat /\ i \in Indexes(n) /\ IsVacant(fresh[i]) /\ ~ IsVacant(f[i])
        /\ \A j \in Indexes(n) : j # i => f[j] = fresh[j]
    BY ONLY <1>1, <1>6, <1>7
  <2>2. /\ Cardinality(Occupied(f, n)) = Cardinality(Occupied(fresh, n)) + 1
        /\ Elements(f, Occupied(f, n)) = Elements(fresh, Occupied(fresh, n)) \cup {f[i]}
        /\ Unique(fresh, n) /\ (\A j \in Occupied(fresh, n) : fresh[j].key # f[i].key) => Unique(f, n)
    BY ONLY <2>1, PutFacts
  <2>. QED  BY ONLY <1>2, <1>5, <1>6, <2>2
<1>9. Cardinality(then) = Cardinality(done) + 1
  <2>1. IsFiniteSet(done)
    <3>1. done \in SUBSET Occupied(buckets, size)
      OBVIOUS
    <3>. QED  BY <1>1, <3>1, OccupiedFinite, FS_Subset
  <2>. QED  BY <1>4, <2>1, FS_AddElement
<1>10. Elements(buckets, then) = Elements(buckets, done) \cup {e}
  BY <1>4 DEF Elements
<1>. QED  BY <1>2, <1>6, <1>8, <1>9, <1>10

(* What the loops of ExpandTable and ShrinkTable share. *)
IsPair(loop, probe) ==
  \/ loop = "expand" /\ probe = "expand probe"
  \/ loop = "shrink" /\ probe = "shrink probe"

IsEnd(loop, next) ==
  \/ loop = "expand" /\ next = "place"
  \/ loop = "shrink" /\ next = "idle"

(* A turn of the loop that rehashes takes or places one element. *)
LEMMA RehashInvStep ==
  ASSUME IInv, NEW loop, NEW probe, IsPair(loop, probe),
         Rehash(loop, probe) \/ RehashProbe(loop, probe)
  PROVE  IInv'
<1>1. /\ pc \in {loop, probe} /\ pc' \in {loop, probe} /\ (Expanding \/ Shrinking)
      /\ NewSize' = NewSize /\ (Expanding' <=> Expanding) /\ (Shrinking' <=> Shrinking)
      /\ pc' \in PCs
      /\ source < size
  <2>1. pc = probe => source < size
    <3>1. pc = probe => (Expanding \/ Shrinking) /\ pc \in {"expand probe", "shrink probe"}
      BY DEF IsPair, Expanding, Shrinking
    <3>2. pc = probe => source \in Occupied(buckets, size)
      BY <3>1 DEF IInv, RehashInv
    <3>3. size \in Nat
      BY DEF IInv, TypeOK
    <3>. QED  BY <3>2, <3>3 DEF Occupied, Indexes
  <2>2. /\ (pc = loop /\ source < size) \/ pc = probe
        /\ pc' \in {loop, probe}
        /\ size' = size
    <3>1. CASE Rehash(loop, probe)
      <4>1. pc = loop /\ source < size /\ size' = size
        BY <3>1 DEF Rehash
      <4>2. pc' = pc \/ pc' = probe
        BY <3>1 DEF Rehash
      <4>. QED  BY <4>1, <4>2
    <3>2. CASE RehashProbe(loop, probe)
      BY <3>2 DEF RehashProbe
    <3>. QED  BY <3>1, <3>2
  <2>. QED  BY <2>1, <2>2 DEF IsPair, Expanding, Shrinking, NewSize, PCs
<1>2. UNCHANGED <<hash, size, buckets, count, refs, arg, moved>>
  BY DEF Rehash, RehashProbe
<1>3. /\ NewSize \in 1..MaxSize /\ NewSize \in Nat
      /\ size \in Nat /\ source \in Nat /\ TypeOK
  BY <1>1, NewSizeFacts DEF IInv, TypeOK
<1>. DEFINE home == Home(buckets[source].key, NewSize)
            next == Following(idx, NewSize)
<1>4. ~ IsVacant(buckets[source]) => home \in Indexes(NewSize)
  <2>1. buckets[source] \in Element \cup {Vacant}
    BY <1>1, <1>3 DEF TypeOK, Indexes
  <2>. QED  BY <1>3, <2>1, ElementFacts, HomeFacts
<1>5. pc = probe => idx \in Indexes(NewSize) /\ next \in Indexes(NewSize)
                    /\ ~ IsVacant(buckets[source])
  BY <1>1, <1>3, FollowingFacts DEF IInv, RehashInv, IsPair, Occupied
<1>6. (* the element goes to a bucket i *)
      ASSUME NEW i \in Indexes(NewSize), ~ IsVacant(buckets[source]), IsVacant(fresh[i]),
             fresh' = [fresh EXCEPT ![i] = buckets[source]], source' = source + 1,
             pc' = loop, idx' \in Nat
      PROVE  IInv'
  <2>1. /\ fresh' \in [Indexes(NewSize) -> Element \cup {Vacant}]
        /\ Unique(fresh', NewSize)
        /\ Elements(fresh', Occupied(fresh', NewSize)) =
             Elements(buckets, Occupied(buckets, size) \cap Indexes(source'))
        /\ Cardinality(Occupied(fresh', NewSize)) =
             Cardinality(Occupied(buckets, size) \cap Indexes(source'))
    BY <1>1, <1>6, RehashedFacts
  <2>2. RehashInv'
    BY <1>1, <1>2, <1>6, <2>1 DEF RehashInv, IsPair
  <2>3. TypeOK'
    BY <1>1, <1>2, <1>3, <1>6 DEF TypeOK
  <2>. QED  BY <1>1, <1>2, <1>6, <2>2, <2>3 DEF IInv, CountInv, KeysInv, RefDenotesItsKey, IsPair
<1>7. (* there is nothing to rehash in the bucket *)
      ASSUME IsVacant(buckets[source]), source' = source + 1, pc' = loop, UNCHANGED <<idx, fresh>>
      PROVE  IInv'
  <2>1. Occupied(buckets, size) \cap Indexes(source') = Occupied(buckets, size) \cap Indexes(source)
    BY <1>3, <1>7 DEF Occupied, Indexes
  <2>2. RehashInv'
    BY <1>1, <1>2, <1>7, <2>1 DEF IInv, RehashInv, IsPair
  <2>3. TypeOK'
    BY <1>1, <1>2, <1>3, <1>7 DEF TypeOK
  <2>. QED  BY <1>1, <1>2, <1>7, <2>2, <2>3 DEF IInv, CountInv, KeysInv, RefDenotesItsKey, IsPair
<1>8. (* the probe goes on *)
      ASSUME idx' \in Indexes(NewSize), ~ IsVacant(buckets[source]), pc' = probe,
             UNCHANGED <<source, fresh>>
      PROVE  IInv'
  <2>1. source \in Occupied(buckets, size)
    BY <1>1, <1>3, <1>8 DEF Occupied, Indexes
  <2>2. RehashInv'
    BY <1>1, <1>2, <1>8, <2>1 DEF IInv, RehashInv, IsPair
  <2>3. TypeOK'
    BY <1>1, <1>2, <1>3, <1>8 DEF TypeOK, Indexes
  <2>. QED  BY <1>1, <1>2, <1>8, <2>2, <2>3 DEF IInv, CountInv, KeysInv, RefDenotesItsKey, IsPair
<1>9. CASE Rehash(loop, probe)
  <2>1. CASE IsVacant(buckets[source])
    BY <1>7, <1>9, <2>1 DEF Rehash
  <2>2. CASE ~ IsVacant(buckets[source]) /\ IsVacant(fresh[home])
    <3>1. idx' \in Nat
      BY <1>3, <1>9, <2>2 DEF Rehash, TypeOK
    <3>. QED  BY <1>4, <1>6, <1>9, <2>2, <3>1 DEF Rehash
  <2>3. CASE ~ IsVacant(buckets[source]) /\ ~ IsVacant(fresh[home])
    BY <1>4, <1>8, <1>9, <2>3 DEF Rehash
  <2>. QED  BY <2>1, <2>2, <2>3
<1>10. CASE RehashProbe(loop, probe)
  <2>0. pc = probe /\ next \in Indexes(NewSize) /\ ~ IsVacant(buckets[source])
    BY <1>5, <1>10 DEF RehashProbe
  <2>1. CASE IsVacant(fresh[next])
    BY <1>6, <1>10, <2>0, <2>1 DEF RehashProbe
  <2>2. CASE ~ IsVacant(fresh[next])
    BY <1>8, <1>10, <2>0, <2>2 DEF RehashProbe
  <2>. QED  BY <2>1, <2>2
<1>. QED  BY <1>9, <1>10

(* The new array has all the elements of the old one, and no others. *)
LEMMA RehashEndFacts ==
  ASSUME IInv, Expanding \/ Shrinking, source = size
  PROVE  /\ fresh \in [Indexes(NewSize) -> Element \cup {Vacant}]
         /\ Unique(fresh, NewSize)
         /\ Elements(fresh, Occupied(fresh, NewSize)) = Stored
         /\ Cardinality(Occupied(fresh, NewSize)) = Cardinality(Occupied(buckets, size))
<1>1. Occupied(buckets, size) \cap Indexes(source) = Occupied(buckets, size)
  BY DEF Occupied
<1>. QED  BY <1>1 DEF IInv, RehashInv, Stored

(* The rehashed array replaces the old one. *)
LEMMA RehashEndInv ==
  ASSUME IInv, NEW loop, NEW next, RehashEnd(loop, next), IsEnd(loop, next)
  PROVE  IInv'
<1>1. /\ Expanding \/ Shrinking
      /\ source = size /\ pc' = next /\ size' = NewSize /\ buckets' = fresh /\ source' = 0
      /\ ~ Expanding' /\ ~ Shrinking' /\ pc' \in PCs /\ DOMAIN refs = {}
      /\ pc # "displace" /\ pc' # "displace"
  BY DEF IsEnd, RehashEnd, Expanding, Shrinking, PCs, IInv, KeysInv
<1>2. UNCHANGED <<hash, count, refs, arg, idx, moved>>
  BY DEF RehashEnd
<1>3. /\ NewSize \in 1..MaxSize /\ NewSize \in Nat /\ count < NewSize /\ count \in Nat
      /\ size \in Nat
  BY <1>1, NewSizeFacts DEF IInv, TypeOK
<1>4. /\ fresh \in [Indexes(NewSize) -> Element \cup {Vacant}]
      /\ Unique(fresh, NewSize)
      /\ Elements(fresh, Occupied(fresh, NewSize)) = Elements(buckets, Occupied(buckets, size))
      /\ Cardinality(Occupied(fresh, NewSize)) = Cardinality(Occupied(buckets, size))
  BY <1>1, RehashEndFacts DEF Stored
<1>5. TypeOK'
  BY <1>1, <1>2, <1>3, <1>4 DEF TypeOK, IInv
<1>6. CountInv'
  BY <1>1, <1>2, <1>3, <1>4 DEF CountInv, IInv
<1>7. pc' = "place" => arg \in Element /\ \A i \in Indexes(NewSize) : fresh[i].key # arg.key
  <2>1. SUFFICES ASSUME pc' = "place"
                 PROVE  arg \in Element /\ \A i \in Indexes(NewSize) : fresh[i].key # arg.key
    OBVIOUS
  <2>2. Expanding
    BY <1>1, <2>1 DEF IsEnd, RehashEnd, Expanding
  <2>3. arg \in Element /\ \A j \in Indexes(size) : buckets[j].key # arg.key
    BY <2>2 DEF IInv, KeysInv
  <2>4. ASSUME NEW i \in Indexes(NewSize)
        PROVE  fresh[i].key # arg.key
    <3>1. CASE IsVacant(fresh[i])
      BY <2>3, <3>1, KeysAssumption DEF IsVacant, Element
    <3>2. CASE ~ IsVacant(fresh[i])
      <4>1. PICK j \in Occupied(buckets, size) : fresh[i] = buckets[j]
        BY <1>4, <3>2 DEF Occupied, Elements
      <4>. QED  BY <2>3, <4>1 DEF Occupied
    <3>. QED  BY <3>1, <3>2
  <2>. QED  BY <2>3, <2>4
<1>8. KeysInv'
  BY <1>1, <1>2, <1>4, <1>7 DEF KeysInv, IsEnd, RehashEnd
<1>9. RehashInv' /\ RefDenotesItsKey'
  BY <1>1, <1>2 DEF RehashInv, RefDenotesItsKey
<1>. QED  BY <1>5, <1>6, <1>8, <1>9 DEF IInv

(* A key that is not stored is in no bucket, vacant ones included. *)
LEMMA AbsentFacts ==
  ASSUME TypeOK, pc # "displace", NEW k \in Keys
  PROVE  k \in KeysStored <=> \E i \in Indexes(size) : buckets[i].key = k
<1>1. \A i \in Indexes(size) : buckets[i].key = k => i \in Occupied(buckets, size)
  BY KeysAssumption DEF Occupied, IsVacant
<1>2. Occupied(buckets, size) \subseteq Indexes(size)
  BY DEF Occupied
<1>. QED  BY <1>1, <1>2 DEF KeysStored, Entries, Stored, Elements

(* The steps, one lemma each. *)

(* Insert finds room, or starts to make it. *)
LEMMA InsertBeginInv ==
  ASSUME IInv, NEW k \in Keys, NEW v \in Values, InsertBegin(k, v)
  PROVE  IInv'
<1>0. TypeOK /\ CountInv /\ KeysInv /\ pc = "idle" /\ size \in Nat /\ count \in Nat /\ count <= size
  BY DEF IInv, TypeOK, CountInv, InsertBegin
<1>1. /\ arg' = [key |-> k, val |-> v] /\ arg' \in Element /\ arg'.key = k
      /\ DOMAIN refs' = {} /\ UNCHANGED <<hash, count, idx, moved>>
      /\ \A i \in Indexes(size) : buckets[i].key # k
  BY <1>0, AbsentFacts DEF InsertBegin, Element, NoRefs
<1>2. CASE size = 0 /\ pc' = "place" /\ Allocate
  <2>1. /\ size' = InitialSize /\ buckets' = EmptyArray(InitialSize) /\ InitialSize \in Nat
        /\ InitialSize > 0 /\ InitialSize <= MaxSize /\ UNCHANGED source /\ source = 0 /\ count = 0
        /\ MaxSize \in Nat
    BY <1>0, <1>2, SizeAssumption DEF Allocate, TypeOK
  <2>2. /\ buckets' \in [Indexes(size') -> Element \cup {Vacant}]
        /\ Cardinality(Occupied(buckets', size')) = 0
        /\ Unique(buckets', size')
        /\ \A i \in Indexes(size') : buckets'[i].key # k
    <3>1. \A i \in Indexes(InitialSize) : EmptyArray(InitialSize)[i].key = Null
      BY DEF EmptyArray, Vacant
    <3>. QED  BY <2>1, <3>1, EmptyFacts, KeysAssumption
  <2>3. TypeOK'
    BY <1>0, <1>1, <1>2, <2>1, <2>2 DEF TypeOK, PCs, Element
  <2>4. CountInv' /\ KeysInv' /\ RehashInv' /\ RefDenotesItsKey'
    BY <1>1, <1>2, <2>1, <2>2
       DEF CountInv, KeysInv, RehashInv, RefDenotesItsKey, Expanding, Shrinking
  <2>. QED  BY <2>3, <2>4 DEF IInv
<1>3. CASE size > 0 /\ Overloaded /\ 2 * size <= MaxSize /\ pc' = "expand" /\ RehashTo(2 * size)
  <2>1. /\ fresh' = EmptyArray(2 * size) /\ source' = 0 /\ UNCHANGED <<size, buckets>>
        /\ NewSize' = 2 * size /\ 2 * size \in Nat
    BY <1>0, <1>3 DEF RehashTo, NewSize
  <2>2. /\ fresh' \in [Indexes(2 * size) -> Element \cup {Vacant}]
        /\ Occupied(fresh', 2 * size) = {}
        /\ Unique(fresh', 2 * size)
    BY <2>1, EmptyFacts
  <2>3. Occupied(buckets, size) \cap Indexes(0) = {}
    BY DEF Indexes
  <2>4. RehashInv'
    BY <1>3, <2>1, <2>2, <2>3 DEF RehashInv, Elements
  <2>5. TypeOK'
    BY <1>0, <1>1, <1>3, <2>1 DEF TypeOK, PCs, Element
  <2>6. CountInv' /\ KeysInv' /\ RefDenotesItsKey'
    BY <1>0, <1>1, <1>3, <2>1
       DEF CountInv, KeysInv, RefDenotesItsKey, Expanding, Shrinking
  <2>. QED  BY <2>4, <2>5, <2>6 DEF IInv
<1>4. CASE size > 0 /\ ~ Overloaded /\ pc' = "place" /\ UNCHANGED <<size, buckets, fresh, source>>
  <2>1. count < size
    BY <1>0, <1>4, LoadFacts DEF Overloaded
  <2>2. TypeOK'
    BY <1>0, <1>1, <1>4 DEF TypeOK, PCs, Element
  <2>3. CountInv' /\ KeysInv' /\ RehashInv' /\ RefDenotesItsKey'
    BY <1>0, <1>1, <1>4, <2>1
       DEF CountInv, KeysInv, RehashInv, RefDenotesItsKey, Expanding, Shrinking
  <2>. QED  BY <2>2, <2>3 DEF IInv
<1>. QED  BY <1>2, <1>3, <1>4 DEF InsertBegin

(* The new element takes its home; the one it displaces is carried on. *)
LEMMA PlaceInv ==
  ASSUME IInv, Place
  PROVE  IInv'
<1>. DEFINE home == Home(arg.key, size)
            b == buckets
            c == buckets'
<1>1. /\ TypeOK /\ pc = "place" /\ size \in 1..MaxSize /\ size \in Nat /\ count \in Nat /\ count < size
      /\ b \in [Indexes(size) -> Element \cup {Vacant}] /\ Unique(b, size)
      /\ arg \in Element /\ \A i \in Indexes(size) : b[i].key # arg.key
      /\ count = Cardinality(Occupied(b, size))
  <2>1. TypeOK /\ CountInv /\ KeysInv /\ pc = "place"
    BY DEF IInv, Place
  <2>2. /\ size \in 0..MaxSize /\ MaxSize \in Nat /\ count \in Nat /\ count < size
        /\ b \in [Indexes(size) -> Element \cup {Vacant}]
        /\ count = Cardinality(Occupied(b, size)) + 0
    BY <2>1, SizeAssumption DEF TypeOK, CountInv
  <2>3. Unique(b, size) /\ arg \in Element /\ \A i \in Indexes(size) : b[i].key # arg.key
    BY <2>1 DEF KeysInv
  <2>4. Cardinality(Occupied(b, size)) \in Nat
    BY <2>2, OccupiedFinite
  <2>. QED  BY <2>1, <2>2, <2>3, <2>4
<1>2. home \in Indexes(size) /\ ~ IsVacant(arg) /\ arg.key \in Keys /\ b[home] \in Element \cup {Vacant}
  BY <1>1, HomeFacts, ElementFacts
<1>3. /\ c \in [Indexes(size) -> Element \cup {Vacant}]
      /\ c[home] = arg
      /\ \A j \in Indexes(size) : j # home => c[j] = b[j]
  BY <1>1, <1>2 DEF Place
<1>4. /\ count' = count + 1 /\ moved' = b[home] /\ UNCHANGED <<hash, size, fresh, source>>
      /\ DOMAIN refs' = {arg.key} /\ refs'[arg.key] = home
  BY DEF Place
<1>5. CASE IsVacant(b[home])
  <2>1. pc' = "idle" /\ idx' = 0 /\ arg' = Vacant
    BY <1>5 DEF Place, Return
  <2>2. Cardinality(Occupied(c, size)) = Cardinality(Occupied(b, size)) + 1 /\ Unique(c, size)
    <3>1. /\ home \in Indexes(size) /\ IsVacant(b[home]) /\ ~ IsVacant(c[home])
          /\ \A j \in Indexes(size) : j # home => c[j] = b[j]
          /\ \A j \in Occupied(b, size) : b[j].key # c[home].key
      BY <1>1, <1>2, <1>3, <1>5 DEF Occupied
    <3>. HIDE DEF home, b, c
    <3>. QED  BY ONLY <1>1, <3>1, PutFacts
  <2>3. TypeOK'
    BY <1>1, <1>2, <1>3, <1>4, <2>1 DEF TypeOK, PCs
  <2>4. CountInv' /\ RehashInv'
    BY <1>1, <1>4, <2>1, <2>2 DEF CountInv, RehashInv, Expanding, Shrinking
  <2>5. KeysInv' /\ RefDenotesItsKey'
    BY <1>3, <1>4, <2>1, <2>2 DEF KeysInv, RefDenotesItsKey, Expanding, Shrinking
  <2>. QED  BY <2>3, <2>4, <2>5 DEF IInv
<1>6. CASE ~ IsVacant(b[home])
  <2>1. pc' = "displace" /\ idx' = home /\ UNCHANGED arg
    BY <1>6 DEF Place
  <2>2. home \in Occupied(b, size) /\ b[home] \in Element
    BY <1>2, <1>6, ElementFacts DEF Occupied
  <2>3. Occupied(c, size) = Occupied(b, size) /\ Unique(c, size)
    <3>1. /\ ~ IsVacant(c[home]) /\ (\A j \in Indexes(size) : j # home => c[j] = b[j])
          /\ \A j \in Occupied(b, size) : j # home => b[j].key # c[home].key
      BY <1>1, <1>2, <1>3 DEF Occupied
    <3>. HIDE DEF home, b, c
    <3>. QED  BY ONLY <1>1, <2>2, <3>1, ReplaceFacts
  <2>4. TypeOK'
    BY <1>1, <1>2, <1>3, <1>4, <2>1 DEF TypeOK, PCs, Indexes
  <2>5. CountInv' /\ RehashInv'
    BY <1>1, <1>4, <2>1, <2>3 DEF CountInv, RehashInv, Expanding, Shrinking
  <2>6. \A i \in Indexes(size) : c[i].key # b[home].key
    <3>1. TAKE i \in Indexes(size)
    <3>2. CASE i = home
      BY <1>1, <1>2, <1>3, <3>2
    <3>3. CASE i # home
      <4>1. c[i] = b[i] /\ b[home].key # Null
        BY <1>3, <1>6, <3>3 DEF IsVacant
      <4>2. b[i].key = b[home].key => i \in Occupied(b, size)
        BY <4>1 DEF Occupied, IsVacant
      <4>. QED  BY <1>1, <2>2, <3>3, <4>1, <4>2 DEF Unique
    <3>. QED  BY <3>2, <3>3
  <2>7. KeysInv' /\ RefDenotesItsKey'
    BY <1>2, <1>3, <1>4, <2>1, <2>2, <2>3, <2>6 DEF KeysInv, RefDenotesItsKey, Expanding, Shrinking
  <2>. QED  BY <2>4, <2>5, <2>7 DEF IInv
<1>. QED  BY <1>5, <1>6

(* The displaced element finds a bucket. *)
LEMMA DisplaceInv ==
  ASSUME IInv, Displace
  PROVE  IInv'
<1>. DEFINE next == Following(idx, size)
            b == buckets
            c == buckets'
<1>1. /\ TypeOK /\ CountInv /\ KeysInv /\ RefDenotesItsKey /\ pc = "displace"
      /\ UNCHANGED <<hash, size, count, refs, fresh, source>>
  BY DEF IInv, Displace
<1>2. /\ size \in Nat /\ count \in Nat /\ count <= size
      /\ b \in [Indexes(size) -> Element \cup {Vacant}]
      /\ count = Cardinality(Occupied(b, size)) + 1
  BY <1>1 DEF TypeOK, CountInv
<1>3. /\ Unique(b, size) /\ moved \in Element /\ idx \in Indexes(size)
      /\ \A i \in Indexes(size) : b[i].key # moved.key
  BY <1>1 DEF KeysInv
<1>4. next \in Indexes(size)
  BY <1>2, <1>3, FollowingFacts
<1>5. CASE IsVacant(b[next])
  <2>1. /\ pc' = "idle" /\ idx' = 0 /\ arg' = Vacant /\ moved' = Vacant
        /\ c = [b EXCEPT ![next] = moved]
    BY <1>1, <1>5 DEF Displace, Return
  <2>2. /\ c \in [Indexes(size) -> Element \cup {Vacant}]
        /\ c[next] = moved
        /\ \A j \in Indexes(size) : j # next => c[j] = b[j]
    BY <1>2, <1>3, <1>4, <2>1
  <2>3. Cardinality(Occupied(c, size)) = Cardinality(Occupied(b, size)) + 1 /\ Unique(c, size)
    <3>1. /\ next \in Indexes(size) /\ IsVacant(b[next]) /\ ~ IsVacant(c[next])
          /\ \A j \in Indexes(size) : j # next => c[j] = b[j]
          /\ \A j \in Occupied(b, size) : b[j].key # c[next].key
      BY <1>3, <1>4, <1>5, <2>2, ElementFacts DEF Occupied
    <3>. HIDE DEF next, b, c
    <3>. QED  BY ONLY <1>2, <1>3, <3>1, PutFacts
  <2>4. TypeOK'
    BY <1>1, <2>1, <2>2 DEF TypeOK, PCs
  <2>5. CountInv' /\ KeysInv' /\ RehashInv'
    BY <1>1, <1>2, <2>1, <2>3 DEF CountInv, KeysInv, RehashInv, Expanding, Shrinking
  <2>6. RefDenotesItsKey'
    <3>1. \A k \in DOMAIN refs : refs[k] \in Indexes(size) /\ b[refs[k]].key = k /\ k \in Keys
      BY <1>1 DEF TypeOK, RefDenotesItsKey
    <3>2. \A k \in DOMAIN refs : refs[k] # next
      BY <1>5, <3>1, KeysAssumption DEF IsVacant
    <3>. QED  BY <1>1, <2>2, <3>1, <3>2 DEF RefDenotesItsKey
  <2>. QED  BY <2>4, <2>5, <2>6 DEF IInv
<1>6. CASE ~ IsVacant(b[next])
  <2>1. idx' = next /\ UNCHANGED <<buckets, moved, pc, arg>>
    BY <1>1, <1>6 DEF Displace
  <2>2. TypeOK'
    BY <1>1, <1>2, <1>4, <2>1 DEF TypeOK, Indexes
  <2>. QED  BY <1>1, <1>4, <2>1, <2>2
            DEF IInv, CountInv, KeysInv, RehashInv, RefDenotesItsKey, Expanding, Shrinking
<1>. QED  BY <1>5, <1>6

(* A reference to an element that has been found joins the others. *)
LEMMA FoundInv ==
  ASSUME IInv, NEW k \in Keys, NEW i \in Indexes(size), buckets[i].key = k,
         pc \in {"idle", "lookup"}, pc' = "idle", refs' = With(k, i),
         idx' \in Nat, arg' \in [key : Keys, val : Values \cup {Null}] \cup {Vacant},
         UNCHANGED <<hash, size, buckets, count, moved, fresh, source>>
  PROVE  IInv'
<1>1. TypeOK /\ CountInv /\ KeysInv /\ RefDenotesItsKey
  BY DEF IInv
<1>2. /\ DOMAIN refs' \subseteq Keys
      /\ \A l \in DOMAIN refs' : refs'[l] \in Indexes(size) /\ buckets[refs'[l]].key = l
  BY <1>1 DEF With, TypeOK, RefDenotesItsKey
<1>3. TypeOK' /\ RefDenotesItsKey'
  BY <1>1, <1>2 DEF TypeOK, RefDenotesItsKey, PCs
<1>4. CountInv' /\ KeysInv' /\ RehashInv'
  BY <1>1 DEF CountInv, KeysInv, RehashInv, Expanding, Shrinking
<1>. QED  BY <1>3, <1>4 DEF IInv

(* Lookup follows the probe to the element. *)
LEMMA LookupInv ==
  ASSUME IInv, (\E k \in Keys : LookupBegin(k)) \/ Lookup
  PROVE  IInv'
<1>0. TypeOK /\ CountInv /\ KeysInv /\ RefDenotesItsKey /\ size \in Nat
  BY DEF IInv, TypeOK
<1>1. ASSUME NEW k \in Keys, LookupBegin(k)
      PROVE  IInv'
  <2>. DEFINE home == Home(k, size)
  <2>1. pc = "idle" /\ UNCHANGED <<hash, size, buckets, count, moved, fresh, source>>
    BY <1>1 DEF LookupBegin
  <2>2. \E i \in Indexes(size) : buckets[i].key = k
    BY <1>0, <1>1, <2>1, AbsentFacts DEF LookupBegin
  <2>3. home \in Indexes(size)
    <3>1. size \in 1..MaxSize
      BY <1>0, <2>2, SizeAssumption DEF TypeOK, Indexes
    <3>. QED  BY <1>0, <3>1, HomeFacts
  <2>4. CASE buckets[home].key = k
    <3>1. refs' = With(k, home) /\ UNCHANGED <<pc, idx, arg>>
      BY <1>1, <2>4 DEF LookupBegin
    <3>. QED  BY <1>0, <2>1, <2>3, <2>4, <3>1, FoundInv DEF TypeOK
  <2>5. CASE buckets[home].key # k
    <3>1. pc' = "lookup" /\ idx' = home /\ arg' = [key |-> k, val |-> Null] /\ UNCHANGED refs
      BY <1>1, <2>5 DEF LookupBegin
    <3>2. \E i \in Occupied(buckets, size) : buckets[i].key = arg'.key
      BY <2>2, <3>1, KeysAssumption DEF Occupied, IsVacant
    <3>3. TypeOK'
      BY <1>0, <2>1, <2>3, <3>1 DEF TypeOK, PCs, Indexes
    <3>. QED  BY <1>0, <2>1, <2>3, <3>1, <3>2, <3>3
              DEF IInv, CountInv, KeysInv, RehashInv, RefDenotesItsKey, Expanding, Shrinking
  <2>. QED  BY <2>4, <2>5
<1>2. CASE Lookup
  <2>. DEFINE next == Following(idx, size)
  <2>1. pc = "lookup" /\ UNCHANGED <<hash, size, buckets, count, moved, fresh, source>>
    BY <1>2 DEF Lookup
  <2>2. idx \in Indexes(size) /\ \E i \in Occupied(buckets, size) : buckets[i].key = arg.key
    BY <1>0, <2>1 DEF KeysInv
  <2>3. next \in Indexes(size)
    BY <1>0, <2>2, FollowingFacts
  <2>4. CASE buckets[next].key = arg.key
    <3>1. refs' = With(arg.key, next) /\ pc' = "idle" /\ idx' = 0 /\ arg' = Vacant
      BY <1>2, <2>4 DEF Lookup, Return
    <3>2. arg.key \in Keys
      <4>1. PICK i \in Occupied(buckets, size) : buckets[i].key = arg.key
        BY <2>2
      <4>2. buckets[i] \in Element
        BY <1>0, <4>1, ElementFacts DEF TypeOK, Occupied
      <4>. QED  BY <4>1, <4>2, ElementFacts
    <3>. QED  BY <2>1, <2>3, <2>4, <3>1, <3>2, FoundInv
  <2>5. CASE buckets[next].key # arg.key
    <3>1. idx' = next /\ UNCHANGED <<refs, pc, arg>>
      BY <1>2, <2>5 DEF Lookup
    <3>2. TypeOK'
      BY <1>0, <2>1, <2>3, <3>1 DEF TypeOK, Indexes
    <3>. QED  BY <1>0, <2>1, <2>2, <2>3, <3>1, <3>2
              DEF IInv, CountInv, KeysInv, RehashInv, RefDenotesItsKey, Expanding, Shrinking
  <2>. QED  BY <2>4, <2>5
<1>. QED  BY <1>1, <1>2

(* Changing the value of an element keeps its bucket. *)
LEMMA SetPointedMemBlockFacts ==
  ASSUME IInv, NEW k \in Keys, NEW v \in Values, SetPointedMemBlock(k, v)
  PROVE  /\ IInv'
         /\ Stored' = {x \in Stored : x.key # k} \cup {[key |-> k, val |-> v]}
         /\ \E x \in Stored : x.key = k
<1>. DEFINE i == refs[k]
            b == buckets
            c == buckets'
            e == [key |-> k, val |-> v]
<1>1. /\ TypeOK /\ CountInv /\ KeysInv /\ RefDenotesItsKey /\ pc = "idle" /\ k \in DOMAIN refs
      /\ UNCHANGED <<hash, size, count, refs, pc, arg, idx, moved, fresh, source>>
  BY DEF IInv, SetPointedMemBlock
<1>2. /\ size \in Nat /\ i \in Indexes(size) /\ b[i].key = k /\ Unique(b, size)
      /\ b \in [Indexes(size) -> Element \cup {Vacant}]
  BY <1>1 DEF TypeOK, RefDenotesItsKey, KeysInv
<1>3. i \in Occupied(b, size) /\ b[i] \in Element
  BY <1>2, ElementFacts, KeysAssumption DEF Occupied, IsVacant
<1>4. /\ e \in Element /\ e.key = k
      /\ c[i] = e /\ ~ IsVacant(e)
      /\ \A j \in Indexes(size) : j # i => c[j] = b[j]
      /\ c \in [Indexes(size) -> Element \cup {Vacant}]
  <2>1. c = [b EXCEPT ![i] = [b[i] EXCEPT !.val = v]]
    BY DEF SetPointedMemBlock
  <2>2. [b[i] EXCEPT !.val = v] = e /\ e \in Element /\ e.key = k
    BY <1>2, <1>3 DEF Element
  <2>. QED  BY <1>2, <2>1, <2>2, ElementFacts
<1>5. /\ Occupied(c, size) = Occupied(b, size) /\ Unique(c, size)
      /\ Elements(c, Occupied(c, size)) = {x \in Elements(b, Occupied(b, size)) : x.key # b[i].key} \cup {c[i]}
  <2>1. /\ ~ IsVacant(c[i]) /\ (\A j \in Indexes(size) : j # i => c[j] = b[j])
        /\ \A j \in Occupied(b, size) : j # i => b[j].key # c[i].key
    BY <1>2, <1>3, <1>4 DEF Unique
  <2>. HIDE DEF i, b, c
  <2>. QED  BY ONLY <1>2, <1>3, <2>1, ReplaceFacts
<1>6. TypeOK'
  BY <1>1, <1>4 DEF TypeOK
<1>7. CountInv' /\ KeysInv' /\ RehashInv'
  BY <1>1, <1>5 DEF CountInv, KeysInv, RehashInv, Expanding, Shrinking
<1>8. RefDenotesItsKey'
  <2>1. \A l \in DOMAIN refs : refs[l] \in Indexes(size) /\ b[refs[l]].key = l
    BY <1>1 DEF TypeOK, RefDenotesItsKey
  <2>2. \A j \in Indexes(size) : c[j].key = b[j].key
    BY <1>2, <1>4
  <2>. QED  BY <1>1, <2>1, <2>2 DEF RefDenotesItsKey
<1>9. Stored' = {x \in Stored : x.key # k} \cup {e}
  BY <1>1, <1>2, <1>4, <1>5 DEF Stored
<1>10. \E x \in Stored : x.key = k
  BY <1>2, <1>3 DEF Stored, Elements
<1>. QED  BY <1>6, <1>7, <1>8, <1>9, <1>10 DEF IInv

(* Removing an element takes it and nothing else; the array may start to shrink. *)
LEMMA RemoveFacts ==
  ASSUME IInv, NEW k \in Keys, Remove(k)
  PROVE  /\ IInv'
         /\ Stored' = {x \in Stored : x.key # k}
         /\ \E x \in Stored : x.key = k
<1>. DEFINE i == refs[k]
            b == buckets
            c == buckets'
<1>1. /\ TypeOK /\ CountInv /\ KeysInv /\ RefDenotesItsKey /\ pc = "idle" /\ k \in DOMAIN refs
      /\ UNCHANGED <<hash, size, arg, idx, moved>>
      /\ count' = count - 1 /\ DOMAIN refs' = {}
      /\ c = [b EXCEPT ![i] = Vacant]
  BY DEF IInv, Remove, NoRefs
<1>2. /\ size \in Nat /\ size <= MaxSize /\ count \in Nat /\ count <= size
      /\ count = Cardinality(Occupied(b, size)) + 0
      /\ i \in Indexes(size) /\ b[i].key = k /\ Unique(b, size)
      /\ b \in [Indexes(size) -> Element \cup {Vacant}]
      /\ Cardinality(Occupied(b, size)) \in Nat
  BY <1>1, OccupiedFinite, SizeAssumption DEF TypeOK, RefDenotesItsKey, KeysInv, CountInv
<1>3. i \in Occupied(b, size)
  BY <1>2, KeysAssumption DEF Occupied, IsVacant
<1>4. /\ c[i] = Vacant /\ IsVacant(c[i])
      /\ \A j \in Indexes(size) : j # i => c[j] = b[j]
      /\ c \in [Indexes(size) -> Element \cup {Vacant}]
  BY <1>1, <1>2, ElementFacts
<1>5. /\ Occupied(c, size) = Occupied(b, size) \ {i} /\ Unique(c, size)
      /\ Cardinality(Occupied(c, size)) = Cardinality(Occupied(b, size)) - 1
      /\ Elements(c, Occupied(c, size)) = {x \in Elements(b, Occupied(b, size)) : x.key # b[i].key}
  <2>. HIDE DEF i, b, c
  <2>. QED  BY ONLY <1>2, <1>3, <1>4, VacateFacts
<1>6. Cardinality(Occupied(c, size)) \in Nat /\ count' \in Nat /\ count' <= size
      /\ count' = Cardinality(Occupied(c, size))
  BY <1>1, <1>2, <1>5, OccupiedFinite
<1>7. ASSUME size > InitialSize, Underloaded(count - 1), pc' = "shrink",
             fresh' = EmptyArray(size \div 2), source' = 0
      PROVE  IInv'
  <2>1. 3 * count' < size /\ size > 1
    <3>1. count' = count - 1 /\ count' \in Nat /\ 3 * count' * ThresholdDen < size * ThresholdNum
      BY <1>1, <1>6, <1>7 DEF Underloaded
    <3>2. 3 * count' < size
      BY <1>2, <3>1, LoadFacts
    <3>3. InitialSize \in Nat /\ InitialSize > 0
      BY SizeAssumption
    <3>. QED  BY <1>2, <1>7, <3>2, <3>3
  <2>2. NewSize' = size \div 2 /\ size \div 2 \in Nat
    BY <1>1, <1>2, <1>7 DEF NewSize
  <2>3. /\ fresh' \in [Indexes(size \div 2) -> Element \cup {Vacant}]
        /\ Occupied(fresh', size \div 2) = {}
        /\ Unique(fresh', size \div 2)
    BY <1>7, <2>2, EmptyFacts
  <2>4. Occupied(c, size) \cap Indexes(0) = {}
    BY DEF Indexes
  <2>5. RehashInv'
    BY <1>1, <1>7, <2>2, <2>3, <2>4 DEF RehashInv, Elements
  <2>6. TypeOK'
    BY <1>1, <1>2, <1>4, <1>6, <1>7 DEF TypeOK, PCs
  <2>7. CountInv' /\ KeysInv' /\ RefDenotesItsKey'
    BY <1>1, <1>5, <1>6, <1>7, <2>1 DEF CountInv, KeysInv, RefDenotesItsKey, Expanding, Shrinking
  <2>. QED  BY <2>5, <2>6, <2>7 DEF IInv
<1>8. ASSUME UNCHANGED <<pc, fresh, source>>
      PROVE  IInv'
  <2>1. TypeOK'
    BY <1>1, <1>4, <1>6, <1>8 DEF TypeOK
  <2>2. CountInv' /\ KeysInv' /\ RehashInv' /\ RefDenotesItsKey'
    BY <1>1, <1>5, <1>6, <1>8 DEF CountInv, KeysInv, RehashInv, RefDenotesItsKey, Expanding, Shrinking
  <2>. QED  BY <2>1, <2>2 DEF IInv
<1>9. IInv'
  BY <1>7, <1>8 DEF Remove
<1>10. Stored' = {x \in Stored : x.key # k} /\ \E x \in Stored : x.key = k
  BY <1>1, <1>2, <1>3, <1>5 DEF Stored, Elements
<1>. QED  BY <1>9, <1>10

(* The references are let go. *)
LEMMA MessageEndInv ==
  ASSUME IInv, MessageEnd
  PROVE  IInv'
<1>1. /\ pc = "idle" /\ DOMAIN refs' = {}
      /\ UNCHANGED <<hash, size, buckets, count, pc, arg, idx, moved, fresh, source>>
  BY DEF MessageEnd, NoRefs
<1>2. TypeOK'
  BY <1>1 DEF IInv, TypeOK
<1>. QED
  BY <1>1, <1>2, ZenonT(30) DEF IInv, CountInv, KeysInv, RehashInv, RefDenotesItsKey, Expanding, Shrinking

(* Nothing happens. *)
LEMMA StutterInv ==
  ASSUME IInv, UNCHANGED vars
  PROVE  IInv'
BY DEF vars, IInv, TypeOK, CountInv, KeysInv, RehashInv, RefDenotesItsKey, Expanding, Shrinking,
       NewSize

(* Every step keeps the invariant. *)
LEMMA NextInv ==
  ASSUME IInv, [Next]_vars
  PROVE  IInv'
<1>1. CASE Loops
  <2>1. CASE \/ Rehash("expand", "expand probe") \/ RehashProbe("expand", "expand probe")
             \/ Rehash("shrink", "shrink probe") \/ RehashProbe("shrink", "shrink probe")
    <3>1. IsPair("expand", "expand probe") /\ IsPair("shrink", "shrink probe")
      BY DEF IsPair
    <3>. QED  BY <2>1, <3>1, RehashInvStep
  <2>2. CASE RehashEnd("expand", "place")
    BY <2>2, RehashEndInv DEF IsEnd
  <2>3. CASE RehashEnd("shrink", "idle")
    BY <2>3, RehashEndInv DEF IsEnd
  <2>4. CASE Place \/ Displace \/ Lookup
    BY <2>4, PlaceInv, DisplaceInv, LookupInv
  <2>. QED  BY <1>1, <2>1, <2>2, <2>3, <2>4 DEF Loops
<1>2. CASE Calls
  BY <1>2, InsertBeginInv, SetPointedMemBlockFacts, LookupInv, RemoveFacts DEF Calls
<1>3. CASE MessageEnd
  BY <1>3, MessageEndInv
<1>4. CASE UNCHANGED vars
  BY <1>4, StutterInv
<1>. QED  BY <1>1, <1>2, <1>3, <1>4 DEF Next

-----------------------------------------------------------------------------
(* Theorems *)

(* The inductive invariant holds in every state: m_elementsCount counts    *)
(* the elements of the array, no address is in it twice, and newArray has  *)
(* what ExpandTable or ShrinkTable has rehashed.                           *)
THEOREM Invariance == Spec => []IInv
<1>1. Init => IInv
  BY InitInv
<1>2. IInv /\ [Next]_vars => IInv'
  BY NextInv
<1>. QED  BY <1>1, <1>2, PTL DEF Spec

(* Every variable of the table keeps its type. *)
THEOREM TypeCorrect == Spec => []TypeOK
<1>1. IInv => TypeOK
  BY DEF IInv
<1>. QED  BY <1>1, Invariance, PTL

(* What Insert and Lookup return is the element of the address they were   *)
(* given, as long as the graph may use it.                                 *)
THEOREM References == Spec => []RefDenotesItsKey
<1>1. IInv => RefDenotesItsKey
  BY DEF IInv
<1>. QED  BY <1>1, Invariance, PTL

(* A probe of Insert, ExpandTable or ShrinkTable has a vacant bucket to    *)
(* find, and one of Lookup the address, whatever the hash function.        *)
THEOREM ProbesCanEnd == Spec => []RoomToProbe
<1>1. IInv => RoomToProbe
  <2>1. SUFFICES ASSUME IInv  PROVE RoomToProbe
    OBVIOUS
  <2>2. size \in Nat /\ count \in Nat /\ TypeOK /\ CountInv /\ KeysInv
    BY <2>1 DEF IInv, TypeOK
  <2>3. ASSUME pc = "displace"
        PROVE  \E i \in Indexes(size) : IsVacant(buckets[i])
    <3>1. Cardinality(Occupied(buckets, size)) \in Nat
      BY <2>2, OccupiedFinite
    <3>2. count = Cardinality(Occupied(buckets, size)) + 1 /\ count <= size
      BY <2>2, <2>3 DEF CountInv
    <3>3. Cardinality(Occupied(buckets, size)) < size
      BY <2>2, <3>1, <3>2
    <3>. QED  BY <2>2, <3>3, VacantExists
  <2>4. ASSUME pc \in {"expand probe", "shrink probe"}
        PROVE  \E i \in Indexes(NewSize) : IsVacant(fresh[i])
    <3>. DEFINE done == Occupied(buckets, size) \cap Indexes(source)
    <3>0. Expanding \/ Shrinking
      BY <2>4 DEF Expanding, Shrinking
    <3>1. count < NewSize /\ NewSize \in Nat
      BY <2>2, <3>0, NewSizeFacts
    <3>2. count = Cardinality(Occupied(buckets, size)) + 0
      BY <2>2, <2>4 DEF CountInv
    <3>3. Cardinality(Occupied(fresh, NewSize)) = Cardinality(done)
      BY <2>1, <3>0 DEF IInv, RehashInv
    <3>4. Cardinality(done) <= Cardinality(Occupied(buckets, size))
      <4>1. done \in SUBSET Occupied(buckets, size)
        OBVIOUS
      <4>. QED  BY <2>2, <4>1, OccupiedFinite, FS_Subset
    <3>5. Cardinality(Occupied(buckets, size)) \in Nat /\ Cardinality(Occupied(fresh, NewSize)) \in Nat
      BY <2>2, <3>1, OccupiedFinite
    <3>6. Cardinality(Occupied(fresh, NewSize)) < NewSize
      BY <3>1, <3>2, <3>3, <3>4, <3>5
    <3>. QED  BY <3>1, <3>6, VacantExists
  <2>5. pc = "lookup" => \E i \in Indexes(size) : buckets[i].key = arg.key
    BY <2>2 DEF KeysInv, Occupied
  <2>. QED  BY <2>3, <2>4, <2>5 DEF RoomToProbe
<1>. QED  BY <1>1, Invariance, PTL

-----------------------------------------------------------------------------
(* Refinement: Entries is the map of AddressMap. *)

(* The map has the new entry only when it is placed. *)
LEMMA InsertBeginEntries ==
  ASSUME IInv, NEW k \in Keys, NEW v \in Values, InsertBegin(k, v)
  PROVE  UNCHANGED Entries
<1>1. pc = "idle" /\ pc' # "displace"
  BY DEF InsertBegin
<1>2. CASE size = 0 /\ Allocate
  <2>1. Occupied(buckets, size) = {}
    BY <1>2 DEF Occupied, Indexes
  <2>2. size' = InitialSize /\ buckets' = EmptyArray(InitialSize) /\ InitialSize \in Nat
    BY <1>2, SizeAssumption DEF Allocate
  <2>3. Occupied(buckets', size') = {}
    BY <2>2, EmptyFacts
  <2>. QED  BY <1>1, <2>1, <2>3 DEF Entries, Stored, Elements
<1>3. CASE UNCHANGED <<size, buckets>>
  BY <1>1, <1>3 DEF Entries, Stored
<1>. QED  BY <1>2, <1>3 DEF InsertBegin, RehashTo

(* Placing an element is the insertion of the map. *)
LEMMA PlaceEntries ==
  ASSUME IInv, Place
  PROVE  Map!Insert(arg.key, arg.val) /\ arg \in Element
<1>. DEFINE home == Home(arg.key, size)
            b == buckets
            c == buckets'
<1>1. /\ TypeOK /\ KeysInv /\ CountInv /\ pc = "place"
  BY DEF IInv, Place
<1>2. /\ size \in 1..MaxSize /\ size \in Nat
      /\ b \in [Indexes(size) -> Element \cup {Vacant}] /\ Unique(b, size)
      /\ arg \in Element /\ \A i \in Indexes(size) : b[i].key # arg.key
  <2>1. size \in 0..MaxSize /\ count \in Nat /\ count < size /\ MaxSize \in Nat
    BY <1>1, SizeAssumption DEF TypeOK, CountInv
  <2>. QED  BY <1>1, <2>1 DEF TypeOK, KeysInv
<1>3. home \in Indexes(size) /\ ~ IsVacant(arg) /\ arg.key \in Keys /\ arg = [key |-> arg.key, val |-> arg.val]
  BY <1>1, <1>2, HomeFacts, ElementFacts DEF Element
<1>4. /\ c[home] = arg /\ (\A j \in Indexes(size) : j # home => c[j] = b[j])
      /\ moved' = b[home] /\ size' = size
  BY <1>2, <1>3 DEF Place
<1>5. /\ \A j \in Occupied(b, size) : j \in Indexes(size) /\ ~ IsVacant(b[j])
      /\ \A j \in Indexes(size) : j \in Occupied(b, size) <=> ~ IsVacant(b[j])
      /\ \A j \in Indexes(size) : j \in Occupied(c, size) <=> ~ IsVacant(c[j])
      /\ Occupied(c, size) \subseteq Indexes(size)
  BY DEF Occupied
<1>6. Entries = Elements(b, Occupied(b, size))
  BY <1>1 DEF Entries, Stored
<1>7. CASE IsVacant(b[home])
  <2>1. pc' = "idle" /\ Occupied(c, size) = Occupied(b, size) \cup {home} /\ home \notin Occupied(b, size)
    BY <1>3, <1>4, <1>5, <1>7 DEF Place, Return
  <2>2. Elements(c, Occupied(c, size)) = Elements(b, Occupied(b, size)) \cup {arg}
    BY <1>4, <1>5, <2>1 DEF Elements
  <2>3. Entries' = Entries \cup {arg}
    BY <1>4, <1>6, <2>1, <2>2 DEF Entries, Stored
  <2>. QED  BY <1>2, <1>3, <1>5, <1>6, <2>3 DEF Map!Insert, Elements
<1>8. CASE ~ IsVacant(b[home])
  <2>1. pc' = "displace" /\ Occupied(c, size) = Occupied(b, size) /\ home \in Occupied(b, size)
    BY <1>3, <1>4, <1>5, <1>8 DEF Place
  <2>2. Elements(c, Occupied(c, size)) \cup {b[home]} = Elements(b, Occupied(b, size)) \cup {arg}
    BY <1>4, <1>5, <2>1 DEF Elements
  <2>3. Entries' = Entries \cup {arg}
    BY <1>4, <1>6, <2>1, <2>2 DEF Entries, Stored
  <2>. QED  BY <1>2, <1>3, <1>5, <1>6, <2>3 DEF Map!Insert, Elements
<1>. QED  BY <1>7, <1>8

(* Moving the displaced element is not seen in the map. *)
LEMMA DisplaceEntries ==
  ASSUME IInv, Displace
  PROVE  UNCHANGED Entries
<1>. DEFINE next == Following(idx, size)
            b == buckets
            c == buckets'
<1>1. /\ TypeOK /\ KeysInv /\ pc = "displace" /\ size \in Nat /\ size' = size
      /\ b \in [Indexes(size) -> Element \cup {Vacant}]
  BY DEF IInv, Displace, TypeOK
<1>2. moved \in Element /\ idx \in Indexes(size) /\ next \in Indexes(size) /\ ~ IsVacant(moved)
  BY <1>1, FollowingFacts, ElementFacts DEF KeysInv
<1>3. CASE IsVacant(b[next])
  <2>1. /\ pc' = "idle" /\ c[next] = moved /\ (\A j \in Indexes(size) : j # next => c[j] = b[j])
    BY <1>1, <1>2, <1>3 DEF Displace, Return
  <2>2. Elements(c, Occupied(c, size)) = Elements(b, Occupied(b, size)) \cup {moved}
    <3>1. IsVacant(b[next]) /\ ~ IsVacant(c[next]) /\ (\A j \in Indexes(size) : j # next => c[j] = b[j])
      BY <1>2, <1>3, <2>1
    <3>2. Elements(c, Occupied(c, size)) = Elements(b, Occupied(b, size)) \cup {c[next]}
      <4>. HIDE DEF next, b, c
      <4>. QED  BY ONLY <1>1, <1>2, <3>1, PutFacts
    <3>. QED  BY <2>1, <3>2
  <2>. QED  BY <1>1, <2>1, <2>2 DEF Entries, Stored
<1>4. CASE ~ IsVacant(b[next])
  <2>1. UNCHANGED <<buckets, moved, pc>>
    BY <1>1, <1>4 DEF Displace
  <2>. QED  BY <1>1, <2>1 DEF Entries, Stored
<1>. QED  BY <1>3, <1>4

(* Replacing the array is not seen in the map. *)
LEMMA RehashEndEntries ==
  ASSUME IInv, NEW loop, NEW next, RehashEnd(loop, next), IsEnd(loop, next)
  PROVE  UNCHANGED Entries
<1>1. /\ Expanding \/ Shrinking
      /\ source = size /\ size' = NewSize /\ buckets' = fresh
      /\ pc # "displace" /\ pc' # "displace"
  BY DEF IsEnd, RehashEnd, Expanding, Shrinking
<1>2. Elements(fresh, Occupied(fresh, NewSize)) = Stored
  BY <1>1, RehashEndFacts
<1>. QED  BY <1>1, <1>2 DEF Entries, Stored

(* A step that touches neither the array nor what is displaced. *)
LEMMA QuietEntries ==
  ASSUME UNCHANGED <<size, buckets>>, pc # "displace", pc' # "displace"
  PROVE  UNCHANGED Entries
BY DEF Entries, Stored

(* Every step of the table is a step of the map, or none. *)
LEMMA NextRefines ==
  ASSUME IInv, [Next]_vars
  PROVE  [Map!Next]_Entries
<1>1. ASSUME NEW loop, NEW probe, IsPair(loop, probe), Rehash(loop, probe) \/ RehashProbe(loop, probe)
      PROVE  UNCHANGED Entries
  <2>1. UNCHANGED <<size, buckets>> /\ pc # "displace" /\ pc' # "displace"
    BY <1>1 DEF IsPair, Rehash, RehashProbe
  <2>. QED  BY <2>1, QuietEntries
<1>2. CASE Loops
  <2>1. CASE Place
    <3>1. Map!Insert(arg.key, arg.val) /\ arg.key \in Keys /\ arg.val \in Values
      BY <2>1, PlaceEntries DEF Element
    <3>. QED  BY <3>1 DEF Map!Next
  <2>2. CASE Displace
    BY <2>2, DisplaceEntries
  <2>3. CASE Lookup
    BY <2>3, QuietEntries DEF Lookup, Return
  <2>4. CASE RehashEnd("expand", "place") \/ RehashEnd("shrink", "idle")
    <3>1. CASE RehashEnd("expand", "place")
      BY <3>1, RehashEndEntries DEF IsEnd
    <3>2. CASE RehashEnd("shrink", "idle")
      BY <3>2, RehashEndEntries DEF IsEnd
    <3>. QED  BY <2>4, <3>1, <3>2
  <2>5. CASE \/ Rehash("expand", "expand probe") \/ RehashProbe("expand", "expand probe")
             \/ Rehash("shrink", "shrink probe") \/ RehashProbe("shrink", "shrink probe")
    BY <1>1, <2>5 DEF IsPair
  <2>. QED  BY <1>2, <2>1, <2>2, <2>3, <2>4, <2>5 DEF Loops
<1>3. CASE Calls
  <2>1. ASSUME NEW k \in Keys, NEW v \in Values, InsertBegin(k, v)
        PROVE  UNCHANGED Entries
    BY <2>1, InsertBeginEntries
  <2>2. ASSUME NEW k \in Keys, NEW v \in Values, SetPointedMemBlock(k, v)
        PROVE  Map!Next
    <3>1. pc = "idle" /\ pc' = "idle"
      BY <2>2 DEF SetPointedMemBlock
    <3>2. Entries = Stored /\ Entries' = Stored'
      BY <3>1 DEF Entries
    <3>3. Map!Update(k, v)
      BY <2>2, <3>2, SetPointedMemBlockFacts DEF Map!Update
    <3>. QED  BY <3>3 DEF Map!Next
  <2>3. ASSUME NEW k \in Keys, LookupBegin(k)
        PROVE  UNCHANGED Entries
    BY <2>3, QuietEntries DEF LookupBegin
  <2>4. ASSUME NEW k \in Keys, Remove(k)
        PROVE  Map!Next
    <3>1. pc = "idle" /\ pc' # "displace"
      BY <2>4 DEF Remove
    <3>2. Entries = Stored /\ Entries' = Stored'
      BY <3>1 DEF Entries
    <3>3. Map!Remove(k)
      BY <2>4, <3>2, RemoveFacts DEF Map!Remove
    <3>. QED  BY <3>3 DEF Map!Next
  <2>. QED  BY <1>3, <2>1, <2>2, <2>3, <2>4 DEF Calls
<1>4. CASE MessageEnd
  BY <1>4, QuietEntries DEF MessageEnd
<1>5. CASE UNCHANGED vars
  BY <1>5 DEF vars, Entries, Stored
<1>. QED  BY <1>2, <1>3, <1>4, <1>5 DEF Next

(* The table implements the map: expanding, shrinking and displacing       *)
(* change nothing for the graph, and every other call does what it says.   *)
THEOREM Refinement == Spec => ImplementsMap
<1>1. Init => Map!Init
  <2>1. SUFFICES ASSUME Init  PROVE Entries = {}
    BY DEF Map!Init
  <2>2. size = 0 /\ pc = "idle"
    BY <2>1 DEF Init
  <2>3. Occupied(buckets, size) = {}
    BY <2>2 DEF Occupied, Indexes
  <2>. QED  BY <2>2, <2>3 DEF Entries, Stored, Elements
<1>2. IInv /\ [Next]_vars => [Map!Next]_Entries
  BY NextRefines
<1>. QED  BY <1>1, <1>2, Invariance, PTL DEF Spec, ImplementsMap, Map!Spec
===============================================================================
