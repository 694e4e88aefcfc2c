----------------------------- MODULE QueueProofs ------------------------------
(***************************************************************************)
(* Proofs about the two queues.                                            *)
(*                                                                         *)
(* LockFreeQueue, the one in memory, is correct for any number of writers  *)
(* and any entries, as long as one thread consumes.                        *)
(*                                                                         *)
(* Broker, the one in the database, is correct for any writes, batches and *)
(* limit of a step and any fault but a connection lost between the two     *)
(* statements of a write.                                                  *)
(***************************************************************************)
EXTENDS LockFreeQueue, Broker, TLAPS

-----------------------------------------------------------------------------
(* The queue in memory: IInv is inductive, and what the module promises    *)
(* follows from it.                                                        *)

(* What appending an element makes of a sequence *)
LEMMA AppendFacts ==
  ASSUME NEW S, NEW s \in Seq(S), NEW e \in S
  PROVE  /\ Append(s, e) \in Seq(S)
         /\ Len(s) \in Nat
         /\ Len(Append(s, e)) = Len(s) + 1
         /\ Append(s, e)[Len(s) + 1] = e
         /\ \A i \in 1..Len(s) : Append(s, e)[i] = s[i]
  OBVIOUS

(* The queue has one element without an entry. *)
LEMMA InitInv == Init => IInv
<1> SUFFICES ASSUME Init PROVE IInv
  OBVIOUS
<1> USE EntriesAssumption, BoundAssumption
<1>1. TypeOK
  BY DEF Init, TypeOK, Elems
<1>2. LinkInv
  BY DEF Init, LinkInv, Elems, Adding
<1>3. ValueInv
  BY DEF Init, ValueInv, Elems
<1>4. ConsumerInv
  BY DEF Init, ConsumerInv, Elems
<1>5. AheadInv
  BY DEF Init, AheadInv
<1>6. DeleteInv
  BY DEF Init, DeleteInv
<1> QED
  BY <1>1, <1>2, <1>3, <1>4, <1>5, <1>6 DEF IInv

(* Type correctness of every step *)
LEMMA TypeStep == TypeOK /\ LinkInv /\ ValueInv /\ ConsumerInv /\ [Next]_vars => TypeOK'
<1> SUFFICES ASSUME TypeOK, LinkInv, ValueInv, ConsumerInv, [Next]_vars PROVE TypeOK'
  OBVIOUS
<1> USE EntriesAssumption, BoundAssumption
<1>1. ASSUME NEW p \in Producers, NEW v \in Entries, AddExchange(p, v)
      PROVE  TypeOK'
  <2>1. head + 1 \in Elems /\ head \in Elems /\ v \in Entries \cup {NULL}
    BY <1>1 DEF AddExchange, TypeOK, Elems
  <2>2. added' \in Seq(Entries)
    BY <1>1 DEF AddExchange, TypeOK
  <2>3. value' \in [Elems -> Entries \cup {NULL}]
    BY <1>1, <2>1 DEF AddExchange, TypeOK
  <2> QED
    BY <1>1, <2>1, <2>2, <2>3 DEF AddExchange, TypeOK, consumer, closing
<1>2. ASSUME NEW p \in Producers, AddLink(p) PROVE TypeOK'
  <2>1. 0 \in Elems
    BY DEF Elems
  <2>2. next' \in [Elems -> Elems]
    BY <1>2 DEF AddLink, TypeOK
  <2> QED
    BY <1>2, <2>1, <2>2 DEF AddLink, TypeOK, consumer, closing, history
<1>3. ASSUME NEW c \in Consumers, RemoveBegin(c) PROVE TypeOK'
  BY <1>3 DEF RemoveBegin, Ready, TypeOK, Elems, list, producer, closing
<1>4. ASSUME NEW c \in Consumers, LoadTail(c) PROVE TypeOK'
  BY <1>4 DEF LoadTail, TypeOK, Elems, list, producer, closing, history
<1>5. ASSUME NEW c \in Consumers, LoadNext(c) PROVE TypeOK'
  BY <1>5 DEF LoadNext, TypeOK, Elems, list, producer, closing, history
<1>6. ASSUME NEW c \in Consumers, LoadValue(c) PROVE TypeOK'
  BY <1>6 DEF LoadValue, TypeOK, Elems, list, producer, closing, history
<1>7. ASSUME NEW c \in Consumers, DeleteTail(c) PROVE TypeOK'
  BY <1>7 DEF DeleteTail, TypeOK, Elems, producer, closing, history
<1>8. ASSUME NEW c \in Consumers, MoveTail(c) PROVE TypeOK'
  <2>1. 0 \in Elems
    BY DEF Elems
  <2>2. removed' \in Seq(Entries)
    <3>1. CASE val[c] # NULL
      <4>1. val[c] \in Entries
        BY <3>1 DEF TypeOK
      <4>2. removed' = Append(removed, val[c])
        BY <1>8, <3>1 DEF MoveTail
      <4> QED
        BY <4>1, <4>2 DEF TypeOK
    <3>2. CASE val[c] = NULL
      BY <1>8, <3>2 DEF MoveTail, TypeOK
    <3> QED
      BY <3>1, <3>2
  <2> QED
    BY <1>8, <2>1, <2>2 DEF MoveTail, TypeOK, producer, closing
<1>9. ASSUME NEW c \in Consumers, SwapValue(c) PROVE TypeOK'
  <2>1. 0 \in Elems
    BY DEF Elems
  <2>2. removed' \in Seq(Entries)
    <3>1. CASE value[tl[c]] # NULL
      <4>1. value[tl[c]] \in Entries
        BY <3>1 DEF TypeOK
      <4> QED
        BY <1>9, <3>1, <4>1 DEF SwapValue, TypeOK
    <3>2. CASE value[tl[c]] = NULL
      BY <1>9, <3>2 DEF SwapValue, TypeOK
    <3> QED
      BY <3>1, <3>2
  <2>3. value' \in [Elems -> Entries \cup {NULL}]
    BY <1>9 DEF SwapValue, TypeOK
  <2> QED
    BY <1>9, <2>1, <2>2, <2>3 DEF SwapValue, TypeOK, producer, closing
<1>10. CASE DestroyBegin
  BY <1>10 DEF DestroyBegin, TypeOK, Elems, list, producer, consumer, history
<1>11. CASE DestroyElement
  BY <1>11 DEF DestroyElement, TypeOK, Elems, producer, consumer, history
<1>12. CASE UNCHANGED vars
  BY <1>12 DEF TypeOK, vars, list, producer, consumer, closing, history
<1> QED
  BY <1>1, <1>2, <1>3, <1>4, <1>5, <1>6, <1>7, <1>8, <1>9, <1>10, <1>11, <1>12
  DEF Next, Add, Remove

(* No step but AddExchange and AddLink touches the links. *)
LEMMA LinkStep ==
  TypeOK /\ LinkInv /\ ValueInv /\ ConsumerInv /\ [Next]_vars => LinkInv'
<1> SUFFICES ASSUME TypeOK, LinkInv, ValueInv, ConsumerInv, [Next]_vars PROVE LinkInv'
  OBVIOUS
<1> USE EntriesAssumption, BoundAssumption
<1>1. ASSUME NEW p \in Producers, NEW v \in Entries, AddExchange(p, v)
      PROVE  LinkInv'
  <2>1. /\ added' = Append(added, v) /\ head' = head + 1 /\ Len(added) = head
        /\ next' = next /\ head \in Elems /\ head + 1 \in Elems
    BY <1>1 DEF AddExchange, LinkInv, TypeOK, Elems
  <2>2. /\ Len(added') = head'
        /\ added'[head'] = v
        /\ \A i \in 1..head : added'[i] = added[i] /\ added[i] # v
    <3>1. added \in Seq(Entries) /\ \A i \in 1..Len(added) : added[i] # v
      BY <1>1 DEF AddExchange, TypeOK
    <3> QED
      BY <2>1, <3>1, AppendFacts
  <2>a. head \in Nat /\ \A i, j \in 1..head : added[i] = added[j] => i = j
    BY DEF LinkInv, TypeOK, Elems
  <2>3. \A i, j \in 1..head' : added'[i] = added'[j] => i = j
    <3>1. \A i \in 1..head' : i \in 1..head \/ i = head'
      BY <2>1, <2>a
    <3> QED
      BY <2>2, <2>a, <3>1
  <2>4. /\ ppc[p] = "idle"
        /\ \A q \in Producers : ppc'[q] = IF q = p THEN "link" ELSE ppc[q]
        /\ \A q \in Producers : elem'[q] = IF q = p THEN head + 1 ELSE elem[q]
        /\ \A q \in Producers : prev'[q] = IF q = p THEN head ELSE prev[q]
    BY <1>1 DEF AddExchange, TypeOK
  <2>5. \A q \in Producers :
          ppc'[q] = "link" => elem'[q] \in 1..head' /\ prev'[q] = elem'[q] - 1
    <3>1. \A q \in Producers :
            ppc[q] = "link" => elem[q] \in 1..head /\ prev[q] = elem[q] - 1
      BY DEF LinkInv
    <3> QED
      BY <2>1, <2>4, <2>a, <3>1
  <2>6. \A q, r \in Producers :
          ppc'[q] = "link" /\ ppc'[r] = "link" /\ elem'[q] = elem'[r] => q = r
    <3>1. \A q, r \in Producers :
            /\ ppc[q] = "link" => elem[q] \in 1..head
            /\ ppc[q] = "link" /\ ppc[r] = "link" /\ elem[q] = elem[r] => q = r
      BY DEF LinkInv
    <3> QED
      BY <2>4, <2>a, <3>1
  <2>7. \A e \in Elems : Adding(e)' <=> (Adding(e) \/ e = head + 1)
    BY <2>4 DEF Adding
  <2>8. ASSUME NEW e \in Elems
        PROVE  next'[e] = IF e < head' /\ ~ Adding(e + 1)' THEN e + 1 ELSE 0
    <3>1. CASE e < head
      <4>1. e + 1 \in Elems /\ e + 1 # head + 1
        BY <2>1, <3>1 DEF TypeOK, Elems
      <4> QED
        BY <2>1, <2>7, <3>1, <4>1, SMTT(30) DEF LinkInv, TypeOK, Elems
    <3>2. CASE e = head
      BY <2>1, <2>7, <3>2 DEF LinkInv, TypeOK, Elems
    <3>3. CASE e > head
      BY <2>1, <3>3 DEF LinkInv, TypeOK, Elems
    <3> QED
      BY <2>1, <3>1, <3>2, <3>3 DEF Elems
  <2> QED
    BY <2>2, <2>3, <2>5, <2>6, <2>8 DEF LinkInv, Elems
<1>2. ASSUME NEW p \in Producers, AddLink(p)
      PROVE  LinkInv'
  <2>1. /\ head' = head /\ added' = added
        /\ elem[p] \in 1..head /\ prev[p] = elem[p] - 1 /\ prev[p] \in Elems
        /\ next' = [next EXCEPT ![prev[p]] = elem[p]]
    BY <1>2 DEF AddLink, LinkInv, TypeOK, history
  <2>2. /\ ppc[p] = "link"
        /\ \A q \in Producers : ppc'[q] = IF q = p THEN "idle" ELSE ppc[q]
        /\ \A q \in Producers : q # p => elem'[q] = elem[q] /\ prev'[q] = prev[q]
    BY <1>2 DEF AddLink, TypeOK
  <2>3. \A e \in Elems : Adding(e)' <=> (Adding(e) /\ e # elem[p])
    BY <2>2 DEF Adding, LinkInv
  <2>4. ASSUME NEW e \in Elems
        PROVE  next'[e] = IF e < head' /\ ~ Adding(e + 1)' THEN e + 1 ELSE 0
    <3>1. CASE e = prev[p]
      <4>0. head \in Nat /\ elem[p] \in Elems
        BY DEF TypeOK, Elems
      <4>1. e + 1 = elem[p] /\ e + 1 \in Elems /\ e < head
        BY <2>1, <3>1, <4>0 DEF Elems
      <4> QED
        BY <2>1, <2>3, <3>1, <4>1 DEF TypeOK
    <3>2. CASE e # prev[p] /\ e < head
      <4>1. e + 1 # elem[p] /\ e + 1 \in Elems
        BY <2>1, <3>2 DEF TypeOK, Elems
      <4> QED
        BY <2>1, <2>3, <3>2, <4>1 DEF LinkInv, TypeOK
    <3>3. CASE ~ (e < head)
      <4>1. e # prev[p]
        BY <2>1, <3>3 DEF TypeOK, Elems
      <4> QED
        BY <2>1, <3>3, <4>1 DEF LinkInv, TypeOK
    <3> QED
      BY <3>1, <3>2, <3>3
  <2> QED
    BY <2>1, <2>2, <2>4 DEF LinkInv
<1>3. ASSUME NEW c \in Consumers, RemoveBegin(c)
      PROVE  LinkInv'
  BY <1>3 DEF RemoveBegin, TypeOK, Elems, LinkInv, Adding, list, producer, closing
<1>4. ASSUME NEW c \in Consumers, LoadTail(c)
      PROVE  LinkInv'
  BY <1>4 DEF LoadTail, TypeOK, Elems, LinkInv, Adding, list, producer, closing, history
<1>5. ASSUME NEW c \in Consumers, LoadNext(c)
      PROVE  LinkInv'
  BY <1>5 DEF LoadNext, TypeOK, Elems, LinkInv, Adding, list, producer, closing, history
<1>6. ASSUME NEW c \in Consumers, LoadValue(c)
      PROVE  LinkInv'
  BY <1>6 DEF LoadValue, TypeOK, Elems, LinkInv, Adding, list, producer, closing, history
<1>7. ASSUME NEW c \in Consumers, DeleteTail(c)
      PROVE  LinkInv'
  BY <1>7 DEF DeleteTail, TypeOK, Elems, LinkInv, Adding, producer, closing, history
<1>8. ASSUME NEW c \in Consumers, MoveTail(c)
      PROVE  LinkInv'
  BY <1>8 DEF MoveTail, TypeOK, Elems, LinkInv, Adding, producer, closing
<1>9. ASSUME NEW c \in Consumers, SwapValue(c)
      PROVE  LinkInv'
  BY <1>9 DEF SwapValue, TypeOK, Elems, LinkInv, Adding, producer, closing
<1>10. CASE DestroyBegin
  BY <1>10 DEF DestroyBegin, TypeOK, Elems, LinkInv, Adding, list, producer, consumer, history
<1>11. CASE DestroyElement
  BY <1>11 DEF DestroyElement, TypeOK, Elems, LinkInv, Adding, producer, consumer, history
<1>12. CASE UNCHANGED vars
  BY <1>12 DEF LinkInv, Adding, vars, list, producer, consumer, closing, history
<1> QED
  BY <1>1, <1>2, <1>3, <1>4, <1>5, <1>6, <1>7, <1>8, <1>9, <1>10, <1>11, <1>12
  DEF Next, Add, Remove

(* An entry leaves when the tail moves past it or the last element gives it. *)
LEMMA ValueStep ==
  SingleConsumer /\ TypeOK /\ LinkInv /\ ValueInv /\ ConsumerInv /\ [Next]_vars => ValueInv'
<1> SUFFICES ASSUME SingleConsumer, TypeOK, LinkInv, ValueInv, ConsumerInv, [Next]_vars PROVE ValueInv'
  OBVIOUS
<1> USE EntriesAssumption, BoundAssumption
<1>1. ASSUME NEW p \in Producers, NEW v \in Entries, AddExchange(p, v)
      PROVE  ValueInv'
  <2>1. /\ added' = Append(added, v) /\ head' = head + 1 /\ Len(added) = head
        /\ value' = [value EXCEPT ![head + 1] = v] /\ head + 1 \in Elems
        /\ UNCHANGED <<tail, removed>> /\ tail <= head /\ Len(removed) <= head
    BY <1>1 DEF AddExchange, LinkInv, ValueInv, TypeOK, Elems
  <2>2. /\ \A i \in 1..head : added'[i] = added[i]
        /\ added'[head'] = v
    BY <2>1 DEF TypeOK, Elems
  <2>3. /\ \A e \in 0..head : value'[e] = value[e]
        /\ value'[head'] = v
    BY <2>1 DEF TypeOK, Elems
  <2>4. tail \in 0..head /\ head \in Nat /\ tail < head'
    BY <2>1 DEF TypeOK, Elems
  <2>5. /\ value[0] = NULL
        /\ \A e \in 1..head : e > tail => value[e] = added[e]
        /\ value[tail] # NULL => tail > 0 /\ value[tail] = added[tail]
        /\ Len(removed) = IF value[tail] = NULL THEN tail ELSE tail - 1
        /\ \A i \in 1..Len(removed) : removed[i] = added[i]
    BY DEF ValueInv
  <2>6. \A e \in 1..head' : e > tail' => value'[e] = added'[e]
    BY <2>1, <2>2, <2>3, <2>4, <2>5
  <2>7. value'[0] = NULL /\ value'[tail'] = value[tail]
    BY <2>1, <2>3, <2>4, <2>5
  <2>8. value[tail] # NULL => tail > 0 /\ value[tail] = added'[tail]
    BY <2>2, <2>4, <2>5
  <2>9. \A i \in 1..Len(removed) : removed[i] = added'[i]
    BY <2>1, <2>2, <2>4, <2>5
  <2> QED
    BY <2>1, <2>4, <2>5, <2>6, <2>7, <2>8, <2>9 DEF ValueInv
<1>2. ASSUME NEW p \in Producers, AddLink(p)
      PROVE  ValueInv'
  BY <1>2 DEF AddLink, TypeOK, Elems, ValueInv, ConsumerInv, SingleConsumer, consumer, closing, history
<1>3. ASSUME NEW c \in Consumers, RemoveBegin(c)
      PROVE  ValueInv'
  BY <1>3 DEF RemoveBegin, TypeOK, Elems, ValueInv, ConsumerInv, SingleConsumer, list, producer, closing
<1>4. ASSUME NEW c \in Consumers, LoadTail(c)
      PROVE  ValueInv'
  BY <1>4 DEF LoadTail, TypeOK, Elems, ValueInv, ConsumerInv, SingleConsumer, list, producer, closing, history
<1>5. ASSUME NEW c \in Consumers, LoadNext(c)
      PROVE  ValueInv'
  BY <1>5 DEF LoadNext, TypeOK, Elems, ValueInv, ConsumerInv, SingleConsumer, list, producer, closing, history
<1>6. ASSUME NEW c \in Consumers, LoadValue(c)
      PROVE  ValueInv'
  BY <1>6 DEF LoadValue, TypeOK, Elems, ValueInv, ConsumerInv, SingleConsumer, list, producer, closing, history
<1>7. ASSUME NEW c \in Consumers, DeleteTail(c)
      PROVE  ValueInv'
  BY <1>7 DEF DeleteTail, TypeOK, Elems, ValueInv, ConsumerInv, SingleConsumer, producer, closing, history
<1>8. ASSUME NEW c \in Consumers, MoveTail(c)
      PROVE  ValueInv'
  <2>1. /\ tl[c] = tail /\ nx[c] = tail + 1 /\ next[tail] = tail + 1
        /\ val[c] = value[tail] /\ tail' = tail + 1
        /\ UNCHANGED <<head, value, added>>
    BY <1>8 DEF MoveTail, ConsumerInv
  <2>a. tail \in Elems /\ tail \in Nat /\ head \in Nat /\ value[0] = NULL
    BY DEF TypeOK, Elems, ValueInv
  <2>2. tail < head
    BY <2>1, <2>a DEF LinkInv
  <2>b. tail + 1 \in 1..head /\ added \in Seq(Entries) /\ Len(added) = head
    BY <2>2, <2>a DEF TypeOK, LinkInv
  <2>3. value[tail'] = added[tail'] /\ value[tail'] # NULL
    <3>1. value[tail + 1] = added[tail + 1]
      BY <2>a, <2>b DEF ValueInv
    <3>2. added[tail + 1] \in Entries
      BY <2>b
    <3> QED
      BY <2>1, <3>1, <3>2
  <2>c. /\ \A e \in 1..head' : e > tail' => value'[e] = added'[e]
        /\ tail' <= head' /\ value'[0] = NULL
        /\ \A i \in 1..Len(removed) : removed[i] = added'[i]
    BY <2>1, <2>2, <2>a DEF ValueInv
  <2>4. CASE value[tail] = NULL
    <3>1. removed' = removed /\ Len(removed) = tail
      BY <1>8, <2>1, <2>4 DEF MoveTail, ValueInv
    <3> QED
      BY <2>1, <2>3, <2>a, <2>c, <3>1 DEF ValueInv
  <2>5. CASE value[tail] # NULL
    <3>1. /\ removed' = Append(removed, value[tail]) /\ Len(removed) = tail - 1
          /\ tail > 0 /\ value[tail] = added[tail]
      BY <1>8, <2>1, <2>5 DEF MoveTail, ValueInv
    <3>2. /\ Len(removed') = tail
          /\ removed'[tail] = added[tail]
          /\ \A i \in 1..(tail - 1) : removed'[i] = removed[i]
      <4>1. removed \in Seq(Entries) /\ value[tail] \in Entries
        BY <2>5, <2>a DEF TypeOK
      <4> QED
        BY <3>1, <4>1, <2>a, AppendFacts
    <3>3. \A i \in 1..Len(removed') : removed'[i] = added'[i]
      BY <2>1, <2>a, <2>c, <3>1, <3>2
    <3> QED
      BY <2>1, <2>3, <2>a, <2>c, <3>2, <3>3 DEF ValueInv
  <2> QED
    BY <2>4, <2>5
<1>9. ASSUME NEW c \in Consumers, SwapValue(c)
      PROVE  ValueInv'
  <2>1. /\ tl[c] = tail /\ value' = [value EXCEPT ![tail] = NULL]
        /\ UNCHANGED <<head, tail, added>>
    BY <1>9 DEF SwapValue, ConsumerInv
  <2>2. /\ value'[tail] = NULL
        /\ \A e \in Elems : e # tail => value'[e] = value[e]
    BY <2>1 DEF TypeOK
  <2>3. CASE value[tail] = NULL
    <3>1. removed' = removed /\ Len(removed) = tail
      BY <1>9, <2>1, <2>3 DEF SwapValue, ValueInv
    <3>2. tail \in Nat /\ head \in Nat /\ tail <= head /\ 0..head \subseteq Elems
      BY DEF TypeOK, Elems, ValueInv
    <3>3. value'[0] = NULL /\ \A e \in 1..head : e > tail => value'[e] = added[e]
      <4>1. value'[0] = NULL
        BY <2>2, <3>2 DEF ValueInv
      <4>2. \A e \in 1..head : e \in Elems
        BY <3>2
      <4>. QED  BY <2>2, <3>2, <4>1, <4>2 DEF ValueInv
    <3>. QED
      BY <2>1, <2>2, <3>1, <3>2, <3>3 DEF ValueInv
  <2>4. CASE value[tail] # NULL
    <3>1. /\ removed' = Append(removed, value[tail]) /\ Len(removed) = tail - 1
          /\ tail > 0 /\ value[tail] = added[tail]
      BY <1>9, <2>1, <2>4 DEF SwapValue, ValueInv
    <3>2. /\ Len(removed') = tail
          /\ removed'[tail] = added[tail]
          /\ \A i \in 1..(tail - 1) : removed'[i] = removed[i]
      <4>1. removed \in Seq(Entries) /\ value[tail] \in Entries /\ tail \in Nat
        BY <2>4 DEF TypeOK, Elems
      <4> QED
        BY <3>1, <4>1, AppendFacts
    <3>3. tail \in Nat /\ tail \in 0..head /\ head \in Nat /\ 0..head \subseteq Elems
      BY DEF TypeOK, Elems, ValueInv
    <3>4. value'[0] = NULL /\ \A e \in 1..head : e > tail => value'[e] = added[e]
      BY <2>2, <3>1, <3>3 DEF ValueInv
    <3>5. \A i \in 1..Len(removed') : removed'[i] = added[i]
      <4>1. \A i \in 1..(tail - 1) : removed[i] = added[i]
        BY <3>1 DEF ValueInv
      <4> QED
        BY <3>2, <3>3, <4>1
    <3> QED
      BY <2>1, <2>2, <3>2, <3>3, <3>4, <3>5 DEF ValueInv
  <2> QED
    BY <2>3, <2>4
<1>10. CASE DestroyBegin
  BY <1>10 DEF DestroyBegin, TypeOK, Elems, ValueInv, ConsumerInv, SingleConsumer, list, producer, consumer, history
<1>11. CASE DestroyElement
  BY <1>11 DEF DestroyElement, TypeOK, Elems, ValueInv, ConsumerInv, SingleConsumer, producer, consumer, history
<1>12. CASE UNCHANGED vars
  BY <1>12 DEF ValueInv, ConsumerInv, SingleConsumer, vars, list, producer, consumer, closing, history
<1> QED
  BY <1>1, <1>2, <1>3, <1>4, <1>5, <1>6, <1>7, <1>8, <1>9, <1>10, <1>11, <1>12
  DEF Next, Add, Remove

(* Ready looks only at these variables. *)
LEMMA ReadyFrame ==
  ASSUME UNCHANGED <<head, removed, ppc, elem>>
  PROVE  Ready' <=> Ready
BY DEF Ready, Adding

(* What the consumer has loaded stays true until it uses it. *)
LEMMA ConsumerStep ==
  SingleConsumer /\ TypeOK /\ LinkInv /\ ValueInv /\ ConsumerInv /\ [Next]_vars => ConsumerInv'
<1> SUFFICES ASSUME SingleConsumer, TypeOK, LinkInv, ValueInv, ConsumerInv, [Next]_vars PROVE ConsumerInv'
  OBVIOUS
<1> USE EntriesAssumption, BoundAssumption
<1>1. ASSUME NEW p \in Producers, NEW v \in Entries, AddExchange(p, v)
      PROVE  ConsumerInv'
  <2>1. /\ head' = head + 1 /\ ppc[p] = "idle" /\ removed' = removed
        /\ UNCHANGED <<tail, next, cpc, tl, nx, val, owed>>
        /\ value' = [value EXCEPT ![head + 1] = v]
    BY <1>1 DEF AddExchange, consumer
  <2>2. /\ head \in Nat /\ tail \in 0..head /\ tail \in Elems /\ Len(removed) \in Nat
        /\ value \in [Elems -> Entries \cup {NULL}]
    <3>1. /\ head \in Nat /\ tail \in Nat /\ tail \in Elems /\ removed \in Seq(Entries)
          /\ value \in [Elems -> Entries \cup {NULL}]
      BY DEF TypeOK, Elems
    <3>2. tail <= head
      BY DEF ValueInv
    <3> QED
      BY <3>1, <3>2
  <2>3. value'[tail] = value[tail]
    BY <2>1, <2>2
  <2>4. Ready => Ready'
    <3>1. /\ \A q \in Producers : ppc'[q] = IF q = p THEN "link" ELSE ppc[q]
          /\ \A q \in Producers : elem'[q] = IF q = p THEN head + 1 ELSE elem[q]
      BY <1>1 DEF AddExchange, TypeOK
    <3> QED
      BY <2>1, <2>2, <3>1 DEF Ready, Adding
  <2>5. ASSUME NEW c \in Consumers
        PROVE  /\ cpc[c] \in {"next", "value", "delete", "move", "swap"} => tl'[c] = tail'
               /\ cpc[c] \in {"value", "delete", "move"} =>
                    nx'[c] = tail' + 1 /\ next'[tail'] = tail' + 1
               /\ cpc[c] \in {"delete", "move"} => val'[c] = value'[tail']
    BY <2>1, <2>3 DEF ConsumerInv
  <2>6. ASSUME NEW c \in Consumers
        PROVE  /\ owed'[c] => cpc'[c] # "idle" /\ Ready'
               /\ owed'[c] /\ cpc'[c] = "swap" => value'[tail'] # NULL
    BY <2>1, <2>3, <2>4 DEF ConsumerInv
  <2>7. cpc' = cpc
    BY <2>1
  <2> QED
    BY ONLY <2>5, <2>6, <2>7 DEF ConsumerInv
<1>2. ASSUME NEW p \in Producers, AddLink(p)
      PROVE  ConsumerInv'
  <2>1. /\ ppc[p] = "link" /\ next' = [next EXCEPT ![prev[p]] = elem[p]]
        /\ UNCHANGED <<head, tail, value, cpc, tl, nx, val, removed, owed>>
    BY <1>2 DEF AddLink, consumer, history
  <2>2. /\ elem[p] \in 1..head /\ prev[p] = elem[p] - 1 /\ head \in Nat
        /\ tail \in Elems /\ prev[p] \in Elems /\ next \in [Elems -> Elems]
    <3>1. \A q \in Producers :
            ppc[q] = "link" => elem[q] \in 1..head /\ prev[q] = elem[q] - 1
      BY DEF LinkInv
    <3>2. ppc[p] = "link"
      BY <2>1
    <3>3. elem[p] \in 1..head /\ prev[p] = elem[p] - 1
      BY ONLY <1>2, <3>1, <3>2
    <3>4. head \in Elems /\ tail \in Elems /\ next \in [Elems -> Elems]
      BY DEF TypeOK
    <3>5. head \in Nat /\ prev[p] \in Elems
      BY ONLY <3>3, <3>4, BoundAssumption DEF Elems
    <3> QED
      BY ONLY <3>3, <3>4, <3>5
  <2>3. next[tail] = tail + 1 => next'[tail] = tail + 1
    <3>1. next'[tail] = IF tail = prev[p] THEN elem[p] ELSE next[tail]
      BY ONLY <2>1, <2>2
    <3>2. elem[p] = prev[p] + 1
      BY ONLY <2>2
    <3> QED
      BY ONLY <3>1, <3>2
  <2>4. Ready => Ready'
    <3>1. /\ \A q \in Producers : ppc'[q] = IF q = p THEN "idle" ELSE ppc[q]
          /\ \A q \in Producers : q # p => elem'[q] = elem[q]
      BY <1>2 DEF AddLink, TypeOK
    <3> QED
      BY <2>1, <3>1 DEF Ready, Adding
  <2> QED
    BY <2>1, <2>3, <2>4 DEF ConsumerInv
<1>3. ASSUME NEW c \in Consumers, RemoveBegin(c)
      PROVE  ConsumerInv'
  <2>1. Ready' <=> Ready
    BY <1>3, ReadyFrame DEF RemoveBegin, list, producer
  <2>2. \A d \in Consumers : d = c
    BY DEF SingleConsumer
  <2> QED
    BY <1>3, <2>1, <2>2 DEF RemoveBegin, ConsumerInv, TypeOK, list, producer
<1>4. ASSUME NEW c \in Consumers, LoadTail(c)
      PROVE  ConsumerInv'
  <2>1. Ready' <=> Ready
    BY <1>4, ReadyFrame DEF LoadTail, list, producer, history
  <2>2. \A d \in Consumers : d = c
    BY DEF SingleConsumer
  <2> QED
    BY <1>4, <2>1, <2>2 DEF LoadTail, ConsumerInv, TypeOK, list, producer, history
<1>5. ASSUME NEW c \in Consumers, LoadNext(c)
      PROVE  ConsumerInv'
  <2>1. Ready' <=> Ready
    BY <1>5, ReadyFrame DEF LoadNext, list, producer, history
  <2>2. \A d \in Consumers : d = c
    BY DEF SingleConsumer
  <2>3. /\ cpc[c] = "next" /\ tl[c] = tail /\ nx'[c] = next[tail] /\ tl'[c] = tail
        /\ cpc'[c] = IF next[tail] # 0 THEN "value" ELSE "swap"
        /\ UNCHANGED <<head, tail, value, next, owed, removed>>
    BY <1>5 DEF LoadNext, ConsumerInv, TypeOK, list, history
  <2>4. next[tail] # 0 => next[tail] = tail + 1
    BY DEF LinkInv, TypeOK
  <2>5. next[tail] = 0 /\ Ready => value[tail] # NULL
    <3>1. /\ head \in Nat /\ tail \in Elems
          /\ next[tail] = IF tail < head /\ ~ Adding(tail + 1) THEN tail + 1 ELSE 0
          /\ Len(removed) = IF value[tail] = NULL THEN tail ELSE tail - 1
      BY DEF LinkInv, ValueInv, TypeOK, Elems
    <3> QED
      BY <3>1 DEF Ready, Elems
  <2>6. owed[c] => Ready
    BY DEF ConsumerInv
  <2> QED
    BY <2>1, <2>2, <2>3, <2>4, <2>5, <2>6 DEF ConsumerInv
<1>6. ASSUME NEW c \in Consumers, LoadValue(c)
      PROVE  ConsumerInv'
  <2>1. Ready' <=> Ready
    BY <1>6, ReadyFrame DEF LoadValue, list, producer, history
  <2>2. \A d \in Consumers : d = c
    BY DEF SingleConsumer
  <2> QED
    BY <1>6, <2>1, <2>2 DEF LoadValue, ConsumerInv, TypeOK, list, producer, history
<1>7. ASSUME NEW c \in Consumers, DeleteTail(c)
      PROVE  ConsumerInv'
  <2>1. Ready' <=> Ready
    BY <1>7, ReadyFrame DEF DeleteTail, producer, history
  <2>2. \A d \in Consumers : d = c
    BY DEF SingleConsumer
  <2> QED
    BY <1>7, <2>1, <2>2 DEF DeleteTail, ConsumerInv, TypeOK, producer, history
<1>8. ASSUME NEW c \in Consumers, MoveTail(c)
      PROVE  ConsumerInv'
  <2>1. \A d \in Consumers : d = c
    BY DEF SingleConsumer
  <2>2. CASE val[c] # NULL
    BY <1>8, <2>1, <2>2 DEF MoveTail, ConsumerInv, TypeOK
  <2>3. CASE val[c] = NULL
    <3>1. cpc'[c] = "load" /\ owed' = owed
      BY <1>8, <2>3 DEF MoveTail, TypeOK
    <3>2. Ready' <=> Ready
      BY <1>8, <2>3, ReadyFrame DEF MoveTail, producer
    <3> QED
      BY <2>1, <3>1, <3>2 DEF ConsumerInv
  <2> QED
    BY <2>2, <2>3
<1>9. ASSUME NEW c \in Consumers, SwapValue(c)
      PROVE  ConsumerInv'
  <2>1. \A d \in Consumers : d = c
    BY DEF SingleConsumer
  <2>2. cpc'[c] = "idle" /\ ~ owed'[c]
    BY <1>9 DEF SwapValue, TypeOK
  <2> QED
    BY <2>1, <2>2 DEF ConsumerInv
<1>10. CASE DestroyBegin
  <2>1. Ready' <=> Ready
    BY <1>10, ReadyFrame DEF DestroyBegin, list, producer, consumer, history
  <2> QED
    BY <1>10, <2>1 DEF DestroyBegin, ConsumerInv, list, producer, consumer, history
<1>11. CASE DestroyElement
  <2>1. Ready' <=> Ready
    BY <1>11, ReadyFrame DEF DestroyElement, producer, consumer, history
  <2> QED
    BY <1>11, <2>1 DEF DestroyElement, ConsumerInv, producer, consumer, history
<1>12. CASE UNCHANGED vars
  <2>1. Ready' <=> Ready
    BY <1>12, ReadyFrame DEF vars, list, producer, history
  <2> QED
    BY <1>12, <2>1 DEF ConsumerInv, vars, list, consumer, history
<1> QED
  BY <1>1, <1>2, <1>3, <1>4, <1>5, <1>6, <1>7, <1>8, <1>9, <1>10, <1>11, <1>12
  DEF Next, Add, Remove

(* The tail moves to an element only through a link that has been made. *)
LEMMA AheadStep ==
  TypeOK /\ LinkInv /\ ValueInv /\ ConsumerInv /\ AheadInv /\ [Next]_vars => AheadInv'
<1> SUFFICES ASSUME TypeOK, LinkInv, ValueInv, ConsumerInv, AheadInv, [Next]_vars PROVE AheadInv'
  OBVIOUS
<1> USE EntriesAssumption, BoundAssumption
<1>1. ASSUME NEW p \in Producers, NEW v \in Entries, AddExchange(p, v)
      PROVE  AheadInv'
  <2>1. head + 1 > tail
    BY DEF ValueInv, TypeOK, Elems
  <2> QED
    BY <1>1, <2>1 DEF AddExchange, AheadInv, TypeOK
<1>2. ASSUME NEW p \in Producers, AddLink(p)
      PROVE  AheadInv'
  BY <1>2 DEF AddLink, AheadInv, TypeOK
<1>3. ASSUME NEW c \in Consumers, MoveTail(c)
      PROVE  AheadInv'
  <2>1. /\ tail' = tail + 1 /\ next[tail] = tail + 1 /\ tail \in Nat /\ tail \in Elems
        /\ UNCHANGED <<ppc, elem>>
    BY <1>3 DEF MoveTail, ConsumerInv, TypeOK, Elems, producer
  <2>2. ~ Adding(tail + 1)
    BY <2>1 DEF LinkInv
  <2>3. \A p \in Producers : elem[p] \in Nat
    BY DEF TypeOK, Elems
  <2> QED
    BY <2>1, <2>2, <2>3 DEF AheadInv, Adding
<1>4. CASE UNCHANGED <<tail, producer>>
  BY <1>4 DEF AheadInv, producer
<1> QED
  BY <1>1, <1>2, <1>3, <1>4
  DEF Next, Add, Remove, RemoveBegin, LoadTail, LoadNext, LoadValue, DeleteTail, SwapValue,
      DestroyBegin, DestroyElement, vars, list, consumer, closing, history

(* Only what the tail or the cursor has left behind is deleted. *)
LEMMA DeleteStep ==
  SingleConsumer /\ TypeOK /\ LinkInv /\ ValueInv /\ ConsumerInv /\ DeleteInv /\ [Next]_vars => DeleteInv'
<1> SUFFICES ASSUME SingleConsumer, TypeOK, LinkInv, ValueInv, ConsumerInv, DeleteInv, [Next]_vars PROVE DeleteInv'
  OBVIOUS
<1> USE EntriesAssumption, BoundAssumption
<1>1. ASSUME NEW p \in Producers, NEW v \in Entries, AddExchange(p, v)
      PROVE  DeleteInv'
  BY <1>1 DEF AddExchange, TypeOK, DeleteInv, consumer, closing
<1>2. ASSUME NEW p \in Producers, AddLink(p)
      PROVE  DeleteInv'
  BY <1>2 DEF AddLink, TypeOK, DeleteInv, consumer, closing, history
<1>3. ASSUME NEW c \in Consumers, RemoveBegin(c)
      PROVE  DeleteInv'
  BY <1>3 DEF RemoveBegin, TypeOK, DeleteInv, list, producer, closing
<1>4. ASSUME NEW c \in Consumers, LoadTail(c)
      PROVE  DeleteInv'
  BY <1>4 DEF LoadTail, TypeOK, DeleteInv, list, producer, closing, history
<1>5. ASSUME NEW c \in Consumers, LoadNext(c)
      PROVE  DeleteInv'
  BY <1>5 DEF LoadNext, TypeOK, DeleteInv, list, producer, closing, history
<1>6. ASSUME NEW c \in Consumers, LoadValue(c)
      PROVE  DeleteInv'
  BY <1>6 DEF LoadValue, TypeOK, DeleteInv, list, producer, closing, history
<1>7. ASSUME NEW c \in Consumers, DeleteTail(c)
      PROVE  DeleteInv'
  <2>1. /\ cpc[c] = "delete" /\ cpc'[c] = "move" /\ freed' = freed \cup {tl[c]}
        /\ UNCHANGED <<tail, phase, dropped>>
    BY <1>7 DEF DeleteTail, TypeOK, closing
  <2>2. phase = "open" /\ dropped = {} /\ tl[c] = tail /\ tail \in Nat
    <3>1. phase = "open" /\ dropped = {}
      BY <2>1 DEF DeleteInv, TypeOK
    <3>2. tl[c] = tail
      BY <2>1 DEF ConsumerInv
    <3> QED
      BY <3>1, <3>2 DEF TypeOK, Elems
  <2>3. freed = 0..(tail - 1)
    BY <2>1, <2>2 DEF DeleteInv, SingleConsumer
  <2>4. freed' = 0..tail'
    BY <2>1, <2>2, <2>3
  <2> QED
    BY <2>1, <2>2, <2>4 DEF DeleteInv
<1>8. ASSUME NEW c \in Consumers, MoveTail(c)
      PROVE  DeleteInv'
  <2>1. /\ cpc[c] = "move" /\ cpc'[c] \in {"idle", "load"} /\ tail' = nx[c]
        /\ UNCHANGED <<freed, phase, dropped>>
    BY <1>8 DEF MoveTail, TypeOK, closing
  <2>2. phase = "open" /\ dropped = {} /\ freed = 0..tail
    BY <2>1 DEF DeleteInv, TypeOK
  <2>3. tail' = tail + 1 /\ tail \in Nat
    BY <2>1 DEF ConsumerInv, TypeOK, Elems
  <2>4. ~ \E d \in Consumers : cpc'[d] = "move"
    BY <2>1 DEF SingleConsumer
  <2>5. 0..tail = 0..(tail' - 1)
    BY <2>3
  <2> QED
    BY <2>1, <2>2, <2>4, <2>5 DEF DeleteInv
<1>9. ASSUME NEW c \in Consumers, SwapValue(c)
      PROVE  DeleteInv'
  <2>1. /\ cpc[c] = "swap" /\ cpc'[c] = "idle"
        /\ UNCHANGED <<freed, phase, dropped, tail>>
    BY <1>9 DEF SwapValue, TypeOK, closing
  <2>2. phase = "open" /\ dropped = {}
    BY <2>1 DEF DeleteInv, TypeOK
  <2>3. /\ ~ \E d \in Consumers : cpc[d] = "move"
        /\ ~ \E d \in Consumers : cpc'[d] = "move"
    BY <2>1 DEF SingleConsumer
  <2> QED
    BY <2>1, <2>2, <2>3 DEF DeleteInv
<1>10. CASE DestroyBegin
  BY <1>10, SMTT(30) DEF DestroyBegin, TypeOK, Elems, ValueInv, DeleteInv, list, producer, consumer, history
<1>11. CASE DestroyElement
  <2>1. /\ phase = "destroying" /\ freed' = freed \cup {cursor} /\ cursor' = next[cursor]
        /\ dropped' = IF value[cursor] # NULL THEN dropped \cup {value[cursor]} ELSE dropped
        /\ phase' = IF next[cursor] # 0 THEN "destroying" ELSE "gone"
        /\ UNCHANGED <<head, tail, value, next, added, removed, ppc, cpc>>
    BY <1>11 DEF DestroyElement, producer, consumer, history
  <2>2. /\ \A p \in Producers : ppc[p] = "idle"
        /\ \A d \in Consumers : cpc[d] = "idle"
        /\ cursor \in tail..head /\ freed = 0..(cursor - 1)
        /\ dropped = {added[i] : i \in (Len(removed) + 1)..(cursor - 1)}
    BY <2>1 DEF DeleteInv
  <2>3. cursor \in Nat /\ head \in Nat /\ tail \in Nat /\ cursor \in Elems
    BY DEF TypeOK, Elems
  <2>4. next[cursor] = IF cursor < head THEN cursor + 1 ELSE 0
    BY <2>2, <2>3 DEF LinkInv, Adding
  <2>5. freed' = 0..cursor
    BY <2>1, <2>2, <2>3
  <2>6. dropped' = {added[i] : i \in (Len(removed) + 1)..cursor}
    <3>1. value[tail] # NULL => tail > 0 /\ value[tail] = added[tail]
      BY DEF ValueInv
    <3>2. Len(removed) = IF value[tail] = NULL THEN tail ELSE tail - 1
      BY DEF ValueInv
    <3>3. cursor > tail => value[cursor] = added[cursor] /\ added[cursor] # NULL
      BY <2>2, <2>3 DEF ValueInv, LinkInv, TypeOK
    <3>4. CASE value[cursor] # NULL
      <4>1. value[cursor] = added[cursor] /\ Len(removed) < cursor /\ Len(removed) \in Nat
        BY <2>2, <2>3, <3>1, <3>2, <3>3, <3>4
      <4>2. (Len(removed) + 1)..cursor = ((Len(removed) + 1)..(cursor - 1)) \cup {cursor}
        BY <2>3, <4>1
      <4> QED
        BY <2>1, <2>2, <3>4, <4>1, <4>2
    <3>5. CASE value[cursor] = NULL
      <4>1. cursor = tail /\ Len(removed) = tail
        BY <2>2, <2>3, <3>2, <3>3, <3>5
      <4>2. (cursor + 1)..cursor = {} /\ (cursor + 1)..(cursor - 1) = {}
        BY <2>3
      <4>3. dropped' = dropped
        BY <2>1, <3>5
      <4> QED
        BY <2>2, <4>1, <4>2, <4>3
    <3> QED
      BY <3>4, <3>5
  <2>7. CASE cursor < head
    <3>1. cursor' = cursor + 1 /\ phase' = "destroying"
      BY <2>1, <2>3, <2>4, <2>7
    <3>2. cursor' \in tail'..head' /\ cursor' - 1 = cursor
      BY <2>1, <2>2, <2>3, <2>7, <3>1
    <3>3. freed' = 0..(cursor' - 1)
      BY <2>5, <3>2
    <3>4. dropped' = {added'[i] : i \in (Len(removed') + 1)..(cursor' - 1)}
      BY <2>1, <2>6, <3>2
    <3>5. /\ \A p \in Producers : ppc'[p] = "idle"
          /\ \A d \in Consumers : cpc'[d] = "idle"
      BY <2>1, <2>2
    <3> QED
      BY <3>1, <3>2, <3>3, <3>4, <3>5 DEF DeleteInv
  <2>8. CASE cursor = head
    <3>1. phase' = "gone"
      BY <2>1, <2>3, <2>4, <2>8
    <3> QED
      BY <2>1, <2>2, <2>5, <2>6, <2>8, <3>1 DEF DeleteInv
  <2> QED
    BY <2>2, <2>3, <2>7, <2>8
<1>12. CASE UNCHANGED vars
  BY <1>12 DEF DeleteInv, vars, list, producer, consumer, closing, history
<1> QED
  BY <1>1, <1>2, <1>3, <1>4, <1>5, <1>6, <1>7, <1>8, <1>9, <1>10, <1>11, <1>12
  DEF Next, Add, Remove

-----------------------------------------------------------------------------
(* The parts of the invariant together. *)
LEMMA InductiveStep == SingleConsumer /\ IInv /\ [Next]_vars => IInv'
BY TypeStep, LinkStep, ValueStep, ConsumerStep, AheadStep, DeleteStep DEF IInv

(***************************************************************************)
(* With one consumer, the inductive invariant holds of every state.        *)
(***************************************************************************)
THEOREM Invariance == ASSUME SingleConsumer PROVE Spec => []IInv
<1>1. Init => IInv
  BY InitInv
<1>2. IInv /\ [Next]_vars => IInv'
  BY InductiveStep
<1> QED
  BY <1>1, <1>2, PTL DEF Spec

(* TypeOK: every variable keeps its type, the bound on elements included. *)
THEOREM TypeCorrect == ASSUME SingleConsumer PROVE Spec => []TypeOK
BY Invariance, PTL DEF IInv

(***************************************************************************)
(* Fifo: however the writers overlap, the consumer gets the entries in the *)
(* order of the exchanges in Add, with none skipped and none given twice.  *)
(***************************************************************************)
THEOREM FifoOrder == ASSUME SingleConsumer PROVE Spec => []Fifo
<1>1. IInv => Fifo
  BY DEF IInv, TypeOK, LinkInv, ValueInv, Fifo, Elems
<1> QED
  BY <1>1, Invariance, PTL

(***************************************************************************)
(* NoUseAfterDelete: no element is touched once it has been deleted, by    *)
(* the consumer that deletes them, by a writer that still has to link its  *)
(* element to an older one, or by the destructor.                          *)
(***************************************************************************)
THEOREM MemorySafety == ASSUME SingleConsumer PROVE Spec => []NoUseAfterDelete
<1>1. IInv => NoUseAfterDelete
  <2> SUFFICES ASSUME IInv PROVE NoUseAfterDelete
    OBVIOUS
  <2>1. tail \in Nat /\ head \in Nat /\ tail <= head
    BY DEF IInv, TypeOK, Elems, ValueInv
  <2>2. ASSUME NEW c \in Consumers, cpc[c] \in {"next", "value", "delete", "swap"}
        PROVE  tl[c] \notin freed
    <3>1. phase = "open" /\ tl[c] = tail
      BY <2>2 DEF IInv, DeleteInv, ConsumerInv, TypeOK
    <3>2. ~ \E d \in Consumers : cpc[d] = "move"
      BY <2>2 DEF SingleConsumer
    <3> QED
      BY <2>1, <3>1, <3>2 DEF IInv, DeleteInv
  <2>3. ASSUME NEW p \in Producers, ppc[p] = "link"
        PROVE  prev[p] \notin freed
    <3>1. /\ phase = "open" /\ elem[p] \in 1..head /\ prev[p] = elem[p] - 1
          /\ prev[p] \in Elems
      BY <2>3 DEF IInv, DeleteInv, LinkInv, TypeOK
    <3>2. elem[p] > tail /\ Adding(elem[p]) /\ elem[p] \in Nat
      BY <2>3 DEF IInv, AheadInv, Adding, TypeOK, Elems
    <3>3. CASE \E d \in Consumers : cpc[d] = "move"
      <4>1. next[tail] = tail + 1 /\ freed = 0..tail /\ tail \in Elems
        BY <3>1, <3>3 DEF IInv, ConsumerInv, DeleteInv, TypeOK
      <4>2. elem[p] # tail + 1
        BY <2>1, <3>2, <4>1 DEF IInv, LinkInv
      <4> QED
        BY <2>1, <3>1, <3>2, <4>1, <4>2
    <3>4. CASE ~ \E d \in Consumers : cpc[d] = "move"
      BY <2>1, <3>1, <3>2, <3>4 DEF IInv, DeleteInv
    <3> QED
      BY <3>3, <3>4
  <2>4. phase = "destroying" => cursor \notin freed
    BY <2>1 DEF IInv, DeleteInv
  <2> QED
    BY <2>2, <2>3, <2>4 DEF NoUseAfterDelete
<1> QED
  BY <1>1, Invariance, PTL

(***************************************************************************)
(* NothingLeaks: whenever the destructor has finished, every entry went    *)
(* to the consumer or to the destructor, none to both, and every element   *)
(* of the list has been deleted.                                           *)
(***************************************************************************)
THEOREM CompleteDestruction == ASSUME SingleConsumer PROVE Spec => []NothingLeaks
<1>1. IInv => NothingLeaks
  <2> SUFFICES ASSUME IInv, phase = "gone" PROVE NothingLeaks
    BY DEF NothingLeaks
  <2>1. /\ head \in Nat /\ Len(added) = head /\ Len(removed) \in 0..head
        /\ \A i, j \in 1..head : added[i] = added[j] => i = j
        /\ \A i \in 1..Len(removed) : removed[i] = added[i]
    BY DEF IInv, TypeOK, Elems, LinkInv, ValueInv
  <2>2. freed = 0..head /\ dropped = {added[i] : i \in (Len(removed) + 1)..head}
    BY DEF IInv, DeleteInv
  <2>3. SetOf(removed) = {added[i] : i \in 1..Len(removed)}
    BY <2>1 DEF SetOf
  <2>4. 1..head = (1..Len(removed)) \cup ((Len(removed) + 1)..head)
    BY <2>1
  <2>5. SetOf(added) = SetOf(removed) \cup dropped
    BY <2>1, <2>2, <2>3, <2>4 DEF SetOf
  <2>6. SetOf(removed) \cap dropped = {}
    BY <2>1, <2>2, <2>3
  <2> QED
    BY <2>2, <2>5, <2>6 DEF NothingLeaks
<1> QED
  BY <1>1, Invariance, PTL

-----------------------------------------------------------------------------
(***************************************************************************)
(* The refinement. The exchange of the head is where an Add takes effect   *)
(* and the store of `next' where it returns; moving the tail past a value, *)
(* or swapping it out of the last element, is where a Remove takes effect. *)
(***************************************************************************)

(* Whether an entry is in the hands of a writer, by its place in the order *)
LEMMA InProgressIsAdding ==
  LinkInv => \A i \in 1..head : added[i] \in InProgress <=> Adding(i)
BY DEF LinkInv, InProgress, Adding

(* A step that leaves the calls and the history alone is a stuttering step. *)
LEMMA SilentStep ==
  ASSUME UNCHANGED <<added, removed, InProgress>>,
         \A c \in Consumers : CallOf(c)' = CallOf(c)
  PROVE  UNCHANGED Abstract!vars
BY DEF Abstract!vars

(* The empty list is the empty queue. *)
LEMMA RefinementInit == Init => Abstract!Init
BY DEF Init, Abstract!Init, InProgress, CallOf

(* Every step of the list is a step of the queue, or none. *)
LEMMA RefinementStep ==
  SingleConsumer /\ IInv /\ [Next]_vars => [Abstract!Next]_(Abstract!vars)
<1> SUFFICES ASSUME SingleConsumer, IInv, [Next]_vars
             PROVE  Abstract!Next \/ UNCHANGED Abstract!vars
  OBVIOUS
<1> USE EntriesAssumption, BoundAssumption
<1>1. ASSUME NEW p \in Producers, NEW v \in Entries, AddExchange(p, v)
      PROVE  Abstract!BeginAdd(v)
  <2>1. /\ added' = Append(added, v) /\ added \in Seq(Entries) /\ Len(added) = head
        /\ head \in Nat /\ UNCHANGED <<removed, cpc, owed>>
        /\ \A i \in 1..Len(added) : added[i] # v
    BY <1>1 DEF AddExchange, IInv, TypeOK, Elems, LinkInv, consumer
  <2>2. added'[head + 1] = v /\ \A i \in 1..head : added'[i] = added[i]
    BY <2>1, AppendFacts
  <2>3. /\ ppc[p] = "idle"
        /\ \A q \in Producers : ppc'[q] = IF q = p THEN "link" ELSE ppc[q]
        /\ \A q \in Producers : elem'[q] = IF q = p THEN head + 1 ELSE elem[q]
    BY <1>1 DEF AddExchange, IInv, TypeOK
  <2>4. \A q \in Producers : ppc[q] = "link" => elem[q] \in 1..head
    BY DEF IInv, LinkInv
  <2>5. InProgress' = InProgress \cup {v}
    <3>1. \A x : x \in InProgress' <=>
                 \E q \in Producers : ppc'[q] = "link" /\ x = added'[elem'[q]]
      BY DEF InProgress
    <3>2. \A x : x \in InProgress <=>
                 \E q \in Producers : ppc[q] = "link" /\ x = added[elem[q]]
      BY DEF InProgress
    <3> QED
      BY <2>2, <2>3, <2>4, <3>1, <3>2
  <2>6. UNCHANGED [c \in Consumers |-> CallOf(c)]
    BY <2>1 DEF CallOf
  <2> QED
    BY <2>1, <2>5, <2>6 DEF Abstract!BeginAdd
<1>2. ASSUME NEW p \in Producers, AddLink(p)
      PROVE  added[elem[p]] \in Entries /\ Abstract!EndAdd(added[elem[p]])
  <2>1. /\ ppc[p] = "link" /\ UNCHANGED <<added, removed, cpc, owed>>
        /\ \A q \in Producers : ppc'[q] = IF q = p THEN "idle" ELSE ppc[q]
        /\ \A q \in Producers : q # p => elem'[q] = elem[q]
    BY <1>2 DEF AddLink, IInv, TypeOK, consumer, history
  <2>2. /\ \A q \in Producers : ppc[q] = "link" => elem[q] \in 1..head
        /\ \A i, j \in 1..head : added[i] = added[j] => i = j
        /\ \A q, r \in Producers :
             ppc[q] = "link" /\ ppc[r] = "link" /\ elem[q] = elem[r] => q = r
    BY DEF IInv, LinkInv
  <2>3. InProgress' = InProgress \ {added[elem[p]]}
    <3>1. \A x : x \in InProgress' <=>
                 \E q \in Producers : ppc'[q] = "link" /\ x = added'[elem'[q]]
      BY DEF InProgress
    <3>2. \A x : x \in InProgress <=>
                 \E q \in Producers : ppc[q] = "link" /\ x = added[elem[q]]
      BY DEF InProgress
    <3> QED
      BY <2>1, <2>2, <3>1, <3>2
  <2>4. UNCHANGED [c \in Consumers |-> CallOf(c)]
    BY <2>1 DEF CallOf
  <2>5. added[elem[p]] \in InProgress
    BY <2>1 DEF InProgress
  <2>6. added[elem[p]] \in Entries
    <3>1. added \in Seq(Entries) /\ Len(added) = head
      BY DEF IInv, TypeOK, LinkInv
    <3> QED
      BY <2>1, <2>2, <3>1
  <2> QED
    BY <2>1, <2>3, <2>4, <2>5, <2>6 DEF Abstract!EndAdd
<1>3. ASSUME NEW c \in Consumers, RemoveBegin(c)
      PROVE  Abstract!BeginRemove(c)
  <2>1. /\ cpc[c] = "idle" /\ cpc' = [cpc EXCEPT ![c] = "load"]
        /\ owed' = [owed EXCEPT ![c] = Ready] /\ UNCHANGED <<added, removed, ppc, elem>>
        /\ cpc \in [Consumers -> {"idle", "load", "next", "value", "delete", "move", "swap"}]
        /\ owed \in [Consumers -> BOOLEAN]
    BY <1>3 DEF RemoveBegin, IInv, TypeOK, producer
  <2>2. Ready <=> Abstract!Waiting /\ Abstract!Oldest \notin InProgress
    <3>1. Len(removed) \in Nat /\ head \in Nat /\ Len(added) = head
      BY DEF IInv, TypeOK, Elems, LinkInv
    <3>2. Len(removed) < head => Len(removed) + 1 \in 1..head
      BY <3>1
    <3> QED
      BY <3>1, <3>2, InProgressIsAdding DEF IInv, Ready, Abstract!Waiting, Abstract!Oldest
  <2>3. UNCHANGED InProgress
    BY <2>1 DEF InProgress
  <2>4. CallOf(c) = "idle"
    BY <2>1 DEF CallOf
  <2>5. CallOf(c)' = IF Ready THEN "owed" ELSE "removing"
    BY <2>1 DEF CallOf
  <2>6. \A d \in Consumers : d = c
    BY DEF SingleConsumer
  <2>7. [d \in Consumers |-> CallOf(d)]' =
          [[d \in Consumers |-> CallOf(d)] EXCEPT ![c] =
             IF Abstract!Waiting /\ Abstract!Oldest \notin InProgress
             THEN "owed" ELSE "removing"]
    BY <2>2, <2>5, <2>6
  <2> QED
    BY <2>1, <2>3, <2>4, <2>7 DEF Abstract!BeginRemove
<1>4. ASSUME NEW c \in Consumers,
             LoadTail(c) \/ LoadNext(c) \/ LoadValue(c) \/ DeleteTail(c)
      PROVE  UNCHANGED Abstract!vars
  <2>1. /\ cpc[c] # "idle" /\ cpc'[c] # "idle"
        /\ UNCHANGED <<added, removed, owed, ppc, elem>>
    BY <1>4 DEF LoadTail, LoadNext, LoadValue, DeleteTail, IInv, TypeOK, producer, history
  <2>2. UNCHANGED InProgress
    BY <2>1 DEF InProgress
  <2>3. \A d \in Consumers : CallOf(d)' = CallOf(d)
    BY <2>1 DEF SingleConsumer, CallOf
  <2> QED
    BY <2>1, <2>2, <2>3, SilentStep
<1>5. ASSUME NEW c \in Consumers, MoveTail(c)
      PROVE  Abstract!Take(c) \/ UNCHANGED Abstract!vars
  <2>1. /\ cpc[c] = "move" /\ val[c] = value[tail] /\ UNCHANGED <<added, ppc, elem>>
        /\ tail \in Nat /\ head \in Nat /\ tail <= head /\ Len(added) = head
    BY <1>5 DEF MoveTail, IInv, TypeOK, Elems, LinkInv, ValueInv, ConsumerInv, producer
  <2>2. UNCHANGED InProgress
    BY <2>1 DEF InProgress
  <2>3. \A d \in Consumers : d = c
    BY DEF SingleConsumer
  <2>4. CASE val[c] # NULL
    <3>1. /\ removed' = Append(removed, val[c]) /\ cpc'[c] = "idle"
          /\ tail > 0 /\ val[c] = added[tail] /\ Len(removed) = tail - 1
      BY <1>5, <2>1, <2>4 DEF MoveTail, IInv, TypeOK, ValueInv
    <3>2. Abstract!Waiting /\ removed' = Append(removed, Abstract!Oldest)
      BY <2>1, <3>1 DEF Abstract!Waiting, Abstract!Oldest
    <3>3. CallOf(c) # "idle" /\ CallOf(c)' = "idle"
      BY <2>1, <3>1 DEF CallOf
    <3>4. [d \in Consumers |-> CallOf(d)]' =
            [[d \in Consumers |-> CallOf(d)] EXCEPT ![c] = "idle"]
      BY <2>3, <3>3
    <3> QED
      BY <2>1, <2>2, <3>2, <3>3, <3>4 DEF Abstract!Take
  <2>5. CASE val[c] = NULL
    <3>1. cpc'[c] # "idle" /\ UNCHANGED <<removed, owed>>
      BY <1>5, <2>5 DEF MoveTail, IInv, TypeOK
    <3>2. \A d \in Consumers : CallOf(d)' = CallOf(d)
      BY <2>1, <2>3, <3>1 DEF CallOf
    <3> QED
      BY <2>1, <2>2, <3>1, <3>2, SilentStep
  <2> QED
    BY <2>4, <2>5
<1>6. ASSUME NEW c \in Consumers, SwapValue(c)
      PROVE  Abstract!Take(c) \/ Abstract!Miss(c)
  <2>1. /\ cpc[c] = "swap" /\ cpc'[c] = "idle" /\ tl[c] = tail
        /\ UNCHANGED <<added, ppc, elem>>
        /\ tail \in Nat /\ head \in Nat /\ tail <= head /\ Len(added) = head
    BY <1>6 DEF SwapValue, IInv, TypeOK, Elems, LinkInv, ValueInv, ConsumerInv, producer
  <2>2. UNCHANGED InProgress
    BY <2>1 DEF InProgress
  <2>3. CallOf(c) # "idle" /\ CallOf(c)' = "idle"
    BY <2>1 DEF CallOf
  <2>4. [d \in Consumers |-> CallOf(d)]' =
          [[d \in Consumers |-> CallOf(d)] EXCEPT ![c] = "idle"]
    BY <2>3 DEF SingleConsumer
  <2>5. CASE value[tail] # NULL
    <3>1. /\ removed' = Append(removed, value[tail])
          /\ tail > 0 /\ value[tail] = added[tail] /\ Len(removed) = tail - 1
      BY <1>6, <2>1, <2>5 DEF SwapValue, IInv, ValueInv
    <3>2. Abstract!Waiting /\ removed' = Append(removed, Abstract!Oldest)
      BY <2>1, <3>1 DEF Abstract!Waiting, Abstract!Oldest
    <3> QED
      BY <2>1, <2>2, <2>3, <2>4, <3>2 DEF Abstract!Take
  <2>6. CASE value[tail] = NULL
    <3>1. removed' = removed
      BY <1>6, <2>1, <2>6 DEF SwapValue
    <3>2. CallOf(c) = "removing"
      BY <2>1, <2>6 DEF CallOf, IInv, ConsumerInv
    <3> QED
      BY <2>1, <2>2, <2>4, <3>1, <3>2 DEF Abstract!Miss
  <2> QED
    BY <2>5, <2>6
<1>7. ASSUME DestroyBegin \/ DestroyElement \/ UNCHANGED vars
      PROVE  UNCHANGED Abstract!vars
  <2>1. UNCHANGED <<added, removed, ppc, elem, cpc, owed>>
    BY <1>7 DEF DestroyBegin, DestroyElement, vars, list, producer, consumer, history
  <2> QED
    BY <2>1, SilentStep DEF InProgress, CallOf
<1>8. ASSUME NEW p \in Producers, Add(p) PROVE Abstract!Next
  BY <1>1, <1>2, <1>8 DEF Add, Abstract!Next
<1>9. ASSUME NEW c \in Consumers, Remove(c) PROVE Abstract!Next \/ UNCHANGED Abstract!vars
  BY <1>3, <1>4, <1>5, <1>6, <1>9 DEF Remove, Abstract!Next
<1> QED
  BY <1>7, <1>8, <1>9 DEF Next

(***************************************************************************)
(* ImplementsFifo: every behaviour of the list, seen through its calls, is *)
(* a behaviour of a FIFO queue whose operations take effect at one point   *)
(* between their beginning and their end.                                  *)
(***************************************************************************)
THEOREM Refinement == ASSUME SingleConsumer PROVE Spec => ImplementsFifo
<1>1. Init => Abstract!Init
  BY RefinementInit
<1>2. IInv /\ [Next]_vars => [Abstract!Next]_(Abstract!vars)
  BY RefinementStep
<1> QED
  BY <1>1, <1>2, Invariance, PTL DEF Spec, ImplementsFifo, Abstract!Spec

-----------------------------------------------------------------------------
(* The queue in the database.                                              *)

(* How the clients use the writer and the reader in what follows. *)
Prudent == Usage = {} /\ "amid" \notin Faults

(* Nothing has been written or read. *)
LEMMA BrokerInitInv == BrokerInit => BrokerInv
BY DEF BrokerInit, BrokerInv, BrokerTypeOK, WorkHasOwner, OneWrite, SentUntilEnded, MessagesConserved, GivenIsReceived,
  Sessions, Done, Good

(* Types are kept. *)
LEMMA BrokerTypeStep ==
  ASSUME BrokerInv, BrokerNext, Prudent
  PROVE  BrokerTypeOK'
<1>. USE BrokerAssumption DEF BrokerInv, Prudent, BrokerTypeOK, WorkHasOwner, OneWrite, SentUntilEnded, MessagesConserved, Sessions, Done, Good, Messages,
         writerVars, readerVars, sessionVars, writeStore, readStore
<1>1. ASSUME NEW w \in Writes, WriteMessages(w) PROVE BrokerTypeOK'
  BY <1>1 DEF WriteMessages
<1>2. ASSUME NEW w \in Writes, Rethrow(w) PROVE BrokerTypeOK'
  BY <1>2 DEF Rethrow
<1>3. ASSUME NEW w \in Writes, Commit(w) PROVE BrokerTypeOK'
  BY <1>3 DEF Commit, EndsWrite
<1>4. ASSUME NEW w \in Writes, Rollback(w) PROVE BrokerTypeOK'
  BY <1>4 DEF Rollback, EndsWrite
<1>5. ASSUME NEW w \in Writes, DestroyWrite(w) PROVE BrokerTypeOK'
  BY <1>5 DEF DestroyWrite, WriterRollsBack
<1>6. CASE Begin
  BY <1>6 DEF Begin, CheckConnection
<1>7. CASE Insert
  BY <1>7 DEF Insert, CheckConnection
<1>8. CASE Send
  BY <1>8 DEF Send, CheckConnection
<1>9. CASE StatementFails
  BY <1>9 DEF StatementFails
<1>10. CASE SetValue
  BY <1>10 DEF SetValue
<1>11. CASE SetException
  BY <1>11 DEF SetException, WriterRollsBack
<1>12. CASE ReadMessages
  BY <1>12 DEF ReadMessages, CheckConnection
<1>13. CASE ReadMessagesFails
  BY <1>13 DEF ReadMessagesFails, CheckConnection
<1>14. CASE Step
  BY <1>14 DEF Step
<1>15. CASE GetStepResult
  BY <1>15 DEF GetStepResult
<1>16. CASE CommitRead
  BY <1>16 DEF CommitRead, EndsRead
<1>17. CASE RollbackRead
  BY <1>17 DEF RollbackRead, EndsRead
<1>18. CASE DestroyRead
  BY <1>18 DEF DestroyRead, ReaderRollsBack
<1>19. CASE StepDone
  BY <1>19 DEF StepDone
<1>20. CASE StepFails
  BY <1>20 DEF StepFails
<1>21. ASSUME NEW session \in Sessions, ConnectionLost(session) PROVE BrokerTypeOK'
  BY <1>21 DEF ConnectionLost
<1>. QED  BY <1>1, <1>2, <1>3, <1>4, <1>5, <1>6, <1>7, <1>8, <1>9, <1>10, <1>11, <1>12, <1>13, <1>14, <1>15, <1>16, <1>17, <1>18, <1>19, <1>20, <1>21 DEF BrokerNext, Worker, Library

(* Nothing in the background loses its object. *)
LEMMA OwnerStep ==
  ASSUME BrokerInv, BrokerNext, Prudent
  PROVE  WorkHasOwner'
<1>. USE BrokerAssumption DEF BrokerInv, Prudent, BrokerTypeOK, WorkHasOwner, OneWrite, Done,
         writerVars, readerVars, sessionVars, writeStore, readStore
<1>1. ASSUME NEW w \in Writes, WriteMessages(w) PROVE WorkHasOwner'
  BY <1>1 DEF WriteMessages
<1>2. ASSUME NEW w \in Writes, Rethrow(w) PROVE WorkHasOwner'
  BY <1>2 DEF Rethrow
<1>3. ASSUME NEW w \in Writes, Commit(w) PROVE WorkHasOwner'
  BY <1>3 DEF Commit, EndsWrite
<1>4. ASSUME NEW w \in Writes, Rollback(w) PROVE WorkHasOwner'
  BY <1>4 DEF Rollback, EndsWrite
<1>5. ASSUME NEW w \in Writes, DestroyWrite(w) PROVE WorkHasOwner'
  BY <1>5 DEF DestroyWrite, WriterRollsBack
<1>6. CASE Begin
  BY <1>6 DEF Begin, CheckConnection
<1>7. CASE Insert
  BY <1>7 DEF Insert, CheckConnection
<1>8. CASE Send
  BY <1>8 DEF Send, CheckConnection
<1>9. CASE StatementFails
  BY <1>9 DEF StatementFails
<1>10. CASE SetValue
  BY <1>10 DEF SetValue
<1>11. CASE SetException
  BY <1>11 DEF SetException, WriterRollsBack
<1>12. CASE ReadMessages
  BY <1>12 DEF ReadMessages, CheckConnection
<1>13. CASE ReadMessagesFails
  BY <1>13 DEF ReadMessagesFails, CheckConnection
<1>14. CASE Step
  BY <1>14 DEF Step
<1>15. CASE GetStepResult
  BY <1>15 DEF GetStepResult
<1>16. CASE CommitRead
  BY <1>16 DEF CommitRead, EndsRead
<1>17. CASE RollbackRead
  BY <1>17 DEF RollbackRead, EndsRead
<1>18. CASE DestroyRead
  BY <1>18 DEF DestroyRead, ReaderRollsBack
<1>19. CASE StepDone
  BY <1>19 DEF StepDone
<1>20. CASE StepFails
  BY <1>20 DEF StepFails
<1>21. ASSUME NEW session \in Sessions, ConnectionLost(session) PROVE WorkHasOwner'
  BY <1>21 DEF ConnectionLost
<1>. QED  BY <1>1, <1>2, <1>3, <1>4, <1>5, <1>6, <1>7, <1>8, <1>9, <1>10, <1>11, <1>12, <1>13, <1>14, <1>15, <1>16, <1>17, <1>18, <1>19, <1>20, <1>21 DEF BrokerNext, Worker, Library

(* One write at a time goes on. *)
LEMMA OneWriteStep ==
  ASSUME BrokerInv, BrokerNext, Prudent
  PROVE  OneWrite'
<1>. USE BrokerAssumption DEF BrokerInv, Prudent, BrokerTypeOK, WorkHasOwner, OneWrite, Done,
         writerVars, readerVars, sessionVars, writeStore, readStore
<1>1. ASSUME NEW w \in Writes, WriteMessages(w) PROVE OneWrite'
  BY <1>1 DEF WriteMessages
<1>2. ASSUME NEW w \in Writes, Rethrow(w) PROVE OneWrite'
  BY <1>2 DEF Rethrow
<1>3. ASSUME NEW w \in Writes, Commit(w) PROVE OneWrite'
  BY <1>3 DEF Commit, EndsWrite
<1>4. ASSUME NEW w \in Writes, Rollback(w) PROVE OneWrite'
  BY <1>4 DEF Rollback, EndsWrite
<1>5. ASSUME NEW w \in Writes, DestroyWrite(w) PROVE OneWrite'
  BY <1>5 DEF DestroyWrite, WriterRollsBack
<1>6. CASE Begin
  BY <1>6 DEF Begin, CheckConnection
<1>7. CASE Insert
  BY <1>7 DEF Insert, CheckConnection
<1>8. CASE Send
  BY <1>8 DEF Send, CheckConnection
<1>9. CASE StatementFails
  BY <1>9 DEF StatementFails
<1>10. CASE SetValue
  BY <1>10 DEF SetValue
<1>11. CASE SetException
  BY <1>11 DEF SetException, WriterRollsBack
<1>12. CASE ReadMessages
  BY <1>12 DEF ReadMessages, CheckConnection
<1>13. CASE ReadMessagesFails
  BY <1>13 DEF ReadMessagesFails, CheckConnection
<1>14. CASE Step
  BY <1>14 DEF Step
<1>15. CASE GetStepResult
  BY <1>15 DEF GetStepResult
<1>16. CASE CommitRead
  BY <1>16 DEF CommitRead, EndsRead
<1>17. CASE RollbackRead
  BY <1>17 DEF RollbackRead, EndsRead
<1>18. CASE DestroyRead
  BY <1>18 DEF DestroyRead, ReaderRollsBack
<1>19. CASE StepDone
  BY <1>19 DEF StepDone
<1>20. CASE StepFails
  BY <1>20 DEF StepFails
<1>21. ASSUME NEW session \in Sessions, ConnectionLost(session) PROVE OneWrite'
  BY <1>21 DEF ConnectionLost
<1>. QED  BY <1>1, <1>2, <1>3, <1>4, <1>5, <1>6, <1>7, <1>8, <1>9, <1>10, <1>11, <1>12, <1>13, <1>14, <1>15, <1>16, <1>17, <1>18, <1>19, <1>20, <1>21 DEF BrokerNext, Worker, Library

(* What has been sent stays until the write ends. *)
LEMMA SentStep ==
  ASSUME BrokerInv, BrokerNext, Prudent
  PROVE  SentUntilEnded'
<1>. USE BrokerAssumption DEF BrokerInv, Prudent, BrokerTypeOK, WorkHasOwner, OneWrite, SentUntilEnded, Done, Good, Sessions,
         writerVars, readerVars, sessionVars, writeStore, readStore
<1>1. ASSUME NEW w \in Writes, WriteMessages(w) PROVE SentUntilEnded'
  BY <1>1 DEF WriteMessages
<1>2. ASSUME NEW w \in Writes, Rethrow(w) PROVE SentUntilEnded'
  BY <1>2 DEF Rethrow
<1>3. ASSUME NEW w \in Writes, Commit(w) PROVE SentUntilEnded'
  BY <1>3 DEF Commit, EndsWrite
<1>4. ASSUME NEW w \in Writes, Rollback(w) PROVE SentUntilEnded'
  BY <1>4 DEF Rollback, EndsWrite
<1>5. ASSUME NEW w \in Writes, DestroyWrite(w) PROVE SentUntilEnded'
  BY <1>5 DEF DestroyWrite, WriterRollsBack
<1>6. CASE Begin
  BY <1>6 DEF Begin, CheckConnection
<1>7. CASE Insert
  BY <1>7 DEF Insert, CheckConnection
<1>8. CASE Send
  BY <1>8 DEF Send, CheckConnection
<1>9. CASE StatementFails
  BY <1>9 DEF StatementFails
<1>10. CASE SetValue
  BY <1>10 DEF SetValue
<1>11. CASE SetException
  BY <1>11 DEF SetException, WriterRollsBack
<1>12. CASE ReadMessages
  BY <1>12 DEF ReadMessages, CheckConnection
<1>13. CASE ReadMessagesFails
  BY <1>13 DEF ReadMessagesFails, CheckConnection
<1>14. CASE Step
  BY <1>14 DEF Step
<1>15. CASE GetStepResult
  BY <1>15 DEF GetStepResult
<1>16. CASE CommitRead
  BY <1>16 DEF CommitRead, EndsRead
<1>17. CASE RollbackRead
  BY <1>17 DEF RollbackRead, EndsRead
<1>18. CASE DestroyRead
  BY <1>18 DEF DestroyRead, ReaderRollsBack
<1>19. CASE StepDone
  BY <1>19 DEF StepDone
<1>20. CASE StepFails
  BY <1>20 DEF StepFails
<1>21. ASSUME NEW session \in Sessions, ConnectionLost(session) PROVE SentUntilEnded'
  BY <1>21 DEF ConnectionLost
<1>. QED  BY <1>1, <1>2, <1>3, <1>4, <1>5, <1>6, <1>7, <1>8, <1>9, <1>10, <1>11, <1>12, <1>13, <1>14, <1>15, <1>16, <1>17, <1>18, <1>19, <1>20, <1>21 DEF BrokerNext, Worker, Library

(* No message is lost or doubled. *)
LEMMA ConservedStep ==
  ASSUME BrokerInv, BrokerNext, Prudent
  PROVE  MessagesConserved'
<1>. USE BrokerAssumption DEF BrokerInv, Prudent, BrokerTypeOK, WorkHasOwner, OneWrite, SentUntilEnded, MessagesConserved, Done, Good, Sessions,
         writerVars, readerVars, sessionVars, writeStore, readStore
<1>1. ASSUME NEW w \in Writes, WriteMessages(w) PROVE MessagesConserved'
  BY <1>1 DEF WriteMessages
<1>2. ASSUME NEW w \in Writes, Rethrow(w) PROVE MessagesConserved'
  BY <1>2 DEF Rethrow
<1>3. ASSUME NEW w \in Writes, Commit(w) PROVE MessagesConserved'
  BY <1>3 DEF Commit, EndsWrite
<1>4. ASSUME NEW w \in Writes, Rollback(w) PROVE MessagesConserved'
  BY <1>4 DEF Rollback, EndsWrite
<1>5. ASSUME NEW w \in Writes, DestroyWrite(w) PROVE MessagesConserved'
  BY <1>5 DEF DestroyWrite, WriterRollsBack
<1>6. CASE Begin
  BY <1>6 DEF Begin, CheckConnection
<1>7. CASE Insert
  BY <1>7 DEF Insert, CheckConnection
<1>8. CASE Send
  BY <1>8 DEF Send, CheckConnection
<1>9. CASE StatementFails
  BY <1>9 DEF StatementFails
<1>10. CASE SetValue
  BY <1>10 DEF SetValue
<1>11. CASE SetException
  BY <1>11 DEF SetException, WriterRollsBack
<1>12. CASE ReadMessages
  BY <1>12 DEF ReadMessages, CheckConnection
<1>13. CASE ReadMessagesFails
  BY <1>13 DEF ReadMessagesFails, CheckConnection
<1>14. CASE Step
  BY <1>14 DEF Step
<1>15. CASE GetStepResult
  BY <1>15 DEF GetStepResult
<1>16. CASE CommitRead
  BY <1>16 DEF CommitRead, EndsRead
<1>17. CASE RollbackRead
  BY <1>17 DEF RollbackRead, EndsRead
<1>18. CASE DestroyRead
  BY <1>18 DEF DestroyRead, ReaderRollsBack
<1>19. CASE StepDone
  BY <1>19 DEF StepDone
<1>20. CASE StepFails
  BY <1>20 DEF StepFails
<1>21. ASSUME NEW session \in Sessions, ConnectionLost(session) PROVE MessagesConserved'
  BY <1>21 DEF ConnectionLost
<1>. QED  BY <1>1, <1>2, <1>3, <1>4, <1>5, <1>6, <1>7, <1>8, <1>9, <1>10, <1>11, <1>12, <1>13, <1>14, <1>15, <1>16, <1>17, <1>18, <1>19, <1>20, <1>21 DEF BrokerNext, Worker, Library

(* The client has what its transaction has received. *)
LEMMA GivenStep ==
  ASSUME BrokerInv, BrokerNext, Prudent
  PROVE  GivenIsReceived'
<1>. USE BrokerAssumption DEF BrokerInv, Prudent, BrokerTypeOK, WorkHasOwner, MessagesConserved, GivenIsReceived, Sessions,
         writerVars, readerVars, sessionVars, writeStore, readStore
<1>1. ASSUME NEW w \in Writes, WriteMessages(w) PROVE GivenIsReceived'
  BY <1>1 DEF WriteMessages
<1>2. ASSUME NEW w \in Writes, Rethrow(w) PROVE GivenIsReceived'
  BY <1>2 DEF Rethrow
<1>3. ASSUME NEW w \in Writes, Commit(w) PROVE GivenIsReceived'
  BY <1>3 DEF Commit, EndsWrite
<1>4. ASSUME NEW w \in Writes, Rollback(w) PROVE GivenIsReceived'
  BY <1>4 DEF Rollback, EndsWrite
<1>5. ASSUME NEW w \in Writes, DestroyWrite(w) PROVE GivenIsReceived'
  BY <1>5 DEF DestroyWrite, WriterRollsBack
<1>6. CASE Begin
  BY <1>6 DEF Begin, CheckConnection
<1>7. CASE Insert
  BY <1>7 DEF Insert, CheckConnection
<1>8. CASE Send
  BY <1>8 DEF Send, CheckConnection
<1>9. CASE StatementFails
  BY <1>9 DEF StatementFails
<1>10. CASE SetValue
  BY <1>10 DEF SetValue
<1>11. CASE SetException
  BY <1>11 DEF SetException, WriterRollsBack
<1>12. CASE ReadMessages
  BY <1>12 DEF ReadMessages, CheckConnection
<1>13. CASE ReadMessagesFails
  BY <1>13 DEF ReadMessagesFails, CheckConnection
<1>14. CASE Step
  BY <1>14 DEF Step
<1>15. CASE GetStepResult
  BY <1>15 DEF GetStepResult
<1>16. CASE CommitRead
  BY <1>16 DEF CommitRead, EndsRead
<1>17. CASE RollbackRead
  BY <1>17 DEF RollbackRead, EndsRead
<1>18. CASE DestroyRead
  BY <1>18 DEF DestroyRead, ReaderRollsBack
<1>19. CASE StepDone
  BY <1>19 DEF StepDone
<1>20. CASE StepFails
  BY <1>20 DEF StepFails
<1>21. ASSUME NEW session \in Sessions, ConnectionLost(session) PROVE GivenIsReceived'
  BY <1>21 DEF ConnectionLost
<1>. QED  BY <1>1, <1>2, <1>3, <1>4, <1>5, <1>6, <1>7, <1>8, <1>9, <1>10, <1>11, <1>12, <1>13, <1>14, <1>15, <1>16, <1>17, <1>18, <1>19, <1>20, <1>21 DEF BrokerNext, Worker, Library

LEMMA BrokerNextInv == BrokerInv /\ [BrokerNext]_brokerVars /\ Prudent => BrokerInv'
<1>1. ASSUME BrokerInv, BrokerNext, Prudent PROVE BrokerInv'
  BY <1>1, BrokerTypeStep, OwnerStep, OneWriteStep, SentStep, ConservedStep, GivenStep DEF BrokerInv
<1>2. ASSUME BrokerInv, UNCHANGED brokerVars PROVE BrokerInv'
  BY <1>2 DEF BrokerInv, BrokerTypeOK, WorkHasOwner, OneWrite, SentUntilEnded, MessagesConserved, GivenIsReceived,
    brokerVars, writerVars, readerVars, sessionVars, writeStore, readStore, Sessions
<1>. QED  BY <1>1, <1>2

(* The inductive invariant. *)
THEOREM BrokerInvariance ==
  ASSUME Prudent
  PROVE  BrokerSpec => []BrokerInv
BY BrokerInitInv, BrokerNextInv, PTL DEF BrokerSpec

(* What a commit would remove is what the client of the read has been given. *)
THEOREM GivenAsReceived ==
  ASSUME Prudent
  PROVE  BrokerSpec => []GivenIsReceived
<1>1. BrokerInv => GivenIsReceived
  BY DEF BrokerInv
<1>. QED  BY <1>1, BrokerInvariance, PTL
(* A commit of a write stores its batch; a commit of a read removes what it *)
(* has received; every other step leaves the abstract queue as it is.       *)
LEMMA StepRefines ==
  ASSUME BrokerInv, BrokerNext, Prudent
  PROVE  [Q!Next]_<<stored, queue \union received, delivered>>
<1>. DEFINE items == queue \union received
<1>. USE DEF Prudent, writerVars, readerVars, sessionVars, writeStore, readStore
<1>1. ASSUME NEW w \in Writes, Commit(w) PROVE Q!Next
  <2>1. w \notin stored /\ object[w] = "live" /\ future[w] \in Good /\ "writer" \in connected
    BY <1>1 DEF Commit, EndsWrite, BrokerInv, BrokerTypeOK, OneWrite, Done, Good
  <2>2. sent = Batch[w]
    BY <2>1 DEF BrokerInv, SentUntilEnded
  <2>3. stored' = stored \union {w} /\ items' = items \union sent /\ delivered' = delivered
    BY <1>1 DEF Commit, EndsWrite
  <2>4. Q!Store(w)
    BY <2>1, <2>2, <2>3 DEF Q!Store
  <2>. QED  BY <2>4 DEF Q!Next
<1>2. CASE CommitRead
  <2>1. stored' = stored /\ items' = items \ received /\ delivered' = delivered \union received
    BY <1>2 DEF CommitRead, EndsRead, BrokerInv, MessagesConserved
  <2>2. Q!Remove(received)
    BY <2>1 DEF Q!Remove
  <2>. QED  BY <2>2 DEF Q!Next
<1>3. ASSUME NEW w \in Writes, WriteMessages(w) \/ Rethrow(w) \/ Rollback(w) \/ DestroyWrite(w)
      PROVE  UNCHANGED <<stored, items, delivered>>
  BY <1>3 DEF WriteMessages, Rethrow, Rollback, EndsWrite, DestroyWrite
<1>4. CASE Worker \/ ReadMessages \/ ReadMessagesFails \/ Step \/ GetStepResult
  BY <1>4 DEF Worker, Begin, Insert, Send, StatementFails, SetValue, SetException, ReadMessages,
    ReadMessagesFails, Step, GetStepResult
<1>5. CASE StepDone \/ StepFails \/ RollbackRead \/ DestroyRead
  BY <1>5 DEF StepDone, StepFails, RollbackRead, EndsRead, DestroyRead, ReaderRollsBack
<1>6. ASSUME NEW session \in Sessions, ConnectionLost(session)
      PROVE  UNCHANGED <<stored, items, delivered>>
  BY <1>6 DEF ConnectionLost
<1>. QED  BY <1>1, <1>2, <1>3, <1>4, <1>5, <1>6 DEF BrokerNext, Library

(* The sessions and the database implement the queue that keeps its word.   *)
THEOREM BrokerRefinement ==
  ASSUME Prudent
  PROVE  BrokerSpec => ImplementsQueue
<1>1. BrokerInit => Q!Init
  BY DEF BrokerInit, Q!Init
<1>2. BrokerInv /\ [BrokerNext]_brokerVars => [Q!Next]_<<stored, queue \union received, delivered>>
  BY StepRefines DEF brokerVars, writerVars, readStore
<1>3. BrokerSpec => []BrokerInv
  BY BrokerInvariance
<1>. QED  BY <1>1, <1>2, <1>3, PTL DEF BrokerSpec, ImplementsQueue, Q!Spec
=============================================================================
