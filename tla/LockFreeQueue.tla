---------------------------- MODULE LockFreeQueue ----------------------------
(***************************************************************************)
(* utils::LockFreeQueue (utils_lockfreequeue.h): a linked list with an     *)
(* atomic head, to which any number of threads add, and an atomic tail,    *)
(* from which one thread removes. It carries the messages of the garbage   *)
(* collector and the idle connections of the SQLite connection pool.       *)
(*                                                                         *)
(* Every access to memory that another thread can see is a step of its own *)
(* (one load, store, exchange or delete). The memory orders of the code    *)
(* make such an interleaving a faithful picture: the store of `next' that  *)
(* publishes an element releases, and the load of `next' acquires.         *)
(*                                                                         *)
(* Elements are numbered in the order in which they become the head, from  *)
(* the empty element (0) the constructor makes; 0 in `next' is nullptr.    *)
(***************************************************************************)
EXTENDS Naturals, Sequences, FiniteSets

CONSTANTS
  Producers,   (* the threads that call Add                                *)
  Consumers,   (* the threads that call Remove; the class is made for one  *)
  Entries,     (* the pointers to add                                      *)
  MaxElems,    (* bound: how many elements Add may create                  *)
  NULL         (* the null pointer                                         *)

ASSUME EntriesAssumption == NULL \notin Entries
ASSUME BoundAssumption   == MaxElems \in Nat

VARIABLES
  head, tail,  (* m_head, m_tail                                           *)
  value, next, (* the members of every Element                             *)
  freed,       (* the elements that have been deleted                      *)
  ppc,         (* where each producer is in Add                            *)
  elem, prev,  (* newElem and headBefore of each producer                  *)
  cpc,         (* where each consumer is in Remove                         *)
  tl, nx, val, (* tail, next and value of each consumer                    *)
  phase,       (* whether the queue is open, being destroyed or gone       *)
  cursor,      (* tail in the destructor                                   *)
  dropped,     (* the entries the destructor deletes                       *)
  added,       (* history: entries in the order in which Add placed them   *)
  removed,     (* history: entries in the order in which Remove gave them  *)
  owed         (* history: whether Remove found an entry when it began     *)

list     == <<head, tail, value, next, freed>>
producer == <<ppc, elem, prev>>
consumer == <<cpc, tl, nx, val>>
closing  == <<phase, cursor, dropped>>
history  == <<added, removed, owed>>
vars     == <<list, producer, consumer, closing, history>>

Elems == 0..MaxElems

-----------------------------------------------------------------------------
Init ==
  /\ head = 0 /\ tail = 0
  /\ value = [e \in Elems |-> NULL]
  /\ next = [e \in Elems |-> 0]
  /\ freed = {}
  /\ ppc = [p \in Producers |-> "idle"]
  /\ elem = [p \in Producers |-> 0]
  /\ prev = [p \in Producers |-> 0]
  /\ cpc = [c \in Consumers |-> "idle"]
  /\ tl = [c \in Consumers |-> 0]
  /\ nx = [c \in Consumers |-> 0]
  /\ val = [c \in Consumers |-> NULL]
  /\ phase = "open" /\ cursor = 0 /\ dropped = {}
  /\ added = << >> /\ removed = << >>
  /\ owed = [c \in Consumers |-> FALSE]

(***************************************************************************)
(* Add. The new element is private until the exchange, so that creating it *)
(* and exchanging the head are one step. A pointer is added only once.     *)
(***************************************************************************)
AddExchange(p, v) ==
  /\ phase = "open" /\ ppc[p] = "idle"
  /\ head < MaxElems
  /\ \A i \in 1..Len(added) : added[i] # v
  /\ head' = head + 1
  /\ value' = [value EXCEPT ![head + 1] = v]
  /\ elem' = [elem EXCEPT ![p] = head + 1]
  /\ prev' = [prev EXCEPT ![p] = head]
  /\ ppc' = [ppc EXCEPT ![p] = "link"]
  /\ added' = Append(added, v)
  /\ UNCHANGED <<tail, next, freed, consumer, closing, removed, owed>>

(* mutant: the head is read again instead of the one that was exchanged *)
AddLinkAtHead(p) ==
  /\ ppc[p] = "link"
  /\ next' = [next EXCEPT ![head] = elem[p]]
  /\ ppc' = [ppc EXCEPT ![p] = "idle"]
  /\ elem' = [elem EXCEPT ![p] = 0]
  /\ prev' = [prev EXCEPT ![p] = 0]
  /\ UNCHANGED <<head, tail, value, freed, consumer, closing, history>>

AddLink(p) ==
  /\ ppc[p] = "link"
  /\ next' = [next EXCEPT ![prev[p]] = elem[p]]
  /\ ppc' = [ppc EXCEPT ![p] = "idle"]
  /\ elem' = [elem EXCEPT ![p] = 0]
  /\ prev' = [prev EXCEPT ![p] = 0]
  /\ UNCHANGED <<head, tail, value, freed, consumer, closing, history>>

-----------------------------------------------------------------------------
(* Remove *)

(* The call of Add that made element e has not returned. *)
Adding(e) == \E p \in Producers : ppc[p] = "link" /\ elem[p] = e

Ready == Len(removed) < head /\ ~ Adding(Len(removed) + 1)

RemoveBegin(c) ==
  /\ phase = "open" /\ cpc[c] = "idle"
  /\ cpc' = [cpc EXCEPT ![c] = "load"]
  /\ owed' = [owed EXCEPT ![c] = Ready]
  /\ UNCHANGED <<list, producer, tl, nx, val, closing, added, removed>>

LoadTail(c) ==
  /\ cpc[c] = "load"
  /\ tl' = [tl EXCEPT ![c] = tail]
  /\ cpc' = [cpc EXCEPT ![c] = "next"]
  /\ UNCHANGED <<list, producer, nx, val, closing, history>>

(* mutant: the last element is not told from the others *)
LoadNextUnchecked(c) ==
  /\ cpc[c] = "next"
  /\ nx' = [nx EXCEPT ![c] = next[tl[c]]]
  /\ cpc' = [cpc EXCEPT ![c] = "value"]
  /\ UNCHANGED <<list, producer, tl, val, closing, history>>

LoadNext(c) ==
  /\ cpc[c] = "next"
  /\ nx' = [nx EXCEPT ![c] = next[tl[c]]]
  /\ cpc' = [cpc EXCEPT ![c] = IF next[tl[c]] # 0 THEN "value" ELSE "swap"]
  /\ UNCHANGED <<list, producer, tl, val, closing, history>>

LoadValue(c) ==
  /\ cpc[c] = "value"
  /\ val' = [val EXCEPT ![c] = value[tl[c]]]
  /\ cpc' = [cpc EXCEPT ![c] = "delete"]
  /\ UNCHANGED <<list, producer, tl, nx, closing, history>>

DeleteTail(c) ==
  /\ cpc[c] = "delete"
  /\ freed' = freed \cup {tl[c]}
  /\ cpc' = [cpc EXCEPT ![c] = "move"]
  /\ UNCHANGED <<head, tail, value, next, producer, tl, nx, val, closing, history>>

(* The tail moves on; a value that had been consumed before is not       *)
(* returned, and the loop goes round again.                              *)
MoveTail(c) ==
  /\ cpc[c] = "move"
  /\ tail' = nx[c]
  /\ \/ /\ val[c] # NULL
        /\ removed' = Append(removed, val[c])
        /\ cpc' = [cpc EXCEPT ![c] = "idle"]
        /\ owed' = [owed EXCEPT ![c] = FALSE]
     \/ /\ val[c] = NULL
        /\ cpc' = [cpc EXCEPT ![c] = "load"]
        /\ UNCHANGED <<removed, owed>>
  /\ tl' = [tl EXCEPT ![c] = 0]
  /\ nx' = [nx EXCEPT ![c] = 0]
  /\ val' = [val EXCEPT ![c] = NULL]
  /\ UNCHANGED <<head, value, next, freed, producer, closing, added>>

(* mutant: the value is loaded instead of exchanged *)
SwapValueLeaving(c) ==
  /\ cpc[c] = "swap"
  /\ removed' = IF value[tl[c]] # NULL THEN Append(removed, value[tl[c]]) ELSE removed
  /\ cpc' = [cpc EXCEPT ![c] = "idle"]
  /\ owed' = [owed EXCEPT ![c] = FALSE]
  /\ tl' = [tl EXCEPT ![c] = 0]
  /\ UNCHANGED <<list, producer, nx, val, closing, added>>

(* The tail is also the head: the element stays and gives its value away. *)
SwapValue(c) ==
  /\ cpc[c] = "swap"
  /\ removed' = IF value[tl[c]] # NULL THEN Append(removed, value[tl[c]]) ELSE removed
  /\ value' = [value EXCEPT ![tl[c]] = NULL]
  /\ cpc' = [cpc EXCEPT ![c] = "idle"]
  /\ owed' = [owed EXCEPT ![c] = FALSE]
  /\ tl' = [tl EXCEPT ![c] = 0]
  /\ UNCHANGED <<head, tail, next, freed, producer, nx, val, closing, added>>

-----------------------------------------------------------------------------
(***************************************************************************)
(* The destructor, NOT THREADSAFE by its own doc: it begins when no call   *)
(* is in progress, and walks from the tail deleting values and elements.   *)
(***************************************************************************)
DestroyBegin ==
  /\ phase = "open"
  /\ \A p \in Producers : ppc[p] = "idle"
  /\ \A c \in Consumers : cpc[c] = "idle"
  /\ phase' = "destroying"
  /\ cursor' = tail
  /\ UNCHANGED <<list, producer, consumer, dropped, history>>

DestroyElement ==
  /\ phase = "destroying"
  /\ dropped' = IF value[cursor] # NULL THEN dropped \cup {value[cursor]} ELSE dropped
  /\ freed' = freed \cup {cursor}
  /\ cursor' = next[cursor]
  /\ phase' = IF next[cursor] # 0 THEN "destroying" ELSE "gone"
  /\ UNCHANGED <<head, tail, value, next, producer, consumer, history>>

-----------------------------------------------------------------------------
Add(p) == (\E v \in Entries : AddExchange(p, v)) \/ AddLink(p)

Remove(c) ==
  \/ RemoveBegin(c) \/ LoadTail(c) \/ LoadNext(c) \/ LoadValue(c)
  \/ DeleteTail(c) \/ MoveTail(c) \/ SwapValue(c)

Next ==
  \/ \E p \in Producers : Add(p)
  \/ \E c \in Consumers : Remove(c)
  \/ DestroyBegin
  \/ DestroyElement

Spec == Init /\ [][Next]_vars

(***************************************************************************)
(* A call that has begun goes on, the message loop keeps polling, and a    *)
(* destructor that has begun ends. Nobody has to add or to destroy.        *)
(***************************************************************************)
Fairness ==
  /\ \A p \in Producers : WF_vars(AddLink(p))
  /\ \A c \in Consumers : WF_vars(Remove(c))
  /\ WF_vars(DestroyElement)

FairSpec == Spec /\ Fairness

-----------------------------------------------------------------------------
(* Properties *)

SetOf(s) == {s[i] : i \in 1..Len(s)}

(* Types: the list is made of elements, the history of entries. *)
TypeOK ==
  /\ head \in Elems /\ tail \in Elems
  /\ value \in [Elems -> Entries \cup {NULL}]
  /\ next \in [Elems -> Elems]
  /\ freed \subseteq Elems
  /\ ppc \in [Producers -> {"idle", "link"}]
  /\ elem \in [Producers -> Elems]
  /\ prev \in [Producers -> Elems]
  /\ cpc \in [Consumers -> {"idle", "load", "next", "value", "delete", "move", "swap"}]
  /\ tl \in [Consumers -> Elems]
  /\ nx \in [Consumers -> Elems]
  /\ val \in [Consumers -> Entries \cup {NULL}]
  /\ phase \in {"open", "destroying", "gone"}
  /\ cursor \in Elems
  /\ dropped \subseteq Entries
  /\ added \in Seq(Entries)
  /\ removed \in Seq(Entries)
  /\ owed \in [Consumers -> BOOLEAN]

(***************************************************************************)
(* No thread reads, writes or deletes an element that has been deleted:    *)
(* not the consumer through the tail it loaded, not a producer through the *)
(* head it took the place of, not the destructor through its walk.         *)
(***************************************************************************)
NoUseAfterDelete ==
  /\ \A c \in Consumers :
       cpc[c] \in {"next", "value", "delete", "swap"} => tl[c] \notin freed
  /\ \A p \in Producers : ppc[p] = "link" => prev[p] \notin freed
  /\ phase = "destroying" => cursor \notin freed

(***************************************************************************)
(* Entries come out in the order in which Add placed them: none is skipped *)
(* or handed out twice, whichever way it left (by moving the tail or by    *)
(* emptying the last element).                                             *)
(***************************************************************************)
Fifo ==
  /\ Len(removed) <= Len(added)
  /\ \A i \in 1..Len(removed) : removed[i] = added[i]

(***************************************************************************)
(* When the destructor is done every entry has gone exactly one way, to a  *)
(* consumer or to the destructor, and every element has been deleted.      *)
(***************************************************************************)
NothingLeaks ==
  phase = "gone" =>
    /\ freed = 0..head
    /\ SetOf(added) = SetOf(removed) \cup dropped
    /\ SetOf(removed) \cap dropped = {}

(***************************************************************************)
(* Every entry added is in the end given to the consumer, or deleted by    *)
(* the destructor: the gap an unfinished Add leaves in the list closes.    *)
(***************************************************************************)
EveryEntryLeaves ==
  \A v \in Entries : v \in SetOf(added) ~> v \in SetOf(removed) \cup dropped

(***************************************************************************)
(* The list does what FifoQueue promises. An Add is placed by the exchange *)
(* and returns after the link; a Remove ends where it gives its result.    *)
(***************************************************************************)
InProgress == {added[elem[p]] : p \in {q \in Producers : ppc[q] = "link"}}

CallOf(c) == IF cpc[c] = "idle" THEN "idle" ELSE IF owed[c] THEN "owed" ELSE "removing"

Abstract == INSTANCE FifoQueue WITH
  adding <- InProgress,
  call   <- [c \in Consumers |-> CallOf(c)]

ImplementsFifo == Abstract!Spec

-----------------------------------------------------------------------------
(***************************************************************************)
(* The inductive invariant. It holds because one thread consumes: with two *)
(* the tail one of them loaded can be deleted by the other.                *)
(***************************************************************************)
SingleConsumer == \A c, d \in Consumers : c = d

(* Every element but the last is linked to the one after it, except where *)
(* the Add of that one has not returned: the list has a gap there.        *)
LinkInv ==
  /\ Len(added) = head
  /\ \A i, j \in 1..head : added[i] = added[j] => i = j
  /\ \A p \in Producers :
       ppc[p] = "link" => elem[p] \in 1..head /\ prev[p] = elem[p] - 1
  /\ \A p, q \in Producers :
       ppc[p] = "link" /\ ppc[q] = "link" /\ elem[p] = elem[q] => p = q
  /\ \A e \in Elems :
       next[e] = IF e < head /\ ~ Adding(e + 1) THEN e + 1 ELSE 0

(* The elements after the tail hold their entries; the entry of the tail is *)
(* the only one whose element may have given it away already.              *)
ValueInv ==
  /\ tail <= head
  /\ value[0] = NULL
  /\ \A e \in 1..head : e > tail => value[e] = added[e]
  /\ value[tail] # NULL => tail > 0 /\ value[tail] = added[tail]
  /\ Len(removed) = IF value[tail] = NULL THEN tail ELSE tail - 1
  /\ \A i \in 1..Len(removed) : removed[i] = added[i]

ConsumerInv ==
  \A c \in Consumers :
    /\ cpc[c] \in {"next", "value", "delete", "move", "swap"} => tl[c] = tail
    /\ cpc[c] \in {"value", "delete", "move"} =>
         nx[c] = tail + 1 /\ next[tail] = tail + 1
    /\ cpc[c] \in {"delete", "move"} => val[c] = value[tail]
    /\ owed[c] => cpc[c] # "idle" /\ Ready
    /\ owed[c] /\ cpc[c] = "swap" => value[tail] # NULL

(* What has been deleted is what lies before the tail, or the cursor. *)
DeleteInv ==
  /\ phase = "open" =>
       freed = IF \E c \in Consumers : cpc[c] = "move" THEN 0..tail ELSE 0..(tail - 1)
  /\ phase # "open" => /\ \A p \in Producers : ppc[p] = "idle"
                       /\ \A c \in Consumers : cpc[c] = "idle"
  /\ phase = "open" => dropped = {}
  /\ phase = "destroying" =>
       /\ cursor \in tail..head
       /\ freed = 0..(cursor - 1)
       /\ dropped = {added[i] : i \in (Len(removed) + 1)..(cursor - 1)}
  /\ phase = "gone" =>
       /\ freed = 0..head
       /\ dropped = {added[i] : i \in (Len(removed) + 1)..head}

(* The tail stops at the gap: an element not yet linked lies beyond it. *)
AheadInv == \A p \in Producers : ppc[p] = "link" => elem[p] > tail

IInv == TypeOK /\ LinkInv /\ ValueInv /\ ConsumerInv /\ AheadInv /\ DeleteInv
=============================================================================
