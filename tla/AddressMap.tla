------------------------------ MODULE AddressMap ------------------------------
(***************************************************************************)
(* What the table of smart pointers promises to the graph: one entry for   *)
(* each address that has been inserted and not removed, whose value is the *)
(* one set last.                                                           *)
(***************************************************************************)
CONSTANTS Keys, Values

VARIABLE entries    (* a set of pairs of a key and a value *)

Entry == [key : Keys, val : Values]

Init == entries = {}

Insert(k, v) ==
  /\ \A e \in entries : e.key # k
  /\ entries' = entries \cup {[key |-> k, val |-> v]}

Update(k, v) ==
  /\ \E e \in entries : e.key = k
  /\ entries' = {e \in entries : e.key # k} \cup {[key |-> k, val |-> v]}

Remove(k) ==
  /\ \E e \in entries : e.key = k
  /\ entries' = {e \in entries : e.key # k}

Next ==
  \E k \in Keys :
    \/ \E v \in Values : Insert(k, v) \/ Update(k, v)
    \/ Remove(k)

Spec == Init /\ [][Next]_entries
===============================================================================
