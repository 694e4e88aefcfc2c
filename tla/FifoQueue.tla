------------------------------ MODULE FifoQueue ------------------------------
(***************************************************************************)
(* What a queue with many writers promises to those who call it: entries   *)
(* leave in the order in which they came in, each one once, and Remove     *)
(* comes back with nothing only when the call found, when it began, no     *)
(* oldest entry whose Add had already returned.                            *)
(*                                                                         *)
(* A call of Add is two steps, the one that gives the entry its place in   *)
(* the order and the one in which the call returns. A call of Remove is a  *)
(* beginning and one of two ends, Take and Miss.                           *)
(***************************************************************************)
EXTENDS Naturals, Sequences

CONSTANTS Consumers,  (* the threads that call Remove                      *)
          Entries     (* the entries (pointers) that can be added          *)

VARIABLES added,      (* the entries in the order in which they came in    *)
          removed,    (* the entries in the order in which they left       *)
          adding,     (* the entries whose call of Add has not returned    *)
          call        (* the state of the call of Remove of each consumer  *)

vars == <<added, removed, adding, call>>

Oldest == added[Len(removed) + 1]
Waiting == Len(removed) < Len(added)

Init ==
  /\ added = << >>
  /\ removed = << >>
  /\ adding = {}
  /\ call = [c \in Consumers |-> "idle"]

BeginAdd(e) ==
  /\ \A i \in 1..Len(added) : added[i] # e
  /\ added' = Append(added, e)
  /\ adding' = adding \cup {e}
  /\ UNCHANGED <<removed, call>>

EndAdd(e) ==
  /\ e \in adding
  /\ adding' = adding \ {e}
  /\ UNCHANGED <<added, removed, call>>

(* A call that finds its entry ready is owed it: it cannot end in Miss. *)
BeginRemove(c) ==
  /\ call[c] = "idle"
  /\ call' = [call EXCEPT ![c] =
                IF Waiting /\ Oldest \notin adding THEN "owed" ELSE "removing"]
  /\ UNCHANGED <<added, removed, adding>>

Take(c) ==
  /\ call[c] # "idle"
  /\ Waiting
  /\ removed' = Append(removed, Oldest)
  /\ call' = [call EXCEPT ![c] = "idle"]
  /\ UNCHANGED <<added, adding>>

Miss(c) ==
  /\ call[c] = "removing"
  /\ call' = [call EXCEPT ![c] = "idle"]
  /\ UNCHANGED <<added, removed, adding>>

Next ==
  \/ \E e \in Entries : BeginAdd(e) \/ EndAdd(e)
  \/ \E c \in Consumers : BeginRemove(c) \/ Take(c) \/ Miss(c)

Spec == Init /\ [][Next]_vars
=============================================================================
