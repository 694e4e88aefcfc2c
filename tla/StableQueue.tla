----------------------------- MODULE StableQueue -----------------------------
(***************************************************************************)
(* What a broker queue promises to those who write and read it: the        *)
(* messages of a write enter together, and exactly when the writer is told *)
(* that its commit has been done; messages leave only for good.            *)
(***************************************************************************)
CONSTANTS Writes, Batch

VARIABLES
  stored,      (* the writes whose Commit has answered true                 *)
  items,       (* the messages that the queue has to deliver                *)
  delivered    (* the messages delivered for good                           *)

Init == stored = {} /\ items = {} /\ delivered = {}

Store(w) ==
  /\ w \notin stored
  /\ stored' = stored \union {w}
  /\ items' = items \union Batch[w]
  /\ UNCHANGED delivered

Remove(these) ==
  /\ these \subseteq items
  /\ items' = items \ these
  /\ delivered' = delivered \union these
  /\ UNCHANGED stored

Next == (\E w \in Writes : Store(w)) \/ (\E these \in SUBSET items : Remove(these))

Spec == Init /\ [][Next]_<<stored, items, delivered>>
=============================================================================
