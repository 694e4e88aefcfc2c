---------------------------- MODULE OrderedCommands ----------------------------
(***************************************************************************)
(* What the command tracker is employed for: a device that may run its     *)
(* commands out of order, yet never runs a command before an earlier one   *)
(* has ended whose use of the same memory clashes with its own.            *)
(***************************************************************************)
EXTENDS Integers

CONSTANTS
  Events,
  Accesses,    (* the ways of using memory                                  *)
  Clash(_, _)  (* the two accesses may not overlap                          *)

VARIABLES
  status,      (* of every command                                          *)
  access       (* the memory a command uses, and how                        *)

Ended(e) == status[e] \in {"complete", "aborted"}

Init == status = [e \in Events |-> "none"] /\ access = [e \in Events |-> {}]

(* A user event has no work of its own, and someone sets its status.         *)
Submit(e, s, uses) ==
  /\ \A d \in Events : d >= e => status[d] = "none"
  /\ status' = [status EXCEPT ![e] = s]
  /\ access' = [access EXCEPT ![e] = uses]

Run(e) ==
  /\ status[e] = "queued"
  /\ \A d \in Events : d < e /\ ~Ended(d) =>
       \A x \in access[d], y \in access[e] : ~Clash(x, y)
  /\ status' = [status EXCEPT ![e] = "running"]
  /\ UNCHANGED access

End(e, s) ==
  /\ \/ status[e] \in {"running", "user"}
     \/ status[e] = "queued" /\ s = "aborted"
  /\ status' = [status EXCEPT ![e] = s]
  /\ UNCHANGED access

Next ==
  \E e \in Events :
    \/ \E uses \in SUBSET Accesses : Submit(e, "queued", uses)
    \/ Submit(e, "user", {})
    \/ Run(e)
    \/ \E s \in {"complete", "aborted"} : End(e, s)

Spec == Init /\ [][Next]_<<status, access>>
================================================================================
