---------------------------- MODULE CommandTracker ----------------------------
(***************************************************************************)
(* opencl::CommandTracker: which commands of a device use which buffers    *)
(* and host addresses. Its three multimaps share the entries, and a mutex  *)
(* makes each of the three operations one step.                            *)
(***************************************************************************)
EXTENDS Integers

CONSTANTS
  Buffers,     (* the buffer objects of the device                          *)
  Hosts,       (* the addresses in the memory of the host                   *)
  MaxEvents    (* bound: the events that are ever created                   *)

ASSUME TrackerAssumption == MaxEvents \in Nat

VARIABLES
  byEvent,     (* m_cmdsByEvent                                             *)
  byRd,        (* m_cmdsByRdResource                                        *)
  byWr         (* m_cmdsByWrResource                                        *)

tracker == <<byEvent, byRd, byWr>>

Events == 1..MaxEvents          \* in the order of their creation
Resources == Buffers \union Hosts
MemResourceUse == {"Input", "Output", "InputAndOutput"}
Reads == {"Input", "InputAndOutput"}
Writes == {"Output", "InputAndOutput"}
Command == [event : Events, res : Resources, use : MemResourceUse]

TrackerInit == byEvent = {} /\ byRd = {} /\ byWr = {}

(* mutant: the two maps swapped.                                  *)
GetDistinctSwapped(r, use) ==
  {c.event : c \in {x \in (IF use \in Reads THEN byWr ELSE byRd) : x.res = r /\ x.use = use}}

(* The events that GetDistinct adds to the vector of its caller: of the      *)
(* commands that use the resource in exactly this way.                       *)
GetDistinct(r, use) ==
  {c.event : c \in {x \in (IF use \in Reads THEN byRd ELSE byWr) : x.res = r /\ x.use = use}}

Remember(r, use, e) ==
  LET c == [event |-> e, res |-> r, use |-> use]
  IN /\ byEvent' = byEvent \union {c}
     /\ byRd' = IF use \in Reads THEN byRd \union {c} ELSE byRd
     /\ byWr' = IF use \in Writes THEN byWr \union {c} ELSE byWr

(* mutant: the entries of writers stay in their map.              *)
ForgetReaders(e) ==
  /\ byEvent' = {c \in byEvent : c.event # e} /\ byRd' = {c \in byRd : c.event # e}
  /\ UNCHANGED byWr

(* The entries to drop from the other two maps are looked for under the      *)
(* resources that m_cmdsByEvent gives for the event.                         *)
Forget(e) ==
  LET mine == {c \in byEvent : c.event = e}
      Under(uses, m) == {c \in m : c.event = e /\ \E d \in mine : d.res = c.res /\ d.use \in uses}
  IN /\ byEvent' = byEvent \ mine
     /\ byRd' = byRd \ Under(Reads, byRd)
     /\ byWr' = byWr \ Under(Writes, byWr)

(* The three maps hold the same entries, each under every use it has:        *)
(* Remember and Forget keep them in step.                                    *)
MapsAgree ==
  /\ byRd = {c \in byEvent : c.use \in Reads}
  /\ byWr = {c \in byEvent : c.use \in Writes}
===============================================================================
