---------------------------- MODULE DatabaseLeases ----------------------------
(***************************************************************************)
(* What an instance of the ISAM storage promises to its clients: a session  *)
(* is lent to one client at a time, a client connects to a database only    *)
(* with a session and only to a database that is mounted, and a database    *)
(* is not dismounted while somebody is connected to it.                     *)
(***************************************************************************)
CONSTANTS Clients, Sessions, Codes, NoSession, NoCode

VARIABLES
  lease,       (* the session that a client has                             *)
  conn,        (* the database that a client is connected to                *)
  mounted      (* the databases that are mounted                            *)

Init ==
  /\ lease = [c \in Clients |-> NoSession]
  /\ conn = [c \in Clients |-> NoCode]
  /\ mounted = {}

Take(c, s) ==
  /\ lease[c] = NoSession /\ \A other \in Clients : lease[other] # s
  /\ lease' = [lease EXCEPT ![c] = s]
  /\ UNCHANGED <<conn, mounted>>

Give(c) ==
  /\ lease[c] # NoSession /\ conn[c] = NoCode
  /\ lease' = [lease EXCEPT ![c] = NoSession]
  /\ UNCHANGED <<conn, mounted>>

Mount(d) == mounted' = mounted \union {d} /\ UNCHANGED <<lease, conn>>

Dismount(d) ==
  /\ \A c \in Clients : conn[c] # d
  /\ mounted' = mounted \ {d}
  /\ UNCHANGED <<lease, conn>>

Connect(c, d) ==
  /\ lease[c] # NoSession /\ conn[c] = NoCode /\ d \in mounted
  /\ conn' = [conn EXCEPT ![c] = d]
  /\ UNCHANGED <<lease, mounted>>

(* A database that is created is mounted, and its creator connected to it.   *)
Create(c, d) ==
  /\ lease[c] # NoSession /\ conn[c] = NoCode /\ d \notin mounted
  /\ conn' = [conn EXCEPT ![c] = d]
  /\ mounted' = mounted \union {d}
  /\ UNCHANGED lease

Disconnect(c) ==
  /\ conn[c] # NoCode
  /\ conn' = [conn EXCEPT ![c] = NoCode]
  /\ UNCHANGED <<lease, mounted>>

Next ==
  \/ \E c \in Clients :
       \/ \E s \in Sessions : Take(c, s)
       \/ Give(c) \/ Disconnect(c)
       \/ \E d \in Codes : Connect(c, d) \/ Create(c, d)
  \/ \E d \in Codes : Mount(d) \/ Dismount(d)

Spec == Init /\ [][Next]_<<lease, conn, mounted>>
===============================================================================
