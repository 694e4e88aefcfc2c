----------------------------- MODULE IsamInstance -----------------------------
(***************************************************************************)
(* isam::Instance: the databases that are attached and the sessions that   *)
(* are available, shared by threads that open and close connections under  *)
(* a mutex, each using its session and its transaction alone in between.   *)
(***************************************************************************)
EXTENDS Integers, Sequences, FiniteSets

CONSTANTS
  Clients,     (* threads, each with at most one DatabaseConn               *)
  Codes,       (* the codes of databases, each with a file of its own       *)
  MaxSessions, (* m_numMaxSessions: what the engine grants                  *)
  Faults,      (* the calls of the engine that may fail                     *)
  Usage,       (* "race": calls go on in other threads while one fails      *)
  NoOne, NoCode

ASSUME InstanceAssumption ==
  /\ MaxSessions \in Nat /\ IsFiniteSet(Clients)
  /\ NoOne \notin Clients /\ NoCode \notin Codes

VARIABLES
  alive,       (* the Instance exists                                       *)
  accessToResources, (* who owns m_accessToResources                        *)
  handlesCount,      (* of an entry of m_attachedDbs, or Absent             *)
  availableSessions, (* m_availableSessions                                 *)
  (* Each client.                                                           *)
  pc,          (* where it stands                                           *)
  code, createIfNotFound, session,   (* the arguments, the session it has   *)
  seen,        (* the list as the handler of an exception finds it          *)
  transaction, (* its Transaction: none, one not committed, one committed   *)
  (* The engine.                                                            *)
  files,       (* the databases that exist as files                         *)
  attached,    (* the databases attached to the instance                    *)
  created,     (* how many sessions have been begun                         *)
  ended,       (* the sessions that have been ended                         *)
  opened,      (* the database a session has open                           *)
  level        (* the depth of transactions of a session                    *)

instance == <<alive, accessToResources, handlesCount, availableSessions>>
client == <<pc, code, createIfNotFound, session, seen, transaction>>
engine == <<files, attached, created, ended, opened, level>>
vars == <<instance, client, engine>>

Absent == -1
NoSession == 0
Sessions == 1..MaxSessions
Open == {"taking", "attaching", "creating", "opening"}     \* inside OpenDatabaseImpl
Close == {"detaching", "returning"}                        \* inside ReleaseResource
Counted == {"open", "closing"}                             \* what handlesCount counts
Stages == {"idle", "handler", "pushing"} \union Open \union Close \union Counted

MayFail(fault) == fault \in Faults

Init ==
  /\ alive = TRUE /\ accessToResources = NoOne
  /\ handlesCount = [d \in Codes |-> Absent] /\ availableSessions = <<>>
  /\ pc = [c \in Clients |-> "idle"] /\ code = [c \in Clients |-> NoCode]
  /\ createIfNotFound = [c \in Clients |-> FALSE]
  /\ session = [c \in Clients |-> NoSession] /\ seen = [c \in Clients |-> <<>>]
  /\ transaction = [c \in Clients |-> "none"]
  /\ files \in SUBSET Codes /\ attached = {} /\ created = 0 /\ ended = {}
  /\ opened = [s \in Sessions |-> NoCode] /\ level = [s \in Sessions |-> 0]

Goto(c, where) == pc' = [pc EXCEPT ![c] = where]

(* The handlers of exceptions change the list without the mutex.             *)
ListIsQuiet(c) == "race" \in Usage \/ \A other \in Clients \ {c} : pc[other] # "pushing"

-----------------------------------------------------------------------------
(* OpenDatabaseImpl, with m_accessToResources held.                          *)

OpenDatabase(c) ==
  /\ pc[c] = "idle" /\ alive /\ accessToResources = NoOne
  /\ \E d \in Codes, create \in BOOLEAN :
       /\ code' = [code EXCEPT ![c] = d]
       /\ createIfNotFound' = [createIfNotFound EXCEPT ![c] = create]
  /\ accessToResources' = c /\ Goto(c, "taking")
  /\ UNCHANGED <<alive, handlesCount, availableSessions, session, seen, transaction, engine>>

TakeSession(c) ==
  /\ pc[c] = "taking" /\ availableSessions # <<>> /\ ListIsQuiet(c)
  /\ session' = [session EXCEPT ![c] = Head(availableSessions)]
  /\ availableSessions' = Tail(availableSessions)
  /\ Goto(c, IF handlesCount[code[c]] = Absent THEN "attaching" ELSE "opening")
  /\ UNCHANGED <<alive, accessToResources, handlesCount, code, createIfNotFound, seen, transaction, engine>>

CreateSession(c) ==
  /\ pc[c] = "taking" /\ availableSessions = <<>> /\ ListIsQuiet(c) /\ created < MaxSessions
  /\ created' = created + 1
  /\ session' = [session EXCEPT ![c] = created + 1]
  /\ Goto(c, IF handlesCount[code[c]] = Absent THEN "attaching" ELSE "opening")
  /\ UNCHANGED <<instance, code, createIfNotFound, seen, transaction, files, attached, ended, opened, level>>

(* There is no session yet for the handler to give back.                     *)
CreateSessionFails(c) ==
  /\ pc[c] = "taking" /\ availableSessions = <<>> /\ ListIsQuiet(c)
  /\ created = MaxSessions \/ MayFail("session")
  /\ accessToResources' = NoOne /\ Goto(c, "idle") /\ code' = [code EXCEPT ![c] = NoCode]
  /\ UNCHANGED <<alive, handlesCount, availableSessions, createIfNotFound, session, seen, transaction, engine>>

(* AttachDatabase, and the new entry, whose count is zero.                   *)
Attach(c) ==
  /\ pc[c] = "attaching" /\ code[c] \in files
  /\ attached' = attached \union {code[c]}
  /\ handlesCount' = [handlesCount EXCEPT ![code[c]] = 0]
  /\ Goto(c, "opening")
  /\ UNCHANGED <<alive, accessToResources, availableSessions, code, createIfNotFound, session, seen, transaction,
                 files, created, ended, opened, level>>

AttachFindsNoFile(c) ==
  /\ pc[c] = "attaching" /\ code[c] \notin files /\ createIfNotFound[c]
  /\ Goto(c, "creating")
  /\ UNCHANGED <<instance, code, createIfNotFound, session, seen, transaction, engine>>

(* CreateDatabase also attaches the database and opens it.                   *)
CreateDatabase(c) ==
  /\ pc[c] = "creating"
  /\ files' = files \union {code[c]} /\ attached' = attached \union {code[c]}
  /\ opened' = [opened EXCEPT ![session[c]] = code[c]]
  /\ handlesCount' = [handlesCount EXCEPT ![code[c]] = 1]
  /\ accessToResources' = NoOne /\ Goto(c, "open")
  /\ UNCHANGED <<alive, availableSessions, code, createIfNotFound, session, seen, transaction, created, ended, level>>

(* mutant: who finds the entry there does not count.              *)
OpenAttachedUncounted(c) ==
  /\ pc[c] = "opening"
  /\ opened' = [opened EXCEPT ![session[c]] = code[c]]
  /\ handlesCount' = [handlesCount EXCEPT ![code[c]] = 1]
  /\ accessToResources' = NoOne /\ Goto(c, "open")
  /\ UNCHANGED <<alive, availableSessions, code, createIfNotFound, session, seen, transaction,
                 files, attached, created, ended, level>>

OpenAttached(c) ==
  /\ pc[c] = "opening"
  /\ opened' = [opened EXCEPT ![session[c]] = code[c]]
  /\ handlesCount' = [handlesCount EXCEPT ![code[c]] = @ + 1]
  /\ accessToResources' = NoOne /\ Goto(c, "open")
  /\ UNCHANGED <<alive, availableSessions, code, createIfNotFound, session, seen, transaction,
                 files, attached, created, ended, level>>

(* An exception: the guard of the mutex goes before the handler runs. An     *)
(* entry that has been made stays.                                           *)
OpenFails(c) ==
  /\ \/ pc[c] = "attaching" /\ (MayFail("attach") \/ (code[c] \notin files /\ ~createIfNotFound[c]))
     \/ pc[c] = "creating" /\ MayFail("create")
     \/ pc[c] = "opening" /\ MayFail("open")
  /\ accessToResources' = NoOne /\ Goto(c, "handler")
  /\ UNCHANGED <<alive, handlesCount, availableSessions, code, createIfNotFound, session, seen, transaction, engine>>

(* The handler pushes the session: it reads the list, and writes it.         *)
HandlerReads(c) ==
  /\ pc[c] = "handler" /\ ListIsQuiet(c)
  /\ seen' = [seen EXCEPT ![c] = availableSessions] /\ Goto(c, "pushing")
  /\ UNCHANGED <<instance, code, createIfNotFound, session, transaction, engine>>

HandlerWrites(c) ==
  /\ pc[c] = "pushing"
  /\ availableSessions' = Append(seen[c], session[c])
  /\ session' = [session EXCEPT ![c] = NoSession] /\ seen' = [seen EXCEPT ![c] = <<>>]
  /\ Goto(c, "idle") /\ code' = [code EXCEPT ![c] = NoCode]
  /\ UNCHANGED <<alive, accessToResources, handlesCount, createIfNotFound, transaction, engine>>

-----------------------------------------------------------------------------
(* The connection, which its thread uses without the mutex.                  *)

BeginTransaction(c) ==
  /\ pc[c] = "open" /\ transaction[c] = "none"
  /\ transaction' = [transaction EXCEPT ![c] = "begun"]
  /\ level' = [level EXCEPT ![session[c]] = @ + 1]
  /\ UNCHANGED <<instance, pc, code, createIfNotFound, session, seen, files, attached, created, ended, opened>>

(* A commit that fails throws and leaves m_committed as it is.               *)
Commit(c) ==
  /\ transaction[c] = "begun"
  /\ transaction' = [transaction EXCEPT ![c] = "committed"]
  /\ level' = [level EXCEPT ![session[c]] = @ - 1]
  /\ UNCHANGED <<instance, pc, code, createIfNotFound, session, seen, files, attached, created, ended, opened>>

(* mutant: the transaction is not rolled back.                    *)
EndTransactionOnly(c) ==
  /\ transaction[c] # "none"
  /\ transaction' = [transaction EXCEPT ![c] = "none"]
  /\ UNCHANGED <<instance, pc, code, createIfNotFound, session, seen, engine>>

(* ~TransactionImpl rolls back what is not committed.                        *)
EndTransaction(c) ==
  /\ transaction[c] # "none"
  /\ transaction' = [transaction EXCEPT ![c] = "none"]
  /\ level' = IF transaction[c] = "begun" THEN [level EXCEPT ![session[c]] = @ - 1] ELSE level
  /\ UNCHANGED <<instance, pc, code, createIfNotFound, session, seen, files, attached, created, ended, opened>>

-----------------------------------------------------------------------------
(* ~DatabaseConn, that is ReleaseResource: the database is closed first, and *)
(* only then the mutex is locked. Transactions end before their connection.  *)

CloseDatabase(c) ==
  /\ pc[c] = "open" /\ transaction[c] = "none"
  /\ opened' = [opened EXCEPT ![session[c]] = NoCode] /\ Goto(c, "closing")
  /\ UNCHANGED <<instance, code, createIfNotFound, session, seen, transaction, files, attached, created, ended, level>>

ReleaseResource(c) ==
  /\ pc[c] = "closing" /\ accessToResources = NoOne
  /\ accessToResources' = c
  /\ handlesCount' = [handlesCount EXCEPT ![code[c]] = @ - 1]
  /\ Goto(c, IF handlesCount[code[c]] = 1 THEN "detaching" ELSE "returning")
  /\ UNCHANGED <<alive, availableSessions, code, createIfNotFound, session, seen, transaction, engine>>

DetachDatabase(c) ==
  /\ pc[c] = "detaching"
  /\ attached' = attached \ {code[c]}
  /\ handlesCount' = [handlesCount EXCEPT ![code[c]] = Absent]
  /\ Goto(c, "returning")
  /\ UNCHANGED <<alive, accessToResources, availableSessions, code, createIfNotFound, session, seen, transaction,
                 files, created, ended, opened, level>>

ReturnSession(c) ==
  /\ pc[c] = "returning" /\ ListIsQuiet(c)
  /\ availableSessions' = Append(availableSessions, session[c])
  /\ session' = [session EXCEPT ![c] = NoSession]
  /\ accessToResources' = NoOne /\ Goto(c, "idle") /\ code' = [code EXCEPT ![c] = NoCode]
  /\ UNCHANGED <<alive, handlesCount, createIfNotFound, seen, transaction, engine>>

-----------------------------------------------------------------------------
(* ~Instance, when no connection is left.                                    *)
Shutdown ==
  /\ alive /\ \A c \in Clients : pc[c] = "idle"
  /\ alive' = FALSE
  /\ ended' = {availableSessions[i] : i \in 1..Len(availableSessions)}
  /\ availableSessions' = <<>>
  /\ UNCHANGED <<accessToResources, handlesCount, client, files, attached, created, opened, level>>

Gone == ~alive /\ UNCHANGED vars

Step(c) ==
  \/ OpenDatabase(c) \/ TakeSession(c) \/ CreateSession(c) \/ CreateSessionFails(c)
  \/ Attach(c) \/ AttachFindsNoFile(c) \/ CreateDatabase(c) \/ OpenAttached(c)
  \/ OpenFails(c) \/ HandlerReads(c) \/ HandlerWrites(c)
  \/ BeginTransaction(c) \/ Commit(c) \/ EndTransaction(c)
  \/ CloseDatabase(c) \/ ReleaseResource(c) \/ DetachDatabase(c) \/ ReturnSession(c)

Next == (\E c \in Clients : Step(c)) \/ Shutdown \/ Gone

Spec == Init /\ [][Next]_vars

-----------------------------------------------------------------------------
TypeOK ==
  /\ alive \in BOOLEAN /\ accessToResources \in Clients \union {NoOne}
  /\ handlesCount \in [Codes -> Nat \union {Absent}] /\ availableSessions \in Seq(Sessions)
  /\ pc \in [Clients -> Stages] /\ code \in [Clients -> Codes \union {NoCode}]
  /\ createIfNotFound \in [Clients -> BOOLEAN]
  /\ session \in [Clients -> Sessions \union {NoSession}] /\ seen \in [Clients -> Seq(Sessions)]
  /\ transaction \in [Clients -> {"none", "begun", "committed"}]
  /\ files \subseteq Codes /\ attached \subseteq Codes /\ created \in 0..MaxSessions
  /\ ended \subseteq Sessions
  /\ opened \in [Sessions -> Codes \union {NoCode}] /\ level \in [Sessions -> Nat]

(* Who is inside owns the mutex; the arguments and the session go with it.   *)
Control ==
  /\ \A c \in Clients :
       /\ pc[c] \in Open \union Close <=> accessToResources = c
       /\ code[c] = NoCode <=> pc[c] = "idle"
       /\ session[c] = NoSession <=> pc[c] \in {"idle", "taking"}
       /\ pc[c] # "open" => transaction[c] = "none"
       /\ pc[c] \in {"attaching", "creating"} => handlesCount[code[c]] = Absent
       /\ pc[c] \in {"opening", "returning"} \union Counted =>
            (handlesCount[code[c]] = Absent => pc[c] = "returning")
       /\ pc[c] = "detaching" => handlesCount[code[c]] = 0
  /\ ~alive => \A c \in Clients : pc[c] = "idle"

(* Every session that was created is in one place: available, or in the      *)
(* hands of one client, whichever way its calls of the instance ended.       *)
Listed == {availableSessions[i] : i \in 1..Len(availableSessions)}
SessionsConserved ==
  /\ \A i, j \in 1..Len(availableSessions) : availableSessions[i] = availableSessions[j] => i = j
  /\ \A b, c \in Clients : session[b] = session[c] /\ session[b] # NoSession => b = c
  /\ \A c \in Clients : session[c] \notin Listed
  /\ alive => \A s \in Sessions : s <= created <=> s \in Listed \/ \E c \in Clients : session[c] = s
  /\ ~alive => Listed = {} /\ ended = 1..created
  /\ \A b, c \in Clients : pc[c] = "pushing" => seen[c] = availableSessions /\ (pc[b] = "pushing" => b = c)

(* An entry counts the connections to its database, and it is there exactly  *)
(* while the database is attached.                                           *)
Users(d) == {c \in Clients : pc[c] \in Counted /\ code[c] = d}
CountsAgree ==
  /\ \A d \in Codes : IF handlesCount[d] = Absent THEN Users(d) = {} ELSE handlesCount[d] = Cardinality(Users(d))
  /\ attached = {d \in Codes : handlesCount[d] # Absent}

(* What the engine has for a session is what its client has: a session that  *)
(* waits for the next one has no database open and no transaction begun.     *)
EngineAgrees ==
  \A s \in Sessions :
    /\ \A c \in Clients : session[c] = s =>
         /\ opened[s] = IF pc[c] = "open" THEN code[c] ELSE NoCode
         /\ level[s] = IF transaction[c] = "begun" THEN 1 ELSE 0
    /\ (\A c \in Clients : session[c] # s) => opened[s] = NoCode /\ level[s] = 0

IInv == TypeOK /\ Control /\ SessionsConserved /\ CountsAgree /\ EngineAgrees

(* A session is created only when all the others are in use, so that there   *)
(* are never more than there are threads, however many calls have failed.    *)
SessionsBounded == created <= Cardinality(Clients)

(* The destructor ends every session that was ever begun.                    *)
NothingLeft == ~alive => ended = 1..created

(* Sessions and databases are lent as the abstract specification says.       *)
Leases == INSTANCE DatabaseLeases WITH
  lease <- session,
  conn <- [c \in Clients |-> IF pc[c] = "open" THEN code[c] ELSE NoCode],
  mounted <- attached

ImplementsLeases == Leases!Spec

(* Each thread has a session of its own, also when calls go on while the     *)
(* handler of another one pushes its session.                                *)
OneUser == \A b, c \in Clients : session[b] = session[c] /\ session[b] # NoSession => b = c
===============================================================================
