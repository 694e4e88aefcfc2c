------------------------------- MODULE RpcServer -------------------------------
(***************************************************************************)
(* rpc::RpcServer: the threads of the application, which take turns at the *)
(* mutex of the singleton, the run-time library of RPC with the            *)
(* registrations and the listener of the process, and the calls of         *)
(* clients, which need no mutex.                                           *)
(***************************************************************************)
EXTENDS Integers

CONSTANTS
  Threads,          (* threads of the application                           *)
  Objects,          (* the objects that Start is given                      *)
  Interfaces,
  InterfaceOf(_),   (* the interface that an object implements              *)
  Calls,            (* bound: the calls of clients at one time              *)
  FinalizeAnytime,  (* whether a server that authorises its clients may be  *)
                    (* finalised while it has any                           *)
  None

ASSUME RpcAssumption ==
  /\ None \notin Threads
  /\ Objects # {} /\ Interfaces = {InterfaceOf(o) : o \in Objects}

VARIABLES
  installed,   (* uniqueObject is not null                                  *)
  state,       (* m_state of the server                                     *)
  secure,      (* m_hasAuthnSec                                             *)
  endpoints,   (* the keys of m_regObjsByIntfHnd                            *)
  mutex,       (* who has singletonAccessMutex                              *)
  op,          (* the function that every thread has called                 *)
  step,        (* where the owner of the mutex stands                       *)
  todo,        (* what the loop of Start has left to register               *)
  bindings,    (* how many vectors of bindings are allocated                *)
  registered,  (* the objects that the run-time library knows               *)
  mapped,      (* the interfaces in the local endpoint map                  *)
  listening,   (* the process accepts calls                                 *)
  calls        (* what the library is doing with each call                  *)

runtime == <<bindings, registered, mapped, listening, calls>>
server == <<installed, state, secure, endpoints>>
vars == <<server, mutex, op, step, todo, runtime>>

States == {"NotInitialized", "BindingsAcquired", "IntfRegRuntimeLib", "IntfRegLocalEndptMap", "Listening"}
Operations == {"Initialize", "Start", "Stop", "Resume", "Wait", "Finalize"}
Steps == {"idle", "register", "map", "listen", "rollback", "stop", "wait",
          "close", "drain", "unmap", "unregister", "free"}

Init ==
  /\ installed = FALSE /\ state = "NotInitialized" /\ secure = FALSE /\ endpoints = {}
  /\ mutex = None /\ op = [t \in Threads |-> "idle"] /\ step = "idle" /\ todo = {}
  /\ bindings = 0 /\ registered = {} /\ mapped = {} /\ listening = FALSE
  /\ calls = [c \in Calls |-> "none"]

Idle == \A c \in Calls : calls[c] = "none"

-----------------------------------------------------------------------------
(* The application. It initialises first, finalises last, and does not call  *)
(* what the assertions on uniqueObject forbid.                               *)

(* Nobody waits for the mutex with a call that needs the server to be there. *)
Alone(t) == \A u \in Threads \ {t} : op[u] = "idle" \/ mutex = u

Finalizing == \E t \in Threads : op[t] = "Finalize"

MayCall(t, o) ==
  CASE o = "Initialize" -> ~ installed /\ \A u \in Threads : op[u] = "idle"
    [] o = "Finalize" -> /\ Alone(t) /\ ~ Finalizing
                         /\ \A u \in Threads : op[u] # "Initialize"
                         /\ FinalizeAnytime \/ ~ secure \/ (mutex = None /\ ~ listening /\ Idle)
    [] OTHER -> installed /\ ~ Finalizing

Call(t, o) ==
  /\ op[t] = "idle" /\ MayCall(t, o)
  /\ op' = [op EXCEPT ![t] = o]
  /\ UNCHANGED <<server, mutex, step, todo, runtime>>

(* Taking the mutex, and leaving the function, which gives it back. *)
Enter(t, o) == mutex = None /\ op[t] = o

Proceed(t, s) == mutex' = t /\ step' = s /\ UNCHANGED op

Leave(t) ==
  /\ mutex' = None /\ step' = "idle" /\ todo' = {}
  /\ op' = [op EXCEPT ![t] = "idle"]

At(t, s) == mutex = t /\ step = s

Goto(s) == step' = s /\ UNCHANGED <<mutex, op>>

-----------------------------------------------------------------------------
(* Initialize: the protocol sequence, the bindings, and authentication.    *)
(* What a constructor has done is undone when a delegating one fails, but  *)
(* the protocol sequence, which stays.                                     *)
InitializeServer(t) ==
  /\ Enter(t, "Initialize")
  /\ \/ /\ installed' = TRUE /\ state' = "BindingsAcquired"
        /\ secure' \in BOOLEAN
        /\ bindings' = bindings + 1
     \/ UNCHANGED <<installed, state, secure, bindings>>
  /\ Leave(t)
  /\ UNCHANGED <<endpoints, registered, mapped, listening, calls>>

-----------------------------------------------------------------------------
(* Start *)

Start(t) ==
  /\ Enter(t, "Start")
  /\ IF state = "BindingsAcquired"
       THEN Proceed(t, "register") /\ todo' = Objects
       ELSE Leave(t)
  /\ UNCHANGED <<server, runtime>>

(* mutant: the state is that of the registrations that are complete *)
RegisterObjectLate(t) ==
  /\ At(t, "register")
  /\ \E o \in todo :
       \/ /\ registered' = registered \cup {o}
          /\ todo' = IF todo = {o} THEN Interfaces ELSE todo \ {o}
          /\ state' = IF todo = {o} THEN "IntfRegRuntimeLib" ELSE state
          /\ Goto(IF todo = {o} THEN "map" ELSE "register")
       \/ registered' \in {registered, registered \cup {o}} /\ Goto("rollback") /\ UNCHANGED <<todo, state>>
  /\ UNCHANGED <<installed, secure, endpoints, bindings, mapped, listening, calls>>

(* An object is registered, with the entry points that implement it; what  *)
(* follows can fail as well.                                               *)
RegisterObject(t) ==
  /\ At(t, "register")
  /\ \E o \in todo :
       \/ /\ registered' = registered \cup {o} /\ state' = "IntfRegRuntimeLib"
          /\ todo' = IF todo = {o} THEN Interfaces ELSE todo \ {o}
          /\ Goto(IF todo = {o} THEN "map" ELSE "register")
       \/ /\ registered' = registered \cup {o} /\ state' = "IntfRegRuntimeLib"
          /\ Goto("rollback") /\ UNCHANGED todo
       \/ Goto("rollback") /\ UNCHANGED <<registered, state, todo>>
  /\ UNCHANGED <<installed, secure, endpoints, bindings, mapped, listening, calls>>

RegisterEndpoint(t) ==
  /\ At(t, "map")
  /\ \/ \E i \in todo :
          /\ mapped' = mapped \cup {i} /\ endpoints' = endpoints \cup {i}
          /\ state' = "IntfRegLocalEndptMap"
          /\ todo' = todo \ {i}
          /\ Goto(IF todo = {i} THEN "listen" ELSE "map")
     \/ Goto("rollback") /\ UNCHANGED <<mapped, endpoints, state, todo>>
  /\ UNCHANGED <<installed, secure, bindings, registered, listening, calls>>

Listen(t) ==
  /\ At(t, "listen")
  /\ \/ listening' = TRUE /\ state' = "Listening" /\ Leave(t)
     \/ Goto("rollback") /\ UNCHANGED <<listening, state, todo>>
  /\ UNCHANGED <<installed, secure, endpoints, bindings, registered, mapped, calls>>

(* mutant: what the map holds is forgotten and not unregistered *)
RollbackForgetting(t) ==
  /\ At(t, "rollback")
  /\ endpoints' = IF state = "IntfRegLocalEndptMap" THEN {} ELSE endpoints
  /\ registered' = IF state \in {"IntfRegLocalEndptMap", "IntfRegRuntimeLib"} THEN {} ELSE registered
  /\ Leave(t)
  /\ UNCHANGED <<installed, state, secure, bindings, mapped, listening, calls>>

(* OnStartFailureRollbackIntfReg leaves the state as it is. *)
Rollback(t) ==
  /\ At(t, "rollback")
  /\ IF state = "IntfRegLocalEndptMap"
       THEN mapped' = mapped \ endpoints /\ endpoints' = {}
       ELSE UNCHANGED <<mapped, endpoints>>
  /\ registered' = IF state \in {"IntfRegLocalEndptMap", "IntfRegRuntimeLib"} THEN {} ELSE registered
  /\ Leave(t)
  /\ UNCHANGED <<installed, state, secure, bindings, listening, calls>>

-----------------------------------------------------------------------------
(* Stop, Resume, Wait. The calls of the library that they make may fail.   *)

(* mutant: Stop awaits the end of the calls and has not asked for it *)
StopUnasked(t) ==
  /\ Enter(t, "Stop")
  /\ IF state = "Listening"
       THEN Proceed(t, "stop") /\ UNCHANGED todo
       ELSE Leave(t)
  /\ UNCHANGED <<server, runtime>>

(* A listener that a client has stopped is not waited for. *)
Stop(t) ==
  /\ Enter(t, "Stop")
  /\ \/ /\ state = "Listening" /\ listening
        /\ listening' = FALSE
        /\ Proceed(t, "stop") /\ UNCHANGED <<state, todo>>
     \/ /\ state = "Listening" /\ ~ listening
        /\ state' = "IntfRegLocalEndptMap"
        /\ Leave(t) /\ UNCHANGED listening
     \/ Leave(t) /\ UNCHANGED <<state, listening>>
  /\ UNCHANGED <<installed, secure, endpoints, bindings, registered, mapped, calls>>

StopEnd(t) ==
  /\ At(t, "stop")
  /\ \/ ~ listening /\ Idle /\ state' = "IntfRegLocalEndptMap"
     \/ UNCHANGED state
  /\ Leave(t)
  /\ UNCHANGED <<installed, secure, endpoints, runtime>>

Resume(t) ==
  /\ Enter(t, "Resume")
  /\ \/ state = "IntfRegLocalEndptMap" /\ listening' = TRUE /\ state' = "Listening"
     \/ UNCHANGED <<listening, state>>
  /\ Leave(t)
  /\ UNCHANGED <<installed, secure, endpoints, bindings, registered, mapped, calls>>

Wait(t) ==
  /\ Enter(t, "Wait")
  /\ IF state = "Listening"
       THEN Proceed(t, "wait") /\ UNCHANGED todo
       ELSE Leave(t)
  /\ UNCHANGED <<server, runtime>>

(* Whoever waits keeps the mutex, and only a client can end that. *)
WaitEnd(t) ==
  /\ At(t, "wait")
  /\ \/ ~ listening /\ Idle
     \/ TRUE
  /\ Leave(t)
  /\ UNCHANGED <<server, runtime>>

-----------------------------------------------------------------------------
(* Finalize: unique_ptr::reset, which leaves the pointer null before the   *)
(* destructor runs.                                                        *)

Finalize(t) ==
  /\ Enter(t, "Finalize")
  /\ installed' = FALSE
  /\ IF installed
       THEN Proceed(t, CASE state = "Listening" -> "close"
                         [] state = "IntfRegLocalEndptMap" -> "unmap"
                         [] state = "IntfRegRuntimeLib" -> "unregister"
                         [] state = "BindingsAcquired" -> "free") /\ UNCHANGED todo
       ELSE Leave(t)
  /\ UNCHANGED <<state, secure, endpoints, runtime>>

Close(t) ==
  /\ At(t, "close")
  /\ listening' = FALSE
  /\ Goto(IF listening THEN "drain" ELSE "unmap")
  /\ UNCHANGED <<server, todo, bindings, registered, mapped, calls>>

Drain(t) ==
  /\ At(t, "drain")
  /\ Idle
  /\ Goto("unmap")
  /\ UNCHANGED <<server, todo, runtime>>

Unmap(t) ==
  /\ At(t, "unmap")
  /\ mapped' = mapped \ endpoints
  /\ Goto("unregister")
  /\ UNCHANGED <<server, todo, bindings, registered, listening, calls>>

(* The library waits for the calls to complete. *)
Unregister(t) ==
  /\ At(t, "unregister")
  /\ Idle
  /\ registered' = {}
  /\ Goto("free")
  /\ UNCHANGED <<server, todo, bindings, mapped, listening, calls>>

Free(t) ==
  /\ At(t, "free")
  /\ bindings' = bindings - 1
  /\ state' = "NotInitialized" /\ secure' = FALSE /\ endpoints' = {}
  /\ Leave(t)
  /\ UNCHANGED <<installed, registered, mapped, listening, calls>>

-----------------------------------------------------------------------------
(* Clients. The library calls back before it lets a call proceed, when the *)
(* server was made with authentication.                                    *)

CallAs(c, from, to) ==
  /\ calls[c] = from
  /\ calls' = [calls EXCEPT ![c] = to]
  /\ UNCHANGED <<server, mutex, op, step, todo, bindings, registered, mapped, listening>>

Arrive(c) ==
  /\ listening /\ registered # {}
  /\ CallAs(c, "none", IF secure THEN "authorising" ELSE "running")

(* callbackIntfAuthz uses uniqueObject without the mutex. When it is null  *)
(* there is nothing that the callback can do.                              *)
Authorise(c) == installed /\ \E to \in {"running", "none"} : CallAs(c, "authorising", to)

Complete(c) == CallAs(c, "running", "none")

(* A procedure that the client calls stops the server. *)
Shutdown(c) ==
  /\ calls[c] = "running" /\ listening
  /\ listening' = FALSE
  /\ UNCHANGED <<server, mutex, op, step, todo, bindings, registered, mapped, calls>>

-----------------------------------------------------------------------------
Enters(t) ==
  \/ InitializeServer(t) \/ Start(t) \/ Stop(t) \/ Resume(t) \/ Wait(t) \/ Finalize(t)

Proceeds(t) ==
  \/ RegisterObject(t) \/ RegisterEndpoint(t) \/ Listen(t) \/ Rollback(t)
  \/ StopEnd(t) \/ WaitEnd(t)
  \/ Close(t) \/ Drain(t) \/ Unmap(t) \/ Unregister(t) \/ Free(t)

Client(c) == Arrive(c) \/ Authorise(c) \/ Complete(c) \/ Shutdown(c)

Next ==
  \/ \E t \in Threads : Enters(t) \/ Proceeds(t) \/ \E o \in Operations : Call(t, o)
  \/ \E c \in Calls : Client(c)

Spec == Init /\ [][Next]_vars

(* The owner of the mutex runs, and so do the procedures of the server. A  *)
(* wait that can end in an error is not made to.                           *)
Returns(t) == (Proceeds(t) /\ step \notin {"stop", "wait"}) \/ (~ listening /\ Idle /\ (StopEnd(t) \/ WaitEnd(t)))

FairSpec ==
  /\ Spec
  /\ \A t \in Threads : WF_vars(Returns(t))
  /\ \A c \in Calls : WF_vars(Authorise(c) \/ Complete(c))

-----------------------------------------------------------------------------
(* Properties *)

(* Types. *)
TypeOK ==
  /\ installed \in BOOLEAN /\ secure \in BOOLEAN /\ listening \in BOOLEAN
  /\ state \in States /\ step \in Steps
  /\ mutex \in Threads \cup {None}
  /\ op \in [Threads -> Operations \cup {"idle"}]
  /\ endpoints \subseteq Interfaces /\ mapped \subseteq Interfaces
  /\ registered \subseteq Objects
  /\ todo \subseteq Objects \/ todo \subseteq Interfaces
  /\ bindings \in {0, 1}
  /\ calls \in [Calls -> {"none", "authorising", "running"}]

(* Start is all or nothing: whenever no function is running, the library   *)
(* knows all the objects and the endpoint map all their interfaces, or     *)
(* neither knows any. This is what the rollback of a start is for.         *)
StartIsAtomic ==
  mutex = None =>
    \/ registered = {} /\ mapped = {}
    \/ registered = Objects /\ mapped = Interfaces

(* Once the server has been finalised the process keeps nothing with the   *)
(* library, and no call is running.                                        *)
NothingLeft ==
  mutex = None /\ ~ installed =>
    registered = {} /\ mapped = {} /\ bindings = 0 /\ ~ listening /\ Idle

(* Listening or stopped, a server serves its objects: Resume refuses when  *)
(* the interfaces are not in the endpoint map.                             *)
ListeningServes == mutex = None /\ state = "Listening" => mapped = Interfaces

(* A callback finds the server whose authentication level it asks for.     *)
CallbackFindsServer == \A c \in Calls : calls[c] = "authorising" => installed

(* The mutex is given back, unless a thread waits for clients to stop the  *)
(* server.                                                                 *)
MutexIsReleased == mutex # None ~> mutex = None \/ (step = "wait" /\ listening)

-----------------------------------------------------------------------------
(* The inductive invariant *)

(* What is released later is decided by m_state and m_regObjsByIntfHnd:    *)
(* they must cover whatever the process has with the library.              *)
StateCovers ==
  /\ endpoints # {} => state \in {"IntfRegLocalEndptMap", "Listening"}
  /\ registered # {} => state \in {"IntfRegRuntimeLib", "IntfRegLocalEndptMap", "Listening"}
  /\ ~ Idle => state \in {"IntfRegLocalEndptMap", "Listening"}
  /\ listening => state = "Listening"
  /\ bindings = IF state = "NotInitialized" THEN 0 ELSE 1

(* Whether there is a server, and one whose destructor runs. *)
Finalizes == step \in {"close", "drain", "unmap", "unregister", "free"}

LifeInv ==
  /\ mutex = None <=> step = "idle"
  /\ mutex # None => op[mutex] # "idle"
  /\ installed <=> state # "NotInitialized" /\ ~ Finalizes
  /\ Finalizes => state # "NotInitialized"
  /\ \A t \in Threads : op[t] = "Initialize" =>
       /\ ~ installed /\ mutex = None
       /\ \A u \in Threads \ {t} : op[u] = "idle"

(* What each step of Start and of the destructor has behind it. *)
StepInv ==
  /\ step \in {"idle", "stop", "wait", "close", "drain"} =>
       /\ endpoints = mapped
       /\ \/ registered = {} /\ mapped = {}
          \/ registered = Objects /\ mapped = Interfaces
  /\ step = "register" =>
       /\ state \in {"BindingsAcquired", "IntfRegRuntimeLib"}
       /\ todo \subseteq Objects /\ registered = Objects \ todo
       /\ mapped = {} /\ endpoints = {}
  /\ step = "map" =>
       /\ state \in {"IntfRegRuntimeLib", "IntfRegLocalEndptMap"}
       /\ registered = Objects
       /\ todo \subseteq Interfaces /\ mapped = Interfaces \ todo /\ endpoints = mapped
  /\ step = "listen" =>
       /\ state = "IntfRegLocalEndptMap"
       /\ registered = Objects /\ mapped = Interfaces /\ endpoints = mapped
  /\ step = "rollback" =>
       /\ state \in {"BindingsAcquired", "IntfRegRuntimeLib", "IntfRegLocalEndptMap"}
       /\ endpoints = mapped
  /\ step \in {"stop", "wait", "close", "drain"} => state = "Listening"
  /\ step = "unmap" => endpoints = mapped /\ ~ listening
  /\ step = "drain" => ~ listening
  /\ step = "unregister" => mapped = {} /\ ~ listening
  /\ step = "free" => mapped = {} /\ registered = {} /\ ~ listening /\ Idle

(* The inductive invariant: the state covers the registrations, and every  *)
(* step of Start, Stop, Wait and Finalize finds what it counts on.         *)
IInv == TypeOK /\ StateCovers /\ LifeInv /\ StepInv
===============================================================================
