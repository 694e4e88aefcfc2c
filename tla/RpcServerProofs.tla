---------------------------- MODULE RpcServerProofs ----------------------------
(* Proofs about RpcServer, for any threads, objects, interfaces and calls. *)
EXTENDS RpcServer, TLAPS

(* No server, nothing registered, nobody inside: the initial state. *)
LEMMA InitInv == Init => IInv
<1> SUFFICES ASSUME Init PROVE IInv
  OBVIOUS
<1>1. TypeOK
  BY DEF Init, TypeOK, States, Steps
<1>2. StateCovers
  BY DEF Init, StateCovers, Idle
<1>3. LifeInv
  BY RpcAssumption DEF Init, LifeInv, Finalizes
<1>4. StepInv
  BY DEF Init, StepInv
<1>. QED  BY <1>1, <1>2, <1>3, <1>4 DEF IInv

(* A function is called. *)
LEMMA CallInv ==
  ASSUME IInv, NEW t \in Threads, NEW o \in Operations, Call(t, o)
  PROVE  IInv'
<1>. USE DEF IInv, Call, server, runtime
<1>1. TypeOK'
  BY DEF TypeOK, Operations
<1>2. StateCovers'
  BY DEF StateCovers, Idle
<1>3. LifeInv'
  <2>1. op' = [op EXCEPT ![t] = o] /\ op[t] = "idle" /\ MayCall(t, o) /\ op \in [Threads -> Operations \cup {"idle"}]
    BY DEF TypeOK
  <2>2. UNCHANGED <<mutex, step, installed, state>>
    OBVIOUS
  <2>3. ASSUME NEW u \in Threads, op'[u] = "Initialize"
        PROVE  ~ installed /\ mutex = None /\ \A v \in Threads \ {u} : op'[v] = "idle"
    <3>1. CASE u = t
      <4>1. o = "Initialize" /\ ~ installed /\ \A v \in Threads : op[v] = "idle"
        BY <2>1, <2>3, <3>1 DEF MayCall
      <4>2. mutex = None
        BY <4>1 DEF LifeInv, TypeOK
      <4>. QED  BY <2>1, <3>1, <4>1, <4>2
    <3>2. CASE u # t
      <4>1. op[u] = "Initialize"
        BY <2>1, <2>3, <3>2
      <4>2. ~ installed /\ o # "Initialize" /\ o # "Finalize"
        BY <2>1, <3>2, <4>1 DEF LifeInv, MayCall
      <4>. QED  BY <2>1, <4>2 DEF MayCall, Operations
    <3>. QED  BY <3>1, <3>2
  <2>4. mutex # None => op'[mutex] # "idle"
    BY <2>1 DEF LifeInv, TypeOK, Operations
  <2>. QED  BY <2>2, <2>3, <2>4 DEF LifeInv, Finalizes
<1>4. StepInv'
  BY DEF StepInv, Idle
<1>. QED  BY <1>1, <1>2, <1>3, <1>4

(* The mutex is taken or given back: what LifeInv says of the threads.     *)
LEMMA ProceedLife ==
  ASSUME IInv, NEW t \in Threads, NEW o \in Operations \ {"Initialize"}, NEW s \in Steps \ {"idle"},
         Enter(t, o), Proceed(t, s)
  PROVE  /\ mutex' # None /\ op'[mutex'] # "idle" /\ step' = s
         /\ \A u \in Threads : op'[u] # "Initialize"
         /\ mutex' \in Threads \cup {None} /\ op' \in [Threads -> Operations \cup {"idle"}]
<1>1. op[t] = o /\ op' = op /\ mutex' = t /\ step' = s
  BY DEF Enter, Proceed
<1>2. \A u \in Threads : op[u] # "Initialize"
  BY <1>1 DEF IInv, LifeInv, Operations
<1>. QED  BY <1>1, <1>2, RpcAssumption DEF IInv, TypeOK, Operations

(* What LifeInv says of the threads, when the owner gives the mutex back. *)
LEMMA LeaveLife ==
  ASSUME IInv, NEW t \in Threads, Leave(t)
  PROVE  /\ mutex' = None /\ step' = "idle" /\ todo' = {}
         /\ op' \in [Threads -> Operations \cup {"idle"}]
         /\ op[t] # "Initialize" => \A u \in Threads : op'[u] = "Initialize" =>
               op[u] = "Initialize" /\ \A v \in Threads \ {u} : op'[v] = "idle"
         /\ op[t] = "Initialize" => \A u \in Threads : op'[u] = "idle"
<1>1. /\ mutex' = None /\ step' = "idle" /\ todo' = {}
      /\ op' = [op EXCEPT ![t] = "idle"] /\ op \in [Threads -> Operations \cup {"idle"}]
  BY DEF Leave, IInv, TypeOK
<1>2. \A u \in Threads : op'[u] = IF u = t THEN "idle" ELSE op[u]
  BY <1>1
<1>3. \A u \in Threads : op[u] = "Initialize" => \A v \in Threads \ {u} : op[v] = "idle"
  BY DEF IInv, LifeInv
<1>4. op' \in [Threads -> Operations \cup {"idle"}]
  BY <1>1
<1>5. op[t] = "Initialize" => \A u \in Threads : op'[u] = "idle"
  BY <1>2, <1>3
<1>6. \A u \in Threads : op'[u] = "Initialize" =>
        op[u] = "Initialize" /\ \A v \in Threads \ {u} : op'[v] = "idle"
  BY <1>2, <1>3
<1>. QED  BY <1>1, <1>4, <1>5, <1>6

(* While a thread has the mutex, no thread waits to initialise. *)
LEMMA HolderLife ==
  ASSUME IInv, NEW t \in Threads, mutex = t
  PROVE  op[t] # "idle" /\ \A u \in Threads : op[u] # "Initialize"
BY RpcAssumption DEF IInv, LifeInv

(* Initialize is alone: a server appears with its bindings, or nothing does. *)
LEMMA InitializeServerInv ==
  ASSUME IInv, NEW t \in Threads, InitializeServer(t)
  PROVE  IInv'
<1>. USE DEF InitializeServer, Enter
<1>1. Leave(t) /\ op[t] = "Initialize" /\ mutex = None /\ ~ installed
  BY DEF IInv, LifeInv
<1>2. /\ mutex' = None /\ step' = "idle" /\ todo' = {}
      /\ op' \in [Threads -> Operations \cup {"idle"}]
      /\ \A u \in Threads : op'[u] = "idle"
  BY <1>1, LeaveLife
<1>3. step = "idle" /\ state = "NotInitialized" /\ bindings = 0
  BY <1>1 DEF IInv, LifeInv, StateCovers, Finalizes
<1>4. registered = {} /\ mapped = {} /\ endpoints = {} /\ ~ listening /\ Idle
  BY <1>3, RpcAssumption DEF IInv, StateCovers, StepInv
<1>5. UNCHANGED <<registered, mapped, endpoints, listening, calls>>
  OBVIOUS
<1>6. \/ installed' = TRUE /\ state' = "BindingsAcquired" /\ bindings' = 1 /\ secure' \in BOOLEAN
      \/ UNCHANGED <<installed, state, secure, bindings>>
  BY <1>3
<1>7. TypeOK'
  BY <1>2, <1>5, <1>6 DEF IInv, TypeOK, States, Steps
<1>8. StateCovers'
  BY <1>3, <1>4, <1>5, <1>6 DEF StateCovers, Idle
<1>9. LifeInv'
  BY <1>1, <1>2, <1>3, <1>6 DEF LifeInv, Finalizes
<1>10. StepInv'
  BY <1>2, <1>4, <1>5 DEF StepInv
<1>. QED  BY <1>7, <1>8, <1>9, <1>10 DEF IInv

Destructor == {"close", "drain", "unmap", "unregister", "free"}

(* LifeInv after a function returns, takes the mutex, or goes on.          *)
LEMMA LeaveLifeInv ==
  ASSUME IInv, NEW t \in Threads, Leave(t), op[t] # "Initialize",
         installed' <=> state' # "NotInitialized", installed' => installed
  PROVE  LifeInv'
<1>1. /\ mutex' = None /\ step' = "idle"
      /\ \A u \in Threads : op'[u] = "Initialize" =>
           op[u] = "Initialize" /\ \A v \in Threads \ {u} : op'[v] = "idle"
  BY LeaveLife
<1>2. \A u \in Threads : op[u] = "Initialize" => ~ installed
  BY DEF IInv, LifeInv
<1>. QED  BY <1>1, <1>2 DEF LifeInv, Finalizes

(* LifeInv when a thread takes the mutex and stays inside. *)
LEMMA ProceedLifeInv ==
  ASSUME IInv, NEW t \in Threads, NEW o \in Operations \ {"Initialize"}, NEW s \in Steps \ {"idle"},
         Enter(t, o), Proceed(t, s),
         installed' <=> state' # "NotInitialized" /\ s \notin Destructor,
         s \in Destructor => state' # "NotInitialized"
  PROVE  LifeInv'
<1>1. /\ mutex' # None /\ op'[mutex'] # "idle" /\ step' = s
      /\ \A u \in Threads : op'[u] # "Initialize"
  BY ProceedLife
<1>. QED  BY <1>1 DEF LifeInv, Finalizes, Destructor

(* LifeInv when the owner of the mutex goes on to another step. *)
LEMMA GotoLifeInv ==
  ASSUME IInv, NEW t \in Threads, NEW r \in Steps \ {"idle"}, NEW s \in Steps \ {"idle"},
         At(t, r), Goto(s),
         installed' <=> state' # "NotInitialized" /\ s \notin Destructor,
         s \in Destructor => state' # "NotInitialized"
  PROVE  LifeInv'
<1>1. mutex' = t /\ mutex = t /\ op' = op /\ step' = s
  BY DEF At, Goto
<1>2. op[t] # "idle" /\ \A u \in Threads : op[u] # "Initialize"
  BY <1>1, HolderLife
<1>. QED  BY <1>1, <1>2, RpcAssumption DEF LifeInv, Finalizes, Destructor

(* What At says of the thread and of the server. *)
LEMMA AtLife ==
  ASSUME IInv, NEW t \in Threads, NEW s \in Steps \ {"idle"}, At(t, s)
  PROVE  /\ mutex = t /\ op[t] # "Initialize" /\ step = s /\ state # "NotInitialized"
         /\ installed <=> s \notin Destructor
         /\ mutex \in Threads \cup {None} /\ op \in [Threads -> Operations \cup {"idle"}]
<1>1. mutex = t /\ step = s
  BY DEF At
<1>2. op[t] # "Initialize"
  BY <1>1, HolderLife
<1>3. state # "NotInitialized"
  <2>1. s \in {"register", "map", "listen", "rollback", "stop", "wait"} => state # "NotInitialized"
    BY <1>1 DEF IInv, StepInv
  <2>2. s \in Destructor => state # "NotInitialized"
    BY <1>1 DEF IInv, LifeInv, Finalizes, Destructor
  <2>. QED  BY <2>1, <2>2 DEF Steps, Destructor
<1>. QED  BY <1>1, <1>2, <1>3 DEF IInv, LifeInv, Finalizes, Destructor, TypeOK

-----------------------------------------------------------------------------
(* Start *)

(* Start refuses, or has all the objects before it. *)
LEMMA StartInv ==
  ASSUME IInv, NEW t \in Threads, Start(t)
  PROVE  IInv'
<1>. USE DEF Start, server, runtime
<1>1. mutex = None /\ op[t] = "Start" /\ step = "idle"
  BY DEF Enter, IInv, LifeInv
<1>2. CASE state = "BindingsAcquired"
  <2>1. Proceed(t, "register") /\ todo' = Objects /\ Enter(t, "Start")
    BY <1>2
  <2>2. /\ mutex' # None /\ op'[mutex'] # "idle" /\ step' = "register"
        /\ mutex' \in Threads \cup {None} /\ op' \in [Threads -> Operations \cup {"idle"}]
    BY <2>1, ProceedLife DEF Operations, Steps
  <2>3. registered = {} /\ mapped = {} /\ endpoints = {}
    BY <1>1, <1>2 DEF IInv, StateCovers, StepInv
  <2>4. TypeOK'
    BY <2>1, <2>2 DEF IInv, TypeOK, Steps
  <2>5. StateCovers'
    BY DEF IInv, StateCovers, Idle
  <2>6. installed' <=> state' # "NotInitialized"
    BY <1>1 DEF IInv, LifeInv, Finalizes
  <2>7. LifeInv'
    BY <2>1, <2>6, ProceedLifeInv DEF Operations, Steps, Destructor
  <2>8. StepInv'
    BY <1>2, <2>1, <2>2, <2>3 DEF StepInv
  <2>. QED  BY <2>4, <2>5, <2>7, <2>8 DEF IInv
<1>3. CASE state # "BindingsAcquired"
  <2>1. Leave(t)
    BY <1>3
  <2>2. /\ mutex' = None /\ step' = "idle" /\ todo' = {}
        /\ op' \in [Threads -> Operations \cup {"idle"}]
    BY <2>1, LeaveLife
  <2>3. TypeOK'
    BY <2>2 DEF IInv, TypeOK, Steps
  <2>4. StateCovers'
    BY DEF IInv, StateCovers, Idle
  <2>5. LifeInv'
    BY <1>1, <2>1, LeaveLifeInv DEF IInv, LifeInv, Finalizes
  <2>6. StepInv'
    BY <1>1, <2>2 DEF IInv, StepInv
  <2>. QED  BY <2>3, <2>4, <2>5, <2>6 DEF IInv
<1>. QED  BY <1>2, <1>3

(* An object more is registered and m_state says so, or the rollback follows. *)
LEMMA RegisterObjectInv ==
  ASSUME IInv, NEW t \in Threads, RegisterObject(t)
  PROVE  IInv'
<1>1. /\ At(t, "register") /\ mutex = t /\ step = "register" /\ op[t] # "Initialize"
      /\ state # "NotInitialized" /\ installed
      /\ mutex \in Threads \cup {None} /\ op \in [Threads -> Operations \cup {"idle"}]
  BY AtLife DEF RegisterObject, Steps, Destructor
<1>2. /\ UNCHANGED <<installed, secure, endpoints, bindings, mapped, listening, calls>>
      /\ UNCHANGED <<mutex, op>>
  BY DEF RegisterObject, Goto
<1>3. /\ state \in {"BindingsAcquired", "IntfRegRuntimeLib"}
      /\ todo \subseteq Objects /\ registered = Objects \ todo
      /\ mapped = {} /\ endpoints = {} /\ ~ listening /\ Idle
  BY <1>1 DEF IInv, StepInv, StateCovers
<1>4. PICK o \in todo :
       \/ /\ registered' = registered \cup {o} /\ state' = "IntfRegRuntimeLib"
          /\ todo' = IF todo = {o} THEN Interfaces ELSE todo \ {o}
          /\ Goto(IF todo = {o} THEN "map" ELSE "register")
       \/ /\ registered' = registered \cup {o} /\ state' = "IntfRegRuntimeLib"
          /\ Goto("rollback") /\ UNCHANGED todo
       \/ Goto("rollback") /\ UNCHANGED <<registered, state, todo>>
  BY DEF RegisterObject
<1>5. /\ state' \in {"BindingsAcquired", "IntfRegRuntimeLib"}
      /\ registered' # {} => state' = "IntfRegRuntimeLib"
      /\ registered' \subseteq Objects
      /\ todo' \subseteq Objects \/ todo' \subseteq Interfaces
      /\ step' \in {"map", "register", "rollback"}
  BY <1>3, <1>4 DEF Goto, IInv, StateCovers
<1>6. TypeOK'
  BY <1>1, <1>2, <1>5 DEF IInv, TypeOK, Steps, States
<1>7. StateCovers'
  BY <1>1, <1>2, <1>3, <1>5 DEF IInv, StateCovers, Idle
<1>8. LifeInv'
  <2>1. Goto("map") \/ Goto("register") \/ Goto("rollback")
    BY <1>4
  <2>. QED  BY <1>1, <1>2, <1>5, <2>1, GotoLifeInv DEF Steps, Destructor
<1>9. StepInv'
  <2>1. CASE step' = "register"
    <3>1. registered' = registered \cup {o} /\ todo' = todo \ {o}
      BY <1>4, <2>1 DEF Goto
    <3>. QED  BY <1>2, <1>3, <1>5, <2>1, <3>1 DEF StepInv
  <2>2. CASE step' = "map"
    <3>1. registered' = registered \cup {o} /\ todo = {o} /\ todo' = Interfaces /\ state' = "IntfRegRuntimeLib"
      BY <1>4, <2>2 DEF Goto
    <3>2. registered' = Objects
      BY <1>3, <3>1
    <3>. QED  BY <1>2, <1>3, <2>2, <3>1, <3>2 DEF StepInv
  <2>3. CASE step' = "rollback"
    BY <1>2, <1>3, <1>5, <2>3 DEF StepInv
  <2>. QED  BY <1>5, <2>1, <2>2, <2>3
<1>. QED  BY <1>6, <1>7, <1>8, <1>9 DEF IInv

(* An interface more is in the endpoint map and in m_regObjsByIntfHnd. *)
LEMMA RegisterEndpointInv ==
  ASSUME IInv, NEW t \in Threads, RegisterEndpoint(t)
  PROVE  IInv'
<1>1. /\ At(t, "map") /\ mutex = t /\ step = "map"
      /\ state # "NotInitialized" /\ installed
      /\ mutex \in Threads \cup {None} /\ op \in [Threads -> Operations \cup {"idle"}]
  BY AtLife DEF RegisterEndpoint, Steps, Destructor
<1>2. /\ UNCHANGED <<installed, secure, bindings, registered, listening, calls>>
      /\ UNCHANGED <<mutex, op>>
  BY DEF RegisterEndpoint, Goto
<1>3. /\ state \in {"IntfRegRuntimeLib", "IntfRegLocalEndptMap"}
      /\ registered = Objects
      /\ todo \subseteq Interfaces /\ mapped = Interfaces \ todo /\ endpoints = mapped
      /\ ~ listening
      /\ ~ Idle => state = "IntfRegLocalEndptMap"
      /\ endpoints # {} => state = "IntfRegLocalEndptMap"
  BY <1>1 DEF IInv, StepInv, StateCovers
<1>4. \/ \E i \in todo :
          /\ mapped' = mapped \cup {i} /\ endpoints' = endpoints \cup {i}
          /\ state' = "IntfRegLocalEndptMap"
          /\ todo' = todo \ {i}
          /\ Goto(IF todo = {i} THEN "listen" ELSE "map")
      \/ Goto("rollback") /\ UNCHANGED <<mapped, endpoints, state, todo>>
  BY DEF RegisterEndpoint
<1>5. /\ state' \in {"IntfRegRuntimeLib", "IntfRegLocalEndptMap"}
      /\ state = "IntfRegLocalEndptMap" => state' = state
      /\ endpoints' # {} => state' = "IntfRegLocalEndptMap"
      /\ endpoints' = mapped' /\ mapped' \subseteq Interfaces /\ todo' \subseteq Interfaces
      /\ step' \in {"map", "listen", "rollback"}
  BY <1>3, <1>4 DEF Goto
<1>6. TypeOK'
  BY <1>1, <1>2, <1>3, <1>5 DEF IInv, TypeOK, Steps, States
<1>7. StateCovers'
  BY <1>1, <1>2, <1>3, <1>5 DEF IInv, StateCovers, Idle
<1>8. LifeInv'
  <2>1. Goto("map") \/ Goto("listen") \/ Goto("rollback")
    BY <1>4
  <2>. QED  BY <1>1, <1>2, <1>5, <2>1, GotoLifeInv DEF Steps, Destructor
<1>9. StepInv'
  <2>1. CASE step' \in {"map", "listen"}
    <3>1. PICK i \in todo :
          /\ mapped' = mapped \cup {i} /\ endpoints' = endpoints \cup {i}
          /\ state' = "IntfRegLocalEndptMap"
          /\ todo' = todo \ {i}
          /\ step' = IF todo = {i} THEN "listen" ELSE "map"
      BY <1>4, <2>1 DEF Goto
    <3>2. mapped' = Interfaces \ todo'
      BY <1>3, <3>1
    <3>3. step' = "listen" => mapped' = Interfaces
      BY <3>1, <3>2
    <3>. QED  BY <1>2, <1>3, <1>5, <2>1, <3>1, <3>2, <3>3 DEF StepInv
  <2>2. CASE step' = "rollback"
    BY <1>5, <2>2 DEF StepInv
  <2>. QED  BY <1>5, <2>1, <2>2
<1>. QED  BY <1>6, <1>7, <1>8, <1>9 DEF IInv

(* What Start was given is registered when it returns. *)
LEMMA ListenInv ==
  ASSUME IInv, NEW t \in Threads, Listen(t)
  PROVE  IInv'
<1>1. /\ At(t, "listen") /\ mutex = t /\ step = "listen" /\ op[t] # "Initialize"
      /\ state # "NotInitialized" /\ installed
      /\ mutex \in Threads \cup {None} /\ op \in [Threads -> Operations \cup {"idle"}]
  BY AtLife DEF Listen, Steps, Destructor
<1>2. UNCHANGED <<installed, secure, endpoints, bindings, registered, mapped, calls>>
  BY DEF Listen
<1>3. /\ state = "IntfRegLocalEndptMap"
      /\ registered = Objects /\ mapped = Interfaces /\ endpoints = mapped
      /\ ~ listening
  BY <1>1 DEF IInv, StepInv, StateCovers
<1>4. CASE listening' = TRUE /\ state' = "Listening" /\ Leave(t)
  <2>1. /\ mutex' = None /\ step' = "idle" /\ todo' = {}
        /\ op' \in [Threads -> Operations \cup {"idle"}]
    BY <1>4, LeaveLife
  <2>2. TypeOK'
    BY <1>2, <1>4, <2>1 DEF IInv, TypeOK, Steps, States
  <2>3. StateCovers'
    BY <1>1, <1>2, <1>4 DEF IInv, StateCovers, Idle
  <2>4. LifeInv'
    BY <1>1, <1>2, <1>4, LeaveLifeInv
  <2>5. StepInv'
    BY <1>2, <1>3, <2>1 DEF StepInv
  <2>. QED  BY <2>2, <2>3, <2>4, <2>5 DEF IInv
<1>5. CASE Goto("rollback") /\ UNCHANGED <<listening, state, todo>>
  <2>1. mutex' = mutex /\ op' = op /\ step' = "rollback"
    BY <1>5 DEF Goto
  <2>2. TypeOK'
    BY <1>2, <1>5, <2>1 DEF IInv, TypeOK, Steps
  <2>3. StateCovers'
    BY <1>2, <1>5 DEF IInv, StateCovers, Idle
  <2>4. LifeInv'
    BY <1>1, <1>2, <1>5, GotoLifeInv DEF Steps, Destructor
  <2>5. StepInv'
    BY <1>2, <1>3, <1>5, <2>1 DEF StepInv
  <2>. QED  BY <2>2, <2>3, <2>4, <2>5 DEF IInv
<1>. QED  BY <1>4, <1>5 DEF Listen

(* What the state covers is undone, and that is all there is. *)
LEMMA RollbackInv ==
  ASSUME IInv, NEW t \in Threads, Rollback(t)
  PROVE  IInv'
<1>1. /\ At(t, "rollback") /\ mutex = t /\ step = "rollback" /\ op[t] # "Initialize"
      /\ state # "NotInitialized" /\ installed
  BY AtLife DEF Rollback, Steps, Destructor
<1>2. UNCHANGED <<installed, state, secure, bindings, listening, calls>> /\ Leave(t)
  BY DEF Rollback
<1>3. /\ mutex' = None /\ step' = "idle" /\ todo' = {}
      /\ op' \in [Threads -> Operations \cup {"idle"}]
  BY <1>2, LeaveLife
<1>4. mapped' = {} /\ endpoints' = {} /\ registered' = {}
  <2>1. /\ state \in {"BindingsAcquired", "IntfRegRuntimeLib", "IntfRegLocalEndptMap"}
        /\ endpoints = mapped
        /\ endpoints # {} => state = "IntfRegLocalEndptMap"
        /\ registered # {} => state \in {"IntfRegRuntimeLib", "IntfRegLocalEndptMap"}
    BY <1>1 DEF IInv, StepInv, StateCovers
  <2>. QED  BY <2>1 DEF Rollback
<1>5. TypeOK'
  BY <1>2, <1>3, <1>4 DEF IInv, TypeOK, Steps
<1>6. StateCovers'
  BY <1>2, <1>4 DEF IInv, StateCovers, Idle
<1>7. LifeInv'
  BY <1>1, <1>2, LeaveLifeInv
<1>8. StepInv'
  BY <1>3, <1>4 DEF StepInv
<1>. QED  BY <1>5, <1>6, <1>7, <1>8 DEF IInv

-----------------------------------------------------------------------------
(* Stop, Resume, Wait: none of them touches a registration. *)

Lasting == <<installed, secure, endpoints, bindings, registered, mapped, calls>>

(* A function returns and has changed at most the listener and m_state. *)
LEMMA ReturnInv ==
  ASSUME IInv, NEW t \in Threads, Leave(t), op[t] # "Initialize",
         step \in {"idle", "stop", "wait"},
         UNCHANGED Lasting, listening' \in BOOLEAN,
         state' = state \/ {state, state'} \subseteq {"IntfRegLocalEndptMap", "Listening"},
         listening' => state' = "Listening"
  PROVE  IInv'
<1>. USE DEF Lasting
<1>1. /\ mutex' = None /\ step' = "idle" /\ todo' = {}
      /\ op' \in [Threads -> Operations \cup {"idle"}]
  BY LeaveLife
<1>2. TypeOK'
  BY <1>1 DEF IInv, TypeOK, Steps, States
<1>3. StateCovers'
  BY DEF IInv, StateCovers, Idle
<1>4. LifeInv'
  <2>1. installed <=> state # "NotInitialized"
    BY DEF IInv, LifeInv, Finalizes
  <2>. QED  BY <2>1, LeaveLifeInv
<1>5. StepInv'
  BY <1>1 DEF IInv, StepInv
<1>. QED  BY <1>2, <1>3, <1>4, <1>5 DEF IInv

(* Stop asks the listener to end, or finds that a client has. *)
LEMMA StopInv ==
  ASSUME IInv, NEW t \in Threads, Stop(t)
  PROVE  IInv'
<1>1. mutex = None /\ op[t] = "Stop" /\ step = "idle" /\ Enter(t, "Stop")
  BY DEF Stop, Enter, IInv, LifeInv
<1>2. UNCHANGED Lasting
  BY DEF Stop, Lasting
<1>3. listening \in BOOLEAN /\ (listening => state = "Listening")
  BY DEF IInv, TypeOK, StateCovers
<1>4. CASE /\ state = "Listening" /\ listening /\ listening' = FALSE
           /\ Proceed(t, "stop") /\ UNCHANGED <<state, todo>>
  <2>1. /\ mutex' # None /\ op'[mutex'] # "idle" /\ step' = "stop"
        /\ mutex' \in Threads \cup {None} /\ op' \in [Threads -> Operations \cup {"idle"}]
    BY <1>1, <1>4, ProceedLife DEF Operations, Steps
  <2>2. TypeOK'
    BY <1>2, <1>4, <2>1 DEF IInv, TypeOK, Lasting, Steps
  <2>3. StateCovers'
    BY <1>2, <1>4 DEF IInv, StateCovers, Idle, Lasting
  <2>4. LifeInv'
    <3>1. installed' <=> state' # "NotInitialized"
      BY <1>1, <1>2, <1>4 DEF IInv, LifeInv, Finalizes, Lasting
    <3>. QED  BY <1>1, <1>4, <3>1, ProceedLifeInv DEF Operations, Steps, Destructor
  <2>5. StepInv'
    BY <1>1, <1>2, <1>4, <2>1 DEF IInv, StepInv, Lasting
  <2>. QED  BY <2>2, <2>3, <2>4, <2>5 DEF IInv
<1>5. CASE /\ state = "Listening" /\ ~ listening /\ state' = "IntfRegLocalEndptMap"
           /\ Leave(t) /\ UNCHANGED listening
  BY <1>1, <1>2, <1>3, <1>5, ReturnInv
<1>6. CASE Leave(t) /\ UNCHANGED <<state, listening>>
  BY <1>1, <1>2, <1>3, <1>6, ReturnInv
<1>. QED  BY <1>4, <1>5, <1>6 DEF Stop

(* Stop leaves everything registered. *)
LEMMA StopEndInv ==
  ASSUME IInv, NEW t \in Threads, StopEnd(t)
  PROVE  IInv'
<1>1. step = "stop" /\ op[t] # "Initialize" /\ state = "Listening"
  BY AtLife DEF StopEnd, Steps, At, IInv, StepInv
<1>2. UNCHANGED Lasting /\ Leave(t) /\ listening' = listening
  BY DEF StopEnd, Lasting, runtime
<1>3. \/ ~ listening /\ state' = "IntfRegLocalEndptMap"
      \/ state' = state
  BY DEF StopEnd
<1>4. listening \in BOOLEAN
  BY DEF IInv, TypeOK
<1>5. state' = state \/ {state, state'} \subseteq {"IntfRegLocalEndptMap", "Listening"}
  BY <1>1, <1>3
<1>6. listening' \in BOOLEAN /\ (listening' => state' = "Listening")
  BY <1>1, <1>2, <1>3, <1>4
<1>. QED  BY <1>1, <1>2, <1>5, <1>6, ReturnInv

(* Resume listens again from the state that Stop leaves. *)
LEMMA ResumeInv ==
  ASSUME IInv, NEW t \in Threads, Resume(t)
  PROVE  IInv'
<1>1. op[t] # "Initialize" /\ step = "idle" /\ Leave(t) /\ UNCHANGED Lasting
  BY DEF Resume, Enter, IInv, LifeInv, Lasting
<1>2. listening \in BOOLEAN /\ (listening => state = "Listening")
  BY DEF IInv, TypeOK, StateCovers
<1>3. \/ state = "IntfRegLocalEndptMap" /\ listening' = TRUE /\ state' = "Listening"
      \/ UNCHANGED <<listening, state>>
  BY DEF Resume
<1>4. state' = state \/ {state, state'} \subseteq {"IntfRegLocalEndptMap", "Listening"}
  BY <1>3
<1>5. listening' \in BOOLEAN /\ (listening' => state' = "Listening")
  <2>1. CASE listening' = TRUE /\ state' = "Listening"
    BY <2>1
  <2>2. CASE listening' = listening /\ state' = state
    BY <1>2, <2>2
  <2>. QED  BY <1>3, <2>1, <2>2
<1>. QED  BY <1>1, <1>4, <1>5, ReturnInv

(* Wait takes the mutex and changes nothing else. *)
LEMMA WaitInv ==
  ASSUME IInv, NEW t \in Threads, Wait(t)
  PROVE  IInv'
<1>1. mutex = None /\ op[t] = "Wait" /\ step = "idle" /\ Enter(t, "Wait")
  BY DEF Wait, Enter, IInv, LifeInv
<1>2. UNCHANGED Lasting /\ UNCHANGED <<state, listening>>
  BY DEF Wait, Lasting, server, runtime
<1>3. CASE state = "Listening"
  <2>0. Proceed(t, "wait") /\ UNCHANGED todo
    BY <1>3 DEF Wait
  <2>1. /\ mutex' # None /\ op'[mutex'] # "idle" /\ step' = "wait"
        /\ mutex' \in Threads \cup {None} /\ op' \in [Threads -> Operations \cup {"idle"}]
    BY <1>1, <2>0, ProceedLife DEF Operations, Steps
  <2>2. TypeOK'
    BY <1>2, <2>0, <2>1 DEF IInv, TypeOK, Lasting, Steps
  <2>3. StateCovers'
    BY <1>2 DEF IInv, StateCovers, Idle, Lasting
  <2>4. LifeInv'
    <3>1. installed' <=> state' # "NotInitialized"
      BY <1>1, <1>2 DEF IInv, LifeInv, Finalizes, Lasting
    <3>. QED  BY <1>1, <2>0, <3>1, ProceedLifeInv DEF Operations, Steps, Destructor
  <2>5. StepInv'
    BY <1>1, <1>2, <1>3, <2>1 DEF IInv, StepInv, Lasting
  <2>. QED  BY <2>2, <2>3, <2>4, <2>5 DEF IInv
<1>4. CASE state # "Listening"
  <2>1. Leave(t)
    BY <1>4 DEF Wait
  <2>2. listening \in BOOLEAN /\ (listening => state = "Listening")
    BY DEF IInv, TypeOK, StateCovers
  <2>. QED  BY <1>1, <1>2, <2>1, <2>2, ReturnInv
<1>. QED  BY <1>3, <1>4

(* Wait returns and has changed nothing. *)
LEMMA WaitEndInv ==
  ASSUME IInv, NEW t \in Threads, WaitEnd(t)
  PROVE  IInv'
<1>1. step = "wait" /\ op[t] # "Initialize"
  BY AtLife DEF WaitEnd, Steps
<1>2. UNCHANGED Lasting /\ Leave(t) /\ UNCHANGED <<state, listening>>
  BY DEF WaitEnd, Lasting, server, runtime
<1>3. listening \in BOOLEAN /\ (listening => state = "Listening")
  BY DEF IInv, TypeOK, StateCovers
<1>. QED  BY <1>1, <1>2, <1>3, ReturnInv

-----------------------------------------------------------------------------
(* Finalize and the destructor *)

FirstStep ==
  CASE state = "Listening" -> "close"
    [] state = "IntfRegLocalEndptMap" -> "unmap"
    [] state = "IntfRegRuntimeLib" -> "unregister"
    [] state = "BindingsAcquired" -> "free"

(* The destructor enters the chain of releases where m_state tells it to. *)
LEMMA FinalizeInv ==
  ASSUME IInv, NEW t \in Threads, Finalize(t)
  PROVE  IInv'
<1>1. mutex = None /\ op[t] = "Finalize" /\ step = "idle" /\ Enter(t, "Finalize")
  BY DEF Finalize, Enter, IInv, LifeInv
<1>2. UNCHANGED <<state, secure, endpoints, bindings, registered, mapped, listening, calls>> /\ installed' = FALSE
  BY DEF Finalize, runtime
<1>3. installed <=> state # "NotInitialized"
  BY <1>1 DEF IInv, LifeInv, Finalizes
<1>4. StateCovers'
  BY <1>2 DEF IInv, StateCovers, Idle
<1>5. CASE installed
  <2>1. Proceed(t, FirstStep) /\ UNCHANGED todo
    BY <1>5 DEF Finalize, FirstStep
  <2>2. FirstStep \in Destructor
    BY <1>3, <1>5 DEF FirstStep, Destructor, IInv, TypeOK, States
  <2>3. /\ mutex' # None /\ op'[mutex'] # "idle" /\ step' = FirstStep
        /\ mutex' \in Threads \cup {None} /\ op' \in [Threads -> Operations \cup {"idle"}]
    <3>1. FirstStep \in Steps \ {"idle"} /\ "Finalize" \in Operations \ {"Initialize"}
      BY <2>2 DEF Destructor, Steps, Operations
    <3>. QED  BY <1>1, <2>1, <3>1, ProceedLife
  <2>4. TypeOK'
    BY <1>2, <2>1, <2>2, <2>3 DEF IInv, TypeOK, Steps, Destructor
  <2>5. LifeInv'
    <3>1. FirstStep \in Steps \ {"idle"} /\ "Finalize" \in Operations \ {"Initialize"}
      BY <2>2 DEF Destructor, Steps, Operations
    <3>2. state' # "NotInitialized"
      BY <1>2, <1>3, <1>5
    <3>. QED  BY <1>1, <1>2, <2>1, <2>2, <3>1, <3>2, ProceedLifeInv
  <2>6. StepInv'
    <3>1. /\ endpoints = mapped
          /\ \/ registered = {} /\ mapped = {}
             \/ registered = Objects /\ mapped = Interfaces
          /\ endpoints # {} => state \in {"IntfRegLocalEndptMap", "Listening"}
          /\ registered # {} => state \in {"IntfRegRuntimeLib", "IntfRegLocalEndptMap", "Listening"}
          /\ ~ Idle => state \in {"IntfRegLocalEndptMap", "Listening"}
          /\ listening => state = "Listening"
      BY <1>1 DEF IInv, StepInv, StateCovers
    <3>2. /\ step' = "close" => state = "Listening"
          /\ step' = "unmap" => state = "IntfRegLocalEndptMap"
          /\ step' = "unregister" => state = "IntfRegRuntimeLib"
          /\ step' = "free" => state = "BindingsAcquired"
          /\ step' \in {"close", "unmap", "unregister", "free"}
      BY <1>3, <1>5, <2>3 DEF FirstStep, IInv, TypeOK, States
    <3>3. Idle' <=> Idle
      BY <1>2 DEF Idle
    <3>. QED  BY <1>2, <3>1, <3>2, <3>3 DEF StepInv
  <2>. QED  BY <1>4, <2>4, <2>5, <2>6 DEF IInv
<1>6. CASE ~ installed
  <2>1. Leave(t)
    BY <1>6 DEF Finalize
  <2>2. UNCHANGED Lasting
    BY <1>2, <1>6 DEF Lasting, IInv, TypeOK
  <2>3. listening \in BOOLEAN /\ (listening => state = "Listening")
    BY DEF IInv, TypeOK, StateCovers
  <2>. QED  BY <1>1, <1>2, <2>1, <2>2, <2>3, ReturnInv
<1>. QED  BY <1>5, <1>6

(* A step of the destructor but the last. *)
LEMMA DestructorInv ==
  ASSUME IInv, NEW t \in Threads, NEW r \in {"close", "drain", "unmap", "unregister"},
         NEW s \in Destructor, At(t, r), Goto(s),
         UNCHANGED <<server, todo, bindings, calls>>,
         registered' \in {{}, registered}, mapped' \in {{}, mapped}, listening' \in {FALSE, listening},
         s = "drain" => state = "Listening" /\ UNCHANGED <<registered, mapped>> /\ r = "close",
         s \in {"drain", "unmap", "unregister", "free"} => ~ listening',
         s = "unmap" => mapped' = endpoints,
         s \in {"unregister", "free"} => mapped' = {},
         s = "free" => registered' = {} /\ Idle,
         s # "close"
  PROVE  IInv'
<1>1. /\ mutex = t /\ op[t] # "Initialize" /\ step = r /\ state # "NotInitialized" /\ ~ installed
      /\ mutex \in Threads \cup {None} /\ op \in [Threads -> Operations \cup {"idle"}]
  <2>1. r \in Steps \ {"idle"} /\ r \in Destructor
    BY DEF Steps, Destructor
  <2>. QED  BY <2>1, AtLife
<1>2. mutex' = mutex /\ op' = op /\ step' = s /\ s \in Steps
  BY DEF Goto, Steps, Destructor
<1>3. TypeOK'
  BY <1>1, <1>2 DEF IInv, TypeOK, server
<1>4. StateCovers'
  <2>1. listening' => listening
    OBVIOUS
  <2>2. Idle' <=> Idle
    BY DEF Idle
  <2>. QED  BY <2>1, <2>2 DEF IInv, StateCovers, server
<1>5. LifeInv'
  BY <1>1, GotoLifeInv DEF server, Steps, Destructor
<1>6. StepInv'
  <2>1. s = "drain" => /\ endpoints = mapped
                       /\ \/ registered = {} /\ mapped = {}
                          \/ registered = Objects /\ mapped = Interfaces
    BY <1>1 DEF IInv, StepInv
  <2>2. Idle' <=> Idle
    BY DEF Idle
  <2>3. CASE s = "drain"
    BY <1>2, <2>1, <2>3 DEF StepInv, server
  <2>4. CASE s = "unmap"
    BY <1>2, <2>4 DEF StepInv, server
  <2>5. CASE s \in {"unregister", "free"}
    BY <1>2, <2>2, <2>5 DEF StepInv, server
  <2>. QED  BY <2>3, <2>4, <2>5 DEF Destructor
<1>. QED  BY <1>3, <1>4, <1>5, <1>6 DEF IInv

(* Each release of the chain finds what the earlier ones left. *)
LEMMA DestructorStepsInv ==
  ASSUME IInv, NEW t \in Threads, Close(t) \/ Drain(t) \/ Unmap(t) \/ Unregister(t)
  PROVE  IInv'
<1>0. listening \in BOOLEAN
  BY DEF IInv, TypeOK
<1>1. CASE Close(t)
  <2>1. At(t, "close") /\ state = "Listening" /\ endpoints = mapped
    BY <1>1 DEF Close, At, IInv, StepInv
  <2>2. (listening /\ Goto("drain")) \/ (~ listening /\ Goto("unmap"))
    BY <1>1 DEF Close
  <2>3. UNCHANGED <<server, todo, bindings, calls, registered, mapped>> /\ listening' = FALSE
    BY <1>1 DEF Close
  <2>. QED  BY <2>1, <2>2, <2>3, DestructorInv DEF Destructor
<1>2. CASE Drain(t)
  <2>1. At(t, "drain") /\ Goto("unmap") /\ ~ listening /\ endpoints = mapped
    BY <1>2 DEF Drain, At, IInv, StepInv
  <2>2. UNCHANGED <<server, todo, bindings, calls, registered, mapped, listening>>
    BY <1>2 DEF Drain, runtime
  <2>. QED  BY <2>1, <2>2, DestructorInv DEF Destructor
<1>3. CASE Unmap(t)
  <2>1. At(t, "unmap") /\ Goto("unregister") /\ ~ listening /\ mapped' = {}
    BY <1>3 DEF Unmap, At, IInv, StepInv
  <2>2. UNCHANGED <<server, todo, bindings, calls, registered, listening>>
    BY <1>3 DEF Unmap
  <2>. QED  BY <2>1, <2>2, DestructorInv DEF Destructor
<1>4. CASE Unregister(t)
  <2>1. At(t, "unregister") /\ Goto("free") /\ ~ listening /\ mapped = {} /\ Idle /\ registered' = {}
    BY <1>4 DEF Unregister, At, IInv, StepInv
  <2>2. UNCHANGED <<server, todo, bindings, calls, mapped, listening>>
    BY <1>4 DEF Unregister
  <2>. QED  BY <2>1, <2>2, DestructorInv DEF Destructor
<1>. QED  BY <1>1, <1>2, <1>3, <1>4

(* The last step of the destructor: nothing is left. *)
LEMMA FreeInv ==
  ASSUME IInv, NEW t \in Threads, Free(t)
  PROVE  IInv'
<1>1. /\ At(t, "free") /\ mutex = t /\ step = "free" /\ op[t] # "Initialize"
      /\ state # "NotInitialized" /\ ~ installed
  BY AtLife DEF Free, Steps, Destructor
<1>2. /\ UNCHANGED <<installed, registered, mapped, listening, calls>> /\ Leave(t)
      /\ bindings' = bindings - 1 /\ state' = "NotInitialized" /\ secure' = FALSE /\ endpoints' = {}
  BY DEF Free
<1>3. /\ mutex' = None /\ step' = "idle" /\ todo' = {}
      /\ op' \in [Threads -> Operations \cup {"idle"}]
  BY <1>2, LeaveLife
<1>4. mapped = {} /\ registered = {} /\ ~ listening /\ Idle /\ bindings = 1
  BY <1>1 DEF IInv, StepInv, StateCovers
<1>5. TypeOK'
  <2>1. bindings' \in {0, 1} /\ state' \in States /\ step' \in Steps /\ mutex' \in Threads \cup {None}
    BY <1>2, <1>3, <1>4 DEF Steps, States
  <2>2. secure' \in BOOLEAN /\ endpoints' \subseteq Interfaces /\ todo' \subseteq Objects
    BY <1>2, <1>3
  <2>. QED  BY <1>2, <1>3, <2>1, <2>2 DEF IInv, TypeOK
<1>6. StateCovers'
  BY <1>2, <1>4 DEF StateCovers, Idle
<1>7. LifeInv'
  BY <1>1, <1>2, LeaveLifeInv
<1>8. StepInv'
  BY <1>2, <1>3, <1>4 DEF StepInv
<1>. QED  BY <1>5, <1>6, <1>7, <1>8 DEF IInv

-----------------------------------------------------------------------------
(* Clients, who touch nothing but the listener and their calls. *)
LEMMA ClientInv ==
  ASSUME IInv, NEW c \in Calls, Client(c)
  PROVE  IInv'
<1>1. UNCHANGED <<server, mutex, op, step, todo, bindings, registered, mapped>>
  BY DEF Client, Arrive, Authorise, Complete, Shutdown, CallAs
<1>2. /\ calls' \in [Calls -> {"none", "authorising", "running"}]
      /\ listening' \in {FALSE, listening}
      /\ Idle => Idle' \/ listening
  <2>1. CASE Shutdown(c)
    BY <2>1 DEF Shutdown, IInv, TypeOK, Idle
  <2>2. CASE Arrive(c)
    BY <2>2 DEF Arrive, CallAs, IInv, TypeOK
  <2>3. CASE Authorise(c)
    BY <2>3 DEF Authorise, CallAs, IInv, TypeOK, Idle
  <2>4. CASE Complete(c)
    BY <2>4 DEF Complete, CallAs, IInv, TypeOK, Idle
  <2>. QED  BY <2>1, <2>2, <2>3, <2>4 DEF Client
<1>3. TypeOK'
  BY <1>1, <1>2 DEF IInv, TypeOK, server
<1>4. StateCovers'
  <2>1. listening' => listening
    BY <1>2
  <2>2. ~ Idle' => ~ Idle \/ listening
    BY <1>2
  <2>. QED  BY <1>1, <2>1, <2>2 DEF IInv, StateCovers, server
<1>5. LifeInv'
  BY <1>1 DEF IInv, LifeInv, Finalizes, server
<1>6. StepInv'
  <2>1. /\ step' = step /\ state' = state /\ endpoints' = endpoints
        /\ registered' = registered /\ mapped' = mapped /\ todo' = todo
    BY <1>1 DEF server
  <2>2. ~ listening => ~ listening'
    BY <1>2 DEF IInv, TypeOK
  <2>3. ~ listening /\ Idle => Idle'
    BY <1>2
  <2>. QED  BY <2>1, <2>2, <2>3 DEF IInv, StepInv
<1>. QED  BY <1>3, <1>4, <1>5, <1>6 DEF IInv

-----------------------------------------------------------------------------
(* Every step keeps the invariant. *)
LEMMA NextInv ==
  ASSUME IInv, [Next]_vars
  PROVE  IInv'
<1>1. CASE UNCHANGED vars
  BY <1>1 DEF vars, server, runtime, IInv, TypeOK, StateCovers, LifeInv, StepInv, Idle, Finalizes
<1>2. ASSUME NEW t \in Threads, Enters(t)
      PROVE  IInv'
  BY <1>2, InitializeServerInv, StartInv, StopInv, ResumeInv, WaitInv, FinalizeInv DEF Enters
<1>3. ASSUME NEW t \in Threads, Proceeds(t)
      PROVE  IInv'
  BY <1>3, RegisterObjectInv, RegisterEndpointInv, ListenInv, RollbackInv, StopEndInv, WaitEndInv,
     DestructorStepsInv, FreeInv DEF Proceeds
<1>. QED  BY <1>1, <1>2, <1>3, CallInv, ClientInv DEF Next

(* The invariant of the server, for any threads, objects, interfaces and   *)
(* calls: m_state covers all that the process has with the run-time        *)
(* library, at every step of every function.                               *)
THEOREM Invariance == Spec => []IInv
<1>. QED  BY InitInv, NextInv, PTL DEF Spec

(* Every variable keeps its type: no function allocates bindings twice.    *)
THEOREM TypeCorrect == Spec => []TypeOK
<1>1. IInv => TypeOK
  BY DEF IInv
<1>. QED  BY <1>1, Invariance, PTL

(* A start registers all the objects and interfaces or leaves none behind. *)
THEOREM AtomicStart == Spec => []StartIsAtomic
<1>1. IInv => StartIsAtomic
  BY DEF IInv, LifeInv, StepInv, StartIsAtomic
<1>. QED  BY <1>1, Invariance, PTL

(* After Finalize the process has nothing with the run-time library.       *)
THEOREM CompleteFinalization == Spec => []NothingLeft
<1>1. ASSUME IInv, mutex = None, ~ installed
      PROVE  registered = {} /\ mapped = {} /\ bindings = 0 /\ ~ listening /\ Idle
  <2>1. step = "idle" /\ state = "NotInitialized"
    BY <1>1 DEF IInv, LifeInv, Finalizes
  <2>. QED  BY <1>1, <2>1 DEF IInv, StateCovers, StepInv
<1>2. IInv => NothingLeft
  BY <1>1 DEF NothingLeft
<1>. QED  BY <1>2, Invariance, PTL
===============================================================================
