-------------------------- MODULE OpenCLDeviceProofs --------------------------
(* Proofs about OpenCLDevice, for any buffers, addresses, kernels, faults and *)
(* any number of events.                                                     *)
EXTENDS OpenCLDevice, FiniteSetTheorems, TLAPS

(* What a use waits for waits for it in turn. *)
LEMMA OppositeInvolutive ==
  ASSUME NEW u \in MemResourceUse
  PROVE  Opposite(u) \in MemResourceUse /\ Opposite(Opposite(u)) = u
BY DEF Opposite, MemResourceUse

(* Nothing is enqueued: the initial state. *)
LEMMA InitOrder == Init => OrderInv
<1> SUFFICES ASSUME Init PROVE OrderInv
  OBVIOUS
<1>. USE TrackerAssumption DEF Init, TrackerInit
<1>1. TypeOK
  BY DEF TypeOK, Steps, Forms
<1>2. MapsAgree /\ NothingStale
  BY DEF MapsAgree, NothingStale
<1>3. IsFiniteSet(byEvent)
  BY FS_EmptySet
<1>4. Control
  BY DEF Control, EventsLeft
<1>5. Created /\ Tracked /\ Asked
  BY DEF Created, Tracked, Asked, Events
<1>6. WaitsForClashes /\ UserEvents
  BY DEF WaitsForClashes, UserEvents
<1>. QED  BY <1>1, <1>2, <1>3, <1>4, <1>5, <1>6 DEF OrderInv

(* An operation is called. *)
LEMMA CallInv ==
  ASSUME OrderInv, NEW f \in {"async", "sync", "map", "syncmap"}, NEW us \in SUBSET Uses,
         NEW t \in (Buffers \X MemResourceUse) \union {<<>>},
         f \in {"map", "syncmap"} => t # <<>>, Call(f, us, t)
  PROVE  OrderInv'
<1>. USE DEF OrderInv, Call, library, counts, outer, tracker
<1>1. TypeOK'
  BY DEF TypeOK, Ask, Steps, Forms
<1>2. MapsAgree' /\ IsFiniteSet(byEvent)' /\ NothingStale'
  BY DEF MapsAgree, NothingStale, Ended
<1>3. Control'
  BY TrackerAssumption DEF Control, TypeOK, Ask, EventsLeft, EventsOf
<1>4. Created' /\ UserEvents'
  BY DEF Created, UserEvents
<1>5. Tracked' /\ WaitsForClashes'
  BY DEF Tracked, WaitsForClashes, Ended, Clash
<1>6. Asked'
  BY DEF Asked
<1>. QED  BY <1>1, <1>2, <1>3, <1>4, <1>5, <1>6

(* The locals of a call go, with or without a fault. *)
LEMMA ReleaseInv ==
  ASSUME OrderInv, NEW keep \in SUBSET Events, NEW lost \in SUBSET Events, Release(keep, lost),
         step \notin {"user", "block"}, step \in {"remember", "hook"} => cmd \in lost,
         step = "remember" => todo = {}
  PROVE  OrderInv'
<1>. USE DEF OrderInv, Release, ClearLocals, library, tracker
<1>1. TypeOK'
  <2>1. ref' \in [Events -> Int] /\ held' \in [Events -> Nat]
    BY DEF TypeOK
  <2>2. faults' \in Nat
    BY DEF TypeOK
  <2>. QED  BY <2>1, <2>2 DEF TypeOK, Steps, Forms
<1>2. MapsAgree' /\ IsFiniteSet(byEvent)' /\ NothingStale'
  BY DEF MapsAgree, NothingStale, Ended
<1>3. Control'
  BY TrackerAssumption DEF Control, TypeOK, EventsLeft, EventsOf
<1>4. Created' /\ UserEvents'
  BY DEF Created, UserEvents
<1>5. Tracked' /\ WaitsForClashes'
  BY DEF Tracked, WaitsForClashes, Ended, Clash
<1>6. Asked'
  BY DEF Asked
<1>. QED  BY <1>1, <1>2, <1>3, <1>4, <1>5, <1>6

(* A wait of the application begins or ends, or an AsyncAction goes. *)
LEMMA WaitInv ==
  ASSUME OrderInv, Await \/ Finish \/ WaitEnds \/ Detach
  PROVE  OrderInv'
<1>. USE DEF OrderInv, Await, Finish, WaitEnds, Detach, ClearLocals, library, locals, counts, outer, tracker
<1>1. TypeOK'
  BY DEF TypeOK, Steps, Forms
<1>2. MapsAgree' /\ IsFiniteSet(byEvent)' /\ NothingStale'
  BY DEF MapsAgree, NothingStale, Ended
<1>3. Control'
  BY TrackerAssumption DEF Control, TypeOK, EventsLeft, EventsOf
<1>4. Created' /\ UserEvents'
  BY DEF Created, UserEvents
<1>5. Tracked' /\ WaitsForClashes'
  BY DEF Tracked, WaitsForClashes, Ended, Clash
<1>6. Asked'
  BY DEF Asked
<1>. QED  BY <1>1, <1>2, <1>3, <1>4, <1>5, <1>6

(* The blockers of one more use are found: nothing that clashes with it and  *)
(* is still to end escapes, for the tracker has it.                          *)
LEMMA FindBlockersInv ==
  ASSUME OrderInv, FindBlockers
  PROVE  OrderInv'
<1>. USE DEF OrderInv, library, outer, tracker
<1>1. PICK u \in todo : 
        /\ step = "ask"
        /\ blockers' = blockers \union GetDistinct(u[1], Opposite(u[2]))
        /\ ref' \in [Events -> Int] /\ held' \in [Events -> Nat]
        /\ todo' = todo \ {u}
        /\ step' = IF todo' = {} THEN "enqueue" ELSE "ask"
  <2>1. PICK u \in todo : FindBlockers!2!(u)
    BY DEF FindBlockers
  <2>2. ref' \in [Events -> Int] /\ held' \in [Events -> Nat]
    BY <2>1 DEF TypeOK
  <2>. QED  BY <2>1, <2>2 DEF FindBlockers
<1>2. UNCHANGED <<m_oooExecEnabled, library, form, target, uses, cmd, callbackDone, result, outer, tracker>>
  BY DEF FindBlockers
<1>3. u \in uses /\ u \in Uses /\ u = <<u[1], u[2]>> /\ u[2] \in MemResourceUse
  BY <1>1 DEF TypeOK, Uses
<1>4. GetDistinct(u[1], Opposite(u[2])) \subseteq Events
  BY DEF GetDistinct, TypeOK, Command
<1>5. TypeOK'
  BY <1>1, <1>2, <1>4 DEF TypeOK, Steps
<1>6. MapsAgree' /\ IsFiniteSet(byEvent)' /\ NothingStale'
  BY <1>1, <1>2 DEF MapsAgree, NothingStale, Ended
<1>7. Control'
  BY <1>1, <1>2 DEF Control, TypeOK, EventsLeft, EventsOf
<1>8. Created' /\ UserEvents'
  BY <1>2 DEF Created, UserEvents
<1>9. Tracked' /\ WaitsForClashes'
  BY <1>1, <1>2 DEF Tracked, WaitsForClashes, Ended, Clash
<1>10. Asked'
  <2> SUFFICES ASSUME m_oooExecEnabled, NEW y \in uses \ todo', NEW d \in Events, NEW x \in access[d],
                      Clash(x, y), ~Ended(d)
               PROVE  d \in blockers'
    BY <1>2 DEF Asked, Ended, Clash
  <2>1. CASE y # u
    BY <1>1, <2>1 DEF Asked
  <2>2. CASE y = u
    <3>1. x \in Uses /\ x[2] \in MemResourceUse /\ x[1] = u[1] /\ x[2] = Opposite(u[2])
      BY <2>2, OppositeInvolutive DEF Clash, TypeOK, Uses
    <3>2. [event |-> d, res |-> x[1], use |-> x[2]] \in byEvent
      BY <1>1 DEF Tracked
    <3>3. d \in GetDistinct(u[1], Opposite(u[2]))
      <4> DEFINE c == [event |-> d, res |-> x[1], use |-> x[2]]
      <4>1. c \in IF x[2] \in Reads THEN byRd ELSE byWr
        BY <3>1, <3>2 DEF MapsAgree, Reads, Writes, MemResourceUse
      <4>2. c.event = d /\ c.res = u[1] /\ c.use = Opposite(u[2])
        BY <3>1
      <4>. QED  BY <3>1, <4>1, <4>2 DEF GetDistinct
    <3>. QED  BY <1>1, <3>3
  <2>. QED  BY <2>1, <2>2
<1>. QED  BY <1>5, <1>6, <1>7, <1>8, <1>9, <1>10

(* A command is enqueued. The new event is the last one, and it waits for    *)
(* the blockers that were found.                                             *)
LEMMA NewCommandFacts ==
  ASSUME OrderInv, step = "enqueue", NEW n \in Nat, NEW k \in Nat, NewCommand(n, k)
  PROVE  /\ cmd' = next + 1 /\ next' = next + 1 /\ cmd' \in Events /\ cmd' \in 1..next'
         /\ status[cmd'] = "none" /\ access[cmd'] = {} /\ hook[cmd'] = "none" /\ doneOf[cmd'] = 0
         /\ \A e \in Events : e # cmd' => status'[e] = status[e] /\ access'[e] = access[e] /\ waits'[e] = waits[e]
         /\ status'[cmd'] = "queued" /\ access'[cmd'] = uses /\ waits'[cmd'] = blockers
         /\ next' + (EventsOf(form) - 1) <= MaxEvents
         /\ todo' = uses
         /\ ref' \in [Events -> Int] /\ held' \in [Events -> Nat]
         /\ status' \in [Events -> {"none", "queued", "running", "user", "complete", "aborted"}]
         /\ access' \in [Events -> SUBSET Uses] /\ waits' \in [Events -> SUBSET Events]
         /\ UNCHANGED <<m_oooExecEnabled, hook, form, target, uses, blockers, callbackDone, actions, doneOf, leaked,
                         faults, tracker>>
<1>. USE DEF NewCommand
<1>1. next + EventsOf(form) <= MaxEvents /\ EventsOf(form) \in 1..3
  BY DEF OrderInv, Control, EventsLeft, EventsOf
<1>2. next \in Nat
  BY DEF OrderInv, TypeOK
<1>3. cmd' = next + 1 /\ next' = next + 1 /\ cmd' \in Events /\ cmd' \in 1..next'
  BY <1>1, <1>2, TrackerAssumption DEF Events
<1>4. status[cmd'] = "none" /\ access[cmd'] = {} /\ hook[cmd'] = "none" /\ doneOf[cmd'] = 0
  BY <1>2, <1>3 DEF OrderInv, Created
<1>5. next' + (EventsOf(form) - 1) <= MaxEvents
  BY <1>1, <1>2, <1>3, TrackerAssumption
<1>6. /\ status \in [Events -> {"none", "queued", "running", "user", "complete", "aborted"}]
      /\ access \in [Events -> SUBSET Uses] /\ waits \in [Events -> SUBSET Events]
      /\ ref \in [Events -> Int] /\ held \in [Events -> Nat] /\ uses \subseteq Uses /\ blockers \subseteq Events
  BY DEF OrderInv, TypeOK
<1>. QED  BY <1>3, <1>4, <1>5, <1>6

(* What does not depend on where the call goes on. *)
LEMMA NewCommandInv ==
  ASSUME OrderInv, step = "enqueue", NEW n \in Nat, NEW k \in Nat, NewCommand(n, k)
  PROVE  /\ MapsAgree' /\ IsFiniteSet(byEvent)' /\ NothingStale' /\ Created' /\ WaitsForClashes' /\ UserEvents'
         /\ \A e \in Events, x \in Uses :
              m_oooExecEnabled /\ x \in access'[e] /\ e # cmd' /\ status'[e] \notin {"complete", "aborted"}
                => [event |-> e, res |-> x[1], use |-> x[2]] \in byEvent'
<1>1. MapsAgree' /\ IsFiniteSet(byEvent)'
  BY NewCommandFacts DEF OrderInv, MapsAgree, tracker
<1>2. NothingStale'
  BY NewCommandFacts DEF OrderInv, NothingStale, tracker
<1>3. Created'
  <2> SUFFICES ASSUME NEW e \in Events
               PROVE  /\ status'[e] = "none" <=> e > next'
                      /\ status'[e] \in {"none", "user"} => access'[e] = {}
                      /\ e > next' => hook'[e] = "none" /\ doneOf'[e] = 0
                      /\ doneOf'[e] <= next'
    BY DEF Created
  <2>1. next \in Nat /\ e \in Nat /\ doneOf[e] \in Nat
    BY TrackerAssumption DEF OrderInv, TypeOK, Events
  <2>2. CASE e = cmd'
    BY <2>1, <2>2, NewCommandFacts
  <2>3. CASE e # cmd'
    BY <2>1, <2>3, NewCommandFacts DEF OrderInv, Created
  <2>. QED  BY <2>2, <2>3
<1>4. WaitsForClashes'
  <2> SUFFICES ASSUME m_oooExecEnabled, NEW d \in Events, NEW e \in Events, d < e, status'[e] = "queued",
                      NEW x \in access'[d], NEW y \in access'[e], Clash(x, y)
               PROVE  Ended(d)' \/ d \in waits'[e]
    BY NewCommandFacts DEF WaitsForClashes, Clash
  <2>1. CASE e = cmd'
    <3>1. d # cmd' /\ x \in access[d] /\ y \in uses
      <4>1. d # cmd'
        BY <2>1, TrackerAssumption DEF Events
      <4>. QED  BY <2>1, <4>1, NewCommandFacts
    <3>2. todo = {}
      BY DEF OrderInv, Control
    <3>3. Ended(d) \/ d \in blockers
      BY <3>1, <3>2 DEF OrderInv, Asked
    <3>. QED  BY <2>1, <3>1, <3>3, NewCommandFacts DEF Ended
  <2>2. CASE e # cmd'
    <3>1. d # cmd'
      <4> SUFFICES ASSUME d = cmd' PROVE FALSE
        OBVIOUS
      <4>1. next \in Nat /\ e \in Int
        BY TrackerAssumption DEF OrderInv, TypeOK, Events
      <4>4. cmd' = next + 1
        BY NewCommandFacts
      <4>3. e > next
        BY <4>1, <4>4
      <4>2. status[e] = "none"
        BY <4>3 DEF OrderInv, Created
      <4>. QED  BY <2>2, <4>2, NewCommandFacts
    <3>. QED  BY <2>2, <3>1, NewCommandFacts DEF OrderInv, WaitsForClashes, Ended
  <2>. QED  BY <2>1, <2>2
<1>5. UserEvents'
  <2>1. \A m \in Events : doneOf[m] # 0 => doneOf[m] \in Events
    BY DEF OrderInv, TypeOK
  <2>2. \A m \in Events : status[m] = "user" => status'[m] = "user"
    BY NewCommandFacts
  <2>. QED  BY <2>1, <2>2, NewCommandFacts DEF OrderInv, UserEvents
<1>6. ASSUME NEW e \in Events, NEW x \in Uses, m_oooExecEnabled, x \in access'[e], e # cmd',
             status'[e] \notin {"complete", "aborted"}
      PROVE  [event |-> e, res |-> x[1], use |-> x[2]] \in byEvent'
  BY <1>6, NewCommandFacts DEF OrderInv, Tracked, Ended, tracker
<1>. QED  BY <1>1, <1>2, <1>3, <1>4, <1>5, <1>6

(* An asynchronous command goes on to be remembered: until then, the call is *)
(* what knows of it.                                                         *)
LEMMA EnqueueAsyncInv ==
  ASSUME OrderInv, EnqueueAsync
  PROVE  OrderInv'
<1>1. PICK n \in Nat, k \in Nat : NewCommand(n, k)
  BY DEF EnqueueAsync
<1>2. /\ step = "enqueue" /\ form \in {"async", "unmap"} /\ result' = cmd'
      /\ step' = IF ~m_oooExecEnabled THEN "return" ELSE IF uses = {} THEN "hook" ELSE "remember"
  BY DEF EnqueueAsync
<1>. USE <1>1, <1>2
<1>3. TypeOK'
  <2>1. TypeOK
    BY DEF OrderInv
  <2>2. next' \in Nat
    BY <2>1, NewCommandFacts DEF TypeOK
  <2>. QED  BY <2>1, <2>2, NewCommandFacts DEF TypeOK, Steps, tracker
<1>4. /\ MapsAgree' /\ IsFiniteSet(byEvent)' /\ NothingStale' /\ Created' /\ WaitsForClashes' /\ UserEvents'
      /\ \A e \in Events, x \in Uses :
           m_oooExecEnabled /\ x \in access'[e] /\ e # cmd' /\ status'[e] \notin {"complete", "aborted"}
             => [event |-> e, res |-> x[1], use |-> x[2]] \in byEvent'
  BY NewCommandInv
<1>5. Control'
  <2>1. next' + EventsLeft' <= MaxEvents
    <3>1. EventsLeft' = 0 /\ EventsOf(form) = 1
      BY NewCommandFacts DEF EventsLeft, EventsOf
    <3>2. next' \in Nat
      BY <1>3 DEF TypeOK
    <3>. QED  BY <3>1, <3>2, NewCommandFacts, TrackerAssumption
  <2>2. form = "unmap" => callbackDone' \in 1..next'
    <3>1. next \in Nat /\ next' = next + 1 /\ callbackDone' = callbackDone
      BY NewCommandFacts DEF OrderInv, TypeOK
    <3>2. form = "unmap" => callbackDone \in 1..next
      BY DEF OrderInv, Control
    <3>. QED  BY ONLY <3>1, <3>2
  <2>. QED  BY <2>1, <2>2, NewCommandFacts DEF Control
<1>6. Tracked'
  <2> SUFFICES ASSUME m_oooExecEnabled', NEW e \in Events, NEW x \in access'[e], ~Ended(e)'
               PROVE  \/ [event |-> e, res |-> x[1], use |-> x[2]] \in byEvent'
                      \/ e = cmd' /\ step' \in {"user", "remember"} /\ x \in todo'
    BY DEF Tracked
  <2>1. x \in Uses /\ m_oooExecEnabled
    BY <1>3, NewCommandFacts DEF TypeOK
  <2>2. CASE e = cmd'
    <3>1. x \in uses /\ todo' = uses
      BY <2>2, NewCommandFacts
    <3>. QED  BY <2>1, <2>2, <3>1
  <2>3. CASE e # cmd'
    BY <1>4, <2>1, <2>3 DEF Ended
  <2>. QED  BY <2>2, <2>3
<1>7. Asked'
  BY DEF Asked
<1>. QED  BY <1>3, <1>4, <1>5, <1>6, <1>7 DEF OrderInv

(* A blocking command: the call itself waits for it, and when it does not,   *)
(* there is nothing that the command uses.                                   *)
LEMMA EnqueueBlockingInv ==
  ASSUME OrderInv, EnqueueBlocking
  PROVE  OrderInv'
<1>1. PICK n \in Nat, k \in Nat : NewCommand(n, k)
  BY DEF EnqueueBlocking
<1>2. /\ step = "enqueue" /\ form \in {"sync", "syncmap", "syncunmap"} /\ result' = 0
      /\ step' = IF form = "syncunmap" /\ uses = {} THEN "return" ELSE "block"
  BY DEF EnqueueBlocking
<1>. USE <1>1, <1>2
<1>3. TypeOK'
  <2>1. TypeOK
    BY DEF OrderInv
  <2>2. next' \in Nat
    BY <2>1, NewCommandFacts DEF TypeOK
  <2>. QED  BY <2>1, <2>2, NewCommandFacts DEF TypeOK, Steps, tracker
<1>4. /\ MapsAgree' /\ IsFiniteSet(byEvent)' /\ NothingStale' /\ Created' /\ WaitsForClashes' /\ UserEvents'
      /\ \A e \in Events, x \in Uses :
           m_oooExecEnabled /\ x \in access'[e] /\ e # cmd' /\ status'[e] \notin {"complete", "aborted"}
             => [event |-> e, res |-> x[1], use |-> x[2]] \in byEvent'
  BY NewCommandInv
<1>5. Control'
  <2>1. next' + EventsLeft' <= MaxEvents
    <3>1. EventsLeft' = EventsOf(form) - 1
      BY NewCommandFacts DEF EventsLeft, EventsOf
    <3>. QED  BY <3>1, NewCommandFacts
  <2>2. form = "syncmap" => target # <<>>
    BY DEF OrderInv, Control
  <2>. QED  BY <2>1, <2>2, NewCommandFacts DEF Control
<1>6. Tracked'
  <2> SUFFICES ASSUME m_oooExecEnabled', NEW e \in Events, NEW x \in access'[e], ~Ended(e)'
               PROVE  \/ [event |-> e, res |-> x[1], use |-> x[2]] \in byEvent'
                      \/ e = cmd' /\ step' = "block"
    BY DEF Tracked
  <2>1. x \in Uses /\ m_oooExecEnabled
    BY <1>3, NewCommandFacts DEF TypeOK
  <2>2. CASE e = cmd'
    <3>1. x \in uses
      BY <2>2, NewCommandFacts
    <3>. QED  BY <2>2, <3>1
  <2>3. CASE e # cmd'
    BY <1>4, <2>1, <2>3 DEF Ended
  <2>. QED  BY <2>2, <2>3
<1>7. Asked'
  BY DEF Asked
<1>. QED  BY <1>3, <1>4, <1>5, <1>6, <1>7 DEF OrderInv

(* The map command of an asynchronous map. *)
LEMMA EnqueueMapInv ==
  ASSUME OrderInv, EnqueueMap
  PROVE  OrderInv'
<1>1. NewCommand(2, 1) /\ step = "enqueue" /\ form = "map" /\ step' = "user" /\ result' = 0
  BY DEF EnqueueMap
<1>. USE <1>1
<1>3. TypeOK'
  <2>1. TypeOK
    BY DEF OrderInv
  <2>2. next' \in Nat
    BY <2>1, NewCommandFacts DEF TypeOK
  <2>. QED  BY <2>1, <2>2, NewCommandFacts DEF TypeOK, Steps, tracker
<1>4. /\ MapsAgree' /\ IsFiniteSet(byEvent)' /\ NothingStale' /\ Created' /\ WaitsForClashes' /\ UserEvents'
      /\ \A e \in Events, x \in Uses :
           m_oooExecEnabled /\ x \in access'[e] /\ e # cmd' /\ status'[e] \notin {"complete", "aborted"}
             => [event |-> e, res |-> x[1], use |-> x[2]] \in byEvent'
  BY NewCommandInv
<1>5. Control'
  <2>1. next' + EventsLeft' <= MaxEvents
    <3>1. EventsLeft' = EventsOf(form) - 1
      BY NewCommandFacts DEF EventsLeft, EventsOf
    <3>. QED  BY <3>1, NewCommandFacts
  <2>2. target # <<>>
    BY DEF OrderInv, Control
  <2>. QED  BY <2>1, <2>2, NewCommandFacts DEF Control
<1>6. Tracked'
  <2> SUFFICES ASSUME m_oooExecEnabled', NEW e \in Events, NEW x \in access'[e], ~Ended(e)'
               PROVE  \/ [event |-> e, res |-> x[1], use |-> x[2]] \in byEvent'
                      \/ e = cmd' /\ step' = "user" /\ x \in todo'
    BY DEF Tracked
  <2>1. x \in Uses /\ m_oooExecEnabled
    BY <1>3, NewCommandFacts DEF TypeOK
  <2>2. CASE e = cmd'
    BY <2>2, NewCommandFacts
  <2>3. CASE e # cmd'
    BY <1>4, <2>1, <2>3 DEF Ended
  <2>. QED  BY <2>2, <2>3
<1>7. Asked'
  BY DEF Asked
<1>. QED  BY <1>3, <1>4, <1>5, <1>6, <1>7 DEF OrderInv

(* The user event of an asynchronous map is created. *)
LEMMA CreateUserEventInv ==
  ASSUME OrderInv, CreateUserEvent
  PROVE  OrderInv'
<1>. DEFINE u == next + 1
<1>1. /\ step = "user" /\ form = "map" /\ todo = uses /\ target # <<>> /\ next + 2 <= MaxEvents
      /\ cmd \in 1..next /\ hook[cmd] = "none" /\ next \in Nat
  BY DEF CreateUserEvent, OrderInv, Control, EventsLeft, TypeOK
<1>2. u \in Events /\ cmd \in Events /\ u # cmd /\ u # 0
  BY <1>1, TrackerAssumption DEF Events
<1>3. status[u] = "none" /\ access[u] = {} /\ hook[u] = "none" /\ doneOf[u] = 0
  BY <1>1, <1>2 DEF OrderInv, Created
<1>4. /\ next' = u /\ callbackDone' = u
      /\ status' = [status EXCEPT ![u] = "user"] /\ doneOf' = [doneOf EXCEPT ![cmd] = u]
      /\ step' = IF m_oooExecEnabled /\ uses # {} THEN "remember" ELSE "hook"
      /\ ref' = [ref EXCEPT ![u] = 2] /\ held' = [held EXCEPT ![u] = 1]
      /\ UNCHANGED <<m_oooExecEnabled, access, waits, hook, form, target, uses, todo, blockers, cmd, result,
                     actions, leaked, faults, tracker>>
  BY DEF CreateUserEvent
<1>5. TypeOK'
  <2>1. TypeOK
    BY DEF OrderInv
  <2>2. status' \in [Events -> {"none", "queued", "running", "user", "complete", "aborted"}]
    BY <1>4, <2>1 DEF TypeOK
  <2>3. doneOf' \in [Events -> Events \union {0}]
    BY <1>2, <1>4, <2>1 DEF TypeOK
  <2>4. ref' \in [Events -> Int] /\ held' \in [Events -> Nat]
    <3>1. ref \in [Events -> Int] /\ held \in [Events -> Nat]
      BY <2>1 DEF TypeOK
    <3>2. ref' = [ref EXCEPT ![u] = 2] /\ held' = [held EXCEPT ![u] = 1]
      BY <1>4
    <3>3. ref' = [e \in Events |-> IF e = u THEN 2 ELSE ref[e]]
      BY <3>1, <3>2
    <3>4. held' = [e \in Events |-> IF e = u THEN 1 ELSE held[e]]
      BY <3>1, <3>2
    <3>. QED  BY ONLY <3>1, <3>3, <3>4
  <2>5. next' \in Nat
    BY <1>1, <1>4
  <2>. QED  BY <1>2, <1>4, <2>1, <2>2, <2>3, <2>4, <2>5 DEF TypeOK, Steps, tracker
<1>6. \A e \in Events : e # u => status'[e] = status[e]
  BY <1>4 DEF OrderInv, TypeOK
<1>7. status'[u] = "user"
  BY <1>2, <1>4 DEF OrderInv, TypeOK
<1>8. MapsAgree' /\ IsFiniteSet(byEvent)' /\ NothingStale'
  BY <1>1, <1>4 DEF OrderInv, MapsAgree, NothingStale, tracker
<1>9. Control'
  BY <1>1, <1>4 DEF Control, EventsLeft
<1>10. Created'
  <2> SUFFICES ASSUME NEW e \in Events
               PROVE  /\ status'[e] = "none" <=> e > next'
                      /\ status'[e] \in {"none", "user"} => access'[e] = {}
                      /\ e > next' => hook'[e] = "none" /\ doneOf'[e] = 0
                      /\ doneOf'[e] <= next'
    BY DEF Created
  <2>1. e \in Nat
    BY TrackerAssumption DEF Events
  <2>2. CASE e = u
    <3>1. doneOf'[e] = 0
      BY <1>2, <1>3, <1>4, <2>2 DEF OrderInv, TypeOK
    <3>. QED  BY <1>1, <1>2, <1>3, <1>4, <1>7, <2>2, <3>1
  <2>3. CASE e # u
    <3>1. e > next' <=> e > next
      BY <1>1, <1>4, <2>1, <2>3
    <3>2. e > next' => e # cmd
      BY <1>1, <2>1, <3>1
    <3>3. e > next => doneOf'[e] = doneOf[e]
      BY <1>4, <3>1, <3>2 DEF OrderInv, TypeOK
    <3>4. doneOf[e] <= next /\ doneOf[e] \in Nat
      BY TrackerAssumption DEF OrderInv, TypeOK, Created, Events
    <3>5. doneOf'[e] <= next'
      BY <1>1, <1>4, <3>4 DEF OrderInv, TypeOK
    <3>. QED  BY <1>4, <1>6, <2>3, <3>1, <3>3, <3>5 DEF OrderInv, Created
  <2>. QED  BY <2>2, <2>3
<1>11. Tracked'
  <2>1. \A e \in Events : Ended(e) => Ended(e)'
    BY <1>3, <1>6 DEF Ended
  <2>2. step' = "hook" /\ m_oooExecEnabled => uses = {}
    BY <1>4
  <2>. QED  BY <1>1, <1>4, <2>1, <2>2 DEF OrderInv, Tracked, tracker
<1>12. Asked'
  BY <1>4 DEF Asked
<1>13. WaitsForClashes'
  <2>1. \A e \in Events : Ended(e) => Ended(e)'
    BY <1>3, <1>6 DEF Ended
  <2>2. \A e \in Events : status'[e] = "queued" => status[e] = "queued"
    BY <1>6, <1>7
  <2>. QED  BY <1>4, <2>1, <2>2 DEF OrderInv, WaitsForClashes, Clash
<1>14. UserEvents'
  <2>1. \A m \in Events : doneOf[m] \in Events \union {0} /\ doneOf[m] # u
    BY <1>1, TrackerAssumption DEF OrderInv, TypeOK, Created, Events
  <2>2. \A m \in Events : m # cmd => doneOf'[m] = doneOf[m]
    BY <1>4 DEF OrderInv, TypeOK
  <2>3. doneOf'[cmd] = u
    BY <1>2, <1>4 DEF OrderInv, TypeOK
  <2>4. \A m \in Events : status[m] = "user" => status'[m] = "user"
    BY <1>6, <1>7
  <2>. QED  BY <1>4, <1>7, <2>1, <2>2, <2>3, <2>4 DEF OrderInv, UserEvents
<1>. QED  BY <1>5, <1>8, <1>9, <1>10, <1>11, <1>12, <1>13, <1>14 DEF OrderInv

(* A use of the new command is remembered. *)
LEMMA RememberUseInv ==
  ASSUME OrderInv, RememberUse
  PROVE  OrderInv'
<1>1. PICK x \in todo :
        /\ step = "remember" /\ Remember(x[1], x[2], cmd)
        /\ ref' = [ref EXCEPT ![cmd] = @ + 1]
        /\ todo' = todo \ {x} /\ step' = IF todo' = {} THEN "hook" ELSE "remember"
  BY DEF RememberUse
<1>2. UNCHANGED <<m_oooExecEnabled, library, held, form, target, uses, blockers, cmd, callbackDone, result, outer>>
  BY DEF RememberUse
<1>. USE DEF library, outer
<1>. DEFINE c == [event |-> cmd, res |-> x[1], use |-> x[2]]
<1>3. x \in Uses /\ x[1] \in Resources /\ x[2] \in MemResourceUse
  BY <1>1 DEF OrderInv, TypeOK, Uses
<1>4. cmd \in Events /\ cmd \in 1..next /\ form \in {"async", "map", "unmap"} /\ hook[cmd] = "none" /\ m_oooExecEnabled
  BY <1>1, TrackerAssumption DEF OrderInv, TypeOK, Control, Events
<1>5. c \in Command
  BY <1>3, <1>4 DEF Command
<1>6. /\ byEvent' = byEvent \union {c}
      /\ byRd' = IF x[2] \in Reads THEN byRd \union {c} ELSE byRd
      /\ byWr' = IF x[2] \in Writes THEN byWr \union {c} ELSE byWr
  BY <1>1 DEF Remember
<1>7. TypeOK'
  <2>1. TypeOK
    BY DEF OrderInv
  <2>2. ref' \in [Events -> Int]
    BY <1>1, <1>4, <2>1 DEF TypeOK
  <2>. QED  BY <1>1, <1>2, <1>5, <1>6, <2>1, <2>2 DEF TypeOK, Steps
<1>8. MapsAgree' /\ IsFiniteSet(byEvent)'
  <2>1. IsFiniteSet(byEvent')
    BY <1>6, FS_AddElement DEF OrderInv
  <2>2. c.use = x[2]
    OBVIOUS
  <2>. QED  BY <1>6, <2>1, <2>2 DEF OrderInv, MapsAgree
<1>9. NothingStale'
  <2> SUFFICES ASSUME NEW b \in byEvent'
               PROVE  \/ hook'[b.event] \in {"generic", "map"}
                      \/ b.event = cmd' /\ step' \in {"remember", "hook"}
                      \/ b.event \in leaked'
    BY DEF NothingStale
  <2>1. step' \in {"remember", "hook"}
    BY <1>1
  <2>2. CASE b = c
    BY <1>2, <2>1, <2>2
  <2>3. CASE b \in byEvent
    BY <1>2, <2>1, <2>3 DEF OrderInv, NothingStale
  <2>. QED  BY <1>6, <2>2, <2>3
<1>10. Control'
  BY <1>1, <1>2, <1>4 DEF OrderInv, Control, EventsLeft
<1>11. Created' /\ UserEvents' /\ WaitsForClashes'
  BY <1>2 DEF OrderInv, Created, UserEvents, WaitsForClashes, Clash, Ended
<1>12. Tracked'
  <2> SUFFICES ASSUME NEW e \in Events, NEW y \in access[e], ~Ended(e)
               PROVE  \/ [event |-> e, res |-> y[1], use |-> y[2]] \in byEvent'
                      \/ e = cmd /\ step' = "remember" /\ y \in todo'
    BY <1>2 DEF Tracked, Ended
  <2>1. \/ [event |-> e, res |-> y[1], use |-> y[2]] \in byEvent
        \/ e = cmd /\ y \in todo
    BY <1>1, <1>4 DEF OrderInv, Tracked
  <2>2. CASE e = cmd /\ y = x
    BY <1>6, <2>2
  <2>3. CASE e = cmd /\ y \in todo /\ y # x
    BY <1>1, <2>3
  <2>. QED  BY <1>6, <2>1, <2>2, <2>3
<1>13. Asked'
  BY <1>1 DEF Asked
<1>. QED  BY <1>7, <1>8, <1>9, <1>10, <1>11, <1>12, <1>13 DEF OrderInv

(* The callback is set. An asynchronous map goes on to unmap, and has asked  *)
(* for nothing yet.                                                          *)
LEMMA SetCallbackInv ==
  ASSUME OrderInv, SetCallback
  PROVE  OrderInv'
<1>1. /\ step = "hook" /\ cmd \in Events /\ cmd \in 1..next /\ form \in {"async", "map", "unmap"} /\ hook[cmd] = "none"
  BY TrackerAssumption DEF SetCallback, OrderInv, TypeOK, Control, Events
<1>2. hook' = [hook EXCEPT ![cmd] = IF form = "map" THEN "map" ELSE "generic"]
  BY DEF SetCallback
<1>3. UNCHANGED <<m_oooExecEnabled, status, access, waits, target, cmd, callbackDone, result, outer, tracker>>
  BY DEF SetCallback
<1>. USE DEF outer, tracker
<1>4. /\ form = "map" => /\ form' = "unmap" /\ uses' = UnmapUses(target[1], target[2]) /\ todo' = uses'
                        /\ blockers' = {callbackDone} /\ step' = Ask(uses')
      /\ form # "map" => step' = "return" /\ UNCHANGED <<form, uses, todo, blockers>>
  BY DEF SetCallback, NowUnmap
<1>5. TypeOK'
  <2>1. TypeOK
    BY DEF OrderInv
  <2>2. ref' \in [Events -> Int] /\ held' \in [Events -> Nat]
    <3>1. CASE form = "map"
      <4>1. callbackDone \in Events
        BY <1>1, <3>1, TrackerAssumption DEF OrderInv, Control, TypeOK, Events
      <4>2. /\ ref' = [ref EXCEPT ![callbackDone] = ref[callbackDone] + 1]
            /\ held' = [held EXCEPT ![callbackDone] = held[callbackDone] + 1]
        BY <3>1 DEF SetCallback
      <4>. QED  BY <2>1, <4>1, <4>2 DEF TypeOK
    <3>2. CASE form # "map"
      BY <2>1, <3>2 DEF SetCallback, TypeOK, counts
    <3>. QED  BY <3>1, <3>2
  <2>3. hook' \in [Events -> {"none", "generic", "map", "calling", "done"}]
    BY <1>2, <2>1 DEF TypeOK
  <2>4. CASE form = "map"
    <3>1. callbackDone \in Events
      BY <1>1, <2>4, TrackerAssumption DEF OrderInv, Control, TypeOK, Events
    <3>2. target \in Buffers \X MemResourceUse
      BY <2>1, <2>4 DEF OrderInv, Control, TypeOK
    <3>3. uses' \subseteq Uses /\ step' \in Steps
      BY <1>4, <2>4, <3>2 DEF UnmapUses, Uses, Resources, MemResourceUse, Ask, Steps
    <3>. QED  BY <1>3, <1>4, <2>1, <2>2, <2>3, <2>4, <3>1, <3>3 DEF TypeOK, Forms
  <2>5. CASE form # "map"
    BY <1>3, <1>4, <2>1, <2>2, <2>3, <2>5 DEF TypeOK, Steps
  <2>. QED  BY <2>4, <2>5
<1>6. \A e \in Events : e # cmd => hook'[e] = hook[e]
  BY <1>2 DEF OrderInv, TypeOK
<1>7. hook'[cmd] = IF form = "map" THEN "map" ELSE "generic"
  BY <1>1, <1>2 DEF OrderInv, TypeOK
<1>8. MapsAgree' /\ IsFiniteSet(byEvent)'
  BY <1>3 DEF OrderInv, MapsAgree
<1>9. NothingStale'
  <2> SUFFICES ASSUME NEW b \in byEvent
               PROVE  hook'[b.event] \in {"generic", "map"} \/ b.event \in leaked
    BY <1>3 DEF NothingStale
  <2>1. b.event \in Events
    BY DEF OrderInv, TypeOK, Command
  <2>. QED  BY <1>6, <1>7, <2>1 DEF OrderInv, NothingStale
<1>10. Control'
  BY <1>1, <1>3, <1>4, TrackerAssumption DEF OrderInv, Control, EventsLeft, EventsOf, Ask, TypeOK
<1>11. Created'
  <2>1. \A e \in Events : e > next => e # cmd
    BY <1>1 DEF OrderInv, TypeOK
  <2>. QED  BY <1>3, <1>6, <2>1 DEF OrderInv, Created
<1>12. UserEvents'
  BY <1>1, <1>3, <1>6, <1>7 DEF OrderInv, UserEvents
<1>13. WaitsForClashes'
  BY <1>3 DEF OrderInv, WaitsForClashes, Clash, Ended
<1>14. Tracked'
  BY <1>1, <1>3 DEF OrderInv, Tracked, Ended
<1>15. Asked'
  <2>1. form = "map" => uses' \ todo' = {}
    BY <1>4
  <2>2. form # "map" => step' = "return"
    BY <1>4
  <2>. QED  BY <2>1, <2>2 DEF Asked
<1>. QED  BY <1>5, <1>8, <1>9, <1>10, <1>11, <1>12, <1>13, <1>14, <1>15 DEF OrderInv

(* The unmap command of a buffer that was only read uses no memory. *)
LEMMA EnqueueUnmapAfterReadingInv ==
  ASSUME OrderInv, EnqueueUnmapAfterReading
  PROVE  OrderInv'
<1>. DEFINE u == next + 1
<1>1. step = "enqueue" /\ form = "unmap" /\ uses = {} /\ next \in Nat /\ next + 1 <= MaxEvents /\ callbackDone \in 1..next
  BY DEF EnqueueUnmapAfterReading, OrderInv, Control, EventsLeft, EventsOf, TypeOK
<1>2. u \in Events /\ callbackDone \in Events /\ u # callbackDone
  BY <1>1, TrackerAssumption DEF Events
<1>3. status[u] = "none" /\ access[u] = {} /\ hook[u] = "none" /\ doneOf[u] = 0
  BY <1>1, <1>2 DEF OrderInv, Created
<1>4. /\ next' = u /\ status' = [status EXCEPT ![u] = "queued"] /\ waits' = [waits EXCEPT ![u] = {callbackDone}]
      /\ ref' = [ref EXCEPT ![callbackDone] = ref[callbackDone] + 1]
      /\ held' = [held EXCEPT ![callbackDone] = held[callbackDone] + 1]
      /\ result' = callbackDone /\ step' = "return"
      /\ UNCHANGED <<m_oooExecEnabled, access, hook, form, target, uses, todo, blockers, cmd, callbackDone,
                     actions, doneOf, leaked, faults, tracker>>
  BY DEF EnqueueUnmapAfterReading
<1>5. TypeOK'
  <2>1. TypeOK
    BY DEF OrderInv
  <2>2. /\ status' \in [Events -> {"none", "queued", "running", "user", "complete", "aborted"}]
        /\ waits' \in [Events -> SUBSET Events]
    BY <1>2, <1>4, <2>1 DEF TypeOK
  <2>3. ref' \in [Events -> Int] /\ held' \in [Events -> Nat]
    BY <1>2, <1>4, <2>1 DEF TypeOK
  <2>4. next' \in Nat
    BY <1>1, <1>4
  <2>. QED  BY <1>2, <1>4, <2>1, <2>2, <2>3, <2>4 DEF TypeOK, Steps, tracker
<1>6. \A e \in Events : e # u => status'[e] = status[e] /\ waits'[e] = waits[e]
  BY <1>4 DEF OrderInv, TypeOK
<1>7. status'[u] = "queued"
  BY <1>2, <1>4 DEF OrderInv, TypeOK
<1>8. MapsAgree' /\ IsFiniteSet(byEvent)' /\ NothingStale'
  BY <1>1, <1>4 DEF OrderInv, MapsAgree, NothingStale, tracker
<1>9. Control'
  <2>1. callbackDone' \in 1..next'
    BY <1>1, <1>4
  <2>2. next' + EventsLeft' <= MaxEvents
    BY <1>1, <1>4, TrackerAssumption DEF EventsLeft
  <2>. QED  BY <1>1, <1>4, <2>1, <2>2 DEF Control
<1>10. Created'
  <2> SUFFICES ASSUME NEW e \in Events
               PROVE  /\ status'[e] = "none" <=> e > next'
                      /\ status'[e] \in {"none", "user"} => access[e] = {}
                      /\ e > next' => hook[e] = "none" /\ doneOf[e] = 0
                      /\ doneOf[e] <= next'
    BY <1>4 DEF Created
  <2>1. e \in Nat /\ doneOf[e] \in Nat /\ doneOf[e] <= next
    BY TrackerAssumption DEF OrderInv, TypeOK, Created, Events
  <2>2. CASE e = u
    BY <1>1, <1>3, <1>4, <1>7, <2>1, <2>2
  <2>3. CASE e # u
    <3>1. e > next' <=> e > next
      BY <1>1, <1>4, <2>1, <2>3
    <3>2. doneOf[e] <= next'
      BY <1>1, <1>4, <2>1
    <3>. QED  BY <1>6, <2>3, <3>1, <3>2 DEF OrderInv, Created
  <2>. QED  BY <2>2, <2>3
<1>11. Tracked'
  <2>1. \A e \in Events : Ended(e) => Ended(e)'
    BY <1>3, <1>6 DEF Ended
  <2>. QED  BY <1>1, <1>4, <2>1 DEF OrderInv, Tracked, tracker
<1>12. Asked'
  BY <1>4 DEF Asked
<1>13. WaitsForClashes'
  <2>1. \A e \in Events : Ended(e) => Ended(e)'
    BY <1>3, <1>6 DEF Ended
  <2>. QED  BY <1>3, <1>4, <1>6, <2>1 DEF OrderInv, WaitsForClashes, Clash
<1>14. UserEvents'
  <2>1. \A m \in Events : status[m] = "user" => status'[m] = "user"
    BY <1>3, <1>6
  <2>2. \A m \in Events : doneOf[m] \in Events \union {0}
    BY DEF OrderInv, TypeOK
  <2>. QED  BY <1>4, <2>1, <2>2 DEF OrderInv, UserEvents
<1>. QED  BY <1>5, <1>8, <1>9, <1>10, <1>11, <1>12, <1>13, <1>14 DEF OrderInv

(* A blocking call goes on: the command that it waited for has ended. *)
LEMMA BlockingEndsInv ==
  ASSUME OrderInv, BlockingEnds
  PROVE  OrderInv'
<1>1. /\ step = "block" /\ Ended(cmd) /\ cmd \in 1..next /\ form \in {"sync", "syncmap", "syncunmap"}
      /\ UNCHANGED <<m_oooExecEnabled, library, counts, target, cmd, callbackDone, result, outer, tracker>>
  BY DEF BlockingEnds, OrderInv, Control
<1>2. \/ /\ form = "syncmap" /\ form' = "syncunmap" /\ uses' = UnmapUses(target[1], target[2]) /\ todo' = uses'
         /\ blockers' = {} /\ step' = Ask(uses')
      \/ step' = "return" /\ UNCHANGED <<form, uses, todo, blockers>>
  BY DEF BlockingEnds, NowUnmap
<1>. USE DEF library, counts, outer, tracker
<1>3. TypeOK'
  <2>1. TypeOK
    BY DEF OrderInv
  <2>2. CASE step' = "return" /\ UNCHANGED <<form, uses, todo, blockers>>
    BY <1>1, <2>1, <2>2 DEF TypeOK, Steps
  <2>3. CASE /\ form = "syncmap" /\ form' = "syncunmap" /\ uses' = UnmapUses(target[1], target[2]) /\ todo' = uses'
             /\ blockers' = {} /\ step' = Ask(uses')
    <3>1. target \in Buffers \X MemResourceUse
      BY <2>1, <2>3 DEF OrderInv, Control, TypeOK
    <3>2. uses' \subseteq Uses /\ step' \in Steps
      BY <2>3, <3>1 DEF UnmapUses, Uses, Resources, MemResourceUse, Ask, Steps
    <3>. QED  BY <1>1, <2>1, <2>3, <3>2 DEF TypeOK, Forms
  <2>. QED  BY <1>2, <2>2, <2>3
<1>4. MapsAgree' /\ IsFiniteSet(byEvent)' /\ Created' /\ UserEvents'
  BY <1>1 DEF OrderInv, MapsAgree, Created, UserEvents
<1>5. NothingStale'
  BY <1>1 DEF OrderInv, NothingStale
<1>6. Control'
  <2>1. next \in Nat
    BY DEF OrderInv, TypeOK
  <2>. QED  BY <1>1, <1>2, <2>1, TrackerAssumption DEF OrderInv, Control, EventsLeft, EventsOf, Ask
<1>7. Tracked' /\ WaitsForClashes'
  BY <1>1 DEF OrderInv, Tracked, WaitsForClashes, Ended, Clash
<1>8. Asked'
  BY <1>2 DEF Asked
<1>. QED  BY <1>3, <1>4, <1>5, <1>6, <1>7, <1>8 DEF OrderInv

(* The library moves a command on. A command never becomes less ended. *)
LEMMA SetStatusInv ==
  ASSUME OrderInv, NEW e \in Events, NEW s \in {"running", "complete", "aborted"}, SetStatus(e, s),
         status[e] \in {"queued", "running"}, faults' \in Nat
  PROVE  OrderInv'
<1>. USE DEF SetStatus, counts, locals, tracker
<1>1. TypeOK'
  BY DEF OrderInv, TypeOK
<1>2. \A d \in Events : d # e => status'[d] = status[d] /\ waits'[d] = waits[d]
  BY DEF OrderInv, TypeOK
<1>3. status'[e] = s
  BY DEF OrderInv, TypeOK
<1>4. \A d \in Events : Ended(d) => Ended(d)'
  BY <1>2 DEF Ended
<1>5. MapsAgree' /\ IsFiniteSet(byEvent)' /\ NothingStale'
  BY DEF OrderInv, MapsAgree, NothingStale
<1>6. Control'
  BY DEF OrderInv, Control, EventsLeft
<1>7. Created'
  BY <1>2, <1>3 DEF OrderInv, Created
<1>8. Tracked'
  BY <1>4 DEF OrderInv, Tracked
<1>9. Asked'
  BY <1>4 DEF OrderInv, Asked, Clash
<1>10. WaitsForClashes'
  BY <1>2, <1>3, <1>4 DEF OrderInv, WaitsForClashes, Clash
<1>11. UserEvents'
  <2>1. \A m \in Events : status[m] = "user" => status'[m] = "user"
    BY <1>2
  <2>2. \A m \in Events : doneOf[m] \in Events \union {0}
    BY DEF OrderInv, TypeOK
  <2>. QED  BY <2>1, <2>2 DEF OrderInv, UserEvents
<1>. QED  BY <1>1, <1>5, <1>6, <1>7, <1>8, <1>9, <1>10, <1>11 DEF OrderInv

(* Forget leaves no entry of the event, and keeps the three maps in step. *)
LEMMA ForgetFacts ==
  ASSUME OrderInv, NEW e \in Events, Forget(e)
  PROVE  /\ byEvent' = {c \in byEvent : c.event # e}
         /\ MapsAgree' /\ IsFiniteSet(byEvent)'
         /\ byEvent' \subseteq Command /\ byRd' \subseteq Command /\ byWr' \subseteq Command
         /\ Dropped(e) = Cardinality(Entries(e)) /\ Dropped(e) \in Nat
<1>1. /\ byRd = {c \in byEvent : c.use \in Reads} /\ byWr = {c \in byEvent : c.use \in Writes}
      /\ byEvent \subseteq Command /\ IsFiniteSet(byEvent)
  BY DEF OrderInv, MapsAgree, TypeOK
<1>2. byEvent' = {c \in byEvent : c.event # e}
  BY DEF Forget
<1>3. byRd' = {c \in byRd : c.event # e}
  BY <1>1 DEF Forget
<1>4. byWr' = {c \in byWr : c.event # e}
  BY <1>1 DEF Forget
<1>5. MapsAgree'
  BY <1>1, <1>2, <1>3, <1>4 DEF MapsAgree
<1>6. IsFiniteSet(byEvent)'
  <2>1. byEvent' \in SUBSET byEvent
    BY <1>2
  <2>. QED  BY <1>1, <2>1, FS_Subset
<1>7. Dropped(e) = Cardinality(Entries(e)) /\ Dropped(e) \in Nat
  <2>1. {c \in byEvent' \union byRd' \union byWr' : c.event = e} = {}
    BY <1>2, <1>3, <1>4
  <2>2. Entries(e) \in SUBSET byEvent
    BY <1>1 DEF Entries
  <2>3. Cardinality(Entries(e)) \in Nat
    BY <1>1, <2>2, FS_Subset, FS_CardinalityType
  <2>4. Cardinality({c \in byEvent' \union byRd' \union byWr' : c.event = e}) = 0
    BY ONLY <2>1, FS_EmptySet, Zenon
  <2>. HIDE DEF Entries
  <2>. QED  BY ONLY <2>3, <2>4 DEF Dropped
<1>. QED  BY <1>1, <1>2, <1>3, <1>4, <1>5, <1>6, <1>7

(* A callback runs for a command that has ended, and forgets it. *)
LEMMA CallbackInv ==
  ASSUME OrderInv, OnGenericCommandCompleted \/ OnMapCommandCompleted
  PROVE  OrderInv'
<1>1. PICK e \in Events, h \in {"calling", "done"} :
        /\ hook[e] \in {"generic", "map"} /\ Ended(e) /\ Forget(e) /\ hook' = [hook EXCEPT ![e] = h]
        /\ h = "calling" => hook[e] = "map"
        /\ \/ ref' = [ref EXCEPT ![e] = ref[e] - Dropped(e) - 1]
           \/ LET r == [ref EXCEPT ![e] = ref[e] - Dropped(e) - 1]
              IN ref' = [r EXCEPT ![doneOf[e]] = r[doneOf[e]] - 1]
  BY DEF OnGenericCommandCompleted, OnMapCommandCompleted
<1>2. UNCHANGED <<m_oooExecEnabled, status, access, waits, held, step, locals, outer>>
  BY DEF OnGenericCommandCompleted, OnMapCommandCompleted
<1>. USE DEF locals, outer
<1>3. /\ byEvent' = {c \in byEvent : c.event # e}
      /\ MapsAgree' /\ IsFiniteSet(byEvent)'
      /\ byEvent' \subseteq Command /\ byRd' \subseteq Command /\ byWr' \subseteq Command
      /\ Dropped(e) \in Nat
  BY <1>1, ForgetFacts
<1>4. hook'[e] = h /\ \A d \in Events : d # e => hook'[d] = hook[d]
  BY <1>1 DEF OrderInv, TypeOK
<1>5. TypeOK'
  <2>1. TypeOK
    BY DEF OrderInv
  <2>2. hook' \in [Events -> {"none", "generic", "map", "calling", "done"}]
    BY <1>1, <2>1 DEF TypeOK
  <2>3. ref' \in [Events -> Int]
    <3>1. ref \in [Events -> Int] /\ ref[e] - Dropped(e) - 1 \in Int
      BY <1>3, <2>1 DEF TypeOK
    <3>2. CASE ref' = [ref EXCEPT ![e] = ref[e] - Dropped(e) - 1]
      BY <3>1, <3>2
    <3>3. CASE LET r == [ref EXCEPT ![e] = ref[e] - Dropped(e) - 1]
               IN ref' = [r EXCEPT ![doneOf[e]] = r[doneOf[e]] - 1]
      <4> DEFINE r == [ref EXCEPT ![e] = ref[e] - Dropped(e) - 1]
      <4>1. r \in [Events -> Int]
        BY <3>1
      <4>2. ref' = [r EXCEPT ![doneOf[e]] = r[doneOf[e]] - 1]
        BY <3>3
      <4>3. ref' = [d \in Events |-> IF d = doneOf[e] THEN r[d] - 1 ELSE r[d]]
        BY <4>1, <4>2
      <4>. QED  BY ONLY <4>1, <4>3
    <3>. QED  BY <1>1, <3>2, <3>3
  <2>. QED  BY <1>2, <1>3, <2>1, <2>2, <2>3 DEF TypeOK
<1>6. NothingStale'
  <2> SUFFICES ASSUME NEW b \in byEvent, b.event # e
               PROVE  \/ hook'[b.event] \in {"generic", "map"}
                      \/ b.event = cmd /\ step \in {"remember", "hook"}
                      \/ b.event \in leaked
    BY <1>2, <1>3 DEF NothingStale
  <2>1. b.event \in Events
    BY DEF OrderInv, TypeOK, Command
  <2>. QED  BY <1>4, <2>1 DEF OrderInv, NothingStale
<1>7. Control'
  <2>1. step \in {"user", "remember", "hook"} => hook'[cmd] = "none"
    <3> SUFFICES ASSUME step \in {"user", "remember", "hook"} PROVE hook'[cmd] = "none"
      OBVIOUS
    <3>1. cmd \in Events /\ hook[cmd] = "none"
      BY TrackerAssumption DEF OrderInv, Control, TypeOK, Events
    <3>. QED  BY <1>1, <1>4, <3>1
  <2>. QED  BY <1>2, <2>1 DEF OrderInv, Control, EventsLeft
<1>8. Created'
  <2>1. \A d \in Events : d > next => d # e
    BY <1>1 DEF OrderInv, Created
  <2>. QED  BY <1>2, <1>4, <2>1 DEF OrderInv, Created
<1>9. Tracked'
  <2> SUFFICES ASSUME m_oooExecEnabled, NEW d \in Events, NEW x \in access[d], ~Ended(d)
               PROVE  \/ [event |-> d, res |-> x[1], use |-> x[2]] \in byEvent'
                      \/ d = cmd /\ step \in {"user", "remember"} /\ x \in todo
                      \/ d = cmd /\ step = "block"
    BY <1>2 DEF Tracked, Ended
  <2>1. d # e
    BY <1>1
  <2>. QED  BY <1>3, <2>1 DEF OrderInv, Tracked
<1>10. Asked' /\ WaitsForClashes'
  BY <1>2 DEF OrderInv, Asked, WaitsForClashes, Clash, Ended
<1>11. UserEvents'
  BY <1>1, <1>2, <1>4 DEF OrderInv, UserEvents
<1>. QED  BY <1>3, <1>5, <1>6, <1>7, <1>8, <1>9, <1>10, <1>11 DEF OrderInv

(* The callback of the client has run: its user event is nobody else's. *)
LEMMA ClientCallbackEndsInv ==
  ASSUME OrderInv, ClientCallbackEnds
  PROVE  OrderInv'
<1>1. PICK e \in Events :
        /\ hook[e] = "calling" /\ hook' = [hook EXCEPT ![e] = "done"]
        /\ status' = [status EXCEPT ![doneOf[e]] = "complete"] \/ UNCHANGED status
        /\ faults' \in {faults, faults + 1}
        /\ ref' = [ref EXCEPT ![doneOf[e]] = ref[doneOf[e]] - 1]
  BY DEF ClientCallbackEnds
<1>2. UNCHANGED <<m_oooExecEnabled, access, waits, held, step, locals, next, actions, doneOf, leaked, tracker>>
  BY DEF ClientCallbackEnds
<1>. USE DEF locals, tracker
<1>3. hook'[e] = "done" /\ \A d \in Events : d # e => hook'[d] = hook[d]
  BY <1>1 DEF OrderInv, TypeOK
<1>4. \A d \in Events : d # doneOf[e] => status'[d] = status[d]
  BY <1>1 DEF OrderInv, TypeOK
<1>5. doneOf[e] \in Events => status[doneOf[e]] = "user" /\ status'[doneOf[e]] \in {"user", "complete"}
  <2> SUFFICES ASSUME doneOf[e] \in Events
               PROVE  status[doneOf[e]] = "user" /\ status'[doneOf[e]] \in {"user", "complete"}
    OBVIOUS
  <2>1. doneOf[e] # 0
    BY DEF Events
  <2>2. status[doneOf[e]] = "user"
    BY <1>1, <2>1 DEF OrderInv, UserEvents
  <2>. QED  BY <1>1, <2>2 DEF OrderInv, TypeOK
<1>6. TypeOK'
  <2>1. TypeOK
    BY DEF OrderInv
  <2>2. hook' \in [Events -> {"none", "generic", "map", "calling", "done"}]
    BY <1>1, <2>1 DEF TypeOK
  <2>3. ref' \in [Events -> Int]
    <3>1. ref \in [Events -> Int]
      BY <2>1 DEF TypeOK
    <3>2. ref' = [d \in Events |-> IF d = doneOf[e] THEN ref[d] - 1 ELSE ref[d]]
      BY <1>1, <3>1
    <3>. QED  BY ONLY <3>1, <3>2
  <2>4. status' \in [Events -> {"none", "queued", "running", "user", "complete", "aborted"}]
    BY <1>1, <2>1 DEF TypeOK
  <2>5. faults' \in Nat
    BY <1>1, <2>1 DEF TypeOK
  <2>. QED  BY <1>2, <2>1, <2>2, <2>3, <2>4, <2>5 DEF TypeOK
<1>7. \A d \in Events : /\ Ended(d) => Ended(d)'
                        /\ status'[d] = "queued" <=> status[d] = "queued"
                        /\ status'[d] = "none" <=> status[d] = "none"
                        /\ status'[d] = "user" => status[d] = "user"
  BY <1>4, <1>5 DEF Ended
<1>8. MapsAgree' /\ IsFiniteSet(byEvent)'
  BY <1>2 DEF OrderInv, MapsAgree
<1>9. NothingStale'
  <2> SUFFICES ASSUME NEW b \in byEvent
               PROVE  \/ hook'[b.event] \in {"generic", "map"}
                      \/ b.event = cmd /\ step \in {"remember", "hook"}
                      \/ b.event \in leaked
    BY <1>2 DEF NothingStale
  <2>1. b.event \in Events
    BY DEF OrderInv, TypeOK, Command
  <2>. QED  BY <1>1, <1>3, <2>1 DEF OrderInv, NothingStale
<1>10. Control'
  <2>1. step \in {"user", "remember", "hook"} => hook'[cmd] = "none"
    <3> SUFFICES ASSUME step \in {"user", "remember", "hook"} PROVE hook'[cmd] = "none"
      OBVIOUS
    <3>1. cmd \in Events /\ hook[cmd] = "none"
      BY TrackerAssumption DEF OrderInv, Control, TypeOK, Events
    <3>. QED  BY <1>1, <1>3, <3>1
  <2>. QED  BY <1>2, <2>1 DEF OrderInv, Control, EventsLeft
<1>11. Created'
  <2>1. \A d \in Events : d > next => d # e
    BY <1>1 DEF OrderInv, Created
  <2>. QED  BY <1>2, <1>3, <1>7, <2>1 DEF OrderInv, Created
<1>12. Tracked' /\ Asked' /\ WaitsForClashes'
  BY <1>2, <1>7 DEF OrderInv, Tracked, Asked, WaitsForClashes, Clash
<1>13. UserEvents'
  <2> SUFFICES ASSUME NEW m \in Events, hook'[m] \in {"none", "map", "calling"}, doneOf[m] # 0
               PROVE  status'[doneOf[m]] = "user"
    BY <1>2 DEF OrderInv, UserEvents
  <2>1. m # e /\ hook'[m] = hook[m]
    BY <1>3
  <2>2. status[doneOf[m]] = "user" /\ doneOf[m] # doneOf[e] /\ doneOf[m] \in Events
    BY <2>1 DEF OrderInv, UserEvents, TypeOK
  <2>. QED  BY <1>4, <2>2
<1>. QED  BY <1>6, <1>8, <1>9, <1>10, <1>11, <1>12, <1>13 DEF OrderInv

(* Every step preserves the invariant. *)
LEMMA NextOrder == OrderInv /\ [Next]_vars => OrderInv'
<1> SUFFICES ASSUME OrderInv, [Next]_vars PROVE OrderInv'
  OBVIOUS
<1>1. ASSUME NEW f \in {"async", "sync"}, NEW us \in SUBSET Uses, Call(f, us, <<>>) PROVE OrderInv'
  BY <1>1, CallInv
<1>2. ASSUME NEW b \in Buffers, NEW how \in MemResourceUse, NEW f \in {"map", "syncmap"},
             Call(f, MapUses(b, how), <<b, how>>)
      PROVE  OrderInv'
  <2>1. MapUses(b, how) \in SUBSET Uses
    BY DEF MapUses, Uses, Resources, MemResourceUse
  <2>2. <<b, how>> \in (Buffers \X MemResourceUse) \union {<<>>} /\ <<b, how>> # <<>>
    OBVIOUS
  <2>. QED  BY <1>2, <2>1, <2>2, CallInv
<1>3. \A b \in Buffers, p \in Hosts :
        /\ {<<b, "Output">>} \in SUBSET Uses
        /\ {<<b, "Input">>, <<p, "Output">>} \in SUBSET Uses
        /\ {<<p, "Input">>, <<b, "Output">>} \in SUBSET Uses
  BY DEF Uses, Resources, MemResourceUse
<1>4. \A b, d \in Buffers : {<<b, "Input">>, <<d, "Output">>} \in SUBSET Uses
  BY DEF Uses, Resources, MemResourceUse
<1>5. ASSUME Begin PROVE OrderInv'
  <2>1. CASE EnqueueFillBufferAsync
    <3>1. PICK b \in Buffers : Call("async", {<<b, "Output">>}, <<>>)
      BY <2>1 DEF EnqueueFillBufferAsync
    <3>2. {<<b, "Output">>} \in SUBSET Uses
      BY DEF Uses, Resources, MemResourceUse
    <3>. QED  BY <1>1, <3>1, <3>2
  <2>2. CASE EnqueueReadBuffer \/ EnqueueReadBufferAsync
    BY <1>1, <1>3, <2>2 DEF EnqueueReadBuffer, EnqueueReadBufferAsync
  <2>3. CASE EnqueueWriteBuffer \/ EnqueueWriteBufferAsync
    BY <1>1, <1>3, <2>3 DEF EnqueueWriteBuffer, EnqueueWriteBufferAsync
  <2>4. CASE EnqueueCopyBufferAsync
    BY <1>1, <1>4, <2>4 DEF EnqueueCopyBufferAsync
  <2>5. CASE EnqueueNDRangeKernelAsyncImpl
    BY <1>1, <2>5, DeviceAssumption DEF EnqueueNDRangeKernelAsyncImpl, Uses
  <2>6. CASE EnqueueMapBuffer \/ EnqueueMapBufferAsync
    BY <1>2, <2>6 DEF EnqueueMapBuffer, EnqueueMapBufferAsync
  <2>7. CASE Await \/ Finish \/ Detach
    BY <2>7, WaitInv
  <2>. QED  BY <1>5, <2>1, <2>2, <2>3, <2>4, <2>5, <2>6, <2>7 DEF Begin
<1>6. ASSUME Continue PROVE OrderInv'
  <2>1. CASE Return
    <3>1. PICK keep \in SUBSET ({result} \ {0}) : Release(keep, {}) /\ step = "return"
      BY <2>1 DEF Return
    <3>2. keep \in SUBSET Events
      BY DEF OrderInv, TypeOK
    <3>. QED  BY <3>1, <3>2, ReleaseInv
  <2>2. CASE EnqueueFails
    BY <2>2, ReleaseInv DEF EnqueueFails
  <2>3. CASE SetCallbackFails
    <3>1. step = "hook" /\ cmd \in Events /\ (form = "map" => callbackDone \in Events)
      BY <2>3, TrackerAssumption DEF SetCallbackFails, OrderInv, Control, TypeOK, Events
    <3>2. {cmd} \union (IF form = "map" THEN {callbackDone} ELSE {}) \in SUBSET Events
      BY <3>1
    <3>. QED  BY <2>3, <3>1, <3>2, ReleaseInv DEF SetCallbackFails
  <2>. QED  BY <1>6, <2>1, <2>2, <2>3, FindBlockersInv, EnqueueAsyncInv, EnqueueBlockingInv, EnqueueMapInv,
               CreateUserEventInv, RememberUseInv, SetCallbackInv, EnqueueUnmapAfterReadingInv, BlockingEndsInv,
               WaitInv DEF Continue
<1>7. ASSUME Library PROVE OrderInv'
  <2>. faults \in Nat
    BY DEF OrderInv, TypeOK
  <2>1. CASE StartCommand
    BY <2>1, SetStatusInv DEF StartCommand
  <2>2. CASE CommandEnds
    BY <2>2, SetStatusInv DEF CommandEnds
  <2>3. CASE CommandAborts
    <3>1. PICK e \in Events : SetStatus(e, "aborted") /\ status[e] \in {"queued", "running"}
      BY <2>3 DEF CommandAborts
    <3>2. faults' \in Nat
      BY <2>3 DEF CommandAborts
    <3>. QED  BY <3>1, <3>2, SetStatusInv
  <2>. QED  BY <1>7, <2>1, <2>2, <2>3, CallbackInv, ClientCallbackEndsInv DEF Library
<1>8. CASE UNCHANGED vars
  BY <1>8 DEF vars, library, counts, locals, outer, tracker, OrderInv, TypeOK, MapsAgree, NothingStale, Control, EventsLeft,
              Created, Tracked, Asked, WaitsForClashes, UserEvents, Ended, Clash
<1>. QED  BY <1>5, <1>6, <1>7, <1>8 DEF Next

(* A new event is nobody's yet: not of an AsyncAction, nor of an entry.       *)
LEMMA NewCommandOwned ==
  ASSUME OrderInv, Owned, step = "enqueue", NEW n \in Nat, NEW k \in Nat, NewCommand(n, k),
         result' \in {0, cmd'}, step' # "idle", form = "map" => step' = "user"
  PROVE  Owned'
<1>1. /\ cmd' = next + 1 /\ next' = next + 1 /\ next \in Nat
      /\ UNCHANGED <<form, callbackDone, actions, leaked, tracker>>
  BY NewCommandFacts DEF OrderInv, TypeOK
<1>. USE DEF tracker
<1>2. actions' \union leaked' \subseteq 1..next' /\ \A c \in byEvent' : c.event <= next'
  <2>1. \A c \in byEvent : c.event \in Int
    BY TrackerAssumption DEF OrderInv, TypeOK, Command, Events
  <2>. QED  BY <1>1, <2>1 DEF Owned
<1>3. cmd' \notin actions /\ cmd' \notin leaked /\ \A c \in byEvent : c.event # cmd'
  BY <1>1 DEF Owned
<1>4. 0 \notin actions
  BY DEF OrderInv, TypeOK, Events
<1>. QED  BY <1>1, <1>2, <1>3, <1>4 DEF Owned

(* No step lets go of an event that someone holds. *)
LEMMA NextOwned == OrderInv /\ Owned /\ [Next]_vars => Owned'
<1> SUFFICES ASSUME OrderInv, Owned, [Next]_vars PROVE Owned'
  OBVIOUS
<1>. USE DEF library, counts, locals, outer, tracker
<1>1. next \in Nat /\ 0 \notin Events /\ actions \subseteq Events /\ leaked \subseteq Events
  BY DEF OrderInv, TypeOK, Events
<1>2. ASSUME NEW f, NEW us, NEW t, Call(f, us, t) PROVE Owned'
  BY <1>1, <1>2 DEF Owned, Call, Ask
<1>3. CASE Await \/ Finish \/ WaitEnds \/ Detach
  BY <1>1, <1>3 DEF Owned, Await, Finish, WaitEnds, Detach, ClearLocals
<1>4. CASE Begin
  BY <1>2, <1>3, <1>4 DEF Begin, EnqueueFillBufferAsync, EnqueueReadBuffer, EnqueueReadBufferAsync, EnqueueWriteBuffer,
     EnqueueWriteBufferAsync, EnqueueCopyBufferAsync, EnqueueNDRangeKernelAsyncImpl, EnqueueMapBuffer,
     EnqueueMapBufferAsync
<1>5. CASE FindBlockers
  BY <1>5 DEF FindBlockers, Owned
<1>6. CASE EnqueueAsync \/ EnqueueBlocking \/ EnqueueMap
  <2>1. /\ \E n \in Nat, k \in Nat : NewCommand(n, k)
        /\ step = "enqueue" /\ result' \in {0, cmd'} /\ step' # "idle"
        /\ form = "map" => step' = "user"
    BY <1>6 DEF EnqueueAsync, EnqueueBlocking, EnqueueMap
  <2>2. PICK n \in Nat, k \in Nat : NewCommand(n, k)
    BY <2>1
  <2>. QED  BY <2>1, <2>2, NewCommandOwned
<1>7. CASE CreateUserEvent
  <2>1. /\ step = "user" /\ next' = next + 1 /\ callbackDone' = next + 1 /\ doneOf' = [doneOf EXCEPT ![cmd] = next + 1]
        /\ UNCHANGED <<form, cmd, result, todo, actions, leaked, tracker>> /\ step' \in {"remember", "hook"}
    BY <1>7 DEF CreateUserEvent
  <2>2. form = "map" /\ cmd \in 1..next /\ cmd \in Events /\ doneOf'[cmd] = next + 1
    BY <2>1, TrackerAssumption DEF OrderInv, Control, TypeOK, Events
  <2>3. actions' \union leaked' \subseteq 1..next' /\ \A c \in byEvent' : c.event <= next'
    <3>1. \A c \in byEvent : c.event \in Int
      BY TrackerAssumption DEF OrderInv, TypeOK, Command, Events
    <3>. QED  BY <1>1, <2>1, <3>1 DEF Owned
  <2>4. next + 1 \notin actions \union leaked /\ next + 1 # cmd
    BY <1>1, <2>2 DEF Owned
  <2>5. result <= next + 1
    BY <1>1, TrackerAssumption DEF Owned, OrderInv, TypeOK, Events
  <2>6. step' \in {"user", "remember"} => \A c \in byEvent' : c.event = cmd' => <<c.res, c.use>> \notin todo'
    BY <2>1 DEF Owned
  <2>. QED  BY <2>1, <2>2, <2>3, <2>4, <2>5, <2>6 DEF Owned
<1>8. CASE RememberUse
  <2>1. PICK x \in todo :
          /\ step = "remember" /\ Remember(x[1], x[2], cmd)
          /\ todo' = todo \ {x} /\ step' \in {"remember", "hook"}
    BY <1>8 DEF RememberUse
  <2>2. UNCHANGED <<form, cmd, callbackDone, result, next, actions, doneOf, leaked>>
    BY <1>8 DEF RememberUse
  <2>3. x \in Uses /\ x = <<x[1], x[2]>> /\ cmd \in 1..next
    BY <2>1 DEF OrderInv, TypeOK, Control, Uses
  <2>4. byEvent' = byEvent \union {[event |-> cmd, res |-> x[1], use |-> x[2]]}
    BY <2>1 DEF Remember
  <2>. QED  BY <1>1, <2>1, <2>2, <2>3, <2>4 DEF Owned
<1>9. CASE SetCallback
  BY <1>1, <1>9 DEF SetCallback, NowUnmap, Ask, Owned
<1>10. CASE EnqueueUnmapAfterReading
  <2>1. /\ step = "enqueue" /\ form = "unmap" /\ next' = next + 1 /\ result' = callbackDone /\ step' = "return"
        /\ UNCHANGED <<form, callbackDone, actions, leaked, tracker>>
    BY <1>10 DEF EnqueueUnmapAfterReading
  <2>2. \A c \in byEvent : c.event \in Int
    BY TrackerAssumption DEF OrderInv, TypeOK, Command, Events
  <2>3. callbackDone \in 1..next
    BY <2>1 DEF OrderInv, Control
  <2>. QED  BY <1>1, <2>1, <2>2, <2>3 DEF Owned
<1>11. CASE BlockingEnds
  BY <1>11 DEF BlockingEnds, NowUnmap, Ask, Owned, OrderInv, Control
<1>12. ASSUME NEW keep \in SUBSET ({result} \ {0}), NEW lost \in SUBSET (({cmd, callbackDone} \intersect 1..next)),
              Release(keep, lost)
       PROVE  Owned'
  <2>1. keep \subseteq 1..next
    BY <1>1, TrackerAssumption DEF OrderInv, TypeOK, Owned, Events
  <2>2. 0 \notin actions \union leaked \union keep \union lost
    BY <1>1
  <2>3. /\ step' = "idle" /\ callbackDone' = 0 /\ result' = 0
        /\ actions' = actions \union keep /\ leaked' = leaked \union lost
        /\ UNCHANGED <<next, tracker>>
    BY <1>12 DEF Release, ClearLocals
  <2>4. actions' \union leaked' \subseteq 1..next'
    BY <2>1, <2>3 DEF Owned
  <2>5. callbackDone' \notin actions' \union leaked' /\ result' \notin actions' /\ result' <= next'
    BY <1>1, <2>2, <2>3
  <2>. QED  BY <2>3, <2>4, <2>5 DEF Owned
<1>13. CASE Return \/ EnqueueFails \/ SetCallbackFails
  BY <1>12, <1>13 DEF Return, EnqueueFails, SetCallbackFails, OrderInv, Control
<1>14. CASE StartCommand \/ CommandEnds \/ CommandAborts
  BY <1>14 DEF StartCommand, CommandEnds, CommandAborts, SetStatus, Owned
<1>15. CASE OnGenericCommandCompleted \/ OnMapCommandCompleted
  <2>1. byEvent' \subseteq byEvent
    BY <1>15 DEF OnGenericCommandCompleted, OnMapCommandCompleted, Forget
  <2>2. UNCHANGED <<step, locals, outer>>
    BY <1>15 DEF OnGenericCommandCompleted, OnMapCommandCompleted
  <2>. QED  BY <2>1, <2>2 DEF Owned
<1>16. CASE ClientCallbackEnds
  BY <1>16 DEF ClientCallbackEnds, Owned
<1>17. CASE UNCHANGED vars
  BY <1>17 DEF vars, Owned
<1>. QED  BY <1>3, <1>4, <1>5, <1>6, <1>7, <1>8, <1>9, <1>10, <1>11, <1>13, <1>14, <1>15, <1>16, <1>17
          DEF Next, Continue, Library

(* The invariant, for any instance. *)
THEOREM Invariance == Spec => []IInv
<1>1. Init => IInv
  BY InitOrder DEF IInv, Init, TrackerInit, Owned
<1>2. IInv /\ [Next]_vars => IInv'
  BY NextOrder, NextOwned DEF IInv
<1>. QED  BY <1>1, <1>2, PTL DEF Spec

(* Every variable keeps its type, whatever fails: event identifiers, lists of *)
(* blockers and entries of the tracker are always those of created events.   *)
THEOREM TypeCorrect == Spec => []TypeOK
<1>1. IInv => TypeOK
  BY DEF IInv, OrderInv
<1>. QED  BY <1>1, Invariance, PTL

(* The tracker never keeps a command that its callback has done with, however *)
(* early the callback runs: no operation waits for an event that has gone.   *)
THEOREM TrackerIsFresh == Spec => []NothingStale
<1>1. IInv => NothingStale
  BY DEF IInv, OrderInv
<1>. QED  BY <1>1, Invariance, PTL

(* The entries of an event, which m_cmdsByEvent holds all.                   *)
LEMMA EntriesFacts ==
  ASSUME OrderInv, NEW e
  PROVE  /\ Entries(e) = {c \in byEvent : c.event = e}
         /\ IsFiniteSet(Entries(e)) /\ Cardinality(Entries(e)) \in Nat
<1>1. Entries(e) = {c \in byEvent : c.event = e}
  BY DEF Entries, OrderInv, MapsAgree
<1>2. IsFiniteSet(byEvent) /\ Entries(e) \in SUBSET byEvent
  BY <1>1 DEF OrderInv
<1>3. IsFiniteSet(Entries(e))
  BY <1>2, FS_Subset
<1>. QED  BY <1>1, <1>3, FS_CardinalityType

(* A step that gives and takes no reference, nor begins or ends a set-up. *)
LEMMA QuietCounted ==
  ASSUME RefsAreCounted, UNCHANGED <<ref, held, actions, byEvent, byRd, byWr, hook, doneOf, leaked>>,
         \/ UNCHANGED <<step, cmd, form, callbackDone>>
         \/ {step, step'} \intersect {"user", "remember", "hook"} = {}
  PROVE  RefsAreCounted'
<1> SUFFICES ASSUME NEW e \in Events PROVE ref'[e] = References(e)'
  BY DEF RefsAreCounted
<1>1. SettingUp(e)' = SettingUp(e)
  BY DEF SettingUp
<1>2. Entries(e)' = Entries(e)
  BY DEF Entries
<1>3. ref[e] = References(e)
  BY DEF RefsAreCounted
<1>. QED  BY <1>1, <1>2, <1>3 DEF References

(* The references to a new command: those of the locals, and that of the     *)
(* callback while the call has yet to set it.                                *)
LEMMA NewCommandCounted ==
  ASSUME IInv, RefsAreCounted, step = "enqueue", NEW n \in Nat, NEW k \in Nat, NewCommand(n, k),
         n = IF step' \in {"user", "remember", "hook"} THEN k + 1 ELSE k,
         form = "map" => step' = "user"
  PROVE  RefsAreCounted'
<1>. USE DEF IInv
<1>1. /\ cmd' = next + 1 /\ next' = next + 1 /\ next \in Nat /\ cmd' \in Events
      /\ hook[cmd'] = "none" /\ doneOf[cmd'] = 0
      /\ UNCHANGED <<hook, form, callbackDone, actions, doneOf, leaked, byEvent, byRd, byWr>>
  BY NewCommandFacts DEF OrderInv, TypeOK, tracker
<1>2. ref' = [ref EXCEPT ![cmd'] = n] /\ held' = [held EXCEPT ![cmd'] = k]
  BY <1>1 DEF NewCommand
<1>3. ref \in [Events -> Int] /\ held \in [Events -> Nat]
  BY DEF OrderInv, TypeOK
<1> SUFFICES ASSUME NEW e \in Events PROVE ref'[e] = References(e)'
  BY DEF RefsAreCounted
<1>4. Entries(e)' = Entries(e)
  BY <1>1 DEF Entries
<1>5. CASE e = cmd'
  <2>1. e \notin actions /\ e \notin leaked
    BY <1>1, <1>5 DEF Owned
  <2>2. Cardinality(Entries(e)) = 0
    <3>1. Entries(e) = {}
      BY <1>1, <1>5, EntriesFacts DEF Owned
    <3>. QED  BY <3>1, FS_EmptySet
  <2>3. ~\E m \in Events : doneOf[m] = e /\ hook[m] \in {"map", "calling"}
    BY <1>1, <1>5 DEF OrderInv, Created
  <2>4. SettingUp(e)' <=> step' \in {"user", "remember", "hook"}
    BY <1>5 DEF SettingUp
  <2>5. ref'[e] = n /\ held'[e] = k
    BY <1>2, <1>3, <1>5
  <2>. QED  BY <1>1, <1>4, <1>5, <2>1, <2>2, <2>3, <2>4, <2>5 DEF References, One
<1>6. CASE e # cmd'
  <2>1. ~SettingUp(e) /\ ~SettingUp(e)'
    BY <1>1, <1>6 DEF SettingUp, Owned, Events
  <2>2. ref'[e] = ref[e] /\ held'[e] = held[e]
    BY <1>2, <1>3, <1>6
  <2>3. ref[e] = References(e)
    BY DEF RefsAreCounted
  <2>. QED  BY <1>1, <1>4, <2>1, <2>2, <2>3 DEF References, One
<1>. QED  BY <1>5, <1>6

(* The user event of a map: callbackDoneEvent, and the call that has yet to  *)
(* set the callback that its arguments are for.                              *)
LEMMA CreateUserEventCounted ==
  ASSUME IInv, RefsAreCounted, CreateUserEvent
  PROVE  RefsAreCounted'
<1>. DEFINE u == next + 1
<1>. USE DEF IInv
<1>1. /\ step = "user" /\ form = "map" /\ callbackDone = 0 /\ next \in Nat /\ next + 2 <= MaxEvents
      /\ cmd \in 1..next /\ hook[cmd] = "none"
  BY DEF CreateUserEvent, OrderInv, Control, EventsLeft, TypeOK, Owned
<1>2. u \in Events /\ cmd \in Events /\ u # cmd /\ hook[u] = "none"
  BY <1>1, TrackerAssumption DEF Events, OrderInv, Created
<1>3. /\ callbackDone' = u /\ doneOf' = [doneOf EXCEPT ![cmd] = u] /\ step' \in {"remember", "hook"}
      /\ ref' = [ref EXCEPT ![u] = 2] /\ held' = [held EXCEPT ![u] = 1]
      /\ UNCHANGED <<hook, form, cmd, actions, leaked, byEvent, byRd, byWr>>
  BY DEF CreateUserEvent, tracker
<1>4. /\ ref \in [Events -> Int] /\ held \in [Events -> Nat] /\ doneOf \in [Events -> Events \union {0}]
      /\ \A m \in Events : doneOf[m] <= next
  BY DEF OrderInv, TypeOK, Created
<1> SUFFICES ASSUME NEW e \in Events PROVE ref'[e] = References(e)'
  BY DEF RefsAreCounted
<1>5. Entries(e)' = Entries(e)
  BY <1>3 DEF Entries
<1>6. (\E m \in Events : doneOf'[m] = e /\ hook'[m] \in {"map", "calling"})
      <=> (\E m \in Events : doneOf[m] = e /\ hook[m] \in {"map", "calling"})
  <2>1. \A m \in Events : hook'[m] = hook[m] /\ (hook[m] \in {"map", "calling"} => doneOf'[m] = doneOf[m])
    BY <1>1, <1>2, <1>3, <1>4
  <2>. QED  BY <2>1
<1>7. CASE e = u
  <2>1. e \notin actions /\ e \notin leaked
    BY <1>1, <1>7 DEF Owned
  <2>2. Cardinality(Entries(e)) = 0
    <3>1. Entries(e) = {}
      BY <1>1, <1>7, EntriesFacts DEF Owned
    <3>. QED  BY <3>1, FS_EmptySet
  <2>3. ~\E m \in Events : doneOf[m] = e /\ hook[m] \in {"map", "calling"}
    BY <1>1, <1>4, <1>7
  <2>4. SettingUp(e)'
    BY <1>1, <1>3, <1>7 DEF SettingUp
  <2>5. ref'[e] = 2 /\ held'[e] = 1
    BY <1>2, <1>3, <1>4, <1>7
  <2>. QED  BY <1>2, <1>3, <1>5, <1>6, <1>7, <2>1, <2>2, <2>3, <2>4, <2>5 DEF References, One
<1>8. CASE e # u
  <2>1. SettingUp(e) <=> SettingUp(e)'
    BY <1>1, <1>3, <1>8 DEF SettingUp, Events
  <2>2. ref'[e] = ref[e] /\ held'[e] = held[e]
    BY <1>3, <1>4, <1>8
  <2>3. ref[e] = References(e)
    BY DEF RefsAreCounted
  <2>. QED  BY <1>3, <1>5, <1>6, <2>1, <2>2, <2>3 DEF References, One
<1>. QED  BY <1>7, <1>8

(* An entry is a reference more, for the tracker had no such entry. *)
LEMMA RememberUseCounted ==
  ASSUME IInv, RefsAreCounted, RememberUse
  PROVE  RefsAreCounted'
<1>. USE DEF IInv
<1>1. PICK x \in todo :
        /\ step = "remember" /\ Remember(x[1], x[2], cmd) /\ ref' = [ref EXCEPT ![cmd] = ref[cmd] + 1]
        /\ step' \in {"remember", "hook"}
  BY DEF RememberUse
<1>2. UNCHANGED <<hook, held, form, cmd, callbackDone, actions, doneOf, leaked>>
  BY DEF RememberUse, library, outer
<1>. DEFINE c == [event |-> cmd, res |-> x[1], use |-> x[2]]
<1>3. x = <<x[1], x[2]>> /\ cmd \in Events
  BY <1>1, TrackerAssumption DEF OrderInv, TypeOK, Control, Uses, Events
<1>4. c \notin byEvent
  BY <1>1, <1>3 DEF Owned
<1>5. ref \in [Events -> Int] /\ held \in [Events -> Nat]
  BY DEF OrderInv, TypeOK
<1> SUFFICES ASSUME NEW e \in Events PROVE ref'[e] = References(e)'
  BY DEF RefsAreCounted
<1>6. SettingUp(e) <=> SettingUp(e)'
  BY <1>1, <1>2 DEF SettingUp
<1>7. byEvent' \union byRd' \union byWr' = (byEvent \union byRd \union byWr) \union {c}
  BY <1>1 DEF Remember
<1>8. ref[e] = References(e)
  BY DEF RefsAreCounted
<1>9. Entries(e) = {d \in byEvent : d.event = e} /\ IsFiniteSet(Entries(e)) /\ Cardinality(Entries(e)) \in Nat
  BY EntriesFacts
<1>10. CASE e = cmd
  <2>1. Entries(e)' = Entries(e) \union {c} /\ c \notin Entries(e)
    BY <1>4, <1>7, <1>9, <1>10 DEF Entries
  <2>2. Cardinality(Entries(e)') = Cardinality(Entries(e)) + 1
    BY <1>9, <2>1, FS_AddElement
  <2>3. ref'[e] = ref[e] + 1
    BY <1>1, <1>3, <1>5, <1>10
  <2>4. Cardinality(Entries(e)) \in Int /\ held[e] \in Int
    BY <1>5, <1>9
  <2>5. References(e)' = References(e) + 1
    BY <1>2, <1>6, <2>2, <2>4 DEF References, One
  <2>. QED  BY <1>8, <2>3, <2>5
<1>11. CASE e # cmd
  <2>1. Entries(e)' = Entries(e)
    BY <1>7, <1>11 DEF Entries
  <2>2. ref'[e] = ref[e]
    BY <1>1, <1>5, <1>11
  <2>. QED  BY <1>2, <1>6, <1>8, <2>1, <2>2 DEF References, One
<1>. QED  BY <1>10, <1>11

(* The callback takes over the command from the call, and its arguments take *)
(* over the user event.                                                      *)
LEMMA SetCallbackCounted ==
  ASSUME IInv, RefsAreCounted, SetCallback
  PROVE  RefsAreCounted'
<1>. USE DEF IInv
<1>1. /\ step = "hook" /\ cmd \in Events /\ hook[cmd] = "none" /\ cmd \notin leaked
      /\ form = "map" => /\ callbackDone \in Events /\ doneOf[cmd] = callbackDone /\ callbackDone # cmd
                         /\ callbackDone \notin leaked
  BY TrackerAssumption DEF SetCallback, OrderInv, TypeOK, Control, Events, Owned
<1>2. /\ hook' = [hook EXCEPT ![cmd] = IF form = "map" THEN "map" ELSE "generic"]
      /\ UNCHANGED <<cmd, callbackDone, actions, doneOf, leaked, byEvent, byRd, byWr>>
      /\ step' \notin {"user", "remember", "hook"}
      /\ form = "map" => /\ held' = [held EXCEPT ![callbackDone] = held[callbackDone] + 1]
                         /\ ref' = [ref EXCEPT ![callbackDone] = ref[callbackDone] + 1]
      /\ form # "map" => UNCHANGED <<ref, held>>
  BY DEF SetCallback, NowUnmap, Ask, counts, outer, tracker
<1>3. /\ ref \in [Events -> Int] /\ held \in [Events -> Nat] /\ doneOf \in [Events -> Events \union {0}]
      /\ hook \in [Events -> {"none", "generic", "map", "calling", "done"}]
  BY DEF OrderInv, TypeOK
<1> SUFFICES ASSUME NEW e \in Events PROVE ref'[e] = References(e)'
  BY DEF RefsAreCounted
<1>4. Entries(e)' = Entries(e)
  BY <1>2 DEF Entries
<1>5. ref[e] = References(e) /\ Cardinality(Entries(e)) \in Int /\ held[e] \in Int
  BY <1>3, EntriesFacts DEF RefsAreCounted
<1>6. ~SettingUp(e)'
  BY <1>2 DEF SettingUp
<1>7. SettingUp(e) <=> e = cmd \/ (form = "map" /\ e = callbackDone)
  BY <1>1 DEF SettingUp
<1>8. hook'[e] = IF e = cmd THEN IF form = "map" THEN "map" ELSE "generic" ELSE hook[e]
  BY <1>2, <1>3
<1>9. (\E m \in Events : doneOf'[m] = e /\ hook'[m] \in {"map", "calling"})
      <=> \/ form = "map" /\ e = callbackDone
          \/ \E m \in Events : doneOf[m] = e /\ hook[m] \in {"map", "calling"}
  <2>1. \A m \in Events : hook'[m] = IF m = cmd THEN IF form = "map" THEN "map" ELSE "generic" ELSE hook[m]
    BY <1>2, <1>3
  <2>2. doneOf' = doneOf
    BY <1>2
  <2>. QED  BY <1>1, <2>1, <2>2
<1>10. CASE form = "map" /\ e = callbackDone
  <2>1. ~\E m \in Events : doneOf[m] = e /\ hook[m] \in {"map", "calling"}
    <3>1. e # 0
      BY DEF Events
    <3>. QED  BY <1>1, <1>10, <3>1 DEF OrderInv, UserEvents
  <2>2. e # cmd /\ e \notin leaked /\ ref'[e] = ref[e] + 1 /\ held'[e] = held[e] + 1
    BY <1>1, <1>2, <1>3, <1>10
  <2>3. References(e) = held[e] + One(e \in actions) + Cardinality(Entries(e)) + One(hook[e] \in {"generic", "map"}) + 1
    BY <1>5, <1>7, <1>10, <2>1, <2>2 DEF References, One
  <2>4. References(e)' = held[e] + 1 + One(e \in actions) + Cardinality(Entries(e))
                         + One(hook[e] \in {"generic", "map"}) + 1
    BY <1>2, <1>4, <1>5, <1>6, <1>8, <1>9, <1>10, <2>2 DEF References, One
  <2>5. One(e \in actions) \in Int /\ One(hook[e] \in {"generic", "map"}) \in Int
    BY DEF One
  <2>. QED  BY <1>5, <2>2, <2>3, <2>4, <2>5
<1>11. CASE e = cmd
  <2>1. ref'[e] = ref[e] /\ held'[e] = held[e]
    BY <1>1, <1>2, <1>3, <1>11
  <2>. QED  BY <1>1, <1>2, <1>4, <1>5, <1>6, <1>7, <1>8, <1>9, <1>11, <2>1 DEF References, One
<1>12. CASE e # cmd /\ ~(form = "map" /\ e = callbackDone)
  <2>1. ref'[e] = ref[e] /\ held'[e] = held[e]
    BY <1>1, <1>2, <1>3, <1>12
  <2>. QED  BY <1>2, <1>4, <1>5, <1>6, <1>7, <1>8, <1>9, <1>12, <2>1 DEF References, One
<1>. QED  BY <1>10, <1>11, <1>12

(* The locals of a call take a reference to events, as the wait list of the  *)
(* blockers does, and the AsyncAction of an unmap command.                   *)
LEMMA LocalsTakeCounted ==
  ASSUME IInv, RefsAreCounted, NEW S \in SUBSET Events,
         ref' = [e \in Events |-> IF e \in S THEN ref[e] + 1 ELSE ref[e]],
         held' = [e \in Events |-> IF e \in S THEN held[e] + 1 ELSE held[e]],
         UNCHANGED <<actions, byEvent, byRd, byWr, hook, doneOf, leaked>>,
         {step, step'} \intersect {"user", "remember", "hook"} = {}
  PROVE  RefsAreCounted'
<1> SUFFICES ASSUME NEW e \in Events PROVE ref'[e] = References(e)'
  BY DEF RefsAreCounted
<1>1. ~SettingUp(e)' /\ ~SettingUp(e)
  BY DEF SettingUp
<1>2. Entries(e)' = Entries(e)
  BY DEF Entries
<1>3. ref[e] = References(e) /\ Cardinality(Entries(e)) \in Int /\ held[e] \in Int
  BY EntriesFacts DEF RefsAreCounted, IInv, OrderInv, TypeOK
<1>4. References(e)' = References(e) + (held'[e] - held[e])
  <2>1. held'[e] \in Int
    BY <1>3
  <2>. QED  BY <1>1, <1>2, <1>3, <2>1 DEF References, One
<1>5. ref[e] \in Int /\ ref'[e] = ref[e] + (held'[e] - held[e])
  <2>1. ref[e] \in Int
    BY DEF IInv, OrderInv, TypeOK
  <2>. QED  BY <1>3, <2>1
<1>. QED  BY <1>3, <1>4, <1>5

(* The blockers of one more use. *)
LEMMA FindBlockersCounted ==
  ASSUME IInv, RefsAreCounted, FindBlockers
  PROVE  RefsAreCounted'
<1>1. PICK S \in SUBSET Events :
        /\ ref' = [e \in Events |-> IF e \in S THEN ref[e] + 1 ELSE ref[e]]
        /\ held' = [e \in Events |-> IF e \in S THEN held[e] + 1 ELSE held[e]]
  <2>1. PICK u \in todo : FindBlockers!2!(u)
    BY DEF FindBlockers
  <2>2. GetDistinct(u[1], Opposite(u[2])) \ blockers \in SUBSET Events
    BY DEF GetDistinct, IInv, OrderInv, TypeOK, Command
  <2>. QED  BY <2>1, <2>2
<1>2. step = "ask" /\ step' \in {"enqueue", "ask"} /\ UNCHANGED <<actions, byEvent, byRd, byWr, hook, doneOf, leaked>>
  BY DEF FindBlockers, library, outer, tracker
<1>. QED  BY <1>1, <1>2, LocalsTakeCounted

(* The AsyncAction of an unmap command that only waits for the callback. *)
LEMMA EnqueueUnmapAfterReadingCounted ==
  ASSUME IInv, RefsAreCounted, EnqueueUnmapAfterReading
  PROVE  RefsAreCounted'
<1>1. /\ step = "enqueue" /\ step' = "return" /\ form = "unmap"
      /\ UNCHANGED <<actions, byEvent, byRd, byWr, hook, doneOf, leaked>>
      /\ ref' = [ref EXCEPT ![callbackDone] = ref[callbackDone] + 1]
      /\ held' = [held EXCEPT ![callbackDone] = held[callbackDone] + 1]
  BY DEF EnqueueUnmapAfterReading, tracker
<1>2. callbackDone \in Events /\ ref \in [Events -> Int] /\ held \in [Events -> Nat]
  BY <1>1, TrackerAssumption DEF IInv, OrderInv, Control, TypeOK, Events
<1>3. /\ {callbackDone} \in SUBSET Events
      /\ ref' = [e \in Events |-> IF e \in {callbackDone} THEN ref[e] + 1 ELSE ref[e]]
      /\ held' = [e \in Events |-> IF e \in {callbackDone} THEN held[e] + 1 ELSE held[e]]
  BY <1>1, <1>2
<1>. QED  BY <1>1, <1>3, LocalsTakeCounted

(* The locals go. The AsyncAction is kept or not, and after a failure nobody *)
(* is left to give back the references of what was being set up.             *)
LEMMA ReleaseCounted ==
  ASSUME IInv, RefsAreCounted, NEW keep \in SUBSET ({result} \ {0}), NEW lost \in SUBSET Events,
         Release(keep, lost), step # "idle",
         \A e \in Events : SettingUp(e) <=> e \in lost
  PROVE  RefsAreCounted'
<1>. USE DEF IInv
<1>1. /\ step' = "idle" /\ actions' = actions \union keep /\ leaked' = leaked \union lost
      /\ ref' = [e \in Events |-> ref[e] - held[e] + (IF e \in keep THEN 1 ELSE 0)]
      /\ held' = [e \in Events |-> 0]
      /\ UNCHANGED <<hook, doneOf, byEvent, byRd, byWr>>
  BY DEF Release, library, tracker
<1>2. keep \intersect actions = {}
  BY DEF Owned
<1> SUFFICES ASSUME NEW e \in Events PROVE ref'[e] = References(e)'
  BY DEF RefsAreCounted
<1>3. e \in lost => e \notin leaked
  <2>1. SettingUp(e) => e \notin leaked
    BY DEF SettingUp, Owned
  <2>. QED  BY <2>1
<1>4. ~SettingUp(e)'
  BY <1>1 DEF SettingUp
<1>5. Entries(e)' = Entries(e)
  BY <1>1 DEF Entries
<1>6. ref[e] = References(e) /\ Cardinality(Entries(e)) \in Int /\ held[e] \in Int
  BY EntriesFacts DEF RefsAreCounted, OrderInv, TypeOK
<1>7. References(e)' = References(e) - held[e] + (IF e \in keep THEN 1 ELSE 0)
  <2>1. held'[e] = 0 /\ (e \in actions' <=> e \in actions \/ e \in keep) /\ (e \in leaked' <=> e \in leaked \/ e \in lost)
    BY <1>1
  <2>. QED  BY <1>1, <1>2, <1>3, <1>4, <1>5, <1>6, <2>1 DEF References, One
<1>. QED  BY <1>1, <1>6, <1>7

(* An AsyncAction goes. *)
LEMMA DetachCounted ==
  ASSUME IInv, RefsAreCounted, Detach
  PROVE  RefsAreCounted'
<1>1. PICK a \in actions : step = "idle" /\ actions' = actions \ {a} /\ ref' = [ref EXCEPT ![a] = ref[a] - 1]
  BY DEF Detach
<1>2. UNCHANGED <<held, step, hook, doneOf, leaked, byEvent, byRd, byWr>>
  BY DEF Detach, library, tracker
<1> SUFFICES ASSUME NEW e \in Events PROVE ref'[e] = References(e)'
  BY DEF RefsAreCounted
<1>3. ~SettingUp(e)' /\ ~SettingUp(e) /\ Entries(e)' = Entries(e)
  BY <1>1, <1>2 DEF SettingUp, Entries
<1>4. ref[e] = References(e) /\ Cardinality(Entries(e)) \in Int /\ held[e] \in Int
  BY EntriesFacts DEF RefsAreCounted, IInv, OrderInv, TypeOK
<1>5. ref'[e] = IF e = a THEN ref[e] - 1 ELSE ref[e]
  BY <1>1 DEF IInv, OrderInv, TypeOK
<1>6. References(e)' = References(e) - (IF e = a THEN 1 ELSE 0)
  BY <1>1, <1>2, <1>3, <1>4 DEF References, One
<1>7. References(e) \in Int
  BY <1>4 DEF References, One
<1>. QED  BY <1>4, <1>5, <1>6, <1>7

(* A callback gives back what the entries and the callback itself hold, and  *)
(* the arguments of a map that failed.                                       *)
LEMMA CallbackCounted ==
  ASSUME IInv, RefsAreCounted, OnGenericCommandCompleted \/ OnMapCommandCompleted
  PROVE  RefsAreCounted'
<1>. USE DEF IInv
<1>1. PICK d \in Events, h \in {"calling", "done"} :
        /\ hook[d] \in {"generic", "map"} /\ Forget(d) /\ hook' = [hook EXCEPT ![d] = h]
        /\ h = "calling" => hook[d] = "map"
        /\ LET r == [ref EXCEPT ![d] = ref[d] - Dropped(d) - 1]
           IN ref' = IF h = "done" /\ hook[d] = "map" THEN [r EXCEPT ![doneOf[d]] = r[doneOf[d]] - 1] ELSE r
  BY DEF OnGenericCommandCompleted, OnMapCommandCompleted
<1>2. UNCHANGED <<held, step, form, cmd, callbackDone, actions, doneOf, leaked>>
  BY DEF OnGenericCommandCompleted, OnMapCommandCompleted, locals, outer
<1>3. /\ ref \in [Events -> Int] /\ held \in [Events -> Nat] /\ doneOf \in [Events -> Events \union {0}]
      /\ hook \in [Events -> {"none", "generic", "map", "calling", "done"}]
  BY DEF OrderInv, TypeOK
<1>4. byEvent' = {c \in byEvent : c.event # d} /\ MapsAgree' /\ Dropped(d) = Cardinality(Entries(d)) /\ Dropped(d) \in Nat
  BY <1>1, ForgetFacts
<1> SUFFICES ASSUME NEW e \in Events PROVE ref'[e] = References(e)'
  BY DEF RefsAreCounted
<1>. DEFINE gone == h = "done" /\ hook[d] = "map" /\ e = doneOf[d]
<1>5. Entries(e) = {c \in byEvent : c.event = e} /\ Cardinality(Entries(e)) \in Int
  BY EntriesFacts
<1>6. Entries(e)' = {c \in byEvent' : c.event = e}
  BY <1>4 DEF Entries, MapsAgree
<1>7. Cardinality(Entries(e)') = IF e = d THEN 0 ELSE Cardinality(Entries(e))
  <2>1. CASE e = d
    <3>1. Entries(e)' = {}
      BY <1>4, <1>6, <2>1
    <3>. QED  BY <2>1, <3>1, FS_EmptySet
  <2>2. CASE e # d
    <3>1. Entries(e)' = Entries(e)
      BY <1>4, <1>5, <1>6, <2>2
    <3>. QED  BY <2>2, <3>1
  <2>. QED  BY <2>1, <2>2
<1>8. \A m \in Events : hook'[m] = IF m = d THEN h ELSE hook[m]
  BY <1>1, <1>3
<1>9. (\E m \in Events : doneOf'[m] = e /\ hook'[m] \in {"map", "calling"})
      <=> ~gone /\ \E m \in Events : doneOf[m] = e /\ hook[m] \in {"map", "calling"}
  <2>1. CASE ~gone
    <3>1. ASSUME NEW m \in Events, doneOf[m] = e, hook[m] \in {"map", "calling"}
          PROVE  hook'[m] \in {"map", "calling"}
      BY <1>1, <1>8, <2>1, <3>1
    <3>2. ASSUME NEW m \in Events, doneOf[m] = e, hook'[m] \in {"map", "calling"}
          PROVE  hook[m] \in {"map", "calling"}
      BY <1>1, <1>8, <3>2
    <3>. QED  BY <1>2, <2>1, <3>1, <3>2
  <2>2. CASE gone
    <3>1. ASSUME NEW m \in Events, doneOf[m] = e PROVE m = d
      <4>1. doneOf[m] # 0
        BY <3>1 DEF Events
      <4>. QED  BY <2>2, <3>1, <4>1 DEF OrderInv, UserEvents
    <3>. QED  BY <1>2, <1>8, <2>2, <3>1
  <2>. QED  BY <2>1, <2>2
<1>10. gone => \E m \in Events : doneOf[m] = e /\ hook[m] \in {"map", "calling"}
  OBVIOUS
<1>11. SettingUp(e)' = SettingUp(e)
  BY <1>2 DEF SettingUp
<1>12. ref'[e] = ref[e] - (IF e = d THEN Cardinality(Entries(e)) + 1 ELSE 0) - (IF gone THEN 1 ELSE 0)
  <2> DEFINE r == [ref EXCEPT ![d] = ref[d] - Dropped(d) - 1]
  <2>1. r \in [Events -> Int] /\ r[e] = IF e = d THEN ref[e] - Cardinality(Entries(e)) - 1 ELSE ref[e]
    BY <1>3, <1>4
  <2>2. ref' = IF h = "done" /\ hook[d] = "map" THEN [r EXCEPT ![doneOf[d]] = r[doneOf[d]] - 1] ELSE r
    BY <1>1
  <2>3. ref'[e] = IF gone THEN r[e] - 1 ELSE r[e]
    BY <2>1, <2>2
  <2>4. ref[e] \in Int
    BY <1>3
  <2>. QED  BY ONLY <1>5, <2>1, <2>3, <2>4
<1>13. References(e)' = References(e) - (IF e = d THEN Cardinality(Entries(e)) + 1 ELSE 0) - (IF gone THEN 1 ELSE 0)
  <2>1. One(hook'[e] \in {"generic", "map"})
          = One(hook[e] \in {"generic", "map"}) - (IF e = d THEN 1 ELSE 0)
    BY <1>1, <1>8 DEF One
  <2>2. One(\E m \in Events : doneOf'[m] = e /\ hook'[m] \in {"map", "calling"})
          = One(\E m \in Events : doneOf[m] = e /\ hook[m] \in {"map", "calling"}) - (IF gone THEN 1 ELSE 0)
    BY <1>9, <1>10 DEF One
  <2>3. /\ One(hook[e] \in {"generic", "map"}) \in Int /\ One(e \in actions) \in Int /\ One(e \in leaked) \in Int
        /\ One(\E m \in Events : doneOf[m] = e /\ hook[m] \in {"map", "calling"}) \in Int
        /\ One(SettingUp(e)) \in Int /\ held[e] \in Int
    BY <1>3 DEF One
  <2>4. held'[e] = held[e] /\ actions' = actions /\ leaked' = leaked
    BY <1>2
  <2>. QED  BY <1>5, <1>7, <1>11, <2>1, <2>2, <2>3, <2>4 DEF References, One
<1>14. ref[e] = References(e)
  BY DEF RefsAreCounted
<1>. QED  BY <1>12, <1>13, <1>14

(* The arguments of the callback of a map go with its end. *)
LEMMA ClientCallbackEndsCounted ==
  ASSUME IInv, RefsAreCounted, ClientCallbackEnds
  PROVE  RefsAreCounted'
<1>. USE DEF IInv
<1>1. PICK d \in Events :
        /\ hook[d] = "calling" /\ hook' = [hook EXCEPT ![d] = "done"]
        /\ ref' = [ref EXCEPT ![doneOf[d]] = ref[doneOf[d]] - 1]
  BY DEF ClientCallbackEnds
<1>2. UNCHANGED <<held, step, form, cmd, callbackDone, actions, doneOf, leaked, byEvent, byRd, byWr>>
  BY DEF ClientCallbackEnds, locals, tracker
<1>3. /\ ref \in [Events -> Int] /\ held \in [Events -> Nat] /\ doneOf \in [Events -> Events \union {0}]
      /\ hook \in [Events -> {"none", "generic", "map", "calling", "done"}]
  BY DEF OrderInv, TypeOK
<1> SUFFICES ASSUME NEW e \in Events PROVE ref'[e] = References(e)'
  BY DEF RefsAreCounted
<1>4. SettingUp(e)' = SettingUp(e) /\ Entries(e)' = Entries(e)
  BY <1>2 DEF SettingUp, Entries
<1>5. \A m \in Events : hook'[m] = IF m = d THEN "done" ELSE hook[m]
  BY <1>1, <1>3
<1>6. ref'[e] = IF e = doneOf[d] THEN ref[e] - 1 ELSE ref[e]
  BY <1>1, <1>3
<1>7. ref[e] = References(e) /\ Cardinality(Entries(e)) \in Int /\ held[e] \in Int
  BY <1>3, EntriesFacts DEF RefsAreCounted
<1>8. One(\E m \in Events : doneOf'[m] = e /\ hook'[m] \in {"map", "calling"})
      = One(\E m \in Events : doneOf[m] = e /\ hook[m] \in {"map", "calling"}) - (IF e = doneOf[d] THEN 1 ELSE 0)
  <2>1. CASE e = doneOf[d]
    <3>1. ASSUME NEW m \in Events, doneOf[m] = e PROVE m = d
      <4>1. doneOf[m] # 0
        BY <3>1 DEF Events
      <4>. QED  BY <2>1, <3>1, <4>1 DEF OrderInv, UserEvents
    <3>. QED  BY <1>1, <1>2, <1>5, <2>1, <3>1 DEF One
  <2>2. CASE e # doneOf[d]
    <3>1. (\E m \in Events : doneOf'[m] = e /\ hook'[m] \in {"map", "calling"})
          <=> (\E m \in Events : doneOf[m] = e /\ hook[m] \in {"map", "calling"})
      BY <1>1, <1>2, <1>5, <2>2
    <3>. QED  BY <2>2, <3>1 DEF One
  <2>. QED  BY <2>1, <2>2
<1>9. One(hook'[e] \in {"generic", "map"}) = One(hook[e] \in {"generic", "map"})
  BY <1>1, <1>5 DEF One
<1>10. /\ One(hook[e] \in {"generic", "map"}) \in Int /\ One(e \in actions) \in Int /\ One(e \in leaked) \in Int
       /\ One(\E m \in Events : doneOf[m] = e /\ hook[m] \in {"map", "calling"}) \in Int
       /\ One(SettingUp(e)) \in Int
  BY DEF One
<1>11. References(e)' = References(e) - (IF e = doneOf[d] THEN 1 ELSE 0)
  BY <1>2, <1>4, <1>7, <1>8, <1>9, <1>10 DEF References, One
<1>12. ref[e] \in Int
  BY <1>3
<1>. QED  BY <1>6, <1>7, <1>11, <1>12

(* Every step keeps the counts. *)
LEMMA NextCounted == IInv /\ RefsAreCounted /\ [Next]_vars => RefsAreCounted'
<1> SUFFICES ASSUME IInv, RefsAreCounted, [Next]_vars PROVE RefsAreCounted'
  OBVIOUS
<1>1. ASSUME NEW f, NEW us, NEW t, Call(f, us, t) PROVE RefsAreCounted'
  BY <1>1, QuietCounted DEF Call, Ask, library, counts, outer, tracker
<1>2. CASE Await \/ Finish \/ WaitEnds
  BY <1>2, QuietCounted DEF Await, Finish, WaitEnds, library, counts, outer, tracker
<1>3. CASE Begin
  BY <1>1, <1>2, <1>3, DetachCounted DEF Begin, EnqueueFillBufferAsync, EnqueueReadBuffer, EnqueueReadBufferAsync,
     EnqueueWriteBuffer, EnqueueWriteBufferAsync, EnqueueCopyBufferAsync, EnqueueNDRangeKernelAsyncImpl,
     EnqueueMapBuffer, EnqueueMapBufferAsync
<1>4. CASE EnqueueAsync \/ EnqueueBlocking \/ EnqueueMap
  <2>1. \E n \in Nat, k \in Nat :
          /\ NewCommand(n, k) /\ step = "enqueue" /\ n = IF step' \in {"user", "remember", "hook"} THEN k + 1 ELSE k
          /\ form = "map" => step' = "user"
    BY <1>4 DEF EnqueueAsync, EnqueueBlocking, EnqueueMap
  <2>2. PICK n \in Nat, k \in Nat :
          /\ NewCommand(n, k) /\ step = "enqueue" /\ n = IF step' \in {"user", "remember", "hook"} THEN k + 1 ELSE k
          /\ form = "map" => step' = "user"
    BY <2>1
  <2>. QED  BY <2>2, NewCommandCounted
<1>5. CASE BlockingEnds
  BY <1>5, QuietCounted DEF BlockingEnds, NowUnmap, Ask, library, counts, outer, tracker
<1>6. CASE Return
  <2>1. PICK keep \in SUBSET ({result} \ {0}) : Release(keep, {}) /\ step = "return"
    BY <1>6 DEF Return
  <2>2. \A e \in Events : SettingUp(e) <=> e \in {}
    BY <2>1 DEF SettingUp
  <2>. QED  BY <2>1, <2>2, ReleaseCounted
<1>7. CASE EnqueueFails
  <2>1. Release({}, {}) /\ step = "enqueue"
    BY <1>7 DEF EnqueueFails
  <2>2. \A e \in Events : SettingUp(e) <=> e \in {}
    BY <2>1 DEF SettingUp
  <2>. QED  BY <2>1, <2>2, ReleaseCounted
<1>8. CASE SetCallbackFails
  <2> DEFINE lost == {cmd} \union (IF form = "map" THEN {callbackDone} ELSE {})
  <2>1. Release({}, lost) /\ step = "hook"
    BY <1>8 DEF SetCallbackFails
  <2>2. lost \in SUBSET Events
    BY <2>1, TrackerAssumption DEF IInv, OrderInv, Control, TypeOK, Events
  <2>3. \A e \in Events : SettingUp(e) <=> e \in lost
    BY <2>1 DEF SettingUp
  <2>. QED  BY <2>1, <2>2, <2>3, ReleaseCounted
<1>9. CASE StartCommand \/ CommandEnds \/ CommandAborts
  BY <1>9, QuietCounted DEF StartCommand, CommandEnds, CommandAborts, SetStatus, counts, locals, tracker
<1>10. CASE UNCHANGED vars
  BY <1>10, QuietCounted DEF vars, library, counts, locals, outer, tracker
<1>11. CASE FindBlockers \/ CreateUserEvent \/ RememberUse \/ SetCallback \/ EnqueueUnmapAfterReading
  BY <1>11, FindBlockersCounted, CreateUserEventCounted, RememberUseCounted, SetCallbackCounted,
     EnqueueUnmapAfterReadingCounted
<1>12. CASE WaitEnds
  BY <1>2, <1>12
<1>13. CASE Library
  BY <1>9, <1>13, CallbackCounted, ClientCallbackEndsCounted DEF Library
<1>. QED  BY <1>3, <1>4, <1>5, <1>6, <1>7, <1>8, <1>10, <1>11, <1>12, <1>13 DEF Next, Continue

(* No event goes while a local, an AsyncAction, an entry of the tracker or a *)
(* callback refers to it, and none stays without: a reference is counted for *)
(* each, in whatever order the calls and the callbacks come.                 *)
THEOREM ReferencesCounted == Spec => []RefsAreCounted
<1>1. Init => RefsAreCounted
  <2> SUFFICES ASSUME Init, NEW e \in Events PROVE ref[e] = References(e)
    BY DEF RefsAreCounted
  <2>1. Entries(e) = {}
    BY DEF Init, TrackerInit, Entries
  <2>2. Cardinality(Entries(e)) = 0
    BY <2>1, FS_EmptySet
  <2>. QED  BY <2>2 DEF Init, References, One, SettingUp
<1>. QED  BY <1>1, NextCounted, Invariance, PTL DEF Spec

(* A clEnqueue function, or clCreateUserEvent, is a submission.              *)
LEMMA SubmitRefines ==
  ASSUME OrderInv, NEW s \in {"queued", "user"}, NEW us \in SUBSET Uses, next + 1 \in Events,
         status' = [status EXCEPT ![next + 1] = s], access' = [access EXCEPT ![next + 1] = us],
         s = "user" => us = {}
  PROVE  Ordered!Next
<1>. DEFINE e == next + 1
<1>1. \A d \in Events : d >= e => status[d] = "none"
  BY TrackerAssumption DEF OrderInv, TypeOK, Created, Events
<1>2. Ordered!Submit(e, s, us)
  BY <1>1 DEF Ordered!Submit
<1>. QED  BY <1>2 DEF Ordered!Next

(* No step of the thread of the application changes anything else. *)
LEMMA ContinueRefines ==
  ASSUME OrderInv, Begin \/ Continue
  PROVE  Ordered!Next \/ UNCHANGED <<status, access>>
<1>. USE DEF library, locals, outer
<1>1. ASSUME NEW count \in Nat, NEW mine \in Nat, NewCommand(count, mine), step = "enqueue"
      PROVE  Ordered!Next
  <2>1. next + 1 \in Events
    BY <1>1, TrackerAssumption DEF OrderInv, Control, EventsLeft, EventsOf, TypeOK, Events, Forms
  <2>2. uses \in SUBSET Uses
    BY DEF OrderInv, TypeOK
  <2>. QED  BY <1>1, <2>1, <2>2, SubmitRefines DEF NewCommand
<1>2. CASE EnqueueAsync \/ EnqueueBlocking \/ EnqueueMap
  BY <1>1, <1>2 DEF EnqueueAsync, EnqueueBlocking, EnqueueMap
<1>3. CASE CreateUserEvent
  <2>1. next + 1 \in Events
    BY <1>3, TrackerAssumption DEF CreateUserEvent, OrderInv, Control, EventsLeft, TypeOK, Events
  <2>2. access' = [access EXCEPT ![next + 1] = {}]
    BY <1>3, <2>1, TrackerAssumption DEF CreateUserEvent, OrderInv, Created, TypeOK, Events
  <2>. QED  BY <1>3, <2>1, <2>2, SubmitRefines DEF CreateUserEvent
<1>4. CASE EnqueueUnmapAfterReading
  <2>1. next + 1 \in Events
    BY <1>4, TrackerAssumption DEF EnqueueUnmapAfterReading, OrderInv, Control, EventsLeft, EventsOf, TypeOK, Events
  <2>2. access' = [access EXCEPT ![next + 1] = {}]
    BY <1>4, <2>1, TrackerAssumption DEF EnqueueUnmapAfterReading, OrderInv, Created, TypeOK, Events
  <2>. QED  BY <1>4, <2>1, <2>2, SubmitRefines DEF EnqueueUnmapAfterReading
<1>5. CASE Begin
  BY <1>5 DEF Begin, EnqueueFillBufferAsync, EnqueueReadBuffer, EnqueueReadBufferAsync, EnqueueWriteBuffer,
     EnqueueWriteBufferAsync, EnqueueCopyBufferAsync, EnqueueNDRangeKernelAsyncImpl, EnqueueMapBuffer,
     EnqueueMapBufferAsync, Call, Await, Finish, Detach
<1>6. CASE FindBlockers \/ RememberUse \/ SetCallback \/ BlockingEnds
  BY <1>6 DEF FindBlockers, RememberUse, SetCallback, BlockingEnds
<1>7. CASE Return \/ EnqueueFails \/ SetCallbackFails \/ WaitEnds
  BY <1>7 DEF Return, EnqueueFails, SetCallbackFails, WaitEnds, Release
<1>. QED  BY <1>2, <1>3, <1>4, <1>5, <1>6, <1>7 DEF Continue

(* A command starts only when its turn has come: in order, for everything    *)
(* before it has ended; out of order, for it waits for what it clashes with. *)
LEMMA StartRefines ==
  ASSUME OrderInv, StartCommand
  PROVE  Ordered!Next
<1>1. PICK e \in Events :
        /\ status[e] = "queued" /\ \A d \in waits[e] : Ended(d)
        /\ m_oooExecEnabled \/ \A d \in Events : d < e => status[d] \notin {"queued", "running"}
        /\ SetStatus(e, "running")
  BY DEF StartCommand
<1>2. ASSUME NEW d \in Events, d < e, ~Ended(d), NEW x \in access[d], NEW y \in access[e]
      PROVE  ~Clash(x, y)
  <2>1. status[d] \in {"queued", "running"}
    BY <1>2 DEF OrderInv, Created, TypeOK, Ended
  <2>2. m_oooExecEnabled /\ d \notin waits[e]
    BY <1>1, <1>2, <2>1
  <2>. QED  BY <1>1, <1>2, <2>2 DEF OrderInv, WaitsForClashes
<1>3. Ordered!Run(e)
  BY <1>1, <1>2 DEF Ordered!Run, Ordered!Ended, Ended, SetStatus
<1>. QED  BY <1>3 DEF Ordered!Next

(* What the library and its callbacks do ends commands and user events. *)
LEMMA LibraryRefines ==
  ASSUME OrderInv, Library
  PROVE  Ordered!Next \/ UNCHANGED <<status, access>>
<1>1. CASE StartCommand
  BY <1>1, StartRefines
<1>2. CASE CommandEnds \/ CommandAborts
  <2>1. PICK e \in Events, s \in {"complete", "aborted"} :
          /\ SetStatus(e, s)
          /\ status[e] = "running" \/ (status[e] = "queued" /\ s = "aborted")
    BY <1>2 DEF CommandEnds, CommandAborts
  <2>2. Ordered!End(e, s)
    BY <2>1 DEF Ordered!End, SetStatus
  <2>. QED  BY <2>2 DEF Ordered!Next
<1>3. CASE ClientCallbackEnds
  <2>1. PICK e \in Events :
          /\ hook[e] = "calling"
          /\ status' = [status EXCEPT ![doneOf[e]] = "complete"] \/ UNCHANGED status
    BY <1>3 DEF ClientCallbackEnds
  <2>2. UNCHANGED access
    BY <1>3 DEF ClientCallbackEnds
  <2>3. CASE doneOf[e] \in Events /\ status' = [status EXCEPT ![doneOf[e]] = "complete"]
    <3>1. doneOf[e] # 0
      BY <2>3 DEF Events
    <3>2. status[doneOf[e]] = "user"
      BY <2>1, <3>1 DEF OrderInv, UserEvents
    <3>3. Ordered!End(doneOf[e], "complete")
      BY <2>2, <2>3, <3>2 DEF Ordered!End
    <3>. QED  BY <2>3, <3>3 DEF Ordered!Next
  <2>4. CASE doneOf[e] \notin Events
    BY <2>1, <2>2, <2>4 DEF OrderInv, TypeOK
  <2>. QED  BY <2>1, <2>2, <2>3, <2>4
<1>4. CASE OnGenericCommandCompleted \/ OnMapCommandCompleted
  BY <1>4 DEF OnGenericCommandCompleted, OnMapCommandCompleted
<1>. QED  BY <1>1, <1>2, <1>3, <1>4 DEF Library

(* The device with its tracker implements a device that runs no command      *)
(* before those it clashes with have ended, whatever calls are made, fail or *)
(* are overtaken by callbacks.                                               *)
THEOREM TrackerKeepsOrder == Spec => ImplementsOrdered
<1>1. Init => Ordered!Init
  BY DEF Init, Ordered!Init
<1>2. IInv /\ [Next]_vars => [Ordered!Next]_<<status, access>>
  BY ContinueRefines, LibraryRefines DEF IInv, Next, vars, library
<1>. QED  BY <1>1, <1>2, Invariance, PTL DEF Spec, ImplementsOrdered, Ordered!Spec

===============================================================================
