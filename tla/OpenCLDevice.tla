----------------------------- MODULE OpenCLDevice -----------------------------
(***************************************************************************)
(* opencl::Device: the thread of the application that enqueues commands,   *)
(* the OpenCL run-time library, which runs them out of order or in order,  *)
(* and the callbacks that the library invokes in threads of its own.       *)
(***************************************************************************)
EXTENDS CommandTracker, FiniteSets

CONSTANTS
  Kernels,     (* the kernels: the uses of memory that arguments stand for  *)
  Faults,      (* what may go wrong: "enqueue", "hook", "abnormal", "throw" *)
  MaxFaults,   (* bound: of those that leave something behind               *)
  MaxActions   (* bound: the AsyncActions that the application may have     *)

ASSUME DeviceAssumption ==
  Kernels \subseteq SUBSET (Resources \X MemResourceUse)

VARIABLES
  m_oooExecEnabled,
  (* The library.                                                           *)
  status,      (* of the command, or of the user event, behind an event     *)
  access,      (* the uses of memory of a command                           *)
  waits,       (* its event wait list                                       *)
  hook,        (* the callback set for an event, and how far it is          *)
  ref,         (* the reference count of an event                           *)
  (* The call in progress, which has one thread.                            *)
  step,        (* where it stands                                           *)
  form,        (* what it enqueues: a command, a map or an unmap            *)
  target,      (* of a map: the buffer and how it is mapped                 *)
  uses, todo,  (* the uses to look up and remember; those not visited yet   *)
  blockers,    (* the events in the vector that is the wait list            *)
  cmd,         (* the command that the call enqueued last                   *)
  callbackDone, (* the user event of an asynchronous map                    *)
  result,      (* the event of the local AsyncAction                        *)
  held,        (* the references of the local CommandEvents and AsyncAction *)
  (* What outlives a call.                                                  *)
  next,        (* the events created so far                                 *)
  actions,     (* the events of the AsyncActions that the application has   *)
  doneOf,      (* the user event that the callback of a map command sets    *)
  leaked,      (* events with a reference that nobody will give back        *)
  faults       (* how many of the faults have happened                      *)

library == <<status, access, waits, hook>>
counts == <<ref, held>>
locals == <<form, target, uses, todo, blockers, cmd, callbackDone, result>>
outer == <<next, actions, doneOf, leaked, faults>>
vars == <<m_oooExecEnabled, library, counts, step, locals, outer, tracker>>

ASSUME BoundAssumption == MaxFaults \in Nat /\ MaxActions \in Nat

Uses == Resources \X MemResourceUse
Started == {"running", "complete", "aborted"}
Steps == {"idle", "ask", "enqueue", "user", "remember", "hook", "block", "return", "await", "finish"}
Forms == {"async", "sync", "map", "unmap", "syncmap", "syncunmap"}
Ended(e) == status[e] \in {"complete", "aborted"}
IsWriting(use) == use \in Writes

(* What a use has to wait for in the code of every operation: a reader for   *)
(* those that write, a writer for those that read, and a kernel argument     *)
(* with both directions for its like.                                        *)
Opposite(use) ==
  CASE use = "Input" -> "Output"
    [] use = "Output" -> "Input"
    [] use = "InputAndOutput" -> "InputAndOutput"

MayFail(fault) == fault \in Faults /\ faults < MaxFaults

Init ==
  /\ m_oooExecEnabled \in BOOLEAN
  /\ TrackerInit
  /\ status = [e \in Events |-> "none"] /\ access = [e \in Events |-> {}]
  /\ waits = [e \in Events |-> {}] /\ hook = [e \in Events |-> "none"]
  /\ ref = [e \in Events |-> 0] /\ held = [e \in Events |-> 0]
  /\ step = "idle"
  /\ form = "async" /\ target = <<>> /\ uses = {} /\ todo = {}
  /\ blockers = {} /\ cmd = 0 /\ callbackDone = 0 /\ result = 0
  /\ next = 0 /\ actions = {} /\ doneOf = [e \in Events |-> 0] /\ leaked = {} /\ faults = 0

-----------------------------------------------------------------------------
(* The calls of the application.                                             *)

(* Only a device that may reorder looks for blockers.                        *)
Ask(us) == IF m_oooExecEnabled /\ us # {} THEN "ask" ELSE "enqueue"

(* The events that a call is going to create, which the bound must allow.    *)
EventsOf(f) == IF f = "map" THEN 3 ELSE IF f = "syncmap" THEN 2 ELSE 1

Call(f, us, t) ==
  /\ step = "idle" /\ next + EventsOf(f) <= MaxEvents /\ Cardinality(actions) < MaxActions
  /\ form' = f /\ target' = t /\ uses' = us /\ todo' = us /\ step' = Ask(us)
  /\ UNCHANGED <<m_oooExecEnabled, library, counts, blockers, cmd, callbackDone, result, outer, tracker>>

EnqueueFillBufferAsync == \E b \in Buffers : Call("async", {<<b, "Output">>}, <<>>)

EnqueueReadBuffer ==
  \E b \in Buffers, p \in Hosts : Call("sync", {<<b, "Input">>, <<p, "Output">>}, <<>>)

EnqueueReadBufferAsync ==
  \E b \in Buffers, p \in Hosts : Call("async", {<<b, "Input">>, <<p, "Output">>}, <<>>)

EnqueueWriteBuffer ==
  \E b \in Buffers, p \in Hosts : Call("sync", {<<p, "Input">>, <<b, "Output">>}, <<>>)

EnqueueWriteBufferAsync ==
  \E b \in Buffers, p \in Hosts : Call("async", {<<p, "Input">>, <<b, "Output">>}, <<>>)

EnqueueCopyBufferAsync ==
  \E from, to \in Buffers : Call("async", {<<from, "Input">>, <<to, "Output">>}, <<>>)

EnqueueNDRangeKernelAsyncImpl == \E args \in Kernels : Call("async", args, <<>>)

(* Mapping reads the buffer when the host is to read it, and unmapping       *)
(* writes it when the host has written.                                      *)
MapUses(b, how) == IF how \in Reads THEN {<<b, "Input">>} ELSE {}
UnmapUses(b, how) == IF how \in Writes THEN {<<b, "Output">>} ELSE {}

EnqueueMapBuffer ==
  \E b \in Buffers, how \in MemResourceUse : Call("syncmap", MapUses(b, how), <<b, how>>)

EnqueueMapBufferAsync ==
  \E b \in Buffers, how \in MemResourceUse : Call("map", MapUses(b, how), <<b, how>>)

(* m_blockerCommands.GetDistinct, for one use: the vector is made anew with  *)
(* the events it had and those it did not have, each retained once.          *)
FindBlockers ==
  /\ step = "ask"
  /\ \E u \in todo :
       LET found == GetDistinct(u[1], Opposite(u[2])) \ blockers
       IN /\ blockers' = blockers \union found
          /\ ref' = [e \in Events |-> IF e \in found THEN ref[e] + 1 ELSE ref[e]]
          /\ held' = [e \in Events |-> IF e \in found THEN held[e] + 1 ELSE held[e]]
          /\ todo' = todo \ {u}
          /\ step' = IF todo' = {} THEN "enqueue" ELSE "ask"
  /\ UNCHANGED <<m_oooExecEnabled, library, form, target, uses, cmd, callbackDone, result, outer, tracker>>

(* A clEnqueue function of the library takes the command; the count of its   *)
(* event starts at one. Locals is how many objects of the call refer to it.  *)
NewCommand(count, mine) ==
  LET e == next + 1
  IN /\ next' = e /\ cmd' = e /\ todo' = uses
     /\ status' = [status EXCEPT ![e] = "queued"]
     /\ access' = [access EXCEPT ![e] = uses]
     /\ waits' = [waits EXCEPT ![e] = blockers]
     /\ ref' = [ref EXCEPT ![e] = count]
     /\ held' = [held EXCEPT ![e] = mine]
     /\ UNCHANGED <<m_oooExecEnabled, hook, form, target, uses, blockers, callbackDone, actions, doneOf, leaked, faults, tracker>>

(* mutant: the AsyncAction does not retain the event.             *)
EnqueueAsyncWeak ==
  /\ step = "enqueue" /\ (form = "async" \/ (form = "unmap" /\ uses # {}))
  /\ IF m_oooExecEnabled THEN NewCommand(2, 2) ELSE NewCommand(1, 1)
  /\ step' = IF ~m_oooExecEnabled THEN "return" ELSE IF uses = {} THEN "hook" ELSE "remember"
  /\ result' = cmd'

(* An asynchronous command, or the unmap command after the host has written  *)
(* to a mapped buffer: AsyncAction and CommandEvent retain the event that a  *)
(* callback is going to release. In order, the AsyncAction releases it.      *)
EnqueueAsync ==
  /\ step = "enqueue" /\ (form = "async" \/ (form = "unmap" /\ uses # {}))
  /\ IF m_oooExecEnabled THEN NewCommand(3, 2) ELSE NewCommand(1, 1)
  /\ step' = IF ~m_oooExecEnabled THEN "return" ELSE IF uses = {} THEN "hook" ELSE "remember"
  /\ result' = cmd'

(* A blocking command has no event. The one that unmaps has, and the call    *)
(* awaits it; when nothing was written, the call does not wait at all.       *)
EnqueueBlocking ==
  /\ step = "enqueue" /\ form \in {"sync", "syncmap", "syncunmap"}
  /\ IF form = "syncunmap" /\ uses # {} THEN NewCommand(1, 1) ELSE NewCommand(0, 0)
  /\ step' = IF form = "syncunmap" /\ uses = {} THEN "return" ELSE "block"
  /\ result' = 0

(* safeClEnqueueMapBuffer, and the CommandEvent.                             *)
EnqueueMap ==
  /\ step = "enqueue" /\ form = "map"
  /\ NewCommand(2, 1)
  /\ step' = "user" /\ result' = 0

(* callbackDoneEvent and the arguments of the callback, which copy it.       *)
CreateUserEvent ==
  LET e == next + 1
  IN /\ step = "user"
     /\ next' = e /\ callbackDone' = e
     /\ status' = [status EXCEPT ![e] = "user"]
     /\ doneOf' = [doneOf EXCEPT ![cmd] = e]
     /\ ref' = [ref EXCEPT ![e] = 2] /\ held' = [held EXCEPT ![e] = 1]
     /\ step' = IF m_oooExecEnabled /\ uses # {} THEN "remember" ELSE "hook"
     /\ UNCHANGED <<m_oooExecEnabled, access, waits, hook, form, target, uses, todo, blockers, cmd, result,
                    actions, leaked, faults, tracker>>

RememberUse ==
  /\ step = "remember"
  /\ \E u \in todo :
       /\ Remember(u[1], u[2], cmd)
       /\ ref' = [ref EXCEPT ![cmd] = @ + 1]
       /\ todo' = todo \ {u}
       /\ step' = IF todo' = {} THEN "hook" ELSE "remember"
  /\ UNCHANGED <<m_oooExecEnabled, library, held, form, target, uses, blockers, cmd, callbackDone, result, outer>>

(* After the map command comes the unmap command, which waits for the client *)
(* callback of the map.                                                      *)
NowUnmap(f, wait) ==
  /\ form' = f
  /\ uses' = UnmapUses(target[1], target[2]) /\ todo' = uses'
  /\ blockers' = wait /\ step' = Ask(uses')

SetCallback ==
  /\ step = "hook"
  /\ hook' = [hook EXCEPT ![cmd] = IF form = "map" THEN "map" ELSE "generic"]
  /\ IF form = "map"
     THEN /\ NowUnmap("unmap", {callbackDone})
          /\ held' = [held EXCEPT ![callbackDone] = @ + 1]
          /\ ref' = [ref EXCEPT ![callbackDone] = @ + 1]
     ELSE step' = "return" /\ UNCHANGED <<form, uses, todo, blockers, counts>>
  /\ UNCHANGED <<m_oooExecEnabled, status, access, waits, target, cmd, callbackDone, result, outer, tracker>>

(* The unmap command of a buffer that was only read has no event either: the *)
(* AsyncAction is about the end of the client callback.                      *)
EnqueueUnmapAfterReading ==
  LET e == next + 1
  IN /\ step = "enqueue" /\ form = "unmap" /\ uses = {}
     /\ next' = e
     /\ status' = [status EXCEPT ![e] = "queued"]
     /\ waits' = [waits EXCEPT ![e] = {callbackDone}]
     /\ ref' = [ref EXCEPT ![callbackDone] = @ + 1]
     /\ held' = [held EXCEPT ![callbackDone] = @ + 1]
     /\ result' = callbackDone /\ step' = "return"
     /\ UNCHANGED <<m_oooExecEnabled, access, hook, form, target, uses, todo, blockers, cmd, callbackDone,
                    actions, doneOf, leaked, faults, tracker>>

(* A blocking call goes on when its command ends. After mapping, it runs the *)
(* callback of the client and unmaps; an abnormal end is an exception.       *)
BlockingEnds ==
  /\ step = "block" /\ Ended(cmd)
  /\ IF form = "syncmap" /\ status[cmd] = "complete"
     THEN NowUnmap("syncunmap", {})
     ELSE step' = "return" /\ UNCHANGED <<form, uses, todo, blockers>>
  /\ UNCHANGED <<m_oooExecEnabled, library, counts, target, cmd, callbackDone, result, outer, tracker>>

(* The locals go out of scope and give back the references they hold.        *)
ClearLocals ==
  /\ form' = "async" /\ target' = <<>> /\ uses' = {} /\ todo' = {}
  /\ blockers' = {} /\ cmd' = 0 /\ callbackDone' = 0 /\ result' = 0

Release(keep, lost) ==
  /\ step' = "idle"
  /\ ref' = [e \in Events |-> ref[e] - held[e] + (IF e \in keep THEN 1 ELSE 0)]
  /\ held' = [e \in Events |-> 0]
  /\ actions' = actions \union keep /\ leaked' = leaked \union lost
  /\ faults' = IF lost = {} THEN faults ELSE faults + 1
  /\ ClearLocals
  /\ UNCHANGED <<m_oooExecEnabled, library, next, doneOf, tracker>>

(* The AsyncAction moves to the application, unless it is dropped: by a      *)
(* caller that does not want it, or because the flush of the queue threw.    *)
Return ==
  /\ step = "return"
  /\ \E keep \in SUBSET ({result} \ {0}) : Release(keep, {})

(* The library refuses, and nothing was enqueued.                            *)
EnqueueFails == "enqueue" \in Faults /\ step = "enqueue" /\ Release({}, {})

(* clSetEventCallback fails: the commands stay tracked, and nobody is left   *)
(* to release the event, nor the arguments of the callback.                  *)
SetCallbackFails ==
  /\ MayFail("hook") /\ step = "hook"
  /\ Release({}, {cmd} \union (IF form = "map" THEN {callbackDone} ELSE {}))

Await ==
  \E e \in actions :
    /\ step = "idle" /\ step' = "await" /\ cmd' = e
    /\ UNCHANGED <<m_oooExecEnabled, library, counts, form, target, uses, todo, blockers, callbackDone, result,
                   outer, tracker>>

Finish ==
  /\ step = "idle" /\ step' = "finish" /\ next > 0
  /\ UNCHANGED <<m_oooExecEnabled, library, counts, locals, outer, tracker>>

WaitEnds ==
  /\ \/ step = "await" /\ Ended(cmd)
     \/ step = "finish" /\ \A e \in Events : status[e] \notin {"queued", "running"}
  /\ step' = "idle" /\ ClearLocals
  /\ UNCHANGED <<m_oooExecEnabled, library, counts, outer, tracker>>

(* ~AsyncAction, or Detach.                                                  *)
Detach ==
  /\ step = "idle"
  /\ \E e \in actions :
       actions' = actions \ {e} /\ ref' = [ref EXCEPT ![e] = @ - 1]
  /\ UNCHANGED <<m_oooExecEnabled, library, held, step, locals, next, doneOf, leaked, faults, tracker>>

-----------------------------------------------------------------------------
(* The library. What it does with a command does not depend on the references *)
(* of the application: it has its own.                                       *)

SetStatus(e, s) ==
  /\ status' = [status EXCEPT ![e] = s]
  /\ waits' = [waits EXCEPT ![e] = {}]
  /\ UNCHANGED <<m_oooExecEnabled, access, hook, counts, step, locals, next, actions, doneOf, leaked, tracker>>

StartCommand ==
  \E e \in Events :
    /\ status[e] = "queued" /\ \A d \in waits[e] : Ended(d)
    /\ m_oooExecEnabled \/ \A d \in Events : d < e => status[d] \notin {"queued", "running"}
    /\ SetStatus(e, "running") /\ UNCHANGED faults

(* A command may end abnormally for itself, or for what it waited for.       *)
CommandEnds == \E e \in Events : status[e] = "running" /\ SetStatus(e, "complete") /\ UNCHANGED faults

CommandAborts ==
  \E e \in Events :
    /\ \/ status[e] = "running" /\ MayFail("abnormal") /\ faults' = faults + 1
       \/ status[e] = "queued" /\ (\E d \in waits[e] : status[d] = "aborted") /\ UNCHANGED faults
    /\ SetStatus(e, "aborted")

(* The references of the entries go with the entries.                        *)
Entries(e) == {c \in byEvent \union byRd \union byWr : c.event = e}
Dropped(e) == Cardinality(Entries(e)) - Cardinality({c \in byEvent' \union byRd' \union byWr' : c.event = e})

OnGenericCommandCompleted ==
  \E e \in Events :
    /\ hook[e] = "generic" /\ Ended(e)
    /\ Forget(e)
    /\ ref' = [ref EXCEPT ![e] = @ - Dropped(e) - 1]
    /\ hook' = [hook EXCEPT ![e] = "done"]
    /\ UNCHANGED <<m_oooExecEnabled, status, access, waits, held, step, locals, outer>>

(* Only when the map succeeded does the callback of the client run; else its *)
(* arguments go, and callbackDoneEvent keeps its status for ever.            *)
OnMapCommandCompleted ==
  \E e \in Events :
    /\ hook[e] = "map" /\ Ended(e)
    /\ Forget(e)
    /\ LET r == [ref EXCEPT ![e] = @ - Dropped(e) - 1]
       IN IF status[e] = "complete"
          THEN hook' = [hook EXCEPT ![e] = "calling"] /\ ref' = r
          ELSE hook' = [hook EXCEPT ![e] = "done"] /\ ref' = [r EXCEPT ![doneOf[e]] = @ - 1]
    /\ UNCHANGED <<m_oooExecEnabled, status, access, waits, held, step, locals, outer>>

(* mutant: the user event is left as it is.                       *)
ClientCallbackEndsUnsaid ==
  \E e \in Events :
    /\ hook[e] = "calling" /\ hook' = [hook EXCEPT ![e] = "done"]
    /\ ref' = [ref EXCEPT ![doneOf[e]] = @ - 1]
    /\ UNCHANGED <<m_oooExecEnabled, status, access, waits, held, step, locals, outer, tracker>>

(* The callback of the client returns, or throws and leaves the event unset. *)
ClientCallbackEnds ==
  \E e \in Events :
    /\ hook[e] = "calling" /\ hook' = [hook EXCEPT ![e] = "done"]
    /\ \/ status' = [status EXCEPT ![doneOf[e]] = "complete"] /\ UNCHANGED faults
       \/ MayFail("throw") /\ faults' = faults + 1 /\ UNCHANGED status
    /\ ref' = [ref EXCEPT ![doneOf[e]] = @ - 1]
    /\ UNCHANGED <<m_oooExecEnabled, access, waits, held, step, locals, next, actions, doneOf, leaked, tracker>>

-----------------------------------------------------------------------------
Begin ==
  \/ EnqueueFillBufferAsync \/ EnqueueReadBuffer \/ EnqueueReadBufferAsync
  \/ EnqueueWriteBuffer \/ EnqueueWriteBufferAsync \/ EnqueueCopyBufferAsync
  \/ EnqueueNDRangeKernelAsyncImpl \/ EnqueueMapBuffer \/ EnqueueMapBufferAsync
  \/ Await \/ Finish \/ Detach

Continue ==
  \/ FindBlockers \/ EnqueueAsync \/ EnqueueBlocking \/ EnqueueMap \/ CreateUserEvent
  \/ RememberUse \/ SetCallback \/ EnqueueUnmapAfterReading \/ BlockingEnds \/ Return
  \/ EnqueueFails \/ SetCallbackFails \/ WaitEnds

Library ==
  \/ StartCommand \/ CommandEnds \/ CommandAborts
  \/ OnGenericCommandCompleted \/ OnMapCommandCompleted \/ ClientCallbackEnds

Next == Begin \/ Continue \/ Library

Spec == Init /\ [][Next]_vars

(* The thread of the application goes on with its call; the library runs what *)
(* may run and invokes what is due.                                          *)
FairSpec == Spec /\ WF_vars(Continue) /\ WF_vars(Library)

-----------------------------------------------------------------------------
TypeOK ==
  /\ m_oooExecEnabled \in BOOLEAN
  /\ byEvent \subseteq Command /\ byRd \subseteq Command /\ byWr \subseteq Command
  /\ status \in [Events -> {"none", "queued", "running", "user", "complete", "aborted"}]
  /\ access \in [Events -> SUBSET Uses] /\ waits \in [Events -> SUBSET Events]
  /\ hook \in [Events -> {"none", "generic", "map", "calling", "done"}]
  /\ ref \in [Events -> Int] /\ held \in [Events -> Nat]
  /\ step \in Steps /\ form \in Forms
  /\ target \in (Buffers \X MemResourceUse) \union {<<>>}
  /\ uses \subseteq Uses /\ todo \subseteq uses /\ blockers \subseteq Events
  /\ cmd \in Events \union {0} /\ callbackDone \in Events \union {0} /\ result \in Events \union {0}
  /\ next \in Nat /\ actions \subseteq Events
  /\ doneOf \in [Events -> Events \union {0}] /\ leaked \subseteq Events /\ faults \in Nat

(* Who refers to an event: the locals of the call, the application, the      *)
(* entries of the tracker, the callback that releases the command - or the   *)
(* call that has yet to set it - and its arguments.                          *)
One(b) == IF b THEN 1 ELSE 0
SettingUp(e) ==
  /\ step \in {"user", "remember", "hook"}
  /\ e = cmd \/ (form = "map" /\ e = callbackDone)
References(e) ==
  held[e] + One(e \in actions) + Cardinality(Entries(e)) + One(hook[e] \in {"generic", "map"})
  + One(\E m \in Events : doneOf[m] = e /\ hook[m] \in {"map", "calling"})
  + One(SettingUp(e)) + One(e \in leaked)

(* The reference count that the library keeps of an event is the number of   *)
(* those who are going to give a reference back: no handle is used after its *)
(* event has gone, though a callback may release it before the call that     *)
(* enqueued the command has returned, and no event outlives them all.        *)
RefsAreCounted == \A e \in Events : ref[e] = References(e)

(* The tracker has no entry of a command whose callback has run: whoever     *)
(* found it there would wait for nothing, and nothing would ever remove it.  *)
NothingStale ==
  \A c \in byEvent :
    \/ hook[c.event] \in {"generic", "map"}
    \/ c.event = cmd /\ step \in {"remember", "hook"}
    \/ c.event \in leaked

(* What the operations wait for: two uses of the same memory of which one    *)
(* only reads and the other only writes, or two that do both.                *)
Clash(x, y) == x[1] = y[1] /\ y[2] = Opposite(x[2])

(* The parts of an invariant that every step preserves. The bound leaves     *)
(* room for the events that a call has yet to create.                        *)
EventsLeft ==
  IF step \in {"ask", "enqueue"} THEN EventsOf(form)
  ELSE IF step = "user" THEN 2
  ELSE IF \/ step \in {"remember", "hook"} /\ form = "map"
          \/ step = "block" /\ form = "syncmap" THEN 1
  ELSE 0

Control ==
  /\ next + EventsLeft <= MaxEvents
  /\ step = "enqueue" /\ m_oooExecEnabled => todo = {}
  /\ step \in {"ask", "remember"} => m_oooExecEnabled
  /\ step \in {"user", "remember", "hook", "block"} => cmd \in 1..next
  /\ step = "block" => form \in {"sync", "syncmap", "syncunmap"}
  /\ step \in {"remember", "hook"} => form \in {"async", "map", "unmap"}
  /\ step = "user" => form = "map" /\ todo = uses
  /\ step \in {"user", "remember", "hook"} => hook[cmd] = "none"
  /\ form \in {"map", "syncmap"} => target # <<>>
  /\ form = "unmap" \/ (form = "map" /\ step \in {"remember", "hook"}) => callbackDone \in 1..next

(* Events are created in order, and what is not created does nothing.        *)
Created ==
  \A e \in Events :
    /\ status[e] = "none" <=> e > next
    /\ status[e] \in {"none", "user"} => access[e] = {}
    /\ e > next => hook[e] = "none" /\ doneOf[e] = 0
    /\ doneOf[e] <= next

(* A use is in the tracker until the command has ended, or the call that     *)
(* enqueued the command is about to put it there or to wait for the command. *)
Tracked ==
  m_oooExecEnabled =>
    \A e \in Events : \A x \in access[e] :
      \/ Ended(e)
      \/ [event |-> e, res |-> x[1], use |-> x[2]] \in byEvent
      \/ e = cmd /\ step \in {"user", "remember"} /\ x \in todo
      \/ e = cmd /\ step = "block"

(* What the call has looked up it waits for, unless it has ended meanwhile.  *)
Asked ==
  m_oooExecEnabled /\ step \in {"ask", "enqueue"} =>
    \A y \in uses \ todo, d \in Events : \A x \in access[d] :
      Clash(x, y) => Ended(d) \/ d \in blockers

(* A command that has not started waits for those that it clashes with.      *)
WaitsForClashes ==
  m_oooExecEnabled =>
    \A d, e \in Events : d < e /\ status[e] = "queued" =>
      \A x \in access[d], y \in access[e] : Clash(x, y) => Ended(d) \/ d \in waits[e]

(* A user event is unset while the callback that sets it is to run, and it   *)
(* belongs to one map command.                                               *)
UserEvents ==
  /\ \A m \in Events : hook[m] \in {"none", "map", "calling"} /\ doneOf[m] # 0 => status[doneOf[m]] = "user"
  /\ \A m, n \in Events : doneOf[m] # 0 /\ doneOf[m] = doneOf[n] => m = n

OrderInv ==
  /\ TypeOK /\ MapsAgree /\ IsFiniteSet(byEvent) /\ NothingStale /\ Control /\ Created
  /\ Tracked /\ Asked /\ WaitsForClashes /\ UserEvents

(* Nobody holds an event that is not created, and what a call is about to    *)
(* take, to hand over or to leave behind is not counted yet.                 *)
Owned ==
  /\ actions \union leaked \subseteq 1..next /\ \A c \in byEvent : c.event <= next
  /\ callbackDone \notin actions \union leaked /\ result \notin actions /\ result <= next
  /\ step = "idle" \/ (form = "map" /\ step \in {"ask", "enqueue", "user"}) => callbackDone = 0
  /\ step \in {"user", "remember", "hook"} => cmd \notin leaked
  /\ step \in {"user", "remember"} => \A c \in byEvent : c.event = cmd => <<c.res, c.use>> \notin todo
  /\ form = "map" /\ step \in {"remember", "hook"} => doneOf[cmd] = callbackDone /\ callbackDone # cmd

IInv == OrderInv /\ Owned

(* What the tracker is for, in a specification of its own.                   *)
Ordered == INSTANCE OrderedCommands WITH Accesses <- Uses

(* Out of order or not, no command starts before the earlier ones have ended *)
(* that it clashes with, whether the application waits for them, or the      *)
(* tracker knows of them, or has forgotten them because they have ended.     *)
ImplementsOrdered == Ordered!Spec

(* The same for every two uses of which one writes, as the comments on the   *)
(* tracker have it.                                                          *)
ConflictsAreOrdered ==
  \A d, e \in Events : d < e /\ status[e] \in Started /\ ~Ended(d) =>
    \A x \in access[d], y \in access[e] : x[1] = y[1] => ~IsWriting(x[2]) /\ ~IsWriting(y[2])

(* A map whose client callback did not end well leaves its user event unset  *)
(* for good.                                                                 *)
Abandoned ==
  /\ faults > 0
  /\ \E m \in Events :
       doneOf[m] # 0 /\ status[doneOf[m]] = "user" /\ (hook[m] = "done" \/ m \in leaked)

(* A call of the application comes to its end: it never waits for a command  *)
(* that nobody runs, nor for its own map command, nor, with Finish, for      *)
(* commands that wait for each other - unless a map was abandoned.           *)
EveryCallReturns == step # "idle" ~> (step = "idle" \/ Abandoned)
===============================================================================
