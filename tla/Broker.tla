------------------------------- MODULE Broker -------------------------------
(***************************************************************************)
(* broker::QueueWriter and broker::QueueReader, each with its own session  *)
(* in the database behind the queue.  A write is executed by a worker      *)
(* thread inside a transaction that the object of type IAsyncWrite ends; a *)
(* read goes in steps, executed by a thread of the library, inside a       *)
(* transaction that the object of type IAsyncRead ends.  The assertions of *)
(* the debug build are what the callers comply with.                       *)
(***************************************************************************)
EXTENDS Integers, FiniteSets

CONSTANTS
  Writes,      (* the calls of WriteMessages                                *)
  Batch,       (* the messages each of them is given                        *)
  StepLimit,   (* msgCountStepLimit of every read                           *)
  Faults,      (* "statement", "step": the statements that may fail;        *)
               (* "lost": sessions may lose their connection, "amid": even  *)
               (* between the two statements of a write                     *)
  Usage,       (* "blind": Commit without asking whether the write failed;  *)
               (* "overlap": a write begins before the last one has ended;  *)
               (* "outlive": the object of an earlier write goes meanwhile; *)
               (* "resume": a read goes on after a step that failed         *)
  NoWrite

Messages == UNION {Batch[w] : w \in Writes}

ASSUME BrokerAssumption ==
  /\ NoWrite \notin Writes /\ StepLimit \in Nat
  /\ \A w \in Writes : Batch[w] # {}
  /\ \A v, w \in Writes : v # w => Batch[v] \intersect Batch[w] = {}

VARIABLES
  (* The writer.                                                            *)
  object,      (* the AsyncWriteImpl of a write                             *)
  future,      (* its m_future                                              *)
  job, pc,     (* the write that m_workerThread executes, where it stands   *)
  stored,      (* the writes whose Commit has answered true                 *)
  (* The reader.                                                            *)
  reading,     (* there is an AsyncReadImpl                                 *)
  actRes,      (* its m_stoProcActRes                                       *)
  messages,    (* its m_messages                                            *)
  got,         (* what the client has taken from it                         *)
  (* The two sessions.                                                      *)
  connected,   (* those that are connected                                  *)
  inTransaction, (* those that take themselves to be in a transaction       *)
  (* The database.                                                          *)
  staged,      (* the rows of InputStageTable, never committed              *)
  sent,        (* what the writer's transaction has sent                    *)
  queue,       (* the messages that can be received                         *)
  received,    (* what the reader's transaction has received                *)
  delivered    (* what has left the queue for good                          *)

writerVars == <<object, future, job, pc, stored>>
readerVars == <<reading, actRes, messages, got>>
sessionVars == <<connected, inTransaction>>
writeStore == <<staged, sent>>
readStore == <<received, delivered>>
brokerVars == <<writerVars, readerVars, sessionVars, writeStore, queue, readStore>>

Sessions == {"writer", "reader"}
Done == {"value", "error", "got", "thrown"}   \* states of a future that TryWait finds ready
Good == {"value", "got"}                      \* of which those of a write that went well

BrokerInit ==
  /\ object = [w \in Writes |-> "none"] /\ future = [w \in Writes |-> "unset"]
  /\ job = NoWrite /\ pc = "idle" /\ stored = {}
  /\ reading = FALSE /\ actRes = "none" /\ messages = {} /\ got = {}
  /\ connected = Sessions /\ inTransaction = {}
  /\ staged = {} /\ sent = {} /\ queue = {} /\ received = {} /\ delivered = {}

-----------------------------------------------------------------------------
(* The sessions.                                                             *)

(* CheckConnection, which connects again; the session still takes itself to *)
(* be in the transaction it was in.                                          *)
CheckConnection(session) == connected' = connected \union {session}

(* The server forgets what the session has not committed.                    *)
ConnectionLost(session) ==
  /\ "lost" \in Faults /\ session \in connected
  /\ connected' = connected \ {session}
  /\ IF session = "writer"
     THEN /\ staged # {} => "amid" \in Faults
          /\ staged' = {} /\ sent' = {} /\ UNCHANGED <<queue, received>>
     ELSE /\ queue' = queue \union received /\ received' = {}
          /\ UNCHANGED writeStore
  /\ UNCHANGED <<writerVars, readerVars, inTransaction, delivered>>

(* rollback of the writer's session fails when it is not connected.          *)
WriterRollsBack ==
  IF "writer" \in connected /\ "writer" \in inTransaction
  THEN inTransaction' = inTransaction \ {"writer"} /\ staged' = {} /\ sent' = {}
  ELSE UNCHANGED <<inTransaction, writeStore>>

ReaderRollsBack ==
  IF "reader" \in connected /\ "reader" \in inTransaction
  THEN /\ inTransaction' = inTransaction \ {"reader"}
       /\ queue' = queue \union received /\ received' = {}
  ELSE UNCHANGED <<inTransaction, queue, received>>

-----------------------------------------------------------------------------
(* Writing.                                                                  *)

(* Waits for the worker thread of the last write, and starts another.        *)
WriteMessages(w) ==
  /\ object[w] = "none" /\ pc = "idle"
  /\ "overlap" \in Usage \/ \A v \in Writes : object[v] # "live"
  /\ object' = [object EXCEPT ![w] = "live"]
  /\ job' = w /\ pc' = "begin"
  /\ UNCHANGED <<future, stored, readerVars, sessionVars, writeStore, queue, readStore>>

(* begin refuses a session that takes itself to be in a transaction.         *)
Begin ==
  /\ pc = "begin"
  /\ CheckConnection("writer")
  /\ inTransaction' = inTransaction \union {"writer"}
  /\ pc' = IF "writer" \in inTransaction THEN "catch" ELSE "insert"
  /\ UNCHANGED <<object, future, job, stored, readerVars, writeStore, queue, readStore>>

Insert ==
  /\ pc = "insert"
  /\ CheckConnection("writer")
  /\ staged' = staged \union Batch[job]
  /\ pc' = "send"
  /\ UNCHANGED <<object, future, job, stored, readerVars, inTransaction, sent, queue, readStore>>

(* SendMessagesProc sends what is staged and clears the table.               *)
Send ==
  /\ pc = "send"
  /\ CheckConnection("writer")
  /\ sent' = sent \union staged /\ staged' = {}
  /\ pc' = "set"
  /\ UNCHANGED <<object, future, job, stored, readerVars, inTransaction, queue, readStore>>

(* A statement, or the attempt to connect again, fails.  When the procedure  *)
(* fails on the server it has rolled the whole transaction back.             *)
StatementFails ==
  /\ "statement" \in Faults /\ pc \in {"begin", "insert", "send"}
  /\ pc' = "catch"
  /\ \/ UNCHANGED writeStore
     \/ pc = "send" /\ staged' = {} /\ sent' = {}
  /\ UNCHANGED <<object, future, job, stored, readerVars, sessionVars, queue, readStore>>

SetValue ==
  /\ pc = "set"
  /\ future' = [future EXCEPT ![job] = "value"]
  /\ pc' = "idle" /\ job' = NoWrite
  /\ UNCHANGED <<object, stored, readerVars, sessionVars, writeStore, queue, readStore>>

(* mutant: the promise of a write that fails is never kept.       *)
SetNothing ==
  /\ pc = "catch"
  /\ WriterRollsBack
  /\ pc' = "idle" /\ job' = NoWrite
  /\ UNCHANGED <<object, future, stored, readerVars, connected, queue, readStore>>

SetException ==
  /\ pc = "catch"
  /\ WriterRollsBack
  /\ future' = [future EXCEPT ![job] = "error"]
  /\ pc' = "idle" /\ job' = NoWrite
  /\ UNCHANGED <<object, stored, readerVars, connected, queue, readStore>>

(* get() waits, and leaves the future without a state.                       *)
Rethrow(w) ==
  /\ object[w] = "live" /\ future[w] \in {"value", "error"}
  /\ future' = [future EXCEPT ![w] = IF @ = "value" THEN "got" ELSE "thrown"]
  /\ UNCHANGED <<object, job, pc, stored, readerVars, sessionVars, writeStore, queue, readStore>>

(* mutant: Commit and Rollback do not wait for the worker.        *)
EndsWriteAtOnce(w) ==
  /\ object[w] = "live" /\ future[w] # "thrown" /\ "writer" \in connected
  /\ object' = [object EXCEPT ![w] = "ended"]
  /\ inTransaction' = inTransaction \ {"writer"}
  /\ staged' = {} /\ sent' = {}
  /\ UNCHANGED <<future, job, pc, readerVars, connected, readStore>>

(* Commit and Rollback, when TryWait finds the write done and the call to    *)
(* the session does not fail; otherwise they change nothing.                 *)
EndsWrite(w) ==
  /\ object[w] = "live" /\ future[w] \in Done \ {"thrown"} /\ "writer" \in connected
  /\ object' = [object EXCEPT ![w] = "ended"]
  /\ inTransaction' = inTransaction \ {"writer"}
  /\ staged' = {} /\ sent' = {}
  /\ UNCHANGED <<future, job, pc, readerVars, connected, readStore>>

Commit(w) ==
  /\ future[w] = "error" => "blind" \in Usage
  /\ EndsWrite(w)
  /\ queue' = queue \union sent /\ stored' = stored \union {w}

Rollback(w) == EndsWrite(w) /\ UNCHANGED <<queue, stored>>

(* mutant: the object does not wait for its worker thread.        *)
DestroyWriteAtOnce(w) ==
  /\ object[w] \in {"live", "ended"}
  /\ object' = [object EXCEPT ![w] = "gone"]
  /\ WriterRollsBack
  /\ UNCHANGED <<future, job, pc, stored, readerVars, connected, queue, readStore>>

(* ~AsyncWriteImpl, whose wait takes less than its limit of five seconds.    *)
DestroyWrite(w) ==
  /\ object[w] \in {"live", "ended"} /\ future[w] \in Done
  /\ "outlive" \in Usage \/ \A v \in Writes \ {w} : object[v] # "live"
  /\ object' = [object EXCEPT ![w] = "gone"]
  /\ WriterRollsBack
  /\ UNCHANGED <<future, job, pc, stored, readerVars, connected, queue, readStore>>

-----------------------------------------------------------------------------
(* Reading.                                                                  *)

ReadMessages ==
  /\ ~reading /\ "reader" \notin inTransaction
  /\ CheckConnection("reader")
  /\ inTransaction' = inTransaction \union {"reader"}
  /\ reading' = TRUE /\ actRes' = "none" /\ messages' = {} /\ got' = {}
  /\ UNCHANGED <<writerVars, writeStore, queue, readStore>>

(* begin refuses: the transaction of an earlier read has never ended.        *)
ReadMessagesFails ==
  /\ ~reading /\ "reader" \in inTransaction
  /\ CheckConnection("reader")
  /\ UNCHANGED <<writerVars, readerVars, inTransaction, writeStore, queue, readStore>>

(* Clears what the client has not taken: it takes the results of every step. *)
Step ==
  /\ reading /\ "reader" \in inTransaction /\ messages = {}
  /\ actRes \in {"none", "done"} \/ (actRes = "failed" /\ "resume" \in Usage)
  /\ messages' = {} /\ actRes' = "running"
  /\ UNCHANGED <<writerVars, reading, got, sessionVars, writeStore, queue, readStore>>

(* ReadMessagesProc, executed by a thread of the library, into m_messages.   *)
StepDone ==
  /\ actRes = "running" /\ "reader" \in connected
  /\ \E rows \in SUBSET queue :
       /\ Cardinality(rows) <= StepLimit /\ (rows = {} => queue = {})
       /\ queue' = queue \ rows /\ received' = received \union rows
       /\ messages' = messages \union rows
  /\ actRes' = "done"
  /\ UNCHANGED <<writerVars, reading, got, sessionVars, writeStore, delivered>>

(* mutant: TryWait does not look whether the step has failed.     *)
StepFailsUnseen ==
  /\ actRes = "running" /\ actRes' = "done"
  /\ "step" \in Faults \/ "reader" \notin connected
  /\ \/ UNCHANGED <<queue, received>>
     \/ queue' = queue \union received /\ received' = {}
  /\ UNCHANGED <<writerVars, reading, messages, got, sessionVars, writeStore, delivered>>

(* When the procedure fails on the server it has rolled back the whole       *)
(* transaction, the earlier steps too; the session does not know.            *)
StepFails ==
  /\ actRes = "running" /\ actRes' = "failed"
  /\ "step" \in Faults \/ "reader" \notin connected
  /\ \/ UNCHANGED <<queue, received>>
     \/ queue' = queue \union received /\ received' = {}
  /\ UNCHANGED <<writerVars, reading, messages, got, sessionVars, writeStore, delivered>>

GetStepResult ==
  /\ reading /\ actRes = "done" /\ messages # {}
  /\ got' = got \union messages /\ messages' = {}
  /\ UNCHANGED <<writerVars, reading, actRes, sessionVars, writeStore, queue, readStore>>

(* Commit and Rollback of a read: TryWait throws when the step has failed,   *)
(* the session when it is not connected.                                     *)
EndsRead ==
  /\ reading /\ "reader" \in inTransaction \intersect connected /\ actRes = "done"
  /\ inTransaction' = inTransaction \ {"reader"}
  /\ received' = {}
  /\ UNCHANGED <<writerVars, readerVars, connected, writeStore>>

CommitRead == EndsRead /\ delivered' = delivered \union received /\ UNCHANGED queue

RollbackRead == EndsRead /\ queue' = queue \union received /\ UNCHANGED delivered

(* ~AsyncReadImpl: TryWait throws when the step has failed, and the handler  *)
(* leaves the transaction as it is.                                          *)
DestroyRead ==
  /\ reading /\ actRes # "running"
  /\ reading' = FALSE /\ actRes' = "none" /\ messages' = {} /\ got' = {}
  /\ IF actRes = "failed" THEN UNCHANGED <<inTransaction, queue, received>> ELSE ReaderRollsBack
  /\ UNCHANGED <<writerVars, connected, writeStore, delivered>>

-----------------------------------------------------------------------------
Worker == Begin \/ Insert \/ Send \/ StatementFails \/ SetValue \/ SetException
Library == StepDone \/ StepFails

BrokerNext ==
  \/ \E w \in Writes : WriteMessages(w) \/ Rethrow(w) \/ Commit(w) \/ Rollback(w) \/ DestroyWrite(w)
  \/ Worker
  \/ ReadMessages \/ ReadMessagesFails \/ Step \/ GetStepResult
  \/ CommitRead \/ RollbackRead \/ DestroyRead
  \/ Library
  \/ \E session \in Sessions : ConnectionLost(session)

(* The worker thread and the threads of the library are scheduled.           *)
BrokerSpec == BrokerInit /\ [][BrokerNext]_brokerVars /\ WF_brokerVars(Worker) /\ WF_brokerVars(Library)

-----------------------------------------------------------------------------
BrokerTypeOK ==
  /\ object \in [Writes -> {"none", "live", "ended", "gone"}]
  /\ future \in [Writes -> {"unset"} \union Done]
  /\ job \in Writes \union {NoWrite}
  /\ pc \in {"idle", "begin", "insert", "send", "set", "catch"}
  /\ stored \subseteq Writes
  /\ reading \in BOOLEAN /\ actRes \in {"none", "running", "done", "failed"}
  /\ connected \subseteq Sessions /\ inTransaction \subseteq Sessions
  /\ messages \subseteq Messages /\ got \subseteq Messages

(* What goes on in the background belongs to an object that is still there.  *)
WorkHasOwner ==
  /\ pc # "idle" => job \in Writes /\ object[job] = "live" /\ future[job] = "unset"
  /\ actRes = "running" => reading /\ "reader" \in inTransaction

(* One write at a time is going on.                                          *)
OneWrite ==
  /\ \A v, w \in Writes : object[v] = "live" /\ object[w] = "live" => v = w
  /\ \A w \in Writes : object[w] = "live" /\ future[w] = "unset" => pc # "idle" /\ job = w
  /\ \A w \in Writes : object[w] = "none" => future[w] = "unset"
  /\ \A w \in stored : object[w] \in {"ended", "gone"}

(* What a write has sent stays in the open transaction until its object ends *)
(* it, unless the connection is lost.                                        *)
SentUntilEnded ==
  /\ \A w \in Writes :
       object[w] = "live" /\ (future[w] \in Good \/ (pc = "set" /\ job = w)) /\ "writer" \in connected
         => sent = Batch[w]
  /\ sent # {} => \E w \in Writes : object[w] = "live" /\ (future[w] \in Good \/ (pc = "set" /\ job = w))
  /\ staged # {} => pc \in {"send", "catch"} /\ staged = Batch[job]
  /\ pc = "send" => staged = Batch[job]
  /\ pc \in {"insert", "send", "set"} => "writer" \in inTransaction
  /\ staged \union sent # {} => "writer" \in inTransaction \intersect connected

(* Every message stored is in one place: it can be received, it has been     *)
(* received in the open transaction, or it has left for good.                *)
MessagesConserved ==
  /\ queue \union received \union delivered = UNION {Batch[w] : w \in stored}
  /\ queue \intersect received = {} /\ queue \intersect delivered = {} /\ received \intersect delivered = {}
  /\ received # {} => "reader" \in inTransaction \intersect connected

(* What a Commit would remove from the queue is what the client has been     *)
(* given in this read or can still ask for.                                  *)
GivenIsReceived ==
  reading /\ "reader" \in inTransaction \intersect connected =>
    /\ actRes = "done" => received = got \union messages
    /\ actRes = "running" => received = got /\ messages = {}
    /\ actRes = "none" => received = {} /\ got = {} /\ messages = {}

BrokerInv == BrokerTypeOK /\ WorkHasOwner /\ OneWrite /\ SentUntilEnded /\ MessagesConserved /\ GivenIsReceived

(* The two sessions and the database implement a queue into which the        *)
(* messages of a write go whole and exactly when Commit has answered true,   *)
(* and from which only the commit of a read takes messages.                  *)
Q == INSTANCE StableQueue WITH items <- queue \union received
ImplementsQueue == Q!Spec

(* A write and a step come to an end, also after the connection is lost.     *)
EveryCallReturns ==
  /\ \A w \in Writes : object[w] = "live" ~> future[w] \in Done
  /\ actRes = "running" ~> actRes # "running"

(* When a read object has gone, its transaction has been ended.              *)
TransactionEnds == ~reading => "reader" \notin inTransaction
=============================================================================
