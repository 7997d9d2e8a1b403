--------------------------- MODULE HistoryRuntime ---------------------------
(***************************************************************************)
(* HistoryPersistence of server/historyPersistence.ts, the runtime around  *)
(* the batched writer: the gateway records into it, queries flush first,   *)
(* rollups, retention and backups are jobs of one chain (maintenanceTail), *)
(* and close() waits for all of it.  The store of a job is HistoryStore's  *)
(* subject; here a job flushes, works on the store and ends.               *)
(***************************************************************************)
EXTENDS BatchedWriter

CONSTANT MaxJobs  \* bound: jobs in the chain
ASSUME RuntimeAssumption ==
  MaxJobs \in Nat \ {0} /\ {"query", "maintenance", "closer"} \subseteq Callers

VARIABLES
  jobs,      \* how many the chain holds, the running one included
  job,       \* of the running job: "idle", "flushing", "working"
  closing    \* close(): "open", "flushing", "maintenance", "writer", "returned", "failed"

runtimeVars == <<jobs, job, closing>>
allVars == <<vars, runtimeVars>>

RuntimeInit == Init /\ jobs = 0 /\ job = "idle" /\ closing = "open"

EnqueueMaintenance == jobs < MaxJobs /\ jobs' = jobs + 1

-----------------------------------------------------------------------------
(* recordSnapshot(), recordDepth(), recordTrade(): a record the writer     *)
(* takes.  recordMetric() is one too; the metric that ends a bucket of     *)
(* five seconds also queues the rollups, unless the runtime is closing.    *)
Record(r) == Enqueue(r) /\ UNCHANGED runtimeVars

RecordMetric(r) ==
  /\ Enqueue(r)
  /\ IF closing = "open" THEN EnqueueMaintenance ELSE UNCHANGED jobs
  /\ UNCHANGED <<job, closing>>

(* queryHistory() *)
Query == Flush("query") /\ UNCHANGED runtimeVars

WriterTimer == TimerFires /\ UNCHANGED runtimeVars

(* The interval timers of startMaintenanceTimers(), cleared by close().    *)
MaintenanceTimer ==
  /\ closing = "open"
  /\ EnqueueMaintenance
  /\ UNCHANGED <<vars, job, closing>>

-----------------------------------------------------------------------------
(* enqueueMaintenance(): a job begins with a flush, and fails with it.     *)
StartJob ==
  /\ jobs > 0 /\ job = "idle"
  /\ IF failure
     THEN jobs' = jobs - 1 /\ UNCHANGED <<job, vars>>
     ELSE Flush("maintenance") /\ job' = "flushing" /\ UNCHANGED jobs
  /\ UNCHANGED closing

(* Its work on the store ends, well or not: the chain goes on either way. *)
JobEnds ==
  /\ job = "working"
  /\ job' = "idle" /\ jobs' = jobs - 1
  /\ UNCHANGED <<vars, closing>>

(* A flush that settled releases the job and close(). *)
JobGoesOn ==
  IF job = "flushing" /\ "maintenance" \notin flushing'
  THEN IF failure' THEN job' = "idle" /\ jobs' = jobs - 1
                   ELSE job' = "working" /\ UNCHANGED jobs
  ELSE UNCHANGED <<job, jobs>>

CloseGoesOn ==
  closing' = IF closing = "flushing" /\ "closer" \notin flushing'
             THEN IF failure' THEN "failed" ELSE "maintenance"
             ELSE IF closing = "writer" /\ state' = "closed"
             THEN IF failure' THEN "failed" ELSE "returned"
             ELSE closing

WriterSettles == StoreAnswers /\ JobGoesOn /\ CloseGoesOn

-----------------------------------------------------------------------------
(* close(): flush, then the chain, then the writer; the first failure ends *)
(* it, with the rest not waited for.                                       *)
CloseCalled ==
  /\ closing = "open"
  /\ IF failure THEN closing' = "failed" /\ UNCHANGED vars
                ELSE closing' = "flushing" /\ Flush("closer")
  /\ UNCHANGED <<jobs, job>>

CloseAtOnce ==  \* mutant: the chain is not awaited
  /\ closing = "maintenance"
  /\ Close
  /\ closing' = IF failure THEN "failed" ELSE "writer"
  /\ UNCHANGED <<jobs, job>>

CloseWriter ==
  /\ closing = "maintenance" /\ jobs = 0
  /\ Close
  /\ closing' = IF failure THEN "failed" ELSE "writer"
  /\ UNCHANGED <<jobs, job>>

RuntimeNext ==
  \/ \E r \in Records : Record(r) \/ RecordMetric(r)
  \/ Query \/ WriterTimer
  \/ MaintenanceTimer
  \/ StartJob \/ JobEnds
  \/ WriterSettles
  \/ CloseCalled \/ CloseWriter

(* Timers fire, the store answers, and promises that settled are heard.    *)
RuntimeSpec ==
  /\ RuntimeInit /\ [][RuntimeNext]_allVars
  /\ WF_allVars(WriterTimer) /\ WF_allVars(WriterSettles)
  /\ WF_allVars(StartJob) /\ WF_allVars(JobEnds) /\ WF_allVars(CloseWriter)

-----------------------------------------------------------------------------
(* A close() that returns leaves nothing that writes: no job works on the  *)
(* store or will, and all that was accepted is in it, so the process may   *)
(* exit.  (A query that comes later still opens the store to read it.)     *)
CloseLeavesNoWriter ==
  closing = "returned" =>
    /\ jobs = 0 /\ job = "idle"
    /\ persisted = accepted

(* No accepted record waits forever, and neither does close(), whatever    *)
(* jobs and queries were under way when it was called.                     *)
WorkSettles ==
  /\ AcceptedSettles
  /\ closing # "open" ~> closing \in {"returned", "failed"}
=============================================================================
