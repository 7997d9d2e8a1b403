---------------------------- MODULE BatchedWriter ----------------------------
(***************************************************************************)
(* BatchedHistoryWriter of server/storage/batchedWriter.ts: the bounded,   *)
(* non-blocking queue in front of a history store.  enqueue() never waits; *)
(* a timer, a full batch, flush() or close() start a drain, and one drain  *)
(* at a time moves the queue to the store batch by batch.                  *)
(*                                                                         *)
(* One action is one callback of the event loop with the promise reactions *)
(* it sets off: every caller that enqueues does so from a callback of its  *)
(* own.  The counters of "stats" are accepted and persisted here, whole.   *)
(***************************************************************************)
EXTENDS Integers, Sequences

CONSTANTS
  Records, Size,               \* what is enqueued, and its bytes
  Callers,                     \* who calls flush(): queries, maintenance, close
  BatchRecords, BatchBytes,    \* options.batchRecords, options.batchBytes
  QueueRecords, QueueBytes,    \* options.queueRecords, options.queueBytes
  MaxAccepted                  \* bound: records accepted in a run

ASSUME WriterAssumption ==
  /\ Size \in [Records -> Nat \ {0}]
  /\ BatchRecords \in Nat \ {0} /\ QueueRecords \in Nat \ {0}
  /\ BatchRecords <= QueueRecords
  /\ BatchBytes \in Nat \ {0} /\ QueueBytes \in Nat \ {0}
  /\ BatchBytes <= QueueBytes
  /\ MaxAccepted \in Nat

VARIABLES
  state,         \* "open", "closing", "closed"
  queue,
  pendingBytes,
  failure,
  timer,         \* the flush timer is armed
  drain,         \* drainPromise: "none", in store.open(), in store.appendBatch()
  batch,         \* the batch in appendBatch()
  accepted,      \* every record enqueue() took
  persisted,     \* every record the store confirmed
  flushing,      \* callers awaiting flush()
  mark           \* what had been accepted when each caller called it

vars == <<state, queue, pendingBytes, failure, timer, drain, batch,
          accepted, persisted, flushing, mark>>

(* The bytes of the first n records of q. *)
Bytes(q, n) ==
  LET sum[i \in 0 .. Len(q)] == IF i = 0 THEN 0 ELSE sum[i - 1] + Size[q[i]]
  IN sum[n]

Init ==
  /\ state = "open" /\ queue = <<>> /\ pendingBytes = 0
  /\ failure = FALSE /\ timer = FALSE
  /\ drain = "none" /\ batch = <<>>
  /\ accepted = <<>> /\ persisted = <<>>
  /\ flushing = {} /\ mark = [c \in Callers |-> 0]

Joined == IF drain = "none" THEN "opening" ELSE drain

-----------------------------------------------------------------------------
HasRoom(r) ==
  /\ Size[r] <= BatchBytes
  /\ Len(queue) < QueueRecords
  /\ pendingBytes + Size[r] <= QueueBytes

ImmediateForgotten == timer' = FALSE /\ UNCHANGED drain  \* mutant
Immediate == timer' = FALSE /\ drain' = Joined
Timed == timer' = (timer \/ drain = "none") /\ UNCHANGED drain

(* enqueue() of a record it accepts; a refusal changes only counters. *)
Enqueue(r) ==
  /\ Len(accepted) < MaxAccepted
  /\ state = "open" /\ ~failure /\ HasRoom(r)
  /\ queue' = Append(queue, r)
  /\ pendingBytes' = pendingBytes + Size[r]
  /\ accepted' = Append(accepted, r)
  /\ IF Len(queue') >= BatchRecords THEN Immediate ELSE Timed
  /\ UNCHANGED <<state, failure, batch, persisted, flushing, mark>>

TimerFires ==
  /\ timer
  /\ timer' = FALSE /\ drain' = Joined
  /\ UNCHANGED <<state, queue, pendingBytes, failure, batch, accepted, persisted,
                 flushing, mark>>

(* flush() throws a failure already on record. *)
Flush(c) ==
  /\ c \notin flushing
  /\ ~failure
  /\ timer' = FALSE /\ drain' = Joined
  /\ flushing' = flushing \cup {c}
  /\ mark' = [mark EXCEPT ![c] = Len(accepted)]
  /\ UNCHANGED <<state, queue, pendingBytes, failure, batch, accepted, persisted>>

Close ==
  /\ state = "open"
  /\ timer' = FALSE
  /\ IF failure THEN state' = "closed" /\ UNCHANGED drain
                ELSE state' = "closing" /\ drain' = Joined
  /\ UNCHANGED <<queue, pendingBytes, failure, batch, accepted, persisted, flushing, mark>>

-----------------------------------------------------------------------------
(* The drain. *)

(* The drain promise settles: whoever awaits it goes on, close() included. *)
Settle ==
  /\ drain' = "none" /\ batch' = <<>>
  /\ flushing' = {}
  /\ state' = IF state = "closing" THEN "closed" ELSE state
  /\ timer' = (timer \/ (queue' # <<>> /\ ~failure' /\ state = "open"))

(* runDrain() cuts its batches at BatchRecords and at BatchBytes. *)
IsBatch(n) ==
  /\ n <= BatchRecords
  /\ n = 1 \/ Bytes(queue, n) <= BatchBytes
  /\ n < BatchRecords /\ n < Len(queue) => Bytes(queue, n + 1) > BatchBytes

Take(n) ==
  /\ IsBatch(n)
  /\ batch' = SubSeq(queue, 1, n)
  /\ queue' = SubSeq(queue, n + 1, Len(queue))
  /\ pendingBytes' = pendingBytes - Bytes(queue, n)
  /\ drain' = "appending"
  /\ UNCHANGED <<state, timer, flushing>>

Continue ==
  \/ queue = <<>> /\ UNCHANGED <<queue, pendingBytes>> /\ Settle
  \/ \E n \in 1 .. Len(queue) : Take(n)

StoreOpens ==
  /\ drain = "opening"
  /\ UNCHANGED <<failure, accepted, persisted, mark>>
  /\ Continue

OpenFails ==
  /\ drain = "opening"
  /\ failure' = TRUE
  /\ UNCHANGED <<queue, pendingBytes, accepted, persisted, mark>>
  /\ Settle

AppendOnce ==  \* mutant: one batch per drain
  /\ drain = "appending"
  /\ persisted' = persisted \o batch
  /\ UNCHANGED <<queue, pendingBytes, failure, accepted, mark>>
  /\ Settle
AppendSucceeds ==
  /\ drain = "appending"
  /\ persisted' = persisted \o batch
  /\ UNCHANGED <<failure, accepted, mark>>
  /\ Continue

(* The failed batch goes back to the front, and the failure is final. *)
AppendFails ==
  /\ drain = "appending"
  /\ queue' = batch \o queue
  /\ pendingBytes' = pendingBytes + Bytes(batch, Len(batch))
  /\ failure' = TRUE
  /\ Settle
  /\ UNCHANGED <<accepted, persisted, mark>>

(* The store answers, one way or the other. *)
StoreAnswers == StoreOpens \/ OpenFails \/ AppendSucceeds \/ AppendFails

Next ==
  \/ \E r \in Records : Enqueue(r)
  \/ TimerFires
  \/ \E c \in Callers : Flush(c)
  \/ Close
  \/ StoreAnswers

Spec == Init /\ [][Next]_vars

(* Timers fire, and the store answers. *)
FairSpec ==
  /\ Spec
  /\ WF_vars(TimerFires)
  /\ WF_vars(StoreAnswers)

-----------------------------------------------------------------------------
(* "failed batches remain bounded in memory rather than being dropped". *)
Bounded ==
  /\ Len(batch) <= BatchRecords
  /\ Len(queue) <= QueueRecords + BatchRecords
  /\ ~failure => Len(queue) <= QueueRecords

Shape ==
  /\ state \in {"open", "closing", "closed"}
  /\ queue \in Seq(Records) /\ batch \in Seq(Records)
  /\ accepted \in Seq(Records) /\ persisted \in Seq(Records)
  /\ failure \in BOOLEAN /\ timer \in BOOLEAN
  /\ drain \in {"none", "opening", "appending"}
  /\ flushing \subseteq Callers /\ mark \in [Callers -> Nat]

(* Records and bytes stay under the queue's limits plus the one batch that *)
(* a failure gives back, and pendingBytes is the true sum.                 *)
TypeOK ==
  /\ Shape /\ Bounded
  /\ pendingBytes = Bytes(queue, Len(queue))
  /\ pendingBytes <= IF failure THEN QueueBytes + BatchBytes ELSE QueueBytes

(* Nothing accepted is lost, repeated or reordered on its way to the store *)
(* and close() leaves nothing behind without a failure on record.          *)
Contract == INSTANCE DurableQueue WITH stored <- persisted, failed <- failure
ImplementsDurableQueue == Contract!Spec

(* A flush() that returns without an error means that everything accepted  *)
(* before it was called is in the store: queries, retention and backups    *)
(* read the store right after it.                                          *)
FlushMeansPersisted ==
  [][\A c \in flushing \ flushing' : failure' \/ Len(persisted') >= mark[c]]_vars

(* No accepted record waits forever: it is stored, or the writer fails.    *)
AcceptedSettles ==
  \A n \in 1 .. MaxAccepted :
    Len(accepted) >= n ~> (Len(persisted) >= n \/ failure)
=============================================================================
