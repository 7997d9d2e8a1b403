----------------------------- MODULE RawCapture -----------------------------
(***************************************************************************)
(* RawCaptureRecorder of server/recording/rawCapture.ts.  record() only    *)
(* queues; a flush task writes the queue to a gzip stream that a pipeline  *)
(* carries to a file; limits, failures, the expiry timer and the gateway's *)
(* shutdown close the capture, and its manifest says whether the file is   *)
(* the whole story.  Captures follow one another, after a close or a crash,*)
(* in one directory, and every recorder purges what is older than the      *)
(* retention, which any positive number of milliseconds may be.            *)
(*                                                                         *)
(* One action is one callback of the event loop, except the continuation   *)
(* of the flush task and of a failure, which are actions of their own:     *)
(* several messages of one network read are recorded before they run.      *)
(* A queued line carries the bytes that the file has once it is written,   *)
(* of which queuedBytes is the part that is not.  The reason for closing   *)
(* is not kept, and the manifest's temporary file is part of writing it.   *)
(***************************************************************************)
EXTENDS Integers, Sequences

CONSTANTS
  NoFile, NoManifest, NoDigest,    \* not there, not published, null
  MaxCaptures,                     \* bound: recorders, one after the other
  MaxOffered,                      \* bound: calls of record() per recorder
  MaxFaults,                       \* bound: failing file operations, crashes
  Sizes,                           \* the bytes a line may have
  Envelope,                        \* how much of them JSON adds to the text
  QueueCapacity, QueueByteCapacity, MaxCaptureBytes  \* the options

ASSUME RawCaptureAssumption ==
  /\ {MaxCaptures, QueueCapacity, QueueByteCapacity, MaxCaptureBytes} \subseteq Nat \ {0}
  /\ {MaxOffered, MaxFaults, Envelope} \subseteq Nat
  /\ Sizes \subseteq Nat /\ \A bytes \in Sizes : bytes > Envelope
  /\ NoFile \notin [lines : Seq(Nat), ended : BOOLEAN]
  /\ NoDigest \notin [lines : Seq(Nat), ended : BOOLEAN]
  /\ NoManifest \notin [complete : BOOLEAN, contentSha256 : Seq(Nat), writtenRecords : Nat,
                        sha256 : {NoDigest} \cup [lines : Seq(Nat), ended : BOOLEAN]]

VARIABLES
  id,          \* the current recorder; earlier ones are closed or dead
  state,       \* "open", "closing", "closed"
  accepting, failed,
  queue,       \* lines queued: [line |-> captureSequence, upTo |-> rawBytes with it]
  acceptedRecords, droppedRecords,
  lines,       \* lines given to gzip.write(), counted by writtenRecords
  rawBytes,
  initialize,  \* initializePromise: "none", "directory", "opening", "done", "failed"
  flush,       \* flushPromise: "none", "starting", "ready", "draining"
  gzip,        \* "none", "open", "ended", "destroyed"
  pipeline,    \* pipelinePromise: "none", "running", "settled"
  finishing,   \* where finish() stands: "none", "flush", "pipeline", "hash", "manifest"
  digest,      \* dataSha256 of finish()
  elapsed,     \* maxDurationMs has passed
  dataFiles, manifests,  \* the directory, by capture
  offered,     \* history: calls of record() while each recorder was open
  faults

control == <<id, state, accepting, failed, elapsed>>
counters == <<acceptedRecords, droppedRecords>>
stream == <<initialize, flush, gzip, pipeline>>
output == <<lines, rawBytes>>
directory == <<dataFiles, manifests>>
captureVars ==
  <<control, queue, counters, output, stream, finishing, digest, directory, offered, faults>>

Captures == 1 .. MaxCaptures

-----------------------------------------------------------------------------
(* What server/replay/rawCaptureCatalog.ts makes of the files a recorder   *)
(* leaves behind.  A data file is the lines that reached it and whether    *)
(* the gzip stream was ended; a checksum of a file is the file itself, one *)
(* of the content its lines.  Of a manifest only the fields that a         *)
(* recorder can get wrong are kept, and a line is its captureSequence.     *)

(* loadCaptureSegment(): the manifest parses (a null checksum does not)    *)
(* and its data file is there.                                             *)
Discovered(manifest, file) ==
  manifest # NoManifest /\ file # NoFile /\ manifest.sha256 # NoDigest

(* list() of a refreshed catalog, as every replay route asks for it. *)
Listed(manifest, file) == Discovered(manifest, file) /\ manifest.complete

(* readCaptureSegment(): both checksums, an ended stream, record numbers   *)
(* from 1 without a hole, and as many records as the manifest says.        *)
ReadsBack(manifest, file) ==
  /\ file = manifest.sha256
  /\ file.ended
  /\ file.lines = [n \in 1 .. Len(file.lines) |-> n]
  /\ file.lines = manifest.contentSha256
  /\ Len(file.lines) = manifest.writtenRecords

-----------------------------------------------------------------------------
NewRecorder ==
  /\ state' = "open" /\ accepting' = TRUE /\ failed' = FALSE /\ elapsed' = FALSE
  /\ queue' = <<>> /\ acceptedRecords' = 0 /\ droppedRecords' = 0
  /\ lines' = <<>> /\ rawBytes' = 0
  /\ initialize' = "none" /\ flush' = "none" /\ gzip' = "none" /\ pipeline' = "none"
  /\ finishing' = "none" /\ digest' = NoDigest

CaptureInit ==
  /\ id = 1
  /\ state = "open" /\ accepting = TRUE /\ failed = FALSE /\ elapsed = FALSE
  /\ queue = <<>> /\ acceptedRecords = 0 /\ droppedRecords = 0
  /\ lines = <<>> /\ rawBytes = 0
  /\ initialize = "none" /\ flush = "none" /\ gzip = "none" /\ pipeline = "none"
  /\ finishing = "none" /\ digest = NoDigest
  /\ dataFiles = [c \in Captures |-> NoFile]
  /\ manifests = [c \in Captures |-> NoManifest]
  /\ offered = [c \in Captures |-> 0]
  /\ faults = 0

Fault == faults < MaxFaults /\ faults' = faults + 1

(* rawBytes once the first n lines of the queue are written. *)
BytesAfter(n) == IF n = 0 THEN rawBytes ELSE queue[n].upTo
QueuedBytes == BytesAfter(Len(queue)) - rawBytes

-----------------------------------------------------------------------------
(* record(), close() and what they share. *)

(* scheduleFlush() for a queue that has something in it. *)
ScheduleFlush ==
  /\ flush' = IF flush = "none" /\ ~failed THEN "starting" ELSE flush
  /\ UNCHANGED <<gzip, pipeline>>
  /\ initialize' = IF flush' = "starting" /\ initialize = "none" THEN "directory"
                                                                 ELSE initialize

(* close() of an open recorder, up to the first await of finish(). *)
Close ==
  /\ state' = "closing" /\ accepting' = FALSE
  /\ finishing' = "flush"

Refuse ==
  /\ droppedRecords' = droppedRecords + 1
  /\ UNCHANGED <<control, queue, acceptedRecords, stream, finishing>>

(* reachCaptureLimit(): the record is lost and the capture closes. *)
ReachCaptureLimit ==
  /\ Close
  /\ droppedRecords' = droppedRecords + 1
  /\ IF queue = <<>> THEN UNCHANGED stream ELSE ScheduleFlush
  /\ UNCHANGED <<id, failed, elapsed, queue, acceptedRecords>>

Accept(bytes) ==
  /\ queue' = Append(queue, [line |-> acceptedRecords + 1,
                             upTo |-> rawBytes + QueuedBytes + bytes])
  /\ acceptedRecords' = acceptedRecords + 1
  /\ ScheduleFlush
  /\ UNCHANGED <<control, droppedRecords, finishing>>

(* The text alone is already longer than the queue or the capture allows. *)
TooLong(bytes) ==
  bytes - Envelope > (IF QueueByteCapacity < MaxCaptureBytes THEN QueueByteCapacity
                                                             ELSE MaxCaptureBytes)

OverBudget(bytes) ==
  IF TooLong(bytes) THEN bytes - Envelope > MaxCaptureBytes
                    ELSE rawBytes + QueuedBytes + bytes > MaxCaptureBytes

QueueFull(bytes) ==
  \/ TooLong(bytes) \/ bytes > QueueByteCapacity
  \/ Len(queue) >= QueueCapacity \/ QueuedBytes + bytes > QueueByteCapacity

(* record(): well-formed or not, in time or not.  A recorder that is       *)
(* closing or closed returns before it counts anything.                    *)
Record(bytes, valid) ==
  /\ state = "open" /\ offered[id] < MaxOffered
  /\ offered' = [offered EXCEPT ![id] = @ + 1]
  /\ CASE ~accepting \/ failed -> Refuse
       [] accepting /\ ~failed /\ elapsed -> ReachCaptureLimit
       [] accepting /\ ~failed /\ ~elapsed /\ ~valid -> Refuse
       [] accepting /\ ~failed /\ ~elapsed /\ valid ->
            IF OverBudget(bytes) THEN ReachCaptureLimit
            ELSE IF QueueFull(bytes) THEN Refuse ELSE Accept(bytes)
  /\ UNCHANGED <<output, digest, directory, faults>>

(* close() by the gateway's shutdown or, once maxDurationMs has passed, by *)
(* the expiry timer.                                                       *)
Shutdown ==
  /\ state = "open"
  /\ Close
  /\ IF queue = <<>> THEN UNCHANGED stream ELSE ScheduleFlush
  /\ UNCHANGED <<id, failed, elapsed, queue, counters, output, directory, digest,
                 offered, faults>>

ExpiryTimerFires == elapsed /\ Shutdown

TimePasses ==
  /\ state = "open" /\ ~elapsed
  /\ elapsed' = TRUE
  /\ UNCHANGED <<id, state, accepting, failed, queue, counters, output, stream,
                 finishing, directory, digest, offered, faults>>

(* markFailed(): what is queued is lost, an open recorder closes after it. *)
MarkFailed(lost) ==
  /\ failed' = TRUE /\ accepting' = FALSE
  /\ droppedRecords' = droppedRecords + Len(queue) + lost
  /\ queue' = <<>>
  /\ UNCHANGED <<id, state, elapsed, acceptedRecords>>

(* The microtask a failure leaves behind. *)
FinalizeFailed ==
  /\ failed /\ state = "open"
  /\ Close
  /\ UNCHANGED <<id, failed, elapsed, queue, counters, output, stream, directory,
                 digest, offered, faults>>

-----------------------------------------------------------------------------
(* initialize(): make and purge the directory, open the file. *)

(* purgeExpiredCaptures(): any artifact of another capture may be due. *)
Purged(data, manifest) ==
  /\ dataFiles' = [c \in Captures |-> IF c \in data THEN NoFile ELSE dataFiles[c]]
  /\ manifests' = [c \in Captures |-> IF c \in manifest THEN NoManifest ELSE manifests[c]]

DirectoryReady ==
  /\ initialize = "directory"
  /\ initialize' = "opening" /\ gzip' = "open" /\ pipeline' = "running"
  /\ \E data \in SUBSET (1 .. id - 1), manifest \in SUBSET (1 .. id - 1) :
       Purged(data, manifest)
  /\ UNCHANGED <<control, queue, counters, output, flush, finishing, digest, offered,
                 faults>>

FileOpens ==
  /\ initialize = "opening"
  /\ initialize' = "done"
  /\ dataFiles' = [dataFiles EXCEPT ![id] = [lines |-> <<>>, ended |-> FALSE]]
  /\ flush' = IF flush = "starting" THEN "ready" ELSE flush
  /\ UNCHANGED <<control, queue, counters, output, gzip, pipeline, finishing, manifests,
                 digest, offered, faults>>

(* mkdir, the purge or the exclusive open fails; flush and finish() see it.*)
InitializeFails ==
  /\ initialize \in {"directory", "opening"}
  /\ Fault
  /\ initialize' = "failed"
  /\ flush' = "none"
  /\ gzip' = IF initialize = "opening" THEN "destroyed" ELSE gzip
  /\ pipeline' = IF initialize = "opening" THEN "settled" ELSE pipeline
  /\ MarkFailed(0)
  /\ UNCHANGED <<output, finishing, directory, digest, offered>>

-----------------------------------------------------------------------------
(* flushQueue(). *)

(* The first n lines of the queue go to gzip.write(). *)
Write(n) ==
  /\ lines' = lines \o [i \in 1 .. n |-> queue[i].line]
  /\ rawBytes' = BytesAfter(n)

FlushStarts ==
  /\ flush = "starting" /\ initialize = "done"
  /\ flush' = "ready"
  /\ UNCHANGED <<control, queue, counters, output, initialize, gzip, pipeline,
                 finishing, directory, digest, offered, faults>>

(* gzip takes lines until it asks to wait or the queue is empty; the end   *)
(* of the task schedules the next one if more was queued meanwhile.        *)
FlushWrites(n, canContinue) ==
  /\ flush = "ready" /\ n \in 0 .. Len(queue)
  /\ IF canContinue THEN n = Len(queue) ELSE n > 0
  /\ Write(n)
  /\ queue' = SubSeq(queue, n + 1, Len(queue))
  /\ flush' = IF canContinue THEN "none" ELSE "draining"
  /\ UNCHANGED <<control, counters, initialize, gzip, pipeline, finishing, directory,
                 digest, offered, faults>>

(* gzip.write() throws on line n + 1. *)
WriteThrows(n) ==
  /\ flush = "ready" /\ n \in 0 .. Len(queue) - 1
  /\ Fault
  /\ Write(n)
  /\ failed' = TRUE /\ accepting' = FALSE
  /\ droppedRecords' = droppedRecords + Len(queue) - n
  /\ queue' = <<>> /\ flush' = "none"
  /\ gzip' = "destroyed"
  /\ UNCHANGED <<id, state, elapsed, acceptedRecords, initialize, pipeline, finishing,
                 directory, digest, offered>>

Drained ==
  /\ flush = "draining" /\ gzip = "open"
  /\ flush' = "ready"
  /\ UNCHANGED <<control, queue, counters, output, initialize, gzip, pipeline,
                 finishing, directory, digest, offered, faults>>

-----------------------------------------------------------------------------
(* The pipeline and finish(). *)

(* What a file that was not finished may hold: some lines, no trailer. *)
TruncatedFiles ==
  IF dataFiles[id] = NoFile THEN {NoFile}
  ELSE {[lines |-> SubSeq(lines, 1, n), ended |-> FALSE] : n \in 0 .. Len(lines)}

(* The disk fills up: the pipeline destroys gzip, a waiting flush and the  *)
(* pipeline's own catch run before any other callback.                     *)
PipelineBreaks ==
  /\ pipeline = "running" /\ initialize = "done" /\ gzip \in {"open", "ended"}
  /\ Fault
  /\ pipeline' = "settled" /\ gzip' = "destroyed" /\ flush' = "none"
  /\ \E file \in TruncatedFiles : dataFiles' = [dataFiles EXCEPT ![id] = file]
  /\ MarkFailed(0)
  /\ UNCHANGED <<output, initialize, finishing, manifests, digest, offered>>

(* A destroyed gzip ends its pipeline with the file as it is. *)
PipelineSettles ==
  /\ pipeline = "running" /\ gzip \in {"ended", "destroyed"}
  /\ pipeline' = "settled"
  /\ IF gzip = "ended" /\ dataFiles[id] # NoFile
     THEN dataFiles' = [dataFiles EXCEPT ![id] = [lines |-> lines, ended |-> TRUE]]
     ELSE \E file \in TruncatedFiles : dataFiles' = [dataFiles EXCEPT ![id] = file]
  /\ UNCHANGED <<control, queue, counters, output, initialize, flush, gzip, finishing,
                 manifests, digest, offered, faults>>

(* Mutant: a capture without records waits for a file nobody opens. *)
EndStreamOfFile ==
  /\ finishing = "flush" /\ flush = "none"
  /\ initialize \in {"done", "failed"}
  /\ finishing' = "pipeline"
  /\ gzip' = IF gzip # "open" THEN gzip ELSE IF failed THEN "destroyed" ELSE "ended"
  /\ UNCHANGED <<control, queue, counters, output, initialize, flush, pipeline, digest,
                 directory, offered, faults>>

(* finish() once no flush is left: an empty capture gets its file now, and *)
(* the stream is ended, or destroyed after a failure.                      *)
EndStream ==
  /\ finishing = "flush" /\ flush = "none"
  /\ IF initialize = "none"
     THEN initialize' = "directory" /\ UNCHANGED <<gzip, finishing>>
     ELSE /\ initialize \in {"done", "failed"}
          /\ finishing' = "pipeline"
          /\ gzip' = IF gzip # "open" THEN gzip ELSE IF failed THEN "destroyed" ELSE "ended"
          /\ UNCHANGED initialize
  /\ UNCHANGED <<control, queue, counters, output, flush, pipeline, directory, digest,
                 offered, faults>>

Closed == state' = "closed" /\ finishing' = "none"

(* The pipeline is done.  Without a data file of its own it throws. *)
AwaitPipeline ==
  /\ finishing = "pipeline" /\ pipeline # "running"
  /\ IF initialize = "done" THEN finishing' = "hash" /\ UNCHANGED state ELSE Closed
  /\ UNCHANGED <<id, accepting, failed, elapsed, queue, counters, output, stream,
                 directory, digest, offered, faults>>

(* stat() and sha256File() fail if the file was purged meanwhile. *)
Hash ==
  /\ finishing = "hash"
  /\ finishing' = "manifest"
  /\ \/ dataFiles[id] # NoFile /\ digest' = dataFiles[id]
        /\ UNCHANGED <<control, queue, counters, faults>>
     \/ dataFiles[id] = NoFile /\ MarkFailed(0) /\ UNCHANGED <<digest, faults>>
     \/ dataFiles[id] # NoFile /\ MarkFailed(0) /\ Fault /\ UNCHANGED digest
  /\ UNCHANGED <<output, stream, directory, offered>>

CompleteUnlessFailed == ~failed  \* mutant: a record that was refused does not count
ManifestComplete ==
  /\ ~failed /\ droppedRecords = 0
  /\ acceptedRecords = Len(lines) /\ digest # NoDigest

(* The manifest appears whole, by link(), or finish() throws. *)
Publish ==
  /\ finishing = "manifest"
  /\ \/ /\ manifests' = [manifests EXCEPT ![id] =
              [complete |-> ManifestComplete, sha256 |-> digest, contentSha256 |-> lines,
               writtenRecords |-> Len(lines)]]
        /\ Closed
        /\ UNCHANGED <<id, accepting, failed, elapsed, queue, counters, faults>>
     \/ /\ Fault
        /\ state' = "closed" /\ finishing' = "none"
        /\ failed' = TRUE
        /\ UNCHANGED <<id, accepting, elapsed, queue, counters, manifests>>
  /\ UNCHANGED <<output, stream, digest, dataFiles, offered>>

-----------------------------------------------------------------------------
(* The world around the recorder. *)

(* A recorder of another symbol purges the shared directory. *)
OthersPurge(data, manifest) ==
  /\ Purged(data, manifest)
  /\ UNCHANGED <<control, queue, counters, output, stream, finishing, digest, offered,
                 faults>>

NextRecorder ==
  /\ id < MaxCaptures
  /\ id' = id + 1
  /\ NewRecorder

(* The market's next gateway opens a capture of its own. *)
Reopen ==
  /\ state = "closed"
  /\ NextRecorder
  /\ UNCHANGED <<directory, offered, faults>>

Crash ==
  /\ state # "closed" /\ Fault
  /\ IF pipeline = "running" /\ initialize = "done"
     THEN \E file \in TruncatedFiles : dataFiles' = [dataFiles EXCEPT ![id] = file]
     ELSE UNCHANGED dataFiles
  /\ NextRecorder
  /\ UNCHANGED <<manifests, offered>>

CaptureNext ==
  \/ \E bytes \in Sizes, valid \in BOOLEAN : Record(bytes, valid)
  \/ Shutdown \/ ExpiryTimerFires \/ TimePasses \/ FinalizeFailed
  \/ DirectoryReady \/ FileOpens \/ InitializeFails
  \/ FlushStarts \/ Drained
  \/ \E n \in 0 .. QueueCapacity, canContinue \in BOOLEAN : FlushWrites(n, canContinue)
  \/ \E n \in 0 .. QueueCapacity : WriteThrows(n)
  \/ PipelineBreaks \/ PipelineSettles
  \/ EndStream \/ AwaitPipeline \/ Hash \/ Publish
  \/ \E data \in SUBSET (1 .. id), manifest \in SUBSET (1 .. id) : OthersPurge(data, manifest)
  \/ Reopen \/ Crash

CaptureSpec == CaptureInit /\ [][CaptureNext]_captureVars

(* Microtasks run, file operations end, well or badly, and gzip drains.    *)
Fairness ==
  /\ WF_captureVars(FinalizeFailed)
  /\ WF_captureVars(DirectoryReady) /\ WF_captureVars(FileOpens)
  /\ WF_captureVars(FlushStarts) /\ WF_captureVars(Drained)
  /\ WF_captureVars(\E n \in 0 .. QueueCapacity, canContinue \in BOOLEAN :
                      FlushWrites(n, canContinue))
  /\ WF_captureVars(PipelineSettles)
  /\ WF_captureVars(EndStream) /\ WF_captureVars(AwaitPipeline)
  /\ WF_captureVars(Hash) /\ WF_captureVars(Publish)

FairCaptureSpec == CaptureSpec /\ Fairness

-----------------------------------------------------------------------------
(* docs/phase-1/reliability-contract.md:64: a refusal makes the manifest   *)
(* incomplete.  A capture the catalog lists as complete reads back through *)
(* every check, and what it reads is every record that was offered while   *)
(* the capture was open: none lost in the queue, the stream or a limit,    *)
(* whatever failed, raced or crashed.  A file that retention removed after *)
(* the listing is the reader's error, not a wrong answer.                  *)
CompleteCapturesAreWhole ==
  \A c \in Captures :
    Listed(manifests[c], dataFiles[c]) =>
      /\ ReadsBack(manifests[c], dataFiles[c])
      /\ Len(dataFiles[c].lines) = offered[c]

(* The statistics tell no lies at any moment: every record offered is      *)
(* written, queued or dropped, and the byte budget and queue limits hold   *)
(* over what is queued and what is already with gzip.                      *)
RecordsAccountedFor ==
  /\ Len(lines) + Len(queue) + droppedRecords = offered[id]
  /\ Len(queue) <= QueueCapacity /\ QueuedBytes <= QueueByteCapacity
  /\ rawBytes + QueuedBytes <= MaxCaptureBytes

(* Both: what a capture claims, at every moment and when it is done.       *)
CapturesAccountForRecords == CompleteCapturesAreWhole /\ RecordsAccountedFor

(* close() settles, so the gateway's shutdown does: no flush, drain or     *)
(* pipeline is awaited that a failure, a limit or an empty capture left    *)
(* without anyone to end it.  A failed recorder closes itself.             *)
Unsettled == state = "closing" \/ (failed /\ state = "open")
CloseSettles == Unsettled ~> ~Unsettled
=============================================================================
