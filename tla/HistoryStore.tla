---------------------------- MODULE HistoryStore ----------------------------
(***************************************************************************)
(* One symbol's durable history: FileHistoryStore of                       *)
(* server/storage/fileHistoryStore.ts under the callers that               *)
(* server/historyPersistence.ts gives it.  The writer appends one-second   *)
(* frames; the maintenance chain runs one task at a time, a retention pass,*)
(* a backup or a roll-up of server/storage/downsampleWorker.ts; queries    *)
(* come from anywhere; an operator may restore a backup; the process may   *)
(* die between any two steps.                                              *)
(*                                                                         *)
(* A segment file is a number, its content is written once.  The catalog   *)
(* lock is taken by whole operations: an action that needs it is one step, *)
(* and only a restore, whose two renames a crash can separate, holds it    *)
(* from one step to the next (swapping).  Temporary names and query limits *)
(* are left out.  Roll-ups outlive the frames they sum, as minute frames   *)
(* outlive one-second frames in the default policy.                        *)
(***************************************************************************)
EXTENDS Integers, FiniteSets

CONSTANTS
  LastFrame,     \* bound: one-second frames recorded
  BucketFrames,  \* targetResolutionMs / sourceResolutionMs
  Readers,       \* concurrent queries
  MaxFiles,      \* bound: segment files written
  MaxBackups,    \* backups kept
  MaxRestores,   \* bound: restores completed by one process
  MaxRestarts    \* bound: crashes

ASSUME HistoryAssumption ==
  /\ LastFrame \in Nat /\ BucketFrames \in Nat \ {0} /\ MaxFiles \in Nat
  /\ IsFiniteSet(Readers)
  /\ {MaxBackups, MaxRestores, MaxRestarts} \subseteq Nat

VARIABLES
  catalog,         \* active segments and the roll-up's checkpoint, on disk
  files,           \* segment files in the store's directory
  content,         \* what was written to each file
  minted,          \* files written so far
  swapping,        \* a restore holds the lock between its two renames
  aside,           \* files of the directory it moved out of the way
  crossed,         \* history: files being deleted while a restore swapped
  stale,           \* history: a restore came since the roll-up at hand began
  overtaken,       \* history: buckets such a roll-up appended or marked
  backup,          \* the catalogs of the backups kept
  generation, pins, pendingDeletes,  \* fields of the same names
  unlinking,       \* deletions a lease's release has started
  append,          \* appendBatch() calls in progress
  maintenance,     \* the task of the maintenance chain
  leases,          \* segments leased by each query
  writerFailed,    \* the BatchedWriter's failure is final
  recorded,        \* frames handed to appendBatch() so far
  horizon,         \* frames up to here are past their retention
  restarts

disk == <<catalog, files, content, minted, backup>>
swap == <<swapping, aside, crossed, stale, overtaken>>
leasing == <<pins, pendingDeletes, unlinking>>
vars == <<disk, swap, leasing, generation, append, maintenance, leases,
          writerFailed, recorded, horizon, restarts>>

FileIds == 1 .. MaxFiles
Buckets == LastFrame \div BucketFrames
Frame(t) == <<"frame", t>>
Rollup(b) == <<"rollup", b>>
Records == {Frame(t) : t \in 1 .. LastFrame} \cup {Rollup(b) : b \in 1 .. Buckets}
SourceOf(b) == {Frame(t) : t \in (b - 1) * BucketFrames + 1 .. b * BucketFrames}

Visible == UNION {content[f] : f \in catalog.segments}
Retained(records) == {r \in records : r[1] = "rollup" \/ r[2] > horizon}

Appenders == {"writer", "rollup"}
NoAppend == [step |-> "none"]
Idle == [task |-> "idle"]
NewCatalog == [segments |-> {}, checkpoint |-> 0]

Init ==
  /\ catalog = NewCatalog /\ files = {} /\ minted = 0
  /\ content = [f \in FileIds |-> {}]
  /\ swapping = FALSE /\ aside = {} /\ backup = {}
  /\ crossed = {} /\ stale = FALSE /\ overtaken = {}
  /\ generation = 0 /\ pins = [f \in FileIds |-> 0]
  /\ pendingDeletes = {} /\ unlinking = {}
  /\ append = [a \in Appenders |-> NoAppend] /\ maintenance = Idle
  /\ leases = [r \in Readers |-> {}]
  /\ writerFailed = FALSE /\ recorded = 0 /\ horizon = 0 /\ restarts = 0

-----------------------------------------------------------------------------
(* Leases: a pinned file outlives its place in the catalog. *)

Lease(segments) ==
  /\ ~swapping
  /\ pins' = [f \in FileIds |-> IF f \in segments THEN pins[f] + 1 ELSE pins[f]]
  /\ UNCHANGED <<pendingDeletes, unlinking>>

Unpinned(segments) == {f \in segments : pins[f] = 1}

(* release(): under the lock up to here, the unlinks follow outside it. *)
Release(segments) ==
  /\ ~swapping
  /\ pins' = [f \in FileIds |-> IF f \in segments THEN pins[f] - 1 ELSE pins[f]]
  /\ pendingDeletes' = pendingDeletes \ Unpinned(segments)
  /\ unlinking' = unlinking \cup (pendingDeletes \cap Unpinned(segments))

Unlink(f) ==
  /\ f \in unlinking
  /\ unlinking' = unlinking \ {f}
  /\ files' = files \ {f}
  /\ UNCHANGED <<catalog, content, minted, backup, swap, pins, pendingDeletes, generation,
                 append, maintenance, leases, writerFailed, recorded, horizon, restarts>>

QueryLeases(r) ==
  /\ leases[r] = {}
  /\ \E segments \in SUBSET catalog.segments \ {{}} :
       Lease(segments) /\ leases' = [leases EXCEPT ![r] = segments]
  /\ UNCHANGED <<disk, swap, generation, append, maintenance, writerFailed, recorded,
                 horizon, restarts>>

QueryEnds(r) ==
  /\ leases[r] # {}
  /\ Release(leases[r])
  /\ leases' = [leases EXCEPT ![r] = {}]
  /\ UNCHANGED <<disk, swap, generation, append, maintenance, writerFailed, recorded,
                 horizon, restarts>>

-----------------------------------------------------------------------------
(* appendBatch(). *)

(* prepareSegment(): a new file, under a name nobody else has. *)
PrepareSegment(records) ==
  /\ minted < MaxFiles /\ ~swapping
  /\ minted' = minted + 1
  /\ content' = [content EXCEPT ![minted'] = records]
  /\ files' = files \cup {minted'}

Begin(a, records) ==
  append' = [append EXCEPT ![a] =
               [step |-> "preparing", records |-> records, generation |-> generation]]

WriterAppends(n) ==
  /\ ~writerFailed /\ append["writer"] = NoAppend
  /\ n \in recorded + 1 .. LastFrame
  /\ Begin("writer", {Frame(t) : t \in recorded + 1 .. n})
  /\ recorded' = n
  /\ UNCHANGED <<disk, swap, leasing, generation, maintenance, leases, writerFailed,
                 horizon, restarts>>

WriteSegment(a) ==
  /\ append[a].step = "preparing"
  /\ PrepareSegment(append[a].records)
  /\ append' = [append EXCEPT ![a] =
                  [step |-> "prepared", file |-> minted', generation |-> @.generation]]
  /\ UNCHANGED <<catalog, backup, swap, leasing, generation, maintenance, leases,
                 writerFailed, recorded, horizon, restarts>>

(* The caller of appendBatch() goes on, or meets its error. *)
Return(a, committed) ==
  /\ append' = [append EXCEPT ![a] = NoAppend]
  /\ IF a = "writer"
     THEN writerFailed' = ~committed /\ UNCHANGED maintenance
     ELSE /\ maintenance' = IF committed
                            THEN [maintenance EXCEPT !.task = "appending",
                                                     !.missing = @ \ content[append[a].file]]
                            ELSE Idle
          /\ UNCHANGED writerFailed

SameStoreAlways(a) == TRUE  \* mutant: the generation is not compared
SameStore(a) == append[a].generation = generation

CommitSegment(a) ==
  /\ append[a].step = "prepared" /\ ~swapping
  /\ SameStore(a)
  /\ catalog' = [catalog EXCEPT !.segments = @ \cup {append[a].file}]
  /\ Return(a, TRUE)
  /\ UNCHANGED <<files, content, minted, backup, swap, leasing, generation, leases,
                 recorded, horizon, restarts>>

(* A full disk, a directory that is being swapped, or a restored store. *)
AppendFails(a) ==
  /\ append[a].step = "preparing" \/ (append[a].step = "prepared" /\ ~swapping)
  /\ files' = IF append[a].step = "prepared" THEN files \ {append[a].file} ELSE files
  /\ Return(a, FALSE)
  /\ UNCHANGED <<catalog, content, minted, backup, swap, leasing, generation, leases,
                 recorded, horizon, restarts>>

-----------------------------------------------------------------------------
(* runRetention(): rewrite what expired, leased, and swap it in. *)

RetentionLeases(now) ==
  /\ maintenance = Idle /\ catalog.segments # {}
  /\ now \in horizon .. LastFrame /\ horizon' = now
  /\ Lease(catalog.segments)
  /\ maintenance' = [task |-> "rewriting", leased |-> catalog.segments,
                     todo |-> catalog.segments, rewritten |-> {}]
  /\ UNCHANGED <<disk, swap, generation, append, leases, writerFailed, recorded, restarts>>

Rewritten(f, g) ==
  maintenance' = [maintenance EXCEPT !.todo = @ \ {f},
                    !.rewritten = @ \cup {[original |-> f, replacement |-> g]}]

(* One segment read; 0 replaces a segment nothing is left of. *)
RetentionRewrites(f) ==
  /\ maintenance.task = "rewriting" /\ f \in maintenance.todo /\ f \in files
  /\ LET retained == Retained(content[f])
     IN \/ /\ retained = content[f]
           /\ maintenance' = [maintenance EXCEPT !.todo = @ \ {f}]
           /\ UNCHANGED <<files, content, minted>>
        \/ /\ retained = {} /\ Rewritten(f, 0)
           /\ UNCHANGED <<files, content, minted>>
        \/ /\ retained \notin {{}, content[f]}
           /\ PrepareSegment(retained) /\ Rewritten(f, minted')
  /\ UNCHANGED <<catalog, backup, swap, leasing, generation, append, leases, writerFailed,
                 recorded, horizon, restarts>>

Originals == {w.original : w \in maintenance.rewritten}
Replacements == {w.replacement : w \in maintenance.rewritten} \ {0}

(* Mutant: the catalog of the lease is written back, not the current one. *)
LeasedCatalogRewritten == (maintenance.leased \ Originals) \cup Replacements
CatalogRewritten == (catalog.segments \ Originals) \cup Replacements

RetentionCommits ==
  /\ maintenance.task = "rewriting" /\ maintenance.todo = {} /\ ~swapping
  /\ catalog' = [catalog EXCEPT !.segments = CatalogRewritten]
  /\ pendingDeletes' = pendingDeletes \cup Originals
  /\ maintenance' = [task |-> "releasing", leased |-> maintenance.leased]
  /\ UNCHANGED <<files, content, minted, backup, swap, pins, unlinking, generation, append,
                 leases, writerFailed, recorded, horizon, restarts>>

UnlinkNothing == files  \* mutant: prepared replacements are left behind
UnlinkReplacements == files \ Replacements

(* A read, a write or the commit failed: nothing of it stays. *)
RetentionFails ==
  /\ maintenance.task = "rewriting"
  /\ files' = UnlinkReplacements
  /\ maintenance' = [task |-> "releasing", leased |-> maintenance.leased]
  /\ UNCHANGED <<catalog, content, minted, backup, swap, leasing, generation, append,
                 leases, writerFailed, recorded, horizon, restarts>>

-----------------------------------------------------------------------------
(* createBackup(): a copy of what is leased, published by one rename. *)

BackupLeases ==
  /\ maintenance = Idle
  /\ Lease(catalog.segments)
  /\ maintenance' = [task |-> "copying", leased |-> catalog.segments, catalog |-> catalog]
  /\ UNCHANGED <<disk, swap, generation, append, leases, writerFailed, recorded, horizon,
                 restarts>>

BackupPublished ==
  /\ maintenance.task = "copying" /\ maintenance.leased \subseteq files
  /\ \E kept \in SUBSET backup :
       Cardinality(kept) < MaxBackups /\ backup' = kept \cup {maintenance.catalog}
  /\ maintenance' = [task |-> "releasing", leased |-> maintenance.leased]
  /\ UNCHANGED <<catalog, files, content, minted, swap, leasing, generation, append, leases,
                 writerFailed, recorded, horizon, restarts>>

BackupFails ==
  /\ maintenance.task = "copying"
  /\ maintenance' = [task |-> "releasing", leased |-> maintenance.leased]
  /\ UNCHANGED <<disk, swap, leasing, generation, append, leases, writerFailed, recorded,
                 horizon, restarts>>

(* The end of a retention pass or a backup. *)
TaskReleases ==
  /\ maintenance.task = "releasing"
  /\ Release(maintenance.leased)
  /\ maintenance' = Idle
  /\ UNCHANGED <<disk, swap, generation, append, leases, writerFailed, recorded, horizon,
                 restarts>>

-----------------------------------------------------------------------------
(* DownsampleWorker.run(), one window: its queries are one step each, their *)
(* leases only delaying what QueryLeases already delays.                    *)

RollupBegins ==
  /\ maintenance = Idle /\ ~swapping
  /\ maintenance' = [task |-> "reading", from |-> catalog.checkpoint]
  /\ stale' = FALSE
  /\ UNCHANGED <<disk, swapping, aside, crossed, overtaken, leasing, generation, append,
                 leases, writerFailed, recorded, horizon, restarts>>

(* A query throws on a segment whose file is gone. *)
Readable(records) == \A f \in catalog.segments : content[f] \cap records # {} => f \in files
Complete(b) == SourceOf(b) \subseteq Visible /\ Readable(SourceOf(b))

(* The complete buckets from the checkpoint on, up to the window's end. *)
RollupReads(through) ==
  /\ maintenance.task = "reading" /\ ~swapping
  /\ through \in maintenance.from .. Buckets
  /\ \A b \in maintenance.from + 1 .. through : Complete(b)
  /\ maintenance' = IF through = maintenance.from THEN Idle
                    ELSE [task |-> "comparing", from |-> maintenance.from, through |-> through]
  /\ UNCHANGED <<disk, swap, leasing, generation, append, leases, writerFailed, recorded,
                 horizon, restarts>>

(* A query threw. *)
RollupFails ==
  /\ maintenance.task \in {"reading", "comparing"}
  /\ maintenance' = Idle
  /\ UNCHANGED <<disk, swap, leasing, generation, append, leases, writerFailed, recorded,
                 horizon, restarts>>

Targets(from, through) == {Rollup(b) : b \in from + 1 .. through}
ExistingIgnored == {}  \* mutant: targets already stored are appended again
Existing == Visible

RollupCompares ==
  /\ maintenance.task = "comparing" /\ ~swapping
  /\ \E targets \in {Targets(maintenance.from, maintenance.through)} :
       /\ Readable(targets)
       /\ maintenance' = [task |-> "appending", through |-> maintenance.through,
                          missing |-> targets \ Existing]
  /\ UNCHANGED <<disk, swap, leasing, generation, append, leases, writerFailed, recorded,
                 horizon, restarts>>

(* The next batch of missing targets, in the order of their buckets. *)
RollupAppends ==
  /\ maintenance.task = "appending" /\ maintenance.missing # {}
  /\ \E r \in maintenance.missing :
       /\ \A other \in maintenance.missing : r[2] <= other[2]
       /\ Begin("rollup", {r})
       /\ overtaken' = IF stale THEN overtaken \cup {r[2]} ELSE overtaken
  /\ maintenance' = [maintenance EXCEPT !.task = "waiting"]
  /\ UNCHANGED <<disk, swapping, aside, crossed, stale, leasing, generation, leases,
                 writerFailed, recorded, horizon, restarts>>

NothingMissingUnchecked == TRUE  \* mutant: the mark does not wait for the targets
NothingMissing == maintenance.missing = {}

(* setMaintenanceCheckpoint(), which refuses to go back. *)
RollupMarks ==
  /\ maintenance.task = "appending" /\ NothingMissing /\ ~swapping
  /\ catalog' = IF maintenance.through >= catalog.checkpoint
                THEN [catalog EXCEPT !.checkpoint = maintenance.through] ELSE catalog
  /\ overtaken' = IF stale THEN overtaken \cup catalog.checkpoint + 1 .. maintenance.through
                  ELSE overtaken
  /\ maintenance' = Idle
  /\ UNCHANGED <<files, content, minted, backup, swapping, aside, crossed, stale, leasing,
                 generation, append, leases, writerFailed, recorded, horizon, restarts>>

-----------------------------------------------------------------------------
(* restoreBackup(), once its files are staged: two renames under the lock. *)
(* Nothing leased is all it asks for: a roll-up, whose reads are over at    *)
(* once, may be under way, and a release may still be deleting files.      *)

RestoreMovesAside ==
  /\ ~swapping /\ generation < MaxRestores /\ backup # {}
  /\ \A f \in FileIds : pins[f] = 0
  /\ swapping' = TRUE /\ aside' = files /\ files' = {}
  /\ crossed' = crossed \cup unlinking
  /\ UNCHANGED <<catalog, content, minted, backup, stale, overtaken, leasing, generation,
                 append, maintenance, leases, writerFailed, recorded, horizon, restarts>>

RollupSteps == {"reading", "comparing", "appending", "waiting"}
RestoreMovesIn ==
  /\ swapping
  /\ swapping' = FALSE /\ aside' = {}
  /\ \E manifest \in backup : files' = manifest.segments /\ catalog' = manifest
  /\ generation' = generation + 1 /\ pendingDeletes' = {}
  /\ crossed' = unlinking
  /\ stale' = (stale \/ maintenance.task \in RollupSteps)
  /\ UNCHANGED <<content, minted, backup, overtaken, pins, unlinking, append, maintenance,
                 leases, writerFailed, recorded, horizon, restarts>>

(* The second rename failed: the old directory comes back. *)
RestoreRollsBack ==
  /\ swapping
  /\ swapping' = FALSE /\ aside' = {} /\ files' = aside
  /\ UNCHANGED <<catalog, content, minted, backup, crossed, stale, overtaken, leasing,
                 generation, append, maintenance, leases, writerFailed, recorded, horizon,
                 restarts>>

-----------------------------------------------------------------------------
(* The process dies, and another one runs initialize(): a directory that   *)
(* is not there is made anew, a catalog that names a missing file is       *)
(* refused, and files the catalog does not name go.                        *)
Restart ==
  /\ restarts < MaxRestarts /\ restarts' = restarts + 1
  /\ swapping \/ catalog.segments \subseteq files
  /\ catalog' = IF swapping THEN NewCatalog ELSE catalog
  /\ files' = files \cap catalog'.segments
  /\ swapping' = FALSE /\ aside' = {}
  /\ generation' = 0 /\ pins' = [f \in FileIds |-> 0]
  /\ pendingDeletes' = {} /\ unlinking' = {}
  /\ append' = [a \in Appenders |-> NoAppend] /\ maintenance' = Idle
  /\ leases' = [r \in Readers |-> {}] /\ writerFailed' = FALSE
  /\ crossed' = {} /\ stale' = FALSE
  /\ UNCHANGED <<overtaken, content, minted, backup, recorded, horizon>>

Next ==
  \/ \E n \in 1 .. LastFrame : WriterAppends(n)
  \/ \E a \in Appenders : WriteSegment(a) \/ CommitSegment(a) \/ AppendFails(a)
  \/ \E r \in Readers : QueryLeases(r) \/ QueryEnds(r)
  \/ \E f \in FileIds : Unlink(f)
  \/ \E now \in 0 .. LastFrame : RetentionLeases(now)
  \/ \E f \in FileIds : RetentionRewrites(f)
  \/ RetentionCommits \/ RetentionFails
  \/ BackupLeases \/ BackupPublished \/ BackupFails \/ TaskReleases
  \/ RollupBegins \/ \E through \in 0 .. Buckets : RollupReads(through)
  \/ RollupFails \/ RollupCompares \/ RollupAppends \/ RollupMarks
  \/ RestoreMovesAside \/ RestoreMovesIn \/ RestoreRollsBack
  \/ Restart

Spec == Init /\ [][Next]_vars

-----------------------------------------------------------------------------
CatalogType == [segments : SUBSET FileIds, checkpoint : 0 .. Buckets]
LeasedByTask == IF maintenance.task \in {"rewriting", "copying", "releasing"}
                THEN maintenance.leased ELSE {}
Holders(f) == Cardinality({r \in Readers : f \in leases[r]})
              + (IF f \in LeasedByTask THEN 1 ELSE 0)

(* The fields keep their types, and pinCounts counts the leases held. *)
TypeOK ==
  /\ catalog \in CatalogType /\ backup \subseteq CatalogType
  /\ {files, aside, pendingDeletes, unlinking} \subseteq SUBSET FileIds
  /\ content \in [FileIds -> SUBSET Records] /\ minted \in 0 .. MaxFiles
  /\ \A f \in FileIds : pins[f] = Holders(f)
  /\ generation \in 0 .. MaxRestores /\ restarts \in 0 .. MaxRestarts
  /\ {recorded, horizon} \subseteq 0 .. LastFrame
  /\ {swapping, writerFailed} \subseteq BOOLEAN

(* initialize() refuses a catalog that names a file the directory does not *)
(* hold: whenever the process may die, the store can be opened again.      *)
(* A query, a retention pass or a backup finds every segment it leased,    *)
(* whatever retention, other leases and restores did meanwhile.  Only a    *)
(* file that a lease's release was still deleting when a restore brought   *)
(* it back (server/storage/fileHistoryStore.ts, unlinks outside the lock)  *)
(* may be missing.                                                         *)
SegmentsPresent ==
  /\ catalog.segments \subseteq (IF swapping THEN aside ELSE files) \cup crossed
  /\ \A r \in Readers : leases[r] \subseteq files \cup crossed
  /\ LeasedByTask \subseteq files \cup crossed

(* No record is in two active segments: a rewrite replaces its original,   *)
(* a roll-up repeated after a crash does not double its bucket, a batch    *)
(* begun before a restore is refused after it.  Only buckets a roll-up     *)
(* appended after a restore had replaced what it had read may be doubled.  *)
StoredOnce ==
  \A f, g \in catalog.segments :
    f # g => content[f] \cap content[g] \subseteq {Rollup(b) : b \in overtaken}

(* server/storage/downsampleWorker.ts: the high-water mark "advances only  *)
(* after target frames are durable", in the catalog and in every backup,   *)
(* whatever crashes, failures and restores come between; but for the       *)
(* buckets a run marked or appended after a restore had replaced the store *)
(* it had read.                                                            *)
Covered(c) ==
  \A b \in (1 .. c.checkpoint) \ overtaken : \E f \in c.segments : Rollup(b) \in content[f]
CheckpointCovered == Covered(catalog) /\ \A manifest \in backup : Covered(manifest)

(* Only files somebody will still commit or delete are outside the catalog *)
(* of a running store: no failed append or retention pass leaks a segment; *)
(* only a restore that is rolled back can outwit a deletion under way.     *)
Prepared == {append[a].file : a \in {w \in Appenders : append[w].step = "prepared"}}
FilesAccountedFor ==
  files \ catalog.segments \subseteq
    Prepared \cup pendingDeletes \cup unlinking \cup crossed
    \cup (IF maintenance.task = "rewriting" THEN Replacements ELSE {})

(* What was committed stays visible until its retention ends or a restore  *)
(* replaces the store: concurrent ingestion survives a retention pass, and *)
(* every committed batch survives a crash.                                 *)
OnlyPolicyRemoves ==
  [][swapping \/ \A r \in Visible \ Visible' : r[1] = "frame" /\ r[2] <= horizon]_vars
=============================================================================
