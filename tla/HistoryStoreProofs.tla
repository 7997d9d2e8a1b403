-------------------------- MODULE HistoryStoreProofs --------------------------
(***************************************************************************)
(* Theorems about what is kept on disk.                                    *)
(*                                                                         *)
(* server/storage/fileHistoryStore.ts (HistoryStore) under the writer, the *)
(* maintenance chain, any number of queries, restores and crashes: every   *)
(* segment that is named or leased is there, no record is stored twice,    *)
(* the roll-up's mark covers what it says, no file is left to nobody, and  *)
(* nothing but retention takes a record away, a restore only what the      *)
(* properties name.                                                        *)
(*                                                                         *)
(* server/recording/rawCapture.ts (RawCapture) under any limits, failures, *)
(* purges and crashes: its statistics account for every record, and a      *)
(* capture that says it is complete reads back whole.                      *)
(***************************************************************************)
EXTENDS HistoryStore, RawCapture, FiniteSetTheorems, TLAPS

(* The files each part of the program knows of. *)
Dir == IF swapping THEN aside ELSE files
Leased == UNION {leases[r] : r \in Readers}
Held == Leased \cup LeasedByTask
Copied == IF maintenance.task = "copying" THEN {maintenance.catalog} ELSE {}
Catalogs == {catalog} \cup backup \cup Copied
Named == UNION {c.segments : c \in Catalogs}
Rewrites == IF maintenance.task = "rewriting" THEN maintenance.rewritten ELSE {}
NewFiles == {w.replacement : w \in Rewrites} \ {0}
Known == Named \cup Held \cup pendingDeletes \cup unlinking

(* What an append under way will add. *)
InFlight(a) ==
  IF append[a].step = "preparing" THEN append[a].records
  ELSE IF append[a].step = "prepared" THEN content[append[a].file] ELSE {}

AnyCatalog == [segments : SUBSET FileIds, checkpoint : Nat]
Appends ==
  {NoAppend}
  \cup [step : {"preparing"}, records : SUBSET Records, generation : Nat]
  \cup [step : {"prepared"}, file : FileIds, generation : Nat]
RewriteTasks ==
  [task : {"rewriting"}, leased : SUBSET FileIds, todo : SUBSET FileIds,
   rewritten : SUBSET [original : FileIds, replacement : {0} \cup FileIds]]
CopyTasks == [task : {"copying"}, leased : SUBSET FileIds, catalog : AnyCatalog]
ReleaseTasks == [task : {"releasing"}, leased : SUBSET FileIds]
ReadTasks == [task : {"reading"}, from : Nat]
CompareTasks == [task : {"comparing"}, from : Nat, through : 0 .. Buckets]
AppendTasks == [task : {"appending", "waiting"}, through : Nat, missing : SUBSET Records]
Tasks ==
  {Idle} \cup RewriteTasks \cup CopyTasks \cup ReleaseTasks \cup ReadTasks \cup CompareTasks
  \cup AppendTasks

-----------------------------------------------------------------------------
(* The inductive invariant. *)

Shape ==
  /\ catalog \in AnyCatalog /\ backup \subseteq AnyCatalog
  /\ files \subseteq FileIds /\ aside \subseteq FileIds
  /\ content \in [FileIds -> SUBSET Records] /\ minted \in 0 .. MaxFiles
  /\ leases \in [Readers -> SUBSET FileIds]
  /\ maintenance \in Tasks /\ append \in [Appenders -> Appends]
  /\ generation \in Nat /\ recorded \in Nat /\ horizon \in Nat
  /\ swapping \in BOOLEAN /\ stale \in BOOLEAN

Counted == \A f \in FileIds : pins[f] = Holders(f)

(* Nothing named, leased or about to be named is missing, but for what a   *)
(* restore brought back under its deletion.                                *)
Present ==
  /\ catalog.segments \subseteq Dir \cup crossed /\ Held \subseteq files \cup crossed
  /\ NewFiles \subseteq files
  /\ \A a \in Appenders :
       append[a].step = "prepared" /\ append[a].generation = generation =>
         append[a].file \in Dir

(* What is to be deleted is out of the catalog, what is being deleted is   *)
(* leased by nobody, unless a restore brought it back.                     *)
Apart ==
  /\ pendingDeletes \cap catalog.segments = {}
  /\ unlinking \cap catalog.segments \subseteq crossed
  /\ unlinking \cap Held \subseteq crossed

(* A file that is prepared is its preparer's alone. *)
Fresh ==
  /\ Known \cup Prepared \cup NewFiles \subseteq 1 .. minted
  /\ (Prepared \cup NewFiles) \cap Known = {} /\ Prepared \cap NewFiles = {}
  /\ \A a, b \in Appenders :
       a # b /\ append[a].step = "prepared" /\ append[b].step = "prepared" =>
         append[a].file # append[b].file
  /\ \A a \in Appenders : append[a] # NoAppend => append[a].generation <= generation

Accounted ==
  Dir \ catalog.segments \subseteq
    Prepared \cup pendingDeletes \cup unlinking \cup crossed \cup NewFiles

(* Frames are handed over once and in order. *)
IsRecorded(r) == r[1] = "frame" => r[2] <= recorded
WriterAhead ==
  /\ \A f \in FileIds : \A r \in content[f] : IsRecorded(r)
  /\ \A r \in InFlight("writer") : r[1] = "frame" /\ IsRecorded(r)
  /\ \A f \in Known \cup NewFiles : content[f] \cap InFlight("writer") = {}

(* Every catalog that is, was copied or is being copied is sound. *)
Doubled == {Rollup(b) : b \in overtaken}
Once(c) == \A f, g \in c.segments : f # g => content[f] \cap content[g] \subseteq Doubled
Sound == \A c \in Catalogs : Once(c) /\ Covered(c)

Faithful(w) ==
  IF w.replacement = 0 THEN Retained(content[w.original]) = {}
  ELSE content[w.replacement] = Retained(content[w.original])

Rewriting ==
  maintenance.task = "rewriting" =>
    /\ maintenance.leased \subseteq catalog.segments /\ maintenance.leased # {}
    /\ maintenance.todo \subseteq maintenance.leased
    /\ \A w \in maintenance.rewritten :
         w.original \in maintenance.leased \ maintenance.todo /\ Faithful(w)
    /\ \A v, w \in maintenance.rewritten :
         v # w => /\ v.original # w.original
                  /\ v.replacement # w.replacement \/ v.replacement = 0

Copying == maintenance.task = "copying" => maintenance.catalog.segments = maintenance.leased

(* A roll-up knows what it found, until a restore replaces the store: what *)
(* it appends after that is noted as overtaken, what it was appending is   *)
(* refused.                                                                *)
RollingUp ==
  /\ append["rollup"] # NoAppend <=> maintenance.task = "waiting"
  /\ maintenance.task \in {"reading", "comparing"} =>
       stale \/ maintenance.from = catalog.checkpoint
  /\ maintenance.task \in {"appending", "waiting"} =>
       /\ stale \/ \A b \in (1 .. maintenance.through) \ overtaken :
                     Rollup(b) \in Visible \cup maintenance.missing
       /\ stale \/ maintenance.missing \cap Visible = {}
       /\ \A r \in maintenance.missing : r[1] = "rollup"
       /\ InFlight("rollup") \subseteq maintenance.missing
  /\ stale /\ append["rollup"] # NoAppend /\ append["rollup"].generation = generation =>
       InFlight("rollup") \subseteq Doubled

(* What a restore finds: nothing leased; what was being deleted is crossed. *)
Swapping == swapping => Held = {} /\ files = {} /\ unlinking \subseteq crossed

IInv ==
  /\ Shape /\ Counted /\ Present /\ Apart /\ Fresh /\ Accounted
  /\ WriterAhead /\ Sound /\ Rewriting /\ Copying /\ RollingUp /\ Swapping

-----------------------------------------------------------------------------
(* Leases and their counts. *)

Reading(f) == {r \in Readers : f \in leases[r]}
OfTask(f) == IF f \in LeasedByTask THEN 1 ELSE 0

LEMMA ReadingIsFinite ==
  ASSUME NEW f
  PROVE  /\ IsFiniteSet(Reading(f)) /\ Cardinality(Reading(f)) \in Nat
         /\ OfTask(f) \in {0, 1} /\ Holders(f) = Cardinality(Reading(f)) + OfTask(f)
<1>1. IsFiniteSet(Reading(f))
  BY HistoryAssumption, FS_Subset DEF Reading
<1> QED BY <1>1, FS_CardinalityType DEF Holders, Reading, OfTask

LEMMA NobodyHolds ==
  ASSUME Shape, Counted, \A f \in FileIds : pins[f] = 0
  PROVE  Held = {}
<1> SUFFICES ASSUME NEW f \in Held PROVE FALSE
  OBVIOUS
<1>1. f \in FileIds
  BY DEF Held, Leased, Shape, LeasedByTask, Tasks, RewriteTasks, CopyTasks, ReleaseTasks, Idle,
         ReadTasks, CompareTasks, AppendTasks
<1>2. Cardinality(Reading(f)) = 0 /\ OfTask(f) = 0
  BY <1>1, ReadingIsFinite DEF Counted
<1>3. Reading(f) = {}
  BY <1>2, ReadingIsFinite, FS_EmptySet
<1> QED BY <1>2, <1>3 DEF Held, Leased, Reading, OfTask

(* pins[f] = 1 is the lease that is being released. *)
LEMMA LastReader ==
  ASSUME Counted, NEW f \in FileIds, pins[f] = 1, NEW r \in Readers, f \in leases[r]
  PROVE  f \notin LeasedByTask /\ \A q \in Readers \ {r} : f \notin leases[q]
<1>1. r \in Reading(f)
  BY DEF Reading
<1>2. Cardinality(Reading(f)) # 0
  BY <1>1, ReadingIsFinite, FS_EmptySet
<1>3. Cardinality(Reading(f)) = 1 /\ OfTask(f) = 0
  BY <1>2, ReadingIsFinite DEF Counted
<1>4. PICK x : Reading(f) = {x}
  BY <1>3, ReadingIsFinite, FS_Singleton
<1> QED BY <1>1, <1>3, <1>4 DEF Reading, OfTask

LEMMA LastTask ==
  ASSUME Counted, NEW f \in FileIds, pins[f] = 1, f \in LeasedByTask
  PROVE  f \notin Leased
<1>1. Cardinality(Reading(f)) = 0
  BY ReadingIsFinite DEF Counted, OfTask
<1>2. Reading(f) = {}
  BY <1>1, ReadingIsFinite, FS_EmptySet
<1> QED BY <1>2 DEF Leased, Reading

LEMMA ReaderLeases ==
  ASSUME Shape, Counted, NEW r \in Readers, leases[r] = {}, NEW segments \in SUBSET FileIds,
         Lease(segments), leases' = [leases EXCEPT ![r] = segments],
         LeasedByTask' = LeasedByTask
  PROVE  Counted'
<1> SUFFICES ASSUME NEW f \in FileIds PROVE (pins[f] = Holders(f))'
  BY DEF Counted
<1>1. pins[f] = Cardinality(Reading(f)) + OfTask(f) /\ OfTask(f)' = OfTask(f)
  BY ReadingIsFinite DEF Counted, OfTask
<1>2. pins'[f] = IF f \in segments THEN pins[f] + 1 ELSE pins[f]
  BY DEF Lease
<1>3. Holders(f)' = Cardinality(Reading(f)') + OfTask(f)'
  BY DEF Holders, Reading, OfTask
<1>4. CASE f \in segments
  <2>1. Reading(f)' = Reading(f) \cup {r} /\ r \notin Reading(f)
    BY <1>4 DEF Reading, Shape
  <2>2. Cardinality(Reading(f)') = Cardinality(Reading(f)) + 1
    BY <2>1, ReadingIsFinite, FS_AddElement
  <2> QED BY <1>1, <1>2, <1>3, <1>4, <2>2, ReadingIsFinite
<1>5. CASE f \notin segments
  <2>1. Reading(f)' = Reading(f)
    BY <1>5 DEF Reading, Shape
  <2> QED BY <1>1, <1>2, <1>3, <1>5, <2>1
<1> QED BY <1>4, <1>5

LEMMA ReaderReleases ==
  ASSUME Shape, Counted, NEW r \in Readers, Release(leases[r]),
         leases' = [leases EXCEPT ![r] = {}], LeasedByTask' = LeasedByTask
  PROVE  Counted'
<1> SUFFICES ASSUME NEW f \in FileIds PROVE (pins[f] = Holders(f))'
  BY DEF Counted
<1>1. pins[f] = Cardinality(Reading(f)) + OfTask(f) /\ OfTask(f)' = OfTask(f)
  BY ReadingIsFinite DEF Counted, OfTask
<1>2. pins'[f] = IF f \in leases[r] THEN pins[f] - 1 ELSE pins[f]
  BY DEF Release
<1>3. Holders(f)' = Cardinality(Reading(f)') + OfTask(f)'
  BY DEF Holders, Reading, OfTask
<1>4. CASE f \in leases[r]
  <2>1. Reading(f)' = Reading(f) \ {r} /\ r \in Reading(f)
    BY <1>4 DEF Reading, Shape
  <2>2. Cardinality(Reading(f)') = Cardinality(Reading(f)) - 1
    BY <2>1, ReadingIsFinite, FS_RemoveElement
  <2> QED BY <1>1, <1>2, <1>3, <1>4, <2>2, ReadingIsFinite
<1>5. CASE f \notin leases[r]
  <2>1. Reading(f)' = Reading(f)
    BY <1>5 DEF Reading, Shape
  <2> QED BY <1>1, <1>2, <1>3, <1>5, <2>1
<1> QED BY <1>4, <1>5

LEMMA TaskLeases ==
  ASSUME Counted, LeasedByTask = {}, NEW segments \in SUBSET FileIds,
         Lease(segments), UNCHANGED leases, LeasedByTask' = segments
  PROVE  Counted'
<1> SUFFICES ASSUME NEW f \in FileIds PROVE (pins[f] = Holders(f))'
  BY DEF Counted
<1>1. pins[f] = Cardinality(Reading(f))
  BY ReadingIsFinite DEF Counted, OfTask
<1>2. pins'[f] = IF f \in segments THEN pins[f] + 1 ELSE pins[f]
  BY DEF Lease
<1>3. Holders(f)' = Cardinality(Reading(f)) + OfTask(f)'
  BY DEF Holders, Reading, OfTask
<1> QED BY <1>1, <1>2, <1>3, ReadingIsFinite DEF OfTask

LEMMA TaskReleasesCounted ==
  ASSUME Counted, Release(LeasedByTask), UNCHANGED leases, LeasedByTask' = {}
  PROVE  Counted'
<1> SUFFICES ASSUME NEW f \in FileIds PROVE (pins[f] = Holders(f))'
  BY DEF Counted
<1>1. pins[f] = Cardinality(Reading(f)) + OfTask(f)
  BY ReadingIsFinite DEF Counted
<1>2. pins'[f] = IF f \in LeasedByTask THEN pins[f] - 1 ELSE pins[f]
  BY DEF Release
<1>3. Holders(f)' = Cardinality(Reading(f)) + OfTask(f)' /\ OfTask(f)' = 0
  BY DEF Holders, Reading, OfTask
<1> QED BY <1>1, <1>2, <1>3, ReadingIsFinite DEF OfTask

LEMMA CountedKept ==
  ASSUME Counted, UNCHANGED <<pins, leases>>, LeasedByTask' = LeasedByTask
  PROVE  Counted'
BY DEF Counted, Holders

-----------------------------------------------------------------------------
(* What a step leaves alone. *)

LEMMA KnownKept ==
  ASSUME UNCHANGED <<catalog, backup, maintenance, leases, pendingDeletes, unlinking>>
  PROVE  /\ LeasedByTask' = LeasedByTask /\ Leased' = Leased /\ Held' = Held
         /\ Copied' = Copied /\ Catalogs' = Catalogs /\ Named' = Named /\ Known' = Known
         /\ Rewrites' = Rewrites /\ NewFiles' = NewFiles
<1>1. /\ LeasedByTask' = LeasedByTask /\ Leased' = Leased
      /\ Copied' = Copied /\ Rewrites' = Rewrites
  BY DEF LeasedByTask, Leased, Copied, Rewrites
<1>2. Held' = Held /\ Catalogs' = Catalogs /\ NewFiles' = NewFiles
  BY <1>1 DEF Held, Catalogs, NewFiles
<1>3. Named' = Named
  BY <1>2 DEF Named
<1> QED BY <1>1, <1>2, <1>3 DEF Known

LEMMA KnownAreFiles ==
  ASSUME Shape, Fresh
  PROVE  /\ Known \cup Prepared \cup NewFiles \subseteq FileIds
         /\ \A f \in FileIds : content[f] \subseteq Records
         /\ \A r \in Records : r[2] \in Nat
<1>1. 1 .. minted \subseteq FileIds
  BY HistoryAssumption DEF Shape, FileIds
<1>2. \A r \in Records : r[2] \in Nat
  <2> SUFFICES ASSUME NEW r \in Records PROVE r[2] \in Nat
    OBVIOUS
  <2>1. CASE r \in {Frame(t) : t \in 1 .. LastFrame}
    BY <2>1 DEF Frame
  <2>2. CASE r \in {Rollup(b) : b \in 1 .. Buckets}
    BY <2>2 DEF Rollup
  <2> QED BY <2>1, <2>2 DEF Records
<1> QED BY <1>1, <1>2 DEF Fresh, Shape

(* A catalog whose files keep their content stays sound. *)
LEMMA SoundKept ==
  ASSUME Sound, NEW c \in Catalogs, \A f \in c.segments : content'[f] = content[f],
         overtaken \subseteq overtaken'
  PROVE  Once(c)' /\ Covered(c)'
BY DEF Sound, Once, Covered, Doubled

(* A new file is known to nobody, and the others keep their content. *)
LEMMA NewFile ==
  ASSUME Shape, Fresh, NEW records \in SUBSET Records, PrepareSegment(records)
  PROVE  /\ minted' = minted + 1 /\ minted' \in FileIds /\ minted' \in 0 .. MaxFiles
         /\ minted' \notin Known \cup Prepared \cup NewFiles
         /\ Known \cup Prepared \cup NewFiles \subseteq 1 .. minted'
         /\ content' \in [FileIds -> SUBSET Records] /\ content'[minted'] = records
         /\ \A f \in FileIds \ {minted'} : content'[f] = content[f]
         /\ \A f \in Known \cup Prepared \cup NewFiles : content'[f] = content[f]
         /\ files' = files \cup {minted'} /\ ~swapping
<1>1. minted' = minted + 1 /\ minted < MaxFiles /\ minted \in 0 .. MaxFiles
      /\ files' = files \cup {minted'} /\ ~swapping
      /\ content' = [content EXCEPT ![minted'] = records]
  BY DEF PrepareSegment, Shape
<1>2. minted' \in FileIds /\ minted' \in 0 .. MaxFiles /\ minted' \notin 1 .. minted
      /\ 1 .. minted \subseteq 1 .. minted' /\ 1 .. minted \subseteq FileIds
  BY <1>1, HistoryAssumption DEF FileIds
<1>3. Known \cup Prepared \cup NewFiles \subseteq 1 .. minted
  BY DEF Fresh
<1>4. content \in [FileIds -> SUBSET Records]
  BY DEF Shape
<1> QED BY <1>1, <1>2, <1>3, <1>4

(* A rewrite or a copy under way, over files that keep their content. *)
LEMMA RewritingKept ==
  ASSUME Rewriting, Copying, UNCHANGED <<maintenance, horizon>>,
         catalog.segments \subseteq catalog'.segments,
         \A f \in Known \cup NewFiles : content'[f] = content[f]
  PROVE  Rewriting' /\ Copying'
<1>1. Copying'
  BY DEF Copying
<1>2. ASSUME maintenance.task = "rewriting", NEW w \in maintenance.rewritten
      PROVE  w.original \in maintenance.leased \ maintenance.todo /\ Faithful(w)'
  <2>1. w.original \in Known /\ w.original \in maintenance.leased \ maintenance.todo
    BY <1>2 DEF Rewriting, Known, Held, LeasedByTask
  <2>2. content'[w.original] = content[w.original] /\ horizon' = horizon
    BY <2>1
  <2>3. w.replacement # 0 => content'[w.replacement] = content[w.replacement]
    BY <1>2 DEF NewFiles, Rewrites
  <2> QED BY <1>2, <2>1, <2>2, <2>3 DEF Rewriting, Faithful, Retained
<1>3. Rewriting'
  BY <1>2 DEF Rewriting
<1> QED BY <1>1, <1>3

-----------------------------------------------------------------------------
(* appendBatch(). *)

LEMMA WriterKeepsIInv ==
  ASSUME IInv, NEW n \in 1 .. LastFrame, WriterAppends(n)
  PROVE  IInv'
<1> USE DEF IInv
<1> DEFINE records == {Frame(t) : t \in recorded + 1 .. n}
           begun == [step |-> "preparing", records |-> records, generation |-> generation]
<1>1. /\ UNCHANGED <<catalog, files, content, minted, backup, swapping, aside, crossed, stale,
                     overtaken, pins, pendingDeletes, unlinking, generation, maintenance,
                     leases, horizon>>
      /\ append["writer"] = NoAppend /\ recorded' = n /\ n > recorded
      /\ append' = [append EXCEPT !["writer"] = begun]
  BY DEF WriterAppends, Begin, disk, swap, leasing, Shape
<1>2. records \subseteq Records /\ \A r \in records : r[1] = "frame" /\ r[2] \in recorded + 1 .. n
  <2>1. recorded \in Nat /\ n \in 1 .. LastFrame
    BY DEF Shape
  <2> SUFFICES ASSUME NEW r \in records
               PROVE  r \in Records /\ r[1] = "frame" /\ r[2] \in recorded + 1 .. n
    OBVIOUS
  <2>2. PICK t \in recorded + 1 .. n : r = Frame(t)
    OBVIOUS
  <2>3. t \in 1 .. LastFrame
    BY <2>1, <2>2, HistoryAssumption
  <2> QED BY <2>2, <2>3 DEF Records, Frame
<1>3. begun \in Appends /\ begun # NoAppend /\ begun.step = "preparing"
      /\ begun.records = records /\ begun.generation = generation
  BY <1>2 DEF Appends, NoAppend, Shape
<1> HIDE DEF begun, records
<1>4. append'["writer"] = begun /\ append'["rollup"] = append["rollup"]
      /\ append["writer"].step = "none"
  BY <1>1 DEF Shape, Appenders, NoAppend
<1>5. Shape'
  BY <1>1, <1>3 DEF Shape, AnyCatalog, Appenders
<1>6. /\ LeasedByTask' = LeasedByTask /\ Leased' = Leased /\ Held' = Held
      /\ Copied' = Copied /\ Catalogs' = Catalogs /\ Named' = Named /\ Known' = Known
      /\ Rewrites' = Rewrites /\ NewFiles' = NewFiles /\ Dir' = Dir
  BY <1>1, KnownKept DEF Dir
<1>7. Prepared' = Prepared
  BY <1>3, <1>4 DEF Prepared, Appenders
<1>8. Counted'
  BY <1>1, <1>6, CountedKept
<1>9. Present' /\ Apart' /\ Fresh' /\ Accounted'
  BY <1>1, <1>3, <1>4, <1>6, <1>7 DEF Present, Apart, Fresh, Accounted, Appenders, Shape
<1>10. InFlight("writer")' = records /\ InFlight("rollup")' = InFlight("rollup")
  BY <1>1, <1>3, <1>4 DEF InFlight
<1>11. WriterAhead'
  <2>1. \A f \in FileIds : \A r \in content[f] : r[1] = "frame" => r[2] <= recorded
    BY DEF WriterAhead, IsRecorded
  <2>2. \A f \in FileIds : content[f] \cap records = {}
    <3> SUFFICES ASSUME NEW f \in FileIds, NEW r \in content[f], r \in records PROVE FALSE
      OBVIOUS
    <3>1. r[2] <= recorded /\ r[2] \in recorded + 1 .. n
      BY <1>2, <2>1
    <3> QED BY <3>1 DEF Shape
  <2>3. \A f \in FileIds : \A r \in content[f] : r[1] = "frame" => r[2] <= n
    <3> SUFFICES ASSUME NEW f \in FileIds, NEW r \in content[f], r[1] = "frame" PROVE r[2] <= n
      OBVIOUS
    <3>1. r[2] <= recorded /\ r[2] \in Nat
      BY <2>1, KnownAreFiles
    <3> QED BY <1>1, <3>1 DEF Shape
  <2>4. \A r \in records : r[2] <= n
    BY <1>2 DEF Shape
  <2>5. Known \cup NewFiles \subseteq FileIds
    BY KnownAreFiles
  <2> QED BY <1>1, <1>2, <1>6, <1>10, <2>2, <2>3, <2>4, <2>5 DEF WriterAhead, IsRecorded
<1>12. Sound'
  BY <1>1, <1>6, SoundKept DEF Sound
<1>13. Rewriting' /\ Copying'
  BY <1>1 DEF Rewriting, Copying, Faithful, Retained
<1>14. RollingUp' /\ Swapping'
  BY <1>1, <1>4, <1>6, <1>10 DEF RollingUp, Swapping, Visible, Doubled
<1> QED BY <1>5, <1>8, <1>9, <1>11, <1>12, <1>13, <1>14

LEMMA WriteKeepsIInv ==
  ASSUME IInv, NEW a \in Appenders, WriteSegment(a)
  PROVE  IInv'
<1> USE DEF IInv
<1> DEFINE records == append[a].records
           prepared == [step |-> "prepared", file |-> minted', generation |-> append[a].generation]
<1>1. /\ UNCHANGED <<catalog, backup, swapping, aside, crossed, stale, overtaken, pins,
                     pendingDeletes, unlinking, generation, maintenance, leases, recorded,
                     horizon>>
      /\ append[a].step = "preparing" /\ PrepareSegment(records)
      /\ append' = [append EXCEPT ![a] = prepared]
  BY DEF WriteSegment, swap, leasing
<1>2. records \in SUBSET Records /\ append[a].generation \in Nat /\ append[a] # NoAppend
      /\ InFlight(a) = records
  BY <1>1 DEF Shape, Appends, NoAppend, InFlight
<1>3. /\ minted' = minted + 1 /\ minted' \in FileIds /\ minted' \in 0 .. MaxFiles
      /\ minted' \notin Known \cup Prepared \cup NewFiles
      /\ Known \cup Prepared \cup NewFiles \subseteq 1 .. minted'
      /\ content' \in [FileIds -> SUBSET Records] /\ content'[minted'] = records
      /\ \A f \in FileIds \ {minted'} : content'[f] = content[f]
      /\ \A f \in Known \cup Prepared \cup NewFiles : content'[f] = content[f]
      /\ files' = files \cup {minted'} /\ ~swapping
  <2> HIDE DEF IInv, records
  <2> QED BY <1>1, <1>2, NewFile DEF IInv
<1>4. prepared \in Appends /\ prepared # NoAppend /\ prepared.step = "prepared"
      /\ prepared.file = minted' /\ prepared.generation = append[a].generation
  BY <1>2, <1>3 DEF Appends, NoAppend
<1> HIDE DEF prepared, records
<1>5. append'[a] = prepared /\ \A b \in Appenders \ {a} : append'[b] = append[b]
  BY <1>1 DEF Shape
<1>6. Shape'
  BY <1>1, <1>3, <1>4, <1>5 DEF Shape, AnyCatalog
<1>7. /\ LeasedByTask' = LeasedByTask /\ Leased' = Leased /\ Held' = Held
      /\ Copied' = Copied /\ Catalogs' = Catalogs /\ Named' = Named /\ Known' = Known
      /\ Rewrites' = Rewrites /\ NewFiles' = NewFiles
  BY <1>1, KnownKept
<1>8. Dir' = Dir \cup {minted'}
  BY <1>1, <1>3 DEF Dir
<1>9. Prepared' = Prepared \cup {minted'}
  BY <1>1, <1>4, <1>5 DEF Prepared
<1>10. Counted'
  BY <1>1, <1>7, CountedKept
<1>11. Present' /\ Apart' /\ Accounted'
  BY <1>1, <1>3, <1>4, <1>5, <1>7, <1>8, <1>9 DEF Present, Apart, Accounted
<1>12. Fresh'
  <2>1. \A b \in Appenders : append[b].step = "prepared" => append[b].file \in Prepared
    BY DEF Prepared
  <2>2. \A b \in Appenders \ {a} : append[b].step = "prepared" => append[b].file # minted'
    BY <1>3, <2>1
  <2>3. minted' \in 1 .. minted'
    BY <1>3 DEF FileIds
  <2> QED BY <1>1, <1>2, <1>3, <1>4, <1>5, <1>7, <1>9, <2>2, <2>3 DEF Fresh
<1>13. \A b \in Appenders : InFlight(b)' = InFlight(b)
  <2>1. InFlight(a)' = records
    BY <1>3, <1>4, <1>5 DEF InFlight
  <2>2. ASSUME NEW b \in Appenders \ {a} PROVE InFlight(b)' = InFlight(b)
    <3>1. append'[b] = append[b]
      BY <1>5
    <3>2. append[b].step = "prepared" => content'[append[b].file] = content[append[b].file]
      BY <1>3 DEF Prepared
    <3> QED BY <3>1, <3>2 DEF InFlight
  <2> QED BY <1>2, <2>1, <2>2
<1>14. InFlight("writer")' = InFlight("writer") /\ InFlight("rollup")' = InFlight("rollup")
  BY <1>13 DEF Appenders
<1>15. \A r \in records : IsRecorded(r)
  <2>1. CASE a = "writer"
    BY <1>2, <2>1 DEF WriterAhead
  <2>2. CASE a = "rollup"
    BY <1>2, <2>2 DEF RollingUp, IsRecorded
  <2> QED BY <2>1, <2>2 DEF Appenders
<1>16. WriterAhead'
  <2>1. \A f \in FileIds : \A r \in content'[f] : IsRecorded(r)
    BY <1>3, <1>15 DEF WriterAhead
  <2>2. \A r : IsRecorded(r)' <=> IsRecorded(r)
    BY <1>1 DEF IsRecorded
  <2> QED BY <1>3, <1>7, <1>14, <2>1, <2>2 DEF WriterAhead
<1>17. Sound'
  <2> SUFFICES ASSUME NEW c \in Catalogs PROVE Once(c)' /\ Covered(c)'
    BY <1>7 DEF Sound
  <2>1. \A f \in c.segments : content'[f] = content[f]
    BY <1>3 DEF Known, Named
  <2> QED BY <1>1, <2>1, SoundKept
<1>18. Rewriting' /\ Copying'
  BY <1>1, <1>3, RewritingKept
<1>19. Visible' = Visible
  BY <1>1, <1>3 DEF Visible, Known, Named, Catalogs
<1>20. RollingUp' /\ Swapping'
  <2>1. append'["rollup"] # NoAppend <=> append["rollup"] # NoAppend
    BY <1>2, <1>4, <1>5 DEF Appenders
  <2>2. append'["rollup"].generation = append["rollup"].generation
    BY <1>4, <1>5 DEF Appenders
  <2> QED BY <1>1, <1>3, <1>7, <1>14, <1>19, <2>1, <2>2 DEF RollingUp, Swapping, Doubled
<1> QED BY <1>6, <1>10, <1>11, <1>12, <1>16, <1>17, <1>18, <1>20

(* The caller goes on: the writer, or the roll-up that was waiting. *)
LEMMA ReturnKeeps ==
  ASSUME Shape, RollingUp, NEW a \in Appenders, NEW committed \in BOOLEAN,
         append[a] # NoAppend, Return(a, committed)
  PROVE  /\ append' = [append EXCEPT ![a] = NoAppend]
         /\ maintenance' \in Tasks
         /\ LeasedByTask' = LeasedByTask /\ Copied' = Copied /\ Rewrites' = Rewrites
         /\ NewFiles' = NewFiles
         /\ a = "writer" => maintenance' = maintenance
         /\ a = "rollup" =>
              /\ maintenance.task = "waiting"
              /\ committed =>
                   /\ maintenance'.task = "appending"
                   /\ maintenance'.through = maintenance.through
                   /\ maintenance'.missing = maintenance.missing \ content[append[a].file]
              /\ ~committed => maintenance' = Idle
<1>1. append' = [append EXCEPT ![a] = NoAppend]
  BY DEF Return
<1>2. CASE a = "writer"
  <2>1. maintenance' = maintenance
    BY <1>2 DEF Return
  <2>2. maintenance' \in Tasks
    BY <2>1 DEF Shape
  <2>3. LeasedByTask' = LeasedByTask /\ Copied' = Copied /\ Rewrites' = Rewrites
    BY <2>1 DEF LeasedByTask, Copied, Rewrites
  <2> QED BY <1>1, <1>2, <2>1, <2>2, <2>3 DEF NewFiles
<1>3. CASE a = "rollup"
  <2>1. maintenance.task = "waiting"
    BY <1>3 DEF RollingUp
  <2>2. maintenance \in AppendTasks
    BY <2>1 DEF Shape, Tasks, Idle, RewriteTasks, CopyTasks, ReleaseTasks, ReadTasks, CompareTasks
  <2> DEFINE left == maintenance.missing \ content[append[a].file]
  <2>3. left \in SUBSET Records
    BY <2>2 DEF AppendTasks
  <2>4. committed =>
          /\ maintenance' \in AppendTasks /\ maintenance'.task = "appending"
          /\ maintenance'.through = maintenance.through /\ maintenance'.missing = left
    <3> HIDE DEF left
    <3>1. committed => maintenance' = [maintenance EXCEPT !.task = "appending", !.missing = left]
      BY <1>3 DEF Return, left
    <3> QED BY <2>2, <2>3, <3>1 DEF AppendTasks
  <2>5. ~committed => maintenance' = Idle
    BY <1>3 DEF Return
  <2>6. maintenance' \in Tasks /\ maintenance'.task \in {"appending", "idle"}
    <3> HIDE DEF left
    <3> QED BY <2>4, <2>5 DEF Tasks, Idle
  <2>7. LeasedByTask' = LeasedByTask /\ Copied' = Copied /\ Rewrites' = Rewrites
    BY <2>1, <2>6 DEF LeasedByTask, Copied, Rewrites
  <2> QED BY <1>1, <1>3, <2>1, <2>4, <2>5, <2>6, <2>7 DEF NewFiles
<1> QED BY <1>2, <1>3 DEF Appenders

(* One file less is prepared, whether it was committed or unlinked. *)
LEMMA PreparedLess ==
  ASSUME Shape, Fresh, NEW a \in Appenders, append[a] # NoAppend,
         append' = [append EXCEPT ![a] = NoAppend]
  PROVE  /\ append'[a] = NoAppend /\ \A b \in Appenders \ {a} : append'[b] = append[b]
         /\ append' \in [Appenders -> Appends]
         /\ Prepared' = IF append[a].step = "prepared" THEN Prepared \ {append[a].file}
                        ELSE Prepared
<1>1. /\ append'[a] = NoAppend /\ \A b \in Appenders \ {a} : append'[b] = append[b]
      /\ append' \in [Appenders -> Appends]
  BY DEF Shape, Appends
<1>2. \A b \in Appenders \ {a} :
        append[a].step = "prepared" /\ append[b].step = "prepared" => append[b].file # append[a].file
  BY DEF Fresh
<1>3. NoAppend.step # "prepared"
  BY DEF NoAppend
<1> QED BY <1>1, <1>2, <1>3 DEF Prepared

LEMMA CommitKeepsIInv ==
  ASSUME IInv, NEW a \in Appenders, CommitSegment(a)
  PROVE  IInv'
<1> USE DEF IInv
<1> DEFINE g == append[a].file
           grown == catalog.segments \cup {g}
           entry == [segments |-> grown, checkpoint |-> catalog.checkpoint]
<1>1. /\ UNCHANGED <<files, content, minted, backup, swapping, aside, crossed, stale,
                     overtaken, pins, pendingDeletes, unlinking, generation, leases, recorded,
                     horizon>>
      /\ append[a].step = "prepared" /\ append[a].generation = generation /\ ~swapping
      /\ append[a] # NoAppend /\ Return(a, TRUE)
      /\ catalog' = [catalog EXCEPT !.segments = grown]
  <2>1. append[a] # NoAppend
    BY DEF CommitSegment, NoAppend
  <2> QED BY <2>1 DEF CommitSegment, SameStore, swap, leasing
<1>2. /\ append' = [append EXCEPT ![a] = NoAppend]
      /\ maintenance' \in Tasks
      /\ LeasedByTask' = LeasedByTask /\ Copied' = Copied /\ Rewrites' = Rewrites
      /\ NewFiles' = NewFiles
      /\ a = "writer" => maintenance' = maintenance
      /\ a = "rollup" =>
           /\ maintenance.task = "waiting"
           /\ maintenance'.task = "appending" /\ maintenance'.through = maintenance.through
           /\ maintenance'.missing = maintenance.missing \ content[g]
  BY <1>1, ReturnKeeps
<1>3. /\ append'[a] = NoAppend /\ \A b \in Appenders \ {a} : append'[b] = append[b]
      /\ append' \in [Appenders -> Appends]
      /\ Prepared' = Prepared \ {g}
  BY <1>1, <1>2, PreparedLess
<1>4. g \in FileIds /\ g \in Prepared /\ g \in files
  BY <1>1 DEF Shape, Appends, NoAppend, Prepared, Present, Dir
<1>5. g \notin Known \cup NewFiles
  BY <1>4 DEF Fresh
<1>6. catalog' = entry /\ entry.segments = grown /\ entry.checkpoint = catalog.checkpoint
  BY <1>1 DEF Shape, AnyCatalog
<1>7. catalog' \in AnyCatalog
  BY <1>4, <1>6 DEF Shape, AnyCatalog
<1> HIDE DEF entry, g
<1>8. Shape'
  BY <1>1, <1>2, <1>3, <1>7 DEF Shape, AnyCatalog
<1>9. Leased' = Leased /\ Held' = Held /\ Dir' = Dir /\ Catalogs' = {entry} \cup backup \cup Copied
  BY <1>1, <1>2, <1>6 DEF Leased, Held, Dir, Catalogs
<1>10. Named' = Named \cup {g}
  BY <1>6, <1>9 DEF Named, Catalogs
<1>11. Known' = Known \cup {g}
  BY <1>1, <1>9, <1>10 DEF Known
<1>12. Counted'
  BY <1>1, <1>2, CountedKept
<1>13. NoAppend.step = "none"
  BY DEF NoAppend
<1>14. Present' /\ Apart' /\ Accounted'
  BY <1>1, <1>2, <1>3, <1>4, <1>5, <1>6, <1>9, <1>13 DEF Present, Apart, Accounted, Dir, Known
<1>15. Fresh'
  BY <1>1, <1>2, <1>3, <1>4, <1>5, <1>11, <1>13 DEF Fresh
<1>16. InFlight(a)' = {} /\ InFlight(a) = content[g]
  BY <1>1, <1>3, <1>13 DEF InFlight, g
<1>17. \A b \in Appenders \ {a} : InFlight(b)' = InFlight(b)
  BY <1>1, <1>3 DEF InFlight
<1>18. \A r \in content[g] : r[1] = "frame" <=> a = "writer"
  <2>1. CASE a = "writer"
    BY <1>16, <2>1 DEF WriterAhead
  <2>2. CASE a = "rollup"
    <3>1. \A r \in content[g] : r[1] = "rollup"
      BY <1>2, <1>16, <2>2 DEF RollingUp
    <3> QED BY <2>2, <3>1
  <2> QED BY <2>1, <2>2 DEF Appenders
<1>19. \A f \in catalog.segments : content[f] \cap content[g] \subseteq Doubled
  <2>1. CASE a = "writer"
    BY <1>16, <2>1 DEF WriterAhead, Known, Named, Catalogs
  <2>2. CASE a = "rollup" /\ stale
    BY <1>1, <1>16, <2>2 DEF RollingUp
  <2>3. CASE a = "rollup" /\ ~stale
    BY <1>2, <1>16, <2>3 DEF RollingUp, Visible
  <2> QED BY <2>1, <2>2, <2>3 DEF Appenders
<1>20. WriterAhead'
  <2>1. InFlight("writer")' \subseteq InFlight("writer")
        /\ content[g] \cap InFlight("writer")' = {}
    <3>1. CASE a = "writer"
      BY <1>16, <3>1
    <3>2. CASE a = "rollup"
      <4>1. InFlight("writer")' = InFlight("writer")
        BY <1>17, <3>2 DEF Appenders
      <4> QED BY <1>18, <3>2, <4>1 DEF WriterAhead
    <3> QED BY <3>1, <3>2 DEF Appenders
  <2>2. \A r : IsRecorded(r)' <=> IsRecorded(r)
    BY <1>1 DEF IsRecorded
  <2> QED BY <1>1, <1>2, <1>11, <2>1, <2>2 DEF WriterAhead
<1>21. Sound'
  <2>1. Once(catalog) /\ Covered(catalog)
    BY DEF Sound, Catalogs
  <2>2. Once(catalog)' /\ Covered(catalog)'
    BY <1>1, <1>6, <1>19, <2>1 DEF Once, Covered, Doubled
  <2>3. ASSUME NEW c \in backup \cup Copied PROVE Once(c)' /\ Covered(c)'
    BY <1>1, <2>3, SoundKept DEF Catalogs
  <2> QED BY <1>6, <1>9, <2>2, <2>3 DEF Sound
<1>22. Rewriting' /\ Copying'
  <2>1. CASE a = "writer"
    BY <1>1, <1>2, <1>6, <2>1, RewritingKept
  <2>2. CASE a = "rollup"
    BY <1>2, <2>2 DEF Rewriting, Copying
  <2> QED BY <2>1, <2>2 DEF Appenders
<1>23. Visible' = Visible \cup content[g]
  BY <1>1, <1>6 DEF Visible
<1>24. RollingUp'
  <2>1. CASE a = "writer"
    <3>1. append'["rollup"] = append["rollup"] /\ InFlight("rollup")' = InFlight("rollup")
          /\ maintenance' = maintenance
      BY <1>2, <1>3, <1>17, <2>1 DEF Appenders
    <3>2. \A r \in content[g] : r[1] = "frame"
      BY <1>18, <2>1
    <3> QED BY <1>1, <1>6, <1>23, <3>1, <3>2 DEF RollingUp, Doubled
  <2>2. CASE a = "rollup"
    <3>1. append'["rollup"] = NoAppend /\ InFlight("rollup")' = {}
          /\ maintenance'.task = "appending" /\ maintenance'.through = maintenance.through
          /\ maintenance'.missing = maintenance.missing \ content[g]
      BY <1>2, <1>3, <1>16, <2>2
    <3>2. maintenance.task = "waiting"
      BY <1>2, <2>2
    <3> QED BY <1>1, <1>23, <3>1, <3>2 DEF RollingUp
  <2> QED BY <2>1, <2>2 DEF Appenders
<1>25. Swapping'
  BY <1>1, <1>9 DEF Swapping
<1> QED BY <1>8, <1>12, <1>14, <1>15, <1>20, <1>21, <1>22, <1>24, <1>25

LEMMA AppendFailsKeepsIInv ==
  ASSUME IInv, NEW a \in Appenders, AppendFails(a)
  PROVE  IInv'
<1> USE DEF IInv
<1> DEFINE g == append[a].file
           gone == IF append[a].step = "prepared" THEN {g} ELSE {}
<1>1. /\ UNCHANGED <<catalog, content, minted, backup, swapping, aside, crossed, stale,
                     overtaken, pins, pendingDeletes, unlinking, generation, leases, recorded,
                     horizon>>
      /\ append[a] # NoAppend /\ Return(a, FALSE)
      /\ append[a].step = "prepared" => ~swapping
      /\ files' = files \ gone
  <2>1. append[a] # NoAppend
    BY DEF AppendFails, NoAppend
  <2> QED BY <2>1 DEF AppendFails, swap, leasing
<1>2. /\ append' = [append EXCEPT ![a] = NoAppend]
      /\ maintenance' \in Tasks
      /\ LeasedByTask' = LeasedByTask /\ Copied' = Copied /\ Rewrites' = Rewrites
      /\ NewFiles' = NewFiles
      /\ a = "writer" => maintenance' = maintenance
      /\ a = "rollup" => maintenance.task = "waiting" /\ maintenance' = Idle
  BY <1>1, ReturnKeeps
<1>3. /\ append'[a] = NoAppend /\ \A b \in Appenders \ {a} : append'[b] = append[b]
      /\ append' \in [Appenders -> Appends]
      /\ Prepared' = Prepared \ gone
  BY <1>1, <1>2, PreparedLess
<1>4. gone \subseteq Prepared /\ gone \cap (Known \cup NewFiles) = {}
  BY DEF Prepared, Fresh
<1> HIDE DEF gone
<1>5. Shape'
  BY <1>1, <1>2, <1>3 DEF Shape, AnyCatalog
<1>6. Leased' = Leased /\ Held' = Held /\ Catalogs' = Catalogs /\ Named' = Named /\ Known' = Known
  BY <1>1, <1>2 DEF Leased, Held, Catalogs, Named, Known
<1>7. Dir' = Dir \ gone
  BY <1>1 DEF Dir, gone
<1>8. Counted'
  BY <1>1, <1>2, CountedKept
<1>9. NoAppend.step = "none"
  BY DEF NoAppend
<1>10. catalog.segments \subseteq Known /\ Held \subseteq Known
  BY DEF Known, Named, Catalogs
<1>11. \A b \in Appenders \ {a} : append[b].step = "prepared" => append[b].file \notin gone
  BY DEF Fresh, gone
<1>12. Present'
  <2>1. /\ catalog'.segments \subseteq Dir' \cup crossed' /\ Held' \subseteq files' \cup crossed'
        /\ NewFiles' \subseteq files'
    BY <1>1, <1>2, <1>4, <1>6, <1>7, <1>10 DEF Present
  <2>2. ASSUME NEW b \in Appenders, append'[b].step = "prepared", append'[b].generation = generation'
        PROVE  append'[b].file \in Dir'
    BY <1>1, <1>3, <1>7, <1>9, <1>11, <2>2 DEF Present
  <2> QED BY <2>1, <2>2 DEF Present
<1>13. Apart' /\ Fresh' /\ Accounted'
  BY <1>1, <1>2, <1>3, <1>6, <1>7, <1>9 DEF Apart, Fresh, Accounted
<1>14. InFlight(a)' = {} /\ \A b \in Appenders \ {a} : InFlight(b)' = InFlight(b)
  BY <1>1, <1>3, <1>9 DEF InFlight
<1>15. WriterAhead'
  <2>1. InFlight("writer")' \subseteq InFlight("writer")
    BY <1>14 DEF Appenders
  <2>2. \A r : IsRecorded(r)' <=> IsRecorded(r)
    BY <1>1 DEF IsRecorded
  <2> QED BY <1>1, <1>2, <1>6, <2>1, <2>2 DEF WriterAhead
<1>16. Sound'
  BY <1>1, <1>6, SoundKept DEF Sound
<1>17. Rewriting' /\ Copying'
  <2>1. CASE a = "writer"
    BY <1>1, <1>2, <2>1, RewritingKept
  <2>2. CASE a = "rollup"
    BY <1>2, <2>2 DEF Rewriting, Copying, Idle
  <2> QED BY <2>1, <2>2 DEF Appenders
<1>18. RollingUp'
  <2>1. CASE a = "writer"
    <3>1. append'["rollup"] = append["rollup"] /\ InFlight("rollup")' = InFlight("rollup")
          /\ maintenance' = maintenance
      BY <1>2, <1>3, <1>14, <2>1 DEF Appenders
    <3> QED BY <1>1, <3>1 DEF RollingUp, Visible, Doubled
  <2>2. CASE a = "rollup"
    BY <1>2, <1>3, <2>2 DEF RollingUp, Idle
  <2> QED BY <2>1, <2>2 DEF Appenders
<1>19. Swapping'
  BY <1>1, <1>6 DEF Swapping
<1> QED BY <1>5, <1>8, <1>12, <1>13, <1>15, <1>16, <1>17, <1>18, <1>19

-----------------------------------------------------------------------------
(* Steps that write nothing. *)

LEMMA NothingWritten ==
  ASSUME Shape, Fresh, WriterAhead, Sound, UNCHANGED <<content, minted, append, recorded>>,
         generation' \in Nat, generation <= generation',
         Known' \subseteq Known, NewFiles' \subseteq NewFiles, Catalogs' \subseteq Catalogs,
         overtaken \subseteq overtaken'
  PROVE  /\ Fresh' /\ WriterAhead' /\ Sound' /\ Prepared' = Prepared
         /\ InFlight("rollup")' = InFlight("rollup")
<1>1. Prepared' = Prepared
  BY DEF Prepared
<1>2. \A a \in Appenders : append[a] # NoAppend => append[a].generation \in Nat
  BY DEF Shape, Appends
<1>3. Fresh'
  BY <1>1, <1>2 DEF Fresh, Shape
<1>4. InFlight("rollup")' = InFlight("rollup") /\ InFlight("writer")' = InFlight("writer")
  BY DEF InFlight
<1>5. WriterAhead'
  BY <1>4 DEF WriterAhead, IsRecorded
<1>6. Sound'
  <2> SUFFICES ASSUME NEW c \in Catalogs PROVE Once(c)' /\ Covered(c)'
    BY DEF Sound
  <2> QED BY SoundKept
<1> QED BY <1>1, <1>3, <1>4, <1>5, <1>6

LEMMA RollingUpKept ==
  ASSUME RollingUp,
         UNCHANGED <<append, maintenance, catalog, content, generation, stale, overtaken>>
  PROVE  RollingUp'
BY DEF RollingUp, Visible, InFlight, Doubled

LEMMA UnlinkKeepsIInv ==
  ASSUME IInv, NEW f \in FileIds, Unlink(f)
  PROVE  IInv'
<1> USE DEF IInv
<1>1. /\ UNCHANGED <<catalog, content, minted, backup, swapping, aside, crossed, stale,
                     overtaken, pins, pendingDeletes, generation, append, maintenance, leases,
                     recorded, horizon>>
      /\ f \in unlinking /\ unlinking' = unlinking \ {f} /\ files' = files \ {f}
  BY DEF Unlink, swap
<1>2. Shape'
  BY <1>1 DEF Shape, AnyCatalog
<1>3. /\ LeasedByTask' = LeasedByTask /\ Leased' = Leased /\ Copied' = Copied
      /\ Rewrites' = Rewrites
  BY <1>1 DEF LeasedByTask, Leased, Copied, Rewrites
<1>4. /\ Held' = Held /\ Catalogs' = Catalogs /\ NewFiles' = NewFiles
  BY <1>1, <1>3 DEF Held, Catalogs, NewFiles
<1>5. Named' = Named /\ Known' \subseteq Known /\ f \in Known
  BY <1>1, <1>4 DEF Named, Known
<1>6. Counted'
  BY <1>1, <1>3, CountedKept
<1>7. Fresh' /\ WriterAhead' /\ Sound' /\ Prepared' = Prepared
  BY <1>1, <1>4, <1>5, NothingWritten DEF Shape
<1>8. /\ ~swapping => Dir' = Dir \ {f} /\ Dir = files
      /\ swapping => Dir' = Dir /\ files = {} /\ unlinking \subseteq crossed
  BY <1>1 DEF Dir, Swapping
<1>9. Present'
  <2>1. /\ f \notin NewFiles \cup Prepared
        /\ f \in catalog.segments \cup Held => f \in crossed
    BY <1>1, <1>5 DEF Apart, Fresh
  <2> QED BY <1>1, <1>4, <1>8, <2>1 DEF Present, Prepared
<1>10. Apart' /\ Accounted'
  BY <1>1, <1>4, <1>7, <1>8 DEF Apart, Accounted
<1>11. Rewriting' /\ Copying' /\ RollingUp'
  BY <1>1, RewritingKept, RollingUpKept
<1>12. Swapping'
  BY <1>1, <1>4 DEF Swapping
<1> QED BY <1>2, <1>6, <1>7, <1>9, <1>10, <1>11, <1>12

LEMMA QueryLeasesKeepsIInv ==
  ASSUME IInv, NEW r \in Readers, QueryLeases(r)
  PROVE  IInv'
<1> USE DEF IInv
<1>1. PICK segments \in SUBSET catalog.segments :
        Lease(segments) /\ leases' = [leases EXCEPT ![r] = segments]
  BY DEF QueryLeases
<1>2. /\ UNCHANGED <<catalog, files, content, minted, backup, swapping, aside, crossed, stale,
                     overtaken, pendingDeletes, unlinking, generation, append, maintenance,
                     recorded, horizon>>
      /\ leases[r] = {} /\ ~swapping
  BY <1>1 DEF QueryLeases, Lease, disk, swap
<1>3. segments \in SUBSET FileIds
  BY <1>1 DEF Shape, AnyCatalog
<1>4. Shape'
  BY <1>1, <1>2, <1>3 DEF Shape, AnyCatalog
<1>5. LeasedByTask' = LeasedByTask /\ Copied' = Copied /\ Rewrites' = Rewrites
  BY <1>2 DEF LeasedByTask, Copied, Rewrites
<1>6. Leased' \subseteq Leased \cup segments
  BY <1>1, <1>2 DEF Leased, Shape
<1>7. /\ Held' \subseteq Held \cup segments /\ Catalogs' = Catalogs /\ NewFiles' = NewFiles
  BY <1>2, <1>5, <1>6 DEF Held, Catalogs, NewFiles
<1>8. Named' = Named /\ Known' \subseteq Known
  BY <1>1, <1>2, <1>7 DEF Named, Known, Catalogs
<1>9. Counted'
  BY <1>1, <1>2, <1>3, <1>5, ReaderLeases
<1>10. Fresh' /\ WriterAhead' /\ Sound' /\ Prepared' = Prepared
  BY <1>2, <1>7, <1>8, NothingWritten DEF Shape
<1>11. Dir' = Dir /\ Dir = files
  BY <1>2 DEF Dir
<1>12. Present' /\ Apart' /\ Accounted'
  BY <1>1, <1>2, <1>7, <1>10, <1>11 DEF Present, Apart, Accounted
<1>13. Rewriting' /\ Copying' /\ RollingUp'
  BY <1>2, RewritingKept, RollingUpKept
<1>14. Swapping'
  BY <1>2 DEF Swapping
<1> QED BY <1>4, <1>9, <1>10, <1>12, <1>13, <1>14

LEMMA QueryEndsKeepsIInv ==
  ASSUME IInv, NEW r \in Readers, QueryEnds(r)
  PROVE  IInv'
<1> USE DEF IInv
<1> DEFINE due == pendingDeletes \cap Unpinned(leases[r])
<1>1. /\ UNCHANGED <<catalog, files, content, minted, backup, swapping, aside, crossed, stale,
                     overtaken, generation, append, maintenance, recorded, horizon>>
      /\ Release(leases[r]) /\ leases' = [leases EXCEPT ![r] = {}] /\ ~swapping
      /\ pendingDeletes' = pendingDeletes \ due /\ unlinking' = unlinking \cup due
  BY DEF QueryEnds, Release, disk, swap
<1>2. due \subseteq pendingDeletes /\ due \subseteq leases[r] /\ \A f \in due : pins[f] = 1
  BY DEF Unpinned
<1> HIDE DEF due
<1>3. leases[r] \subseteq FileIds /\ pendingDeletes \subseteq FileIds /\ unlinking \subseteq FileIds
  BY KnownAreFiles DEF Shape, Known
<1>4. Shape'
  BY <1>1 DEF Shape, AnyCatalog
<1>5. LeasedByTask' = LeasedByTask /\ Copied' = Copied /\ Rewrites' = Rewrites
  BY <1>1 DEF LeasedByTask, Copied, Rewrites
<1>6. Leased' \subseteq Leased
  BY <1>1 DEF Leased, Shape
<1>7. Held' \subseteq Held /\ Catalogs' = Catalogs /\ NewFiles' = NewFiles
  BY <1>1, <1>5, <1>6 DEF Held, Catalogs, NewFiles
<1>8. Named' = Named /\ Known' \subseteq Known
  BY <1>1, <1>2, <1>7 DEF Named, Known
<1>9. Counted'
  BY <1>1, <1>5, ReaderReleases
<1>10. due \cap Held' = {}
  <2> SUFFICES ASSUME NEW f \in due PROVE f \notin Held'
    OBVIOUS
  <2>1. f \notin LeasedByTask /\ \A q \in Readers \ {r} : f \notin leases[q]
    BY <1>2, <1>3, LastReader
  <2>2. f \notin Leased'
    BY <1>1, <2>1 DEF Leased, Shape
  <2> QED BY <1>5, <2>1, <2>2 DEF Held
<1>11. Fresh' /\ WriterAhead' /\ Sound' /\ Prepared' = Prepared
  BY <1>1, <1>7, <1>8, NothingWritten DEF Shape
<1>12. Dir' = Dir
  BY <1>1 DEF Dir
<1>13. Present' /\ Apart' /\ Accounted'
  BY <1>1, <1>2, <1>7, <1>10, <1>11, <1>12 DEF Present, Apart, Accounted
<1>14. Rewriting' /\ Copying' /\ RollingUp'
  BY <1>1, RewritingKept, RollingUpKept
<1>15. Swapping'
  BY <1>1 DEF Swapping
<1> QED BY <1>4, <1>9, <1>11, <1>13, <1>14, <1>15

-----------------------------------------------------------------------------
(* Retention and backups. *)

(* Both begin with a lease of everything the catalog names. *)
LEMMA TaskBegins ==
  ASSUME IInv, maintenance = Idle, Lease(catalog.segments),
         UNCHANGED <<catalog, files, content, minted, backup, swapping, aside, crossed, stale,
                     overtaken, generation, append, leases, recorded>>,
         horizon' \in Nat, maintenance' \in Tasks, LeasedByTask' = catalog.segments,
         Copied' \subseteq {catalog}, Rewrites' = {}
  PROVE  /\ Shape' /\ Counted' /\ Present' /\ Apart' /\ Fresh' /\ Accounted'
         /\ WriterAhead' /\ Sound' /\ Swapping' /\ append["rollup"] = NoAppend
<1> USE DEF IInv
<1>1. /\ UNCHANGED <<pendingDeletes, unlinking>> /\ ~swapping
  BY DEF Lease
<1>2. /\ LeasedByTask = {} /\ Copied = {} /\ NewFiles = {} /\ Idle.task = "idle"
  BY DEF LeasedByTask, Copied, NewFiles, Rewrites, Idle
<1>3. catalog.segments \in SUBSET FileIds
  BY DEF Shape, AnyCatalog
<1>4. Shape'
  BY <1>1 DEF Shape, AnyCatalog
<1>5. Leased' = Leased /\ Held' = Held \cup catalog.segments /\ NewFiles' = {}
  BY <1>2 DEF Leased, Held, NewFiles
<1>6. Catalogs' \subseteq Catalogs
  BY DEF Catalogs
<1>7. Named' \subseteq Named /\ catalog.segments \subseteq Named
  BY <1>6 DEF Named, Catalogs
<1>8. Known' \subseteq Known
  BY <1>1, <1>5, <1>7 DEF Known
<1>9. Counted'
  BY <1>2, <1>3, TaskLeases
<1>10. Fresh' /\ WriterAhead' /\ Sound' /\ Prepared' = Prepared
  BY <1>2, <1>5, <1>6, <1>8, NothingWritten DEF Shape
<1>11. Dir' = Dir /\ Dir = files
  BY <1>1 DEF Dir
<1>12. Present' /\ Apart' /\ Accounted'
  BY <1>1, <1>2, <1>5, <1>10, <1>11 DEF Present, Apart, Accounted
<1>13. Swapping'
  BY <1>1 DEF Swapping
<1>14. append["rollup"] = NoAppend
  BY <1>2 DEF RollingUp
<1> QED BY <1>4, <1>9, <1>10, <1>12, <1>13, <1>14

LEMMA RetentionLeasesKeepsIInv ==
  ASSUME IInv, NEW now \in 0 .. LastFrame, RetentionLeases(now)
  PROVE  IInv'
<1> USE DEF IInv
<1> DEFINE task == [task |-> "rewriting", leased |-> catalog.segments,
                    todo |-> catalog.segments, rewritten |-> {}]
<1>1. /\ UNCHANGED <<catalog, files, content, minted, backup, swapping, aside, crossed, stale,
                     overtaken, generation, append, leases, recorded>>
      /\ maintenance = Idle /\ catalog.segments # {} /\ Lease(catalog.segments)
      /\ horizon' = now /\ maintenance' = task
  BY DEF RetentionLeases, disk, swap
<1>2. /\ task \in RewriteTasks /\ task.task = "rewriting" /\ task.leased = catalog.segments
      /\ task.todo = catalog.segments /\ task.rewritten = {}
  BY DEF RewriteTasks, Shape, AnyCatalog
<1> HIDE DEF task
<1>3. maintenance' \in Tasks /\ LeasedByTask' = catalog.segments /\ Copied' = {} /\ Rewrites' = {}
  BY <1>1, <1>2 DEF Tasks, LeasedByTask, Copied, Rewrites
<1>4. /\ Shape' /\ Counted' /\ Present' /\ Apart' /\ Fresh' /\ Accounted'
      /\ WriterAhead' /\ Sound' /\ Swapping' /\ append["rollup"] = NoAppend
  BY <1>1, <1>3, TaskBegins
<1>5. Rewriting' /\ Copying' /\ RollingUp'
  BY <1>1, <1>2, <1>4 DEF Rewriting, Copying, RollingUp
<1> QED BY <1>4, <1>5

LEMMA BackupLeasesKeepsIInv ==
  ASSUME IInv, BackupLeases
  PROVE  IInv'
<1> USE DEF IInv
<1> DEFINE task == [task |-> "copying", leased |-> catalog.segments, catalog |-> catalog]
<1>1. /\ UNCHANGED <<catalog, files, content, minted, backup, swapping, aside, crossed, stale,
                     overtaken, generation, append, leases, recorded, horizon>>
      /\ maintenance = Idle /\ Lease(catalog.segments) /\ maintenance' = task
  BY DEF BackupLeases, disk, swap
<1>2. /\ task \in CopyTasks /\ task.task = "copying" /\ task.leased = catalog.segments
      /\ task.catalog = catalog
  BY DEF CopyTasks, Shape, AnyCatalog
<1> HIDE DEF task
<1>3. /\ maintenance' \in Tasks /\ LeasedByTask' = catalog.segments /\ Copied' = {catalog}
      /\ Rewrites' = {}
  BY <1>1, <1>2 DEF Tasks, LeasedByTask, Copied, Rewrites
<1>4. /\ Shape' /\ Counted' /\ Present' /\ Apart' /\ Fresh' /\ Accounted'
      /\ WriterAhead' /\ Sound' /\ Swapping' /\ append["rollup"] = NoAppend
  BY <1>1, <1>3, TaskBegins DEF Shape
<1>5. Rewriting' /\ Copying' /\ RollingUp'
  BY <1>1, <1>2, <1>4 DEF Rewriting, Copying, RollingUp
<1> QED BY <1>4, <1>5

(* What the record of a rewrite says of the task that keeps it. *)
LEMMA RewriteTask ==
  ASSUME Shape, Rewriting, Swapping, maintenance.task = "rewriting"
  PROVE  /\ maintenance \in RewriteTasks /\ ~swapping
         /\ maintenance.leased \subseteq catalog.segments /\ LeasedByTask = maintenance.leased
         /\ Rewrites = maintenance.rewritten /\ Copied = {} /\ Replacements = NewFiles
         /\ \A w \in Rewrites : w.original \in maintenance.leased \ maintenance.todo /\ Faithful(w)
         /\ \A v, w \in Rewrites :
              v # w => /\ v.original # w.original
                       /\ v.replacement # w.replacement \/ v.replacement = 0
<1>1. maintenance \in RewriteTasks
  BY DEF Shape, Tasks, Idle, ReleaseTasks, CopyTasks, ReadTasks, CompareTasks, AppendTasks
<1>2. ~swapping
  BY DEF Swapping, Held, LeasedByTask, Rewriting
<1>3. LeasedByTask = maintenance.leased /\ Rewrites = maintenance.rewritten /\ Copied = {}
  BY DEF LeasedByTask, Rewrites, Copied
<1>4. Replacements = NewFiles
  BY <1>3 DEF Replacements, NewFiles
<1> QED BY <1>1, <1>2, <1>3, <1>4 DEF Rewriting

(* Both end with its release. *)
LEMMA TaskFinishes ==
  ASSUME IInv, maintenance.task \in {"rewriting", "copying"},
         UNCHANGED <<append, generation, stale>>,
         maintenance' = [task |-> "releasing", leased |-> maintenance.leased]
  PROVE  /\ maintenance' \in Tasks /\ LeasedByTask' = LeasedByTask
         /\ Copied' = {} /\ Rewrites' = {} /\ NewFiles' = {}
         /\ Rewriting' /\ Copying' /\ RollingUp'
<1> USE DEF IInv
<1>1. maintenance \in RewriteTasks \cup CopyTasks
  BY DEF Shape, Tasks, Idle, ReleaseTasks, ReadTasks, CompareTasks, AppendTasks
<1>2. maintenance.leased \in SUBSET FileIds
  BY <1>1 DEF RewriteTasks, CopyTasks
<1>3. maintenance' \in ReleaseTasks /\ maintenance'.task = "releasing"
      /\ maintenance'.leased = maintenance.leased
  BY <1>2 DEF ReleaseTasks
<1>4. LeasedByTask' = LeasedByTask /\ Copied' = {} /\ Rewrites' = {}
  BY <1>3 DEF LeasedByTask, Copied, Rewrites
<1>5. Rewriting' /\ Copying' /\ RollingUp'
  BY <1>3 DEF Rewriting, Copying, RollingUp
<1> QED BY <1>3, <1>4, <1>5 DEF Tasks, NewFiles

LEMMA RetentionFailsKeepsIInv ==
  ASSUME IInv, RetentionFails
  PROVE  IInv'
<1> USE DEF IInv
<1>1. /\ UNCHANGED <<catalog, content, minted, backup, swapping, aside, crossed, stale,
                     overtaken, pins, pendingDeletes, unlinking, generation, append, leases,
                     recorded, horizon>>
      /\ maintenance.task = "rewriting" /\ files' = files \ Replacements
      /\ maintenance' = [task |-> "releasing", leased |-> maintenance.leased]
  BY DEF RetentionFails, UnlinkReplacements, swap, leasing
<1>2. /\ maintenance' \in Tasks /\ LeasedByTask' = LeasedByTask
      /\ Copied' = {} /\ Rewrites' = {} /\ NewFiles' = {}
      /\ Rewriting' /\ Copying' /\ RollingUp'
  BY <1>1, TaskFinishes
<1>3. Replacements = NewFiles /\ Copied = {} /\ ~swapping
  BY <1>1, RewriteTask
<1>4. Shape'
  BY <1>1, <1>2 DEF Shape, AnyCatalog
<1>5. Leased' = Leased /\ Held' = Held /\ Catalogs' = Catalogs
  BY <1>1, <1>2, <1>3 DEF Leased, Held, Catalogs
<1>6. Named' = Named /\ Known' = Known
  BY <1>1, <1>5 DEF Named, Known
<1>7. Counted'
  BY <1>1, <1>2, CountedKept
<1>8. Fresh' /\ WriterAhead' /\ Sound' /\ Prepared' = Prepared
  BY <1>1, <1>2, <1>5, <1>6, NothingWritten DEF Shape
<1>9. Dir' = Dir \ NewFiles /\ Dir = files
  BY <1>1, <1>3 DEF Dir
<1>10. NewFiles \cap (Known \cup Prepared) = {} /\ catalog.segments \subseteq Known
       /\ Held \subseteq Known
  BY DEF Fresh, Known, Named, Catalogs
<1>11. Present'
  <2>1. /\ catalog'.segments \subseteq Dir' \cup crossed' /\ Held' \subseteq files' \cup crossed'
        /\ NewFiles' \subseteq files'
    BY <1>1, <1>2, <1>3, <1>5, <1>9, <1>10 DEF Present
  <2>2. \A a \in Appenders : append[a].step = "prepared" => append[a].file \in Prepared
    BY DEF Prepared
  <2> QED BY <1>1, <1>9, <1>10, <2>1, <2>2 DEF Present
<1>12. Apart' /\ Accounted'
  BY <1>1, <1>2, <1>5, <1>8, <1>9 DEF Apart, Accounted
<1>13. Swapping'
  BY <1>1, <1>3 DEF Swapping
<1> QED BY <1>2, <1>4, <1>7, <1>8, <1>11, <1>12, <1>13

LEMMA BackupEndsKeepsIInv ==
  ASSUME IInv, BackupPublished \/ BackupFails
  PROVE  IInv'
<1> USE DEF IInv
<1>1. /\ UNCHANGED <<catalog, files, content, minted, swapping, aside, crossed, stale,
                     overtaken, pins, pendingDeletes, unlinking, generation, append, leases,
                     recorded, horizon>>
      /\ maintenance.task = "copying"
      /\ maintenance' = [task |-> "releasing", leased |-> maintenance.leased]
      /\ backup' \subseteq backup \cup {maintenance.catalog}
  BY DEF BackupPublished, BackupFails, disk, swap, leasing
<1>2. /\ maintenance' \in Tasks /\ LeasedByTask' = LeasedByTask
      /\ Copied' = {} /\ Rewrites' = {} /\ NewFiles' = {}
      /\ Rewriting' /\ Copying' /\ RollingUp'
  BY <1>1, TaskFinishes
<1>3. maintenance \in CopyTasks
  BY <1>1 DEF Shape, Tasks, Idle, RewriteTasks, ReleaseTasks, ReadTasks, CompareTasks, AppendTasks
<1>4. maintenance.catalog \in AnyCatalog /\ Copied = {maintenance.catalog} /\ NewFiles = {}
  BY <1>1, <1>3 DEF CopyTasks, Copied, NewFiles, Rewrites
<1>5. Shape'
  BY <1>1, <1>2, <1>4 DEF Shape
<1>6. Leased' = Leased /\ Held' = Held /\ Catalogs' \subseteq Catalogs
  BY <1>1, <1>2, <1>4 DEF Leased, Held, Catalogs
<1>7. Named' \subseteq Named /\ Known' \subseteq Known
  BY <1>1, <1>6 DEF Named, Known
<1>8. Counted'
  BY <1>1, <1>2, CountedKept
<1>9. Fresh' /\ WriterAhead' /\ Sound' /\ Prepared' = Prepared
  BY <1>1, <1>2, <1>6, <1>7, NothingWritten DEF Shape
<1>10. Dir' = Dir
  BY <1>1 DEF Dir
<1>11. Present' /\ Apart' /\ Accounted' /\ Swapping'
  BY <1>1, <1>2, <1>4, <1>6, <1>9, <1>10 DEF Present, Apart, Accounted, Swapping
<1> QED BY <1>2, <1>5, <1>8, <1>9, <1>11

LEMMA TaskReleasesKeepsIInv ==
  ASSUME IInv, TaskReleases
  PROVE  IInv'
<1> USE DEF IInv
<1> DEFINE due == pendingDeletes \cap Unpinned(LeasedByTask)
<1>1. LeasedByTask = maintenance.leased /\ maintenance.task = "releasing"
  BY DEF TaskReleases, LeasedByTask
<1>2. /\ UNCHANGED <<catalog, files, content, minted, backup, swapping, aside, crossed, stale,
                     overtaken, generation, append, leases, recorded, horizon>>
      /\ Release(LeasedByTask) /\ maintenance' = Idle /\ ~swapping
      /\ pendingDeletes' = pendingDeletes \ due /\ unlinking' = unlinking \cup due
  BY <1>1 DEF TaskReleases, Release, disk, swap
<1>3. due \subseteq pendingDeletes /\ due \subseteq LeasedByTask /\ \A f \in due : pins[f] = 1
  BY DEF Unpinned
<1> HIDE DEF due
<1>4. Known \subseteq FileIds
  BY KnownAreFiles
<1>5. Shape'
  BY <1>2 DEF Shape, AnyCatalog, Tasks
<1>6. /\ LeasedByTask' = {} /\ Leased' = Leased /\ Copied' = {} /\ Rewrites' = {}
      /\ Copied = {} /\ NewFiles = {} /\ NewFiles' = {} /\ Idle.task = "idle"
  BY <1>1, <1>2 DEF LeasedByTask, Leased, Copied, Rewrites, NewFiles, Idle
<1>7. Held' = Leased /\ Held' \subseteq Held /\ Catalogs' = Catalogs
  BY <1>2, <1>6 DEF Held, Catalogs
<1>8. Named' = Named /\ Known' \subseteq Known
  BY <1>2, <1>3, <1>7 DEF Named, Known
<1>9. Counted'
  BY <1>2, <1>6, TaskReleasesCounted
<1>10. due \cap Held' = {}
  <2> SUFFICES ASSUME NEW f \in due PROVE f \notin Held'
    OBVIOUS
  <2>1. f \in FileIds
    BY <1>3, <1>4 DEF Known
  <2> QED BY <1>3, <1>7, <2>1, LastTask
<1>11. Fresh' /\ WriterAhead' /\ Sound' /\ Prepared' = Prepared
  BY <1>2, <1>6, <1>7, <1>8, NothingWritten DEF Shape
<1>12. Dir' = Dir
  BY <1>2 DEF Dir
<1>13. Present' /\ Apart' /\ Accounted'
  BY <1>2, <1>3, <1>6, <1>7, <1>10, <1>11, <1>12 DEF Present, Apart, Accounted
<1>14. Rewriting' /\ Copying' /\ RollingUp' /\ Swapping'
  BY <1>1, <1>2, <1>6 DEF Rewriting, Copying, RollingUp, Swapping
<1> QED BY <1>5, <1>9, <1>11, <1>13, <1>14

LEMMA RetentionCommitsKeepsIInv ==
  ASSUME IInv, RetentionCommits
  PROVE  IInv'
<1> USE DEF IInv
<1> DEFINE rewritten == CatalogRewritten
           entry == [segments |-> rewritten, checkpoint |-> catalog.checkpoint]
<1>1. /\ UNCHANGED <<files, content, minted, backup, swapping, aside, crossed, stale,
                     overtaken, pins, unlinking, generation, append, leases, recorded,
                     horizon>>
      /\ maintenance.task = "rewriting"
      /\ catalog' = [catalog EXCEPT !.segments = rewritten]
      /\ pendingDeletes' = pendingDeletes \cup Originals
      /\ maintenance' = [task |-> "releasing", leased |-> maintenance.leased]
  BY DEF RetentionCommits, swap
<1>2. /\ maintenance' \in Tasks /\ LeasedByTask' = LeasedByTask
      /\ Copied' = {} /\ Rewrites' = {} /\ NewFiles' = {}
      /\ Rewriting' /\ Copying' /\ RollingUp'
  BY <1>1, TaskFinishes
<1>3. /\ maintenance \in RewriteTasks /\ ~swapping
      /\ maintenance.leased \subseteq catalog.segments /\ LeasedByTask = maintenance.leased
      /\ Rewrites = maintenance.rewritten /\ Copied = {} /\ Replacements = NewFiles
      /\ \A w \in Rewrites : w.original \in maintenance.leased \ maintenance.todo /\ Faithful(w)
      /\ \A v, w \in Rewrites :
           v # w => /\ v.original # w.original
                    /\ v.replacement # w.replacement \/ v.replacement = 0
  BY <1>1, RewriteTask
<1>4. rewritten = (catalog.segments \ Originals) \cup NewFiles
  BY <1>3 DEF CatalogRewritten
<1>5. /\ Originals = {w.original : w \in Rewrites} /\ Originals \subseteq catalog.segments
      /\ NewFiles = {w.replacement : w \in Rewrites} \ {0}
  BY <1>3 DEF Originals, NewFiles
<1>6. NewFiles \cap (Known \cup Prepared) = {} /\ catalog.segments \subseteq Known
      /\ NewFiles \subseteq FileIds /\ Known \subseteq FileIds
  BY KnownAreFiles DEF Fresh, Known, Named, Catalogs
<1> HIDE DEF rewritten
<1>7. catalog' = entry /\ entry.segments = rewritten /\ entry.checkpoint = catalog.checkpoint
  BY <1>1 DEF Shape, AnyCatalog
<1>8. catalog' \in AnyCatalog
  BY <1>4, <1>5, <1>6, <1>7 DEF Shape, AnyCatalog
<1> HIDE DEF entry
<1>9. Shape'
  BY <1>1, <1>2, <1>8 DEF Shape
<1>10. Counted'
  BY <1>1, <1>2, CountedKept
<1>11. Leased' = Leased /\ Held' = Held /\ Dir' = Dir /\ Catalogs' = {catalog'} \cup backup
  BY <1>1, <1>2 DEF Leased, Held, Dir, Catalogs
<1>12. Named' \subseteq Named \cup NewFiles
  BY <1>4, <1>7, <1>11 DEF Named, Catalogs
<1>13. Known' \subseteq Known \cup NewFiles /\ Prepared' = Prepared
  BY <1>1, <1>5, <1>6, <1>11, <1>12 DEF Known, Prepared
<1>14. Present' /\ Apart' /\ Accounted'
  <2>1. Dir = files
    BY <1>3 DEF Dir
  <2> QED BY <1>1, <1>2, <1>4, <1>5, <1>6, <1>7, <1>11, <1>13, <2>1
          DEF Present, Apart, Accounted, Known
<1>15. Fresh'
  BY <1>1, <1>2, <1>13 DEF Fresh
<1>16. InFlight("writer")' = InFlight("writer")
  BY <1>1 DEF InFlight
<1>17. WriterAhead'
  BY <1>1, <1>2, <1>13, <1>16 DEF WriterAhead, IsRecorded
<1>18. \A f \in rewritten :
         \E g \in catalog.segments :
           /\ content[f] \subseteq content[g]
           /\ (f = g /\ g \notin Originals)
              \/ \E w \in Rewrites : w.original = g /\ w.replacement = f
  <2> SUFFICES ASSUME NEW f \in NewFiles
               PROVE  \E w \in Rewrites : /\ w.original \in catalog.segments
                                          /\ content[f] \subseteq content[w.original]
                                          /\ w.replacement = f
    BY <1>4
  <2>1. PICK w \in Rewrites : w.replacement = f /\ f # 0
    BY <1>5
  <2> QED BY <1>3, <2>1 DEF Faithful, Retained
<1>19. Once(catalog)'
  <2>1. Once(catalog)
    BY DEF Sound, Catalogs
  <2> SUFFICES ASSUME NEW f \in rewritten, NEW h \in rewritten, f # h
               PROVE  content[f] \cap content[h] \subseteq Doubled
    BY <1>1, <1>7 DEF Once, Doubled
  <2>2. PICK g \in catalog.segments :
          /\ content[f] \subseteq content[g]
          /\ (f = g /\ g \notin Originals)
             \/ \E w \in Rewrites : w.original = g /\ w.replacement = f
    BY <1>18
  <2>3. PICK k \in catalog.segments :
          /\ content[h] \subseteq content[k]
          /\ (h = k /\ k \notin Originals)
             \/ \E w \in Rewrites : w.original = k /\ w.replacement = h
    BY <1>18
  <2>4. g # k
    BY <1>3, <1>5, <2>2, <2>3
  <2> QED BY <2>1, <2>2, <2>3, <2>4 DEF Once
<1>20. Covered(catalog)'
  <2> SUFFICES ASSUME NEW b \in (1 .. catalog.checkpoint) \ overtaken
               PROVE  \E f \in rewritten : Rollup(b) \in content[f]
    BY <1>1, <1>7 DEF Covered
  <2>1. PICK g \in catalog.segments : Rollup(b) \in content[g]
    BY DEF Sound, Catalogs, Covered
  <2>2. CASE g \notin Originals
    BY <1>4, <2>1, <2>2
  <2>3. CASE g \in Originals
    <3>1. PICK w \in Rewrites : w.original = g
      BY <1>5, <2>3
    <3>2. Rollup(b) \in Retained(content[g])
      BY <2>1 DEF Retained, Rollup
    <3>3. w.replacement # 0 /\ Rollup(b) \in content[w.replacement]
      BY <1>3, <3>1, <3>2 DEF Faithful
    <3> QED BY <1>4, <1>5, <3>3
  <2> QED BY <2>2, <2>3
<1>21. Sound'
  <2>1. ASSUME NEW c \in backup PROVE Once(c)' /\ Covered(c)'
    BY <1>1, <2>1, SoundKept DEF Catalogs
  <2> QED BY <1>11, <1>19, <1>20, <2>1 DEF Sound
<1>22. Swapping'
  BY <1>1, <1>3 DEF Swapping
<1> QED BY <1>2, <1>9, <1>10, <1>14, <1>15, <1>17, <1>21, <1>22

LEMMA RewriteNoted ==
  ASSUME maintenance \in RewriteTasks, NEW f \in FileIds, NEW g \in {0} \cup FileIds,
         Rewritten(f, g)
  PROVE  /\ maintenance' \in RewriteTasks /\ maintenance'.task = "rewriting"
         /\ maintenance'.leased = maintenance.leased
         /\ maintenance'.todo = maintenance.todo \ {f}
         /\ maintenance'.rewritten =
              maintenance.rewritten \cup {[original |-> f, replacement |-> g]}
<1> DEFINE w == [original |-> f, replacement |-> g]
<1>1. w \in [original : FileIds, replacement : {0} \cup FileIds]
  OBVIOUS
<1>2. maintenance' = [maintenance EXCEPT !.todo = @ \ {f}, !.rewritten = @ \cup {w}]
  BY DEF Rewritten
<1> HIDE DEF w
<1>3. /\ maintenance' \in RewriteTasks /\ maintenance'.task = "rewriting"
      /\ maintenance'.leased = maintenance.leased
      /\ maintenance'.todo = maintenance.todo \ {f}
      /\ maintenance'.rewritten = maintenance.rewritten \cup {w}
  BY <1>1, <1>2 DEF RewriteTasks
<1> QED BY <1>3 DEF w

LEMMA RetentionRewritesKeepsIInv ==
  ASSUME IInv, NEW f \in FileIds, RetentionRewrites(f)
  PROVE  IInv'
<1> USE DEF IInv
<1> DEFINE retained == Retained(content[f])
<1>1. /\ UNCHANGED <<catalog, backup, swapping, aside, crossed, stale, overtaken, pins,
                     pendingDeletes, unlinking, generation, append, leases, recorded, horizon>>
      /\ maintenance.task = "rewriting" /\ f \in maintenance.todo
  BY DEF RetentionRewrites, swap, leasing
<1>2. /\ maintenance \in RewriteTasks /\ ~swapping
      /\ maintenance.leased \subseteq catalog.segments /\ LeasedByTask = maintenance.leased
      /\ Rewrites = maintenance.rewritten /\ Copied = {} /\ Replacements = NewFiles
      /\ \A w \in Rewrites : w.original \in maintenance.leased \ maintenance.todo /\ Faithful(w)
      /\ \A v, w \in Rewrites :
           v # w => /\ v.original # w.original
                    /\ v.replacement # w.replacement \/ v.replacement = 0
  BY <1>1, RewriteTask
<1>3. /\ maintenance.todo \subseteq maintenance.leased /\ f \in Known /\ f \in FileIds
      /\ f \in maintenance.leased /\ f \in catalog.segments
      /\ retained \subseteq content[f] /\ retained \in SUBSET Records
  <2>1. maintenance.todo \subseteq maintenance.leased /\ f \in maintenance.leased
    BY <1>1 DEF Rewriting
  <2>2. f \in Known
    BY <1>2, <2>1 DEF Known, Held
  <2> QED BY <1>1, <1>2, <2>1, <2>2 DEF Shape, Retained
<1>4. \/ /\ maintenance' = [maintenance EXCEPT !.todo = @ \ {f}]
         /\ UNCHANGED <<files, content, minted>>
      \/ /\ retained = {} /\ Rewritten(f, 0)
         /\ UNCHANGED <<files, content, minted>>
      \/ /\ PrepareSegment(retained) /\ Rewritten(f, minted')
  BY DEF RetentionRewrites
<1> HIDE DEF retained
<1>5. CASE UNCHANGED <<files, content, minted>>
           /\ \/ maintenance' = [maintenance EXCEPT !.todo = @ \ {f}]
              \/ retained = {} /\ Rewritten(f, 0)
  <2>1. PICK added : /\ added = {} \/ (retained = {} /\ added = {[original |-> f, replacement |-> 0]})
                     /\ maintenance' \in RewriteTasks /\ maintenance'.task = "rewriting"
                     /\ maintenance'.leased = maintenance.leased
                     /\ maintenance'.todo = maintenance.todo \ {f}
                     /\ maintenance'.rewritten = maintenance.rewritten \cup added
    <3>1. CASE maintenance' = [maintenance EXCEPT !.todo = @ \ {f}]
      <4>1. /\ maintenance' \in RewriteTasks /\ maintenance'.task = "rewriting"
            /\ maintenance'.leased = maintenance.leased
            /\ maintenance'.todo = maintenance.todo \ {f}
            /\ maintenance'.rewritten = maintenance.rewritten
        BY <1>2, <3>1 DEF RewriteTasks
      <4>2. maintenance'.rewritten = maintenance.rewritten \cup {}
        BY <4>1
      <4> WITNESS {}
      <4> QED BY <4>1, <4>2
    <3>2. CASE retained = {} /\ Rewritten(f, 0)
      BY <1>2, <1>3, <3>2, RewriteNoted
    <3> QED BY <1>5, <3>1, <3>2
  <2>2. /\ \A w \in added : w.original = f /\ w.replacement = 0 /\ Faithful(w)
        /\ \A v, w \in added : v = w
    BY <2>1 DEF Faithful, retained
  <2>3. /\ LeasedByTask' = LeasedByTask /\ Copied' = Copied /\ Rewrites' = Rewrites \cup added
        /\ Leased' = Leased
    BY <1>1, <1>2, <2>1 DEF LeasedByTask, Copied, Rewrites, Leased
  <2>4. NewFiles' = NewFiles
    BY <2>2, <2>3 DEF NewFiles
  <2>5. Held' = Held /\ Catalogs' = Catalogs
    BY <1>1, <2>3 DEF Held, Catalogs
  <2>6. Named' = Named /\ Known' = Known
    BY <1>1, <2>5 DEF Named, Known
  <2>7. Shape'
    BY <1>1, <1>5, <2>1 DEF Shape, AnyCatalog, Tasks
  <2>8. Counted'
    BY <1>1, <2>3, CountedKept
  <2>9. Fresh' /\ WriterAhead' /\ Sound' /\ Prepared' = Prepared
    BY <1>1, <1>5, <2>4, <2>5, <2>6, NothingWritten DEF Shape
  <2>10. Dir' = Dir
    BY <1>1, <1>5 DEF Dir
  <2>11. Present' /\ Apart' /\ Accounted' /\ Swapping'
    BY <1>1, <1>2, <1>5, <2>4, <2>5, <2>9, <2>10 DEF Present, Apart, Accounted, Swapping
  <2>12. \A w : Faithful(w)' <=> Faithful(w)
    BY <1>1, <1>5 DEF Faithful, Retained
  <2>13. Rewriting'
    <3>1. \A w \in maintenance'.rewritten :
            w.original \in maintenance'.leased \ maintenance'.todo /\ Faithful(w)'
      BY <1>2, <1>3, <2>1, <2>2, <2>12
    <3>2. \A v, w \in maintenance'.rewritten :
            v # w => /\ v.original # w.original
                     /\ v.replacement # w.replacement \/ v.replacement = 0
      BY <1>1, <1>2, <2>1, <2>2
    <3> QED BY <1>1, <1>2, <1>3, <2>1, <3>1, <3>2 DEF Rewriting
  <2>14. Copying' /\ RollingUp'
    BY <1>1, <2>1 DEF Copying, RollingUp
  <2> QED BY <2>7, <2>8, <2>9, <2>11, <2>13, <2>14
<1>6. CASE PrepareSegment(retained) /\ Rewritten(f, minted')
  <2> DEFINE added == [original |-> f, replacement |-> minted']
  <2>1. /\ minted' = minted + 1 /\ minted' \in FileIds /\ minted' \in 0 .. MaxFiles
        /\ minted' \notin Known \cup Prepared \cup NewFiles
        /\ Known \cup Prepared \cup NewFiles \subseteq 1 .. minted'
        /\ content' \in [FileIds -> SUBSET Records] /\ content'[minted'] = retained
        /\ \A h \in FileIds \ {minted'} : content'[h] = content[h]
        /\ \A h \in Known \cup Prepared \cup NewFiles : content'[h] = content[h]
        /\ files' = files \cup {minted'} /\ ~swapping
    <3> HIDE DEF IInv
    <3> QED BY <1>3, <1>6, NewFile DEF IInv
  <2>2. /\ maintenance' \in RewriteTasks /\ maintenance'.task = "rewriting"
        /\ maintenance'.leased = maintenance.leased
        /\ maintenance'.todo = maintenance.todo \ {f}
        /\ maintenance'.rewritten = maintenance.rewritten \cup {added}
    BY <1>2, <1>3, <1>6, <2>1, RewriteNoted
  <2>3. added.original = f /\ added.replacement = minted' /\ minted' # 0
    BY <2>1 DEF FileIds
  <2> HIDE DEF added
  <2>4. /\ LeasedByTask' = LeasedByTask /\ Copied' = Copied /\ Rewrites' = Rewrites \cup {added}
        /\ Leased' = Leased
    BY <1>1, <1>2, <2>2 DEF LeasedByTask, Copied, Rewrites, Leased
  <2>5. NewFiles' = NewFiles \cup {minted'}
    BY <2>3, <2>4 DEF NewFiles
  <2>6. Held' = Held /\ Catalogs' = Catalogs
    BY <1>1, <2>4 DEF Held, Catalogs
  <2>7. Named' = Named /\ Known' = Known /\ Prepared' = Prepared
    BY <1>1, <2>6 DEF Named, Known, Prepared
  <2>8. Shape'
    BY <1>1, <2>1, <2>2 DEF Shape, AnyCatalog, Tasks
  <2>9. Counted'
    BY <1>1, <2>4, CountedKept
  <2>10. Dir' = Dir \cup {minted'}
    BY <1>1, <2>1 DEF Dir
  <2>11. Present' /\ Apart' /\ Accounted' /\ Swapping'
    BY <1>1, <1>2, <2>1, <2>5, <2>6, <2>7, <2>10 DEF Present, Apart, Accounted, Swapping
  <2>12. Fresh'
    <3>1. minted' \in 1 .. minted'
      BY <2>1 DEF FileIds
    <3> QED BY <1>1, <2>1, <2>5, <2>7, <3>1 DEF Fresh
  <2>13. InFlight("writer")' = InFlight("writer")
    <3>1. append["writer"].step = "prepared" => append["writer"].file \in Prepared
      BY DEF Prepared, Appenders
    <3> QED BY <1>1, <2>1, <3>1 DEF InFlight
  <2>14. WriterAhead'
    <3>1. \A h \in FileIds : \A r \in content'[h] : IsRecorded(r)
      BY <1>3, <2>1 DEF WriterAhead
    <3>2. content'[minted'] \cap InFlight("writer") = {}
      BY <1>3, <2>1 DEF WriterAhead
    <3>3. \A r : IsRecorded(r)' <=> IsRecorded(r)
      BY <1>1 DEF IsRecorded
    <3> QED BY <2>1, <2>5, <2>7, <2>13, <3>1, <3>2, <3>3 DEF WriterAhead
  <2>15. Sound'
    <3> SUFFICES ASSUME NEW c \in Catalogs PROVE Once(c)' /\ Covered(c)'
      BY <2>6 DEF Sound
    <3>1. \A h \in c.segments : content'[h] = content[h]
      BY <2>1 DEF Known, Named
    <3> QED BY <1>1, <3>1, SoundKept
  <2>16. Rewriting'
    <3>1. \A w \in Rewrites :
            /\ content'[w.original] = content[w.original]
            /\ w.replacement # 0 => content'[w.replacement] = content[w.replacement]
      <4>1. \A w \in Rewrites : w.original \in Known
        BY <1>2 DEF Known, Held
      <4>2. \A w \in Rewrites : w.replacement # 0 => w.replacement \in NewFiles
        BY DEF NewFiles
      <4> QED BY <2>1, <4>1, <4>2
    <3>2. ASSUME NEW w \in Rewrites PROVE Faithful(w)'
      <4>1. Faithful(w)
        BY <1>2
      <4> QED BY <1>1, <3>1, <4>1 DEF Faithful, Retained
    <3>3. Retained(content[f])' = Retained(content[f])
      BY <1>1, <1>3, <2>1 DEF Retained
    <3>4. content'[added.replacement] = Retained(content[f])
      BY <2>1, <2>3 DEF retained
    <3>5. \A w \in Rewrites : w.original # f /\ w.replacement # minted'
      <4>1. \A w \in Rewrites : w.replacement # 0 => w.replacement \in NewFiles
        BY DEF NewFiles
      <4> QED BY <1>1, <1>2, <2>1, <2>3, <4>1
    <3>6. maintenance'.rewritten = Rewrites \cup {added}
      BY <1>2, <2>2
    <3>7. /\ maintenance'.todo \subseteq maintenance'.leased
          /\ maintenance'.leased \subseteq catalog'.segments /\ maintenance'.leased # {}
      BY <1>1, <1>2, <1>3, <2>2
    <3>8. \A w \in maintenance'.rewritten :
            w.original \in maintenance'.leased \ maintenance'.todo
      BY <1>2, <1>3, <2>2, <2>3, <3>6
    <3>9. \A v, w \in maintenance'.rewritten :
            v # w => /\ v.original # w.original
                     /\ v.replacement # w.replacement \/ v.replacement = 0
      BY <1>2, <2>3, <3>5, <3>6
    <3>10. \A w \in maintenance'.rewritten : Faithful(w)'
      <4> SUFFICES ASSUME NEW w \in maintenance'.rewritten PROVE Faithful(w)'
        OBVIOUS
      <4>1. CASE w \in Rewrites
        BY <3>2, <4>1
      <4>2. CASE w = added
        <5>1. content'[w.replacement] = Retained(content[w.original])'
          BY <2>3, <3>3, <3>4, <4>2
        <5> QED BY <2>3, <4>2, <5>1 DEF Faithful
      <4> QED BY <3>6, <4>1, <4>2
    <3> QED BY <3>7, <3>8, <3>9, <3>10 DEF Rewriting
  <2>17. Copying' /\ RollingUp'
    BY <1>1, <2>2 DEF Copying, RollingUp
  <2> QED BY <2>8, <2>9, <2>11, <2>12, <2>14, <2>15, <2>16, <2>17
<1> QED BY <1>4, <1>5, <1>6

-----------------------------------------------------------------------------
(* The roll-up. *)

RollupTasks == {"idle", "reading", "comparing", "appending", "waiting"}

(* Nothing of a roll-up is leased, copied or rewritten. *)
LEMMA RollupStep ==
  ASSUME IInv, maintenance.task \in RollupTasks, maintenance'.task \in RollupTasks,
         maintenance' \in Tasks,
         UNCHANGED <<files, content, minted, backup, swapping, aside, crossed, pins,
                     pendingDeletes, unlinking, generation, leases, recorded, horizon>>
  PROVE  /\ LeasedByTask' = LeasedByTask /\ Held' = Held /\ Dir' = Dir
         /\ NewFiles = {} /\ NewFiles' = {} /\ Catalogs' = {catalog'} \cup backup
         /\ Catalogs = {catalog} \cup backup
         /\ Counted' /\ Rewriting' /\ Copying' /\ Swapping'
<1> USE DEF IInv
<1>1. /\ LeasedByTask' = LeasedByTask /\ Copied' = {} /\ Copied = {} /\ Leased' = Leased
      /\ Rewrites = {} /\ Rewrites' = {}
  BY DEF LeasedByTask, Copied, Rewrites, RollupTasks, Leased
<1>2. Counted'
  BY <1>1, CountedKept
<1>3. Rewriting' /\ Copying' /\ Swapping'
  BY <1>1 DEF Rewriting, Copying, Swapping, RollupTasks, Held
<1> QED BY <1>1, <1>2, <1>3 DEF Held, Dir, NewFiles, Catalogs

(* A step that only moves the roll-up on. *)
LEMMA RollupMovesOn ==
  ASSUME IInv, maintenance.task \in RollupTasks, maintenance'.task \in RollupTasks,
         maintenance' \in Tasks,
         UNCHANGED <<disk, swapping, aside, crossed, overtaken, leasing, generation, append,
                     leases, recorded, horizon>>,
         stale' \in BOOLEAN
  PROVE  /\ Shape' /\ Counted' /\ Present' /\ Apart' /\ Fresh' /\ Accounted' /\ WriterAhead'
         /\ Sound' /\ Rewriting' /\ Copying' /\ Swapping'
         /\ InFlight("rollup")' = InFlight("rollup") /\ Visible' = Visible
<1> USE DEF IInv
<1>1. UNCHANGED <<catalog, files, content, minted, backup, swapping, aside, crossed,
                  overtaken, pins, pendingDeletes, unlinking, generation, append, leases,
                  recorded, horizon>>
  BY DEF disk, leasing
<1>2. /\ LeasedByTask' = LeasedByTask /\ Held' = Held /\ Dir' = Dir
      /\ NewFiles = {} /\ NewFiles' = {} /\ Catalogs' = {catalog'} \cup backup
      /\ Catalogs = {catalog} \cup backup
      /\ Counted' /\ Rewriting' /\ Copying' /\ Swapping'
  BY <1>1, RollupStep
<1>3. Catalogs' = Catalogs
  BY <1>1, <1>2
<1>4. Named' = Named /\ Known' = Known
  BY <1>1, <1>2, <1>3 DEF Named, Known
<1>5. /\ Fresh' /\ WriterAhead' /\ Sound' /\ Prepared' = Prepared
      /\ InFlight("rollup")' = InFlight("rollup")
  BY <1>1, <1>2, <1>3, <1>4, NothingWritten DEF Shape
<1>6. Shape'
  BY <1>1 DEF Shape
<1>7. Present' /\ Apart' /\ Accounted'
  BY <1>1, <1>2, <1>5 DEF Present, Apart, Accounted
<1> QED BY <1>1, <1>2, <1>5, <1>6, <1>7 DEF Visible

LEMMA RollupBeginsKeepsIInv ==
  ASSUME IInv, RollupBegins
  PROVE  IInv'
<1> USE DEF IInv
<1> DEFINE task == [task |-> "reading", from |-> catalog.checkpoint]
<1>1. /\ UNCHANGED <<disk, swapping, aside, crossed, overtaken, leasing, generation, append,
                     leases, recorded, horizon>>
      /\ maintenance = Idle /\ maintenance' = task /\ stale' = FALSE
  BY DEF RollupBegins
<1>2. task \in Tasks /\ task.task = "reading" /\ task.from = catalog.checkpoint
  BY DEF Shape, AnyCatalog, Tasks, ReadTasks
<1> HIDE DEF task
<1>3. Idle.task = "idle"
  BY DEF Idle
<1>4. /\ Shape' /\ Counted' /\ Present' /\ Apart' /\ Fresh' /\ Accounted' /\ WriterAhead'
      /\ Sound' /\ Rewriting' /\ Copying' /\ Swapping'
  BY <1>1, <1>2, <1>3, RollupMovesOn DEF RollupTasks
<1>5. RollingUp'
  BY <1>1, <1>2, <1>3 DEF RollingUp, disk
<1> QED BY <1>4, <1>5

LEMMA RollupReadsKeepsIInv ==
  ASSUME IInv, NEW through \in 0 .. Buckets, RollupReads(through)
  PROVE  IInv'
<1> USE DEF IInv
<1> DEFINE task == [task |-> "comparing", from |-> maintenance.from, through |-> through]
<1>1. /\ UNCHANGED <<disk, swap, leasing, generation, append, leases, recorded, horizon>>
      /\ maintenance.task = "reading" /\ maintenance' \in {Idle, task}
  BY DEF RollupReads
<1>2. maintenance \in ReadTasks
  BY <1>1 DEF Shape, Tasks, Idle, RewriteTasks, ReleaseTasks, CopyTasks, CompareTasks, AppendTasks
<1>3. task \in Tasks /\ task.task = "comparing" /\ task.from = maintenance.from
  BY <1>2 DEF Tasks, ReadTasks, CompareTasks
<1> HIDE DEF task
<1>4. Idle.task = "idle" /\ Idle \in Tasks
  BY DEF Idle, Tasks
<1>5. /\ Shape' /\ Counted' /\ Present' /\ Apart' /\ Fresh' /\ Accounted' /\ WriterAhead'
      /\ Sound' /\ Rewriting' /\ Copying' /\ Swapping'
  BY <1>1, <1>3, <1>4, RollupMovesOn DEF RollupTasks, swap, Shape
<1>6. RollingUp'
  BY <1>1, <1>3, <1>4 DEF RollingUp, disk, swap
<1> QED BY <1>5, <1>6

LEMMA RollupFailsKeepsIInv ==
  ASSUME IInv, RollupFails
  PROVE  IInv'
<1> USE DEF IInv
<1>1. /\ UNCHANGED <<disk, swap, leasing, generation, append, leases, recorded, horizon>>
      /\ maintenance.task \in {"reading", "comparing"} /\ maintenance' = Idle
  BY DEF RollupFails
<1>2. Idle.task = "idle" /\ Idle \in Tasks
  BY DEF Idle, Tasks
<1>3. /\ Shape' /\ Counted' /\ Present' /\ Apart' /\ Fresh' /\ Accounted' /\ WriterAhead'
      /\ Sound' /\ Rewriting' /\ Copying' /\ Swapping'
  BY <1>1, <1>2, RollupMovesOn DEF RollupTasks, swap, Shape
<1>4. RollingUp'
  BY <1>1, <1>2 DEF RollingUp
<1> QED BY <1>3, <1>4

LEMMA RollupComparesKeepsIInv ==
  ASSUME IInv, RollupCompares
  PROVE  IInv'
<1> USE DEF IInv
<1> DEFINE wanted == Targets(maintenance.from, maintenance.through)
           left == wanted \ Visible
           task == [task |-> "appending", through |-> maintenance.through, missing |-> left]
<1>1. /\ UNCHANGED <<disk, swap, leasing, generation, append, leases, recorded, horizon>>
      /\ maintenance.task = "comparing" /\ maintenance' = task
  BY DEF RollupCompares, Existing
<1>2. maintenance \in CompareTasks
  BY <1>1 DEF Shape, Tasks, Idle, RewriteTasks, ReleaseTasks, CopyTasks, ReadTasks, AppendTasks
<1>3. maintenance.from \in Nat /\ maintenance.through \in 0 .. Buckets
  BY <1>2 DEF CompareTasks
<1>4. wanted \subseteq Records /\ \A r \in wanted : r[1] = "rollup"
  <2> SUFFICES ASSUME NEW b \in maintenance.from + 1 .. maintenance.through
               PROVE  Rollup(b) \in Records /\ Rollup(b)[1] = "rollup"
    BY DEF Targets
  <2>1. b \in 1 .. Buckets
    BY <1>3, HistoryAssumption DEF Buckets
  <2> QED BY <2>1 DEF Records, Rollup
<1>5. stale \/ \A b \in (1 .. maintenance.through) \ overtaken : Rollup(b) \in Visible \cup left
  <2> SUFFICES ASSUME ~stale, NEW b \in (1 .. maintenance.through) \ overtaken
               PROVE  Rollup(b) \in Visible \cup wanted
    OBVIOUS
  <2>1. CASE b <= maintenance.from
    <3>1. b \in (1 .. catalog.checkpoint) \ overtaken
      BY <1>1, <1>3, <2>1 DEF RollingUp
    <3>2. PICK f \in catalog.segments : Rollup(b) \in content[f]
      BY <3>1 DEF Sound, Catalogs, Covered
    <3> QED BY <3>2 DEF Visible
  <2>2. CASE ~(b <= maintenance.from)
    <3>1. b \in maintenance.from + 1 .. maintenance.through
      BY <1>3, <2>2
    <3> QED BY <3>1 DEF Targets
  <2> QED BY <2>1, <2>2
<1>6. left \in SUBSET Records /\ left \cap Visible = {} /\ \A r \in left : r[1] = "rollup"
  BY <1>4
<1> HIDE DEF left, wanted
<1>7. task \in Tasks /\ task.task = "appending" /\ task.through = maintenance.through
      /\ task.missing = left
  BY <1>3, <1>6 DEF Tasks, AppendTasks
<1> HIDE DEF task
<1>8. /\ Shape' /\ Counted' /\ Present' /\ Apart' /\ Fresh' /\ Accounted' /\ WriterAhead'
      /\ Sound' /\ Rewriting' /\ Copying' /\ Swapping'
      /\ InFlight("rollup")' = InFlight("rollup") /\ Visible' = Visible
  BY <1>1, <1>7, RollupMovesOn DEF RollupTasks, swap, Shape
<1>9. append["rollup"] = NoAppend /\ InFlight("rollup") = {}
  BY <1>1 DEF RollingUp, InFlight, NoAppend
<1>10. RollingUp'
  BY <1>1, <1>5, <1>6, <1>7, <1>8, <1>9 DEF RollingUp, disk, swap
<1> QED BY <1>8, <1>10

LEMMA RollupAppendsKeepsIInv ==
  ASSUME IInv, RollupAppends
  PROVE  IInv'
<1> USE DEF IInv
<1>1. PICK r \in maintenance.missing :
        /\ Begin("rollup", {r})
        /\ overtaken' = IF stale THEN overtaken \cup {r[2]} ELSE overtaken
  BY DEF RollupAppends
<1> DEFINE begun == [step |-> "preparing", records |-> {r}, generation |-> generation]
<1>2. /\ UNCHANGED <<catalog, files, content, minted, backup, swapping, aside, crossed, stale,
                     pins, pendingDeletes, unlinking, generation, leases, recorded, horizon>>
      /\ maintenance.task = "appending" /\ maintenance' = [maintenance EXCEPT !.task = "waiting"]
      /\ append' = [append EXCEPT !["rollup"] = begun]
  BY <1>1 DEF RollupAppends, Begin, disk, leasing
<1>3. maintenance \in AppendTasks
  BY <1>2 DEF Shape, Tasks, Idle, RewriteTasks, ReleaseTasks, CopyTasks, ReadTasks, CompareTasks
<1>4. /\ maintenance' \in AppendTasks /\ maintenance'.task = "waiting"
      /\ maintenance'.through = maintenance.through /\ maintenance'.missing = maintenance.missing
  BY <1>2, <1>3 DEF AppendTasks
<1>5. {r} \in SUBSET Records
  BY <1>1, <1>3 DEF AppendTasks
<1>6. begun \in Appends /\ begun # NoAppend /\ begun.step = "preparing"
      /\ begun.records = {r} /\ begun.generation = generation
  BY <1>5 DEF Appends, NoAppend, Shape
<1> HIDE DEF begun
<1>7. append["rollup"] = NoAppend /\ NoAppend.step = "none" /\ overtaken \subseteq overtaken'
  BY <1>1, <1>2 DEF RollingUp, NoAppend
<1>8. append'["rollup"] = begun /\ append'["writer"] = append["writer"]
  BY <1>2 DEF Shape, Appenders
<1>9. /\ LeasedByTask' = LeasedByTask /\ Held' = Held /\ Dir' = Dir
      /\ NewFiles = {} /\ NewFiles' = {} /\ Catalogs' = {catalog'} \cup backup
      /\ Catalogs = {catalog} \cup backup
      /\ Counted' /\ Rewriting' /\ Copying' /\ Swapping'
  BY <1>2, <1>4, RollupStep DEF RollupTasks, Tasks
<1>10. Catalogs' = Catalogs
  BY <1>2, <1>9
<1>11. Named' = Named /\ Known' = Known
  BY <1>2, <1>9, <1>10 DEF Named, Known
<1>12. Prepared' = Prepared
  BY <1>6, <1>7, <1>8 DEF Prepared, Appenders
<1>13. Shape'
  BY <1>2, <1>4, <1>6 DEF Shape, AnyCatalog, Tasks, Appenders
<1>14. Present' /\ Apart' /\ Accounted'
  BY <1>2, <1>6, <1>8, <1>9, <1>12 DEF Present, Apart, Accounted, Appenders
<1>15. Fresh'
  BY <1>2, <1>6, <1>8, <1>9, <1>11, <1>12 DEF Fresh, Appenders, Shape
<1>16. InFlight("writer")' = InFlight("writer") /\ InFlight("rollup")' = {r}
  BY <1>2, <1>6, <1>8 DEF InFlight
<1>17. WriterAhead'
  BY <1>2, <1>9, <1>11, <1>16 DEF WriterAhead, IsRecorded
<1>18. Sound'
  BY <1>2, <1>7, <1>10, SoundKept DEF Sound
<1>19. Visible' = Visible
  BY <1>2 DEF Visible
<1>20. stale => {r} \subseteq Doubled'
  <2>1. r \in Records /\ r[1] = "rollup"
    BY <1>1, <1>2, <1>5 DEF RollingUp
  <2>2. r = Rollup(r[2])
    <3>1. CASE r \in {Frame(t) : t \in 1 .. LastFrame}
      BY <2>1, <3>1 DEF Frame
    <3>2. CASE r \in {Rollup(b) : b \in 1 .. Buckets}
      BY <3>2 DEF Rollup
    <3> QED BY <2>1, <3>1, <3>2 DEF Records
  <2> QED BY <1>1, <2>2 DEF Doubled
<1>21. RollingUp'
  BY <1>1, <1>2, <1>4, <1>6, <1>7, <1>8, <1>16, <1>19, <1>20 DEF RollingUp
<1> QED BY <1>9, <1>13, <1>14, <1>15, <1>17, <1>18, <1>21

LEMMA RollupMarksKeepsIInv ==
  ASSUME IInv, RollupMarks
  PROVE  IInv'
<1> USE DEF IInv
<1>1. /\ UNCHANGED <<files, content, minted, backup, swapping, aside, crossed, stale,
                     pins, pendingDeletes, unlinking, generation, append, leases, recorded,
                     horizon>>
      /\ maintenance.task = "appending" /\ maintenance.missing = {} /\ ~swapping
      /\ maintenance' = Idle
      /\ catalog' = catalog \/ catalog' = [catalog EXCEPT !.checkpoint = maintenance.through]
      /\ overtaken' = IF stale THEN overtaken \cup catalog.checkpoint + 1 .. maintenance.through
                      ELSE overtaken
  BY DEF RollupMarks, NothingMissing, leasing
<1>2. maintenance \in AppendTasks
  BY <1>1 DEF Shape, Tasks, Idle, RewriteTasks, ReleaseTasks, CopyTasks, ReadTasks, CompareTasks
<1>3. Idle.task = "idle" /\ Idle \in Tasks
  BY DEF Idle, Tasks
<1>4. /\ catalog' \in AnyCatalog /\ catalog'.segments = catalog.segments
      /\ catalog'.checkpoint \in {catalog.checkpoint, maintenance.through}
  BY <1>1, <1>2 DEF Shape, AnyCatalog, AppendTasks
<1>5. /\ LeasedByTask' = LeasedByTask /\ Held' = Held /\ Dir' = Dir
      /\ NewFiles = {} /\ NewFiles' = {} /\ Catalogs' = {catalog'} \cup backup
      /\ Catalogs = {catalog} \cup backup
      /\ Counted' /\ Rewriting' /\ Copying' /\ Swapping'
  BY <1>1, <1>3, RollupStep DEF RollupTasks
<1>6. Named' = Named
  BY <1>4, <1>5 DEF Named
<1>7. Known' = Known /\ Prepared' = Prepared
  BY <1>1, <1>5, <1>6 DEF Known, Prepared
<1>8. Shape'
  BY <1>1, <1>3, <1>4 DEF Shape
<1>9. Present' /\ Apart' /\ Accounted' /\ Fresh'
  BY <1>1, <1>4, <1>5, <1>7 DEF Present, Apart, Accounted, Fresh
<1>10. InFlight("writer")' = InFlight("writer")
  BY <1>1 DEF InFlight
<1>11. WriterAhead'
  BY <1>1, <1>5, <1>7, <1>10 DEF WriterAhead, IsRecorded
<1>12. Covered(catalog)'
  <2> SUFFICES ASSUME NEW b \in (1 .. catalog'.checkpoint) \ overtaken'
               PROVE  \E f \in catalog.segments : Rollup(b) \in content[f]
    BY <1>1, <1>4 DEF Covered
  <2>1. CASE b \in 1 .. catalog.checkpoint
    BY <1>1, <2>1 DEF Sound, Catalogs, Covered
  <2>2. CASE b \in 1 .. maintenance.through
    <3>1. CASE stale
      <4>1. catalog.checkpoint \in Nat /\ maintenance.through \in Nat
        BY <1>2 DEF Shape, AnyCatalog, AppendTasks
      <4>2. b \in 1 .. catalog.checkpoint
        BY <1>1, <2>2, <3>1, <4>1
      <4> QED BY <1>1, <4>2 DEF Sound, Catalogs, Covered
    <3>2. CASE ~stale
      <4>1. Rollup(b) \in Visible
        BY <1>1, <2>2, <3>2 DEF RollingUp
      <4> QED BY <4>1 DEF Visible
    <3> QED BY <3>1, <3>2
  <2> QED BY <1>4, <2>1, <2>2
<1>13. Once(catalog)'
  <2>1. Once(catalog)
    BY <1>5 DEF Sound
  <2> QED BY <1>1, <1>4, <2>1 DEF Once, Doubled
<1>14. Sound'
  <2>1. ASSUME NEW c \in backup PROVE Once(c)' /\ Covered(c)'
    BY <1>1, <2>1, SoundKept DEF Catalogs
  <2> QED BY <1>5, <1>12, <1>13, <2>1 DEF Sound
<1>15. RollingUp'
  BY <1>1, <1>3 DEF RollingUp
<1> QED BY <1>5, <1>8, <1>9, <1>11, <1>14, <1>15

-----------------------------------------------------------------------------
(* Restores and restarts. *)

LEMMA MovesAsideKeepsIInv ==
  ASSUME IInv, RestoreMovesAside
  PROVE  IInv'
<1> USE DEF IInv
<1>1. /\ UNCHANGED <<catalog, content, minted, backup, pins, pendingDeletes, unlinking, generation,
                     append, maintenance, leases, recorded, horizon, stale, overtaken>>
      /\ ~swapping /\ swapping' = TRUE /\ aside' = files /\ files' = {}
      /\ crossed' = crossed \cup unlinking
  BY DEF RestoreMovesAside, leasing
<1>2. Held = {}
  BY NobodyHolds DEF RestoreMovesAside
<1>3. /\ LeasedByTask' = LeasedByTask /\ Leased' = Leased /\ Held' = Held
      /\ Copied' = Copied /\ Catalogs' = Catalogs /\ Named' = Named /\ Known' = Known
      /\ Rewrites' = Rewrites /\ NewFiles' = NewFiles
  BY <1>1, KnownKept
<1>4. NewFiles = {}
  BY <1>2 DEF NewFiles, Rewrites, Held, LeasedByTask, Rewriting
<1>5. Dir' = Dir
  BY <1>1 DEF Dir
<1>6. Shape'
  BY <1>1 DEF Shape
<1>7. Counted'
  BY <1>1, <1>3, CountedKept
<1>8. Fresh' /\ WriterAhead' /\ Sound' /\ Prepared' = Prepared
  BY <1>1, <1>3, NothingWritten DEF Shape
<1>9. Present' /\ Apart' /\ Accounted' /\ Swapping'
  BY <1>1, <1>2, <1>3, <1>4, <1>5, <1>8 DEF Present, Apart, Accounted, Swapping
<1>10. Rewriting' /\ Copying' /\ RollingUp'
  BY <1>1, RewritingKept, RollingUpKept
<1> QED BY <1>6, <1>7, <1>8, <1>9, <1>10

LEMMA RollsBackKeepsIInv ==
  ASSUME IInv, RestoreRollsBack
  PROVE  IInv'
<1> USE DEF IInv
<1>1. /\ UNCHANGED <<catalog, content, minted, backup, pins, pendingDeletes, unlinking, generation,
                     append, maintenance, leases, recorded, horizon, crossed, stale, overtaken>>
      /\ swapping /\ swapping' = FALSE /\ files' = aside /\ aside' = {}
      /\ Held = {}
  BY DEF RestoreRollsBack, leasing, Swapping
<1>2. /\ LeasedByTask' = LeasedByTask /\ Leased' = Leased /\ Held' = Held
      /\ Copied' = Copied /\ Catalogs' = Catalogs /\ Named' = Named /\ Known' = Known
      /\ Rewrites' = Rewrites /\ NewFiles' = NewFiles
  BY <1>1, KnownKept
<1>3. NewFiles = {}
  BY <1>1 DEF NewFiles, Rewrites, Held, LeasedByTask, Rewriting
<1>4. Dir' = Dir
  BY <1>1 DEF Dir
<1>5. Shape'
  BY <1>1 DEF Shape
<1>6. Counted'
  BY <1>1, <1>2, CountedKept
<1>7. Fresh' /\ WriterAhead' /\ Sound' /\ Prepared' = Prepared
  BY <1>1, <1>2, NothingWritten DEF Shape
<1>8. Present' /\ Apart' /\ Accounted' /\ Swapping'
  BY <1>1, <1>2, <1>3, <1>4, <1>7 DEF Present, Apart, Accounted, Swapping
<1>9. Rewriting' /\ Copying' /\ RollingUp'
  BY <1>1, RewritingKept, RollingUpKept
<1> QED BY <1>5, <1>6, <1>7, <1>8, <1>9

LEMMA MovesInKeepsIInv ==
  ASSUME IInv, RestoreMovesIn
  PROVE  IInv'
<1> USE DEF IInv
<1>1. PICK manifest \in backup : files' = manifest.segments /\ catalog' = manifest
  BY DEF RestoreMovesIn
<1>2. /\ UNCHANGED <<content, minted, backup, pins, unlinking, append, maintenance, leases,
                     recorded, horizon, overtaken>>
      /\ swapping /\ swapping' = FALSE /\ aside' = {}
      /\ generation' = generation + 1 /\ pendingDeletes' = {}
      /\ Held = {} /\ crossed' = unlinking
      /\ stale' = (stale \/ maintenance.task \in RollupSteps)
  BY DEF RestoreMovesIn, Swapping
<1>3. generation' \in Nat /\ generation <= generation' /\ generation' # generation
  BY <1>2 DEF Shape
<1>4. manifest \in AnyCatalog /\ manifest.segments \subseteq FileIds
  BY DEF Shape, AnyCatalog
<1>5. /\ LeasedByTask = {} /\ LeasedByTask' = LeasedByTask /\ Held' = {}
      /\ Copied' = Copied /\ NewFiles = {} /\ NewFiles' = {} /\ maintenance.task # "rewriting"
  BY <1>2 DEF LeasedByTask, Leased, Held, Copied, NewFiles, Rewrites, Rewriting
<1>6. Catalogs' \subseteq Catalogs
  BY <1>1, <1>2, <1>5 DEF Catalogs
<1>7. Named' \subseteq Named
  BY <1>6 DEF Named
<1>8. Known' \subseteq Known
  BY <1>2, <1>5, <1>7 DEF Known
<1>9. Shape'
  BY <1>1, <1>2, <1>3, <1>4 DEF Shape
<1>10. Counted'
  BY <1>2, <1>5, CountedKept
<1>11. Fresh' /\ WriterAhead' /\ Sound' /\ Prepared' = Prepared
  BY <1>2, <1>3, <1>5, <1>6, <1>8, NothingWritten
<1>12. Dir' = manifest.segments
  BY <1>1, <1>2 DEF Dir
<1>13. Present'
  <2>1. ASSUME NEW a \in Appenders, append[a].step = "prepared" PROVE append[a].generation # generation'
    <3>1. append[a].generation \in Nat /\ append[a].generation <= generation
      BY <2>1 DEF Shape, Appends, NoAppend, Fresh
    <3> QED BY <1>2, <3>1 DEF Shape
  <2> QED BY <1>1, <1>2, <1>5, <1>12, <2>1 DEF Present
<1>14. Apart' /\ Accounted' /\ Swapping'
  BY <1>1, <1>2, <1>5, <1>12 DEF Apart, Accounted, Swapping
<1>15. Rewriting' /\ Copying' /\ RollingUp'
  <2>1. append["rollup"] # NoAppend => append["rollup"].generation # generation'
    <3>1. append["rollup"] # NoAppend =>
            append["rollup"].generation \in Nat /\ append["rollup"].generation <= generation
      BY DEF Shape, Appends, Appenders, Fresh
    <3> QED BY <1>2, <3>1 DEF Shape
  <2>2. maintenance.task \in RollupSteps => stale'
    BY <1>2
  <2>3. InFlight("rollup")' = InFlight("rollup")
    BY <1>2 DEF InFlight
  <2> QED BY <1>2, <1>5, <2>1, <2>2, <2>3 DEF Rewriting, Copying, RollingUp, RollupSteps
<1> QED BY <1>9, <1>10, <1>11, <1>13, <1>14, <1>15

(* Nobody holds anything in a process that has just begun. *)
JustBegun ==
  /\ pins = [f \in FileIds |-> 0] /\ leases = [r \in Readers |-> {}] /\ maintenance = Idle
  /\ append = [a \in Appenders |-> NoAppend] /\ pendingDeletes = {} /\ unlinking = {}
  /\ ~swapping /\ files = catalog.segments

NothingHeld ==
  /\ Counted /\ Present /\ Apart /\ Accounted /\ Rewriting /\ Copying /\ RollingUp /\ Swapping
  /\ Held = {} /\ Copied = {} /\ NewFiles = {} /\ Prepared = {}
  /\ InFlight("writer") = {} /\ Known = Named

LEMMA JustBegunHoldsNothing == JustBegun => NothingHeld
<1> SUFFICES ASSUME JustBegun PROVE NothingHeld
  OBVIOUS
<1> USE DEF JustBegun
<1>1. /\ Idle.task = "idle" /\ NoAppend.step = "none"
  BY DEF Idle, NoAppend
<1>2. /\ LeasedByTask = {} /\ Leased = {} /\ Held = {} /\ Copied = {} /\ NewFiles = {}
      /\ Prepared = {}
  BY <1>1 DEF LeasedByTask, Leased, Held, Copied, NewFiles, Rewrites, Prepared, Appenders
<1>3. Counted
  <2> SUFFICES ASSUME NEW f \in FileIds PROVE pins[f] = Holders(f)
    BY DEF Counted
  <2>1. Reading(f) = {} /\ OfTask(f) = 0
    BY <1>2 DEF Reading, OfTask
  <2> QED BY <2>1, ReadingIsFinite, FS_EmptySet
<1>4. \A a \in Appenders : append[a] = NoAppend
  OBVIOUS
<1>5. Present /\ Apart /\ Accounted
  BY <1>1, <1>2, <1>4 DEF Present, Apart, Accounted, Dir
<1>6. Rewriting /\ Copying /\ RollingUp /\ Swapping
  BY <1>1, <1>4 DEF Rewriting, Copying, RollingUp, Swapping, Appenders
<1> QED BY <1>1, <1>2, <1>3, <1>4, <1>5, <1>6 DEF NothingHeld, InFlight, Known, Appenders

LEMMA RestartedHoldsNothing == JustBegun' => NothingHeld'
BY JustBegunHoldsNothing, PTL

LEMMA NewCatalogIsSound ==
  NewCatalog \in AnyCatalog /\ NewCatalog.segments = {} /\ Once(NewCatalog) /\ Covered(NewCatalog)
BY DEF NewCatalog, AnyCatalog, Once, Covered

LEMMA RestartKeepsIInv ==
  ASSUME IInv, Restart
  PROVE  IInv'
<1> USE DEF IInv
<1>1. /\ UNCHANGED <<content, minted, backup, recorded, horizon>>
      /\ catalog' = (IF swapping THEN NewCatalog ELSE catalog)
      /\ files' = files \cap catalog'.segments
      /\ swapping' = FALSE /\ aside' = {} /\ generation' = 0
      /\ pins' = [f \in FileIds |-> 0] /\ leases' = [r \in Readers |-> {}]
      /\ append' = [a \in Appenders |-> NoAppend] /\ maintenance' = Idle
      /\ pendingDeletes' = {} /\ unlinking' = {}
      /\ stale' = FALSE /\ UNCHANGED overtaken
      /\ swapping \/ catalog.segments \subseteq files
  BY DEF Restart
<1>2. files' = catalog'.segments
  BY <1>1, NewCatalogIsSound
<1>3. NothingHeld'
  <2>1. JustBegun'
    BY <1>1, <1>2 DEF JustBegun
  <2> QED BY <2>1, RestartedHoldsNothing
<1>4. Catalogs' = {catalog'} \cup backup
  BY <1>1, <1>3 DEF Catalogs, NothingHeld
<1>5. Shape'
  BY <1>1, NewCatalogIsSound DEF Shape, Tasks, Appends
<1>6. Known' \subseteq Known
  <2>1. catalog'.segments \subseteq Named
    BY <1>1, NewCatalogIsSound DEF Named, Catalogs
  <2>2. Named' \subseteq Named
    BY <1>4, <2>1 DEF Named, Catalogs
  <2> QED BY <1>3, <2>2 DEF Known, NothingHeld
<1>7. Fresh'
  BY <1>1, <1>3, <1>6 DEF Fresh, NoAppend, NothingHeld
<1>8. WriterAhead'
  BY <1>1, <1>3 DEF WriterAhead, IsRecorded, NothingHeld
<1>9. Sound'
  <2>1. ASSUME NEW c \in {catalog} \cup backup PROVE Once(c)' /\ Covered(c)'
    BY <1>1, <2>1, SoundKept DEF Catalogs
  <2>2. ASSUME NEW c, c = NewCatalog PROVE Once(c)' /\ Covered(c)'
    BY <2>2 DEF NewCatalog, Once, Covered
  <2>3. ASSUME NEW c \in Catalogs' PROVE Once(c)' /\ Covered(c)'
    BY <1>1, <1>4, <2>1, <2>2, <2>3
  <2> QED BY <2>3 DEF Sound
<1> QED BY <1>3, <1>5, <1>7, <1>8, <1>9 DEF NothingHeld

LEMMA InitIInv ==
  ASSUME Init
  PROVE  IInv
<1>1. /\ catalog = NewCatalog /\ files = {} /\ minted = 0 /\ backup = {} /\ ~swapping
      /\ content = [f \in FileIds |-> {}] /\ aside = {} /\ swapping \in BOOLEAN
      /\ pins = [f \in FileIds |-> 0] /\ leases = [r \in Readers |-> {}]
      /\ append = [a \in Appenders |-> NoAppend] /\ maintenance = Idle
      /\ pendingDeletes = {} /\ unlinking = {}
      /\ stale \in BOOLEAN /\ generation = 0 /\ recorded = 0 /\ horizon = 0
  BY DEF Init
<1>2. NothingHeld
  BY <1>1, NewCatalogIsSound, JustBegunHoldsNothing DEF JustBegun
<1>3. Catalogs = {NewCatalog} /\ Named = {}
  BY <1>1, <1>2, NewCatalogIsSound DEF Catalogs, Named, NothingHeld
<1>4. Shape
  BY <1>1, NewCatalogIsSound, HistoryAssumption DEF Shape, Tasks, Appends
<1>5. Fresh /\ WriterAhead /\ Sound
  BY <1>1, <1>2, <1>3, NewCatalogIsSound
  DEF Fresh, WriterAhead, IsRecorded, Sound, NoAppend, NothingHeld
<1> QED BY <1>2, <1>4, <1>5 DEF IInv, NothingHeld

LEMMA StutterKeepsIInv ==
  ASSUME IInv, UNCHANGED vars
  PROVE  IInv'
<1> USE DEF IInv
<1>1. UNCHANGED <<catalog, files, content, minted, backup, swapping, aside, crossed, stale,
                  overtaken, pins, pendingDeletes, unlinking, generation, append, maintenance,
                  leases, recorded, horizon>>
  BY DEF vars, disk, swap, leasing
<1>2. /\ LeasedByTask' = LeasedByTask /\ Leased' = Leased /\ Held' = Held
      /\ Copied' = Copied /\ Catalogs' = Catalogs /\ Named' = Named /\ Known' = Known
      /\ Rewrites' = Rewrites /\ NewFiles' = NewFiles
  BY <1>1, KnownKept
<1>3. Shape' /\ Dir' = Dir
  BY <1>1 DEF Shape, Dir
<1>4. Counted'
  BY <1>1, <1>2, CountedKept
<1>5. Fresh' /\ WriterAhead' /\ Sound' /\ Prepared' = Prepared
  BY <1>1, <1>2, NothingWritten DEF Shape
<1>6. Present' /\ Apart' /\ Accounted' /\ Swapping'
  BY <1>1, <1>2, <1>3, <1>5 DEF Present, Apart, Accounted, Swapping
<1>7. Rewriting' /\ Copying' /\ RollingUp'
  BY <1>1, RewritingKept, RollingUpKept
<1> QED BY <1>3, <1>4, <1>5, <1>6, <1>7

LEMMA StepKeepsIInv ==
  ASSUME IInv, [Next]_vars
  PROVE  IInv'
<1>1. CASE UNCHANGED vars
  BY <1>1, StutterKeepsIInv
<1>2. ASSUME NEW n \in 1 .. LastFrame, WriterAppends(n) PROVE IInv'
  BY <1>2, WriterKeepsIInv
<1>3. ASSUME NEW a \in Appenders, WriteSegment(a) \/ CommitSegment(a) \/ AppendFails(a)
      PROVE  IInv'
  BY <1>3, WriteKeepsIInv, CommitKeepsIInv, AppendFailsKeepsIInv
<1>4. ASSUME NEW r \in Readers, QueryLeases(r) \/ QueryEnds(r) PROVE IInv'
  BY <1>4, QueryLeasesKeepsIInv, QueryEndsKeepsIInv
<1>5. ASSUME NEW f \in FileIds, Unlink(f) \/ RetentionRewrites(f) PROVE IInv'
  BY <1>5, UnlinkKeepsIInv, RetentionRewritesKeepsIInv
<1>6. ASSUME NEW now \in 0 .. LastFrame, RetentionLeases(now) PROVE IInv'
  BY <1>6, RetentionLeasesKeepsIInv
<1>7. CASE RetentionCommits \/ RetentionFails
  BY <1>7, RetentionCommitsKeepsIInv, RetentionFailsKeepsIInv
<1>8. CASE BackupLeases \/ BackupPublished \/ BackupFails \/ TaskReleases
  BY <1>8, BackupLeasesKeepsIInv, BackupEndsKeepsIInv, TaskReleasesKeepsIInv
<1>9. ASSUME NEW through \in 0 .. Buckets, RollupReads(through) PROVE IInv'
  BY <1>9, RollupReadsKeepsIInv
<1>10. CASE RollupBegins \/ RollupFails \/ RollupCompares \/ RollupAppends \/ RollupMarks
  BY <1>10, RollupBeginsKeepsIInv, RollupFailsKeepsIInv, RollupComparesKeepsIInv,
     RollupAppendsKeepsIInv, RollupMarksKeepsIInv
<1>11. CASE RestoreMovesAside \/ RestoreMovesIn \/ RestoreRollsBack \/ Restart
  BY <1>11, MovesAsideKeepsIInv, MovesInKeepsIInv, RollsBackKeepsIInv, RestartKeepsIInv
<1> QED BY <1>1, <1>2, <1>3, <1>4, <1>5, <1>6, <1>7, <1>8, <1>9, <1>10, <1>11 DEF Next

(* The catalog, the leases, the appends and the maintenance task agree     *)
(* about every file, whatever happens between any two of their steps.      *)
THEOREM StoreInvariant == Spec => []IInv
<1>1. Init => IInv
  BY InitIInv
<1>2. IInv /\ [Next]_vars => IInv'
  BY StepKeepsIInv
<1> QED BY <1>1, <1>2, PTL DEF Spec

(* initialize() never refuses the directory for a segment that is missing, *)
(* and a query, a retention pass and a backup find what they leased, but   *)
(* for files being deleted when a restore brought them back.               *)
THEOREM StoreKeepsItsSegments == Spec => []SegmentsPresent
<1>1. IInv => SegmentsPresent
  BY DEF IInv, Present, SegmentsPresent, Held, Leased, Dir
<1> QED BY <1>1, StoreInvariant, PTL

(* Rewrites, roll-ups repeated after a crash and restores leave no record  *)
(* in two active segments, but for buckets that a roll-up appended after a *)
(* restore had replaced what it had read.                                  *)
THEOREM StoreKeepsRecordsOnce == Spec => []StoredOnce
<1>1. IInv => StoredOnce
  BY DEF IInv, Sound, Catalogs, Once, StoredOnce, Doubled
<1> QED BY <1>1, StoreInvariant, PTL

(* server/storage/downsampleWorker.ts: the high-water mark "advances only  *)
(* after target frames are durable", in the store and in its backups, but  *)
(* for buckets a run appended or marked after a restore had replaced what  *)
(* it had read.                                                            *)
THEOREM StoreCoversItsCheckpoint == Spec => []CheckpointCovered
<1>1. IInv => CheckpointCovered
  BY DEF IInv, Sound, Catalogs, CheckpointCovered
<1> QED BY <1>1, StoreInvariant, PTL

(* A failed append, a failed retention pass, a backup or a query leaves no *)
(* segment file that nobody will commit or delete, but for one that was    *)
(* being deleted when a restore moved it aside and back.                   *)
THEOREM StoreAccountsForFiles == Spec => []FilesAccountedFor
<1>1. IInv => FilesAccountedFor
  <2> SUFFICES ASSUME IInv PROVE FilesAccountedFor
    OBVIOUS
  <2>1. NewFiles = IF maintenance.task = "rewriting" THEN Replacements ELSE {}
    BY DEF NewFiles, Rewrites, Replacements
  <2>2. files \subseteq Dir \/ swapping
    BY DEF Dir
  <2>3. CASE ~swapping
    BY <2>1, <2>2, <2>3 DEF IInv, Accounted, FilesAccountedFor
  <2>4. CASE swapping
    BY <2>4 DEF IInv, Swapping, FilesAccountedFor
  <2> QED BY <2>3, <2>4
<1> QED BY <1>1, StoreInvariant, PTL

-----------------------------------------------------------------------------
(* What a step takes out of the store. *)

ExpiredOnly == \A r \in Visible \ Visible' : r[1] = "frame" /\ r[2] <= horizon

LEMMA NothingRemoved ==
  ASSUME catalog.segments \subseteq catalog'.segments,
         \A f \in catalog.segments : content'[f] = content[f]
  PROVE  ExpiredOnly
BY DEF Visible, ExpiredOnly

LEMMA RetentionRemoves ==
  ASSUME IInv, RetentionCommits
  PROVE  ExpiredOnly
<1> USE DEF IInv
<1> SUFFICES ASSUME NEW r \in Visible \ Visible' PROVE r[1] = "frame" /\ r[2] <= horizon
  BY DEF ExpiredOnly
<1>1. /\ maintenance.task = "rewriting" /\ content' = content
      /\ catalog'.segments = (catalog.segments \ Originals) \cup Replacements
  BY DEF RetentionCommits, Shape, AnyCatalog, CatalogRewritten
<1>2. PICK f \in catalog.segments : r \in content[f]
  BY DEF Visible
<1>3. f \in Originals
  BY <1>1, <1>2 DEF Visible
<1>4. PICK w \in Rewrites : w.original = f
  BY <1>1, <1>3 DEF Originals, Rewrites
<1>5. Faithful(w)
  BY <1>1, <1>4, RewriteTask
<1>6. r \notin Retained(content[f])
  <2>1. CASE w.replacement = 0
    BY <1>4, <1>5, <2>1 DEF Faithful
  <2>2. CASE w.replacement # 0
    <3>1. w.replacement \in catalog'.segments
      BY <1>1, <1>4, <2>2 DEF Replacements, Rewrites
    <3>2. r \notin content[w.replacement]
      BY <1>1, <3>1 DEF Visible
    <3> QED BY <1>4, <1>5, <2>2, <3>2 DEF Faithful
  <2> QED BY <2>1, <2>2
<1>7. f \in FileIds /\ r \in Records /\ r[2] \in Nat /\ horizon \in Nat
  BY <1>2, KnownAreFiles DEF Shape, AnyCatalog
<1>8. r[1] \in {"frame", "rollup"}
  <2>1. CASE r \in {Frame(t) : t \in 1 .. LastFrame}
    BY <2>1 DEF Frame
  <2>2. CASE r \in {Rollup(b) : b \in 1 .. Buckets}
    BY <2>2 DEF Rollup
  <2> QED BY <1>7, <2>1, <2>2 DEF Records
<1>9. r[1] # "rollup" /\ ~(r[2] > horizon)
  BY <1>2, <1>6 DEF Retained
<1> QED BY <1>7, <1>8, <1>9

LEMMA StepRemoves ==
  ASSUME IInv, [Next]_vars, ~swapping
  PROVE  ExpiredOnly
<1>1. CASE UNCHANGED <<catalog, content>>
  BY <1>1, NothingRemoved
<1>2. ASSUME NEW records \in SUBSET Records, PrepareSegment(records), UNCHANGED catalog
      PROVE  ExpiredOnly
  <2>1. \A f \in Known \cup Prepared \cup NewFiles : content'[f] = content[f]
    BY <1>2, NewFile DEF IInv
  <2>2. catalog.segments \subseteq Known
    BY DEF Known, Named, Catalogs
  <2> QED BY <1>2, <2>1, <2>2, NothingRemoved
<1>3. ASSUME NEW a \in Appenders, WriteSegment(a) PROVE ExpiredOnly
  <2>1. append[a].records \in SUBSET Records
    BY <1>3 DEF WriteSegment, IInv, Shape, Appends, NoAppend
  <2> QED BY <1>2, <1>3, <2>1 DEF WriteSegment
<1>4. ASSUME NEW a \in Appenders, CommitSegment(a) PROVE ExpiredOnly
  <2>1. UNCHANGED content /\ catalog' = [catalog EXCEPT !.segments = @ \cup {append[a].file}]
    BY <1>4 DEF CommitSegment
  <2>2. catalog.segments \subseteq catalog'.segments
    BY <2>1 DEF IInv, Shape, AnyCatalog
  <2> QED BY <2>1, <2>2, NothingRemoved
<1>5. ASSUME NEW f \in FileIds, RetentionRewrites(f) PROVE ExpiredOnly
  <2>1. UNCHANGED catalog /\ (UNCHANGED content \/ PrepareSegment(Retained(content[f])))
    BY <1>5 DEF RetentionRewrites
  <2>2. Retained(content[f]) \in SUBSET Records
    BY DEF IInv, Shape, Retained
  <2> QED BY <1>1, <1>2, <2>1, <2>2
<1>6. CASE RollupMarks
  <2>1. /\ UNCHANGED content
        /\ catalog' = catalog \/ catalog' = [catalog EXCEPT !.checkpoint = maintenance.through]
    BY <1>6 DEF RollupMarks
  <2>2. catalog'.segments = catalog.segments
    BY <2>1 DEF IInv, Shape, AnyCatalog
  <2> QED BY <2>1, <2>2, NothingRemoved
<1>7. CASE Restart
  BY <1>1, <1>7 DEF Restart
<1>8. CASE RestoreMovesIn \/ RestoreRollsBack
  BY <1>8 DEF RestoreMovesIn, RestoreRollsBack
<1>9. ASSUME NEW n \in 1 .. LastFrame, WriterAppends(n) PROVE ExpiredOnly
  BY <1>1, <1>9 DEF WriterAppends, disk
<1>10. ASSUME NEW a \in Appenders, AppendFails(a) PROVE ExpiredOnly
  BY <1>1, <1>10 DEF AppendFails
<1>11. ASSUME NEW r \in Readers, QueryLeases(r) \/ QueryEnds(r) PROVE ExpiredOnly
  BY <1>1, <1>11 DEF QueryLeases, QueryEnds, disk
<1>12. ASSUME NEW f \in FileIds, Unlink(f) PROVE ExpiredOnly
  BY <1>1, <1>12 DEF Unlink
<1>13. ASSUME NEW now \in 0 .. LastFrame, RetentionLeases(now) PROVE ExpiredOnly
  BY <1>1, <1>13 DEF RetentionLeases, disk
<1>14. CASE RetentionFails \/ BackupLeases \/ BackupPublished \/ BackupFails \/ TaskReleases
  BY <1>1, <1>14 DEF RetentionFails, BackupLeases, BackupPublished, BackupFails, TaskReleases, disk
<1>15. ASSUME NEW through \in 0 .. Buckets, RollupReads(through) PROVE ExpiredOnly
  BY <1>1, <1>15 DEF RollupReads, disk
<1>16. CASE RollupBegins \/ RollupFails \/ RollupCompares \/ RollupAppends \/ RestoreMovesAside
  BY <1>1, <1>16 DEF RollupBegins, RollupFails, RollupCompares, RollupAppends,
                     RestoreMovesAside, disk
<1>17. CASE RetentionCommits
  BY <1>17, RetentionRemoves
<1>18. CASE UNCHANGED vars
  BY <1>1, <1>18 DEF vars, disk
<1> QED BY <1>3, <1>4, <1>5, <1>6, <1>7, <1>8, <1>9, <1>10, <1>11, <1>12, <1>13, <1>14, <1>15,
           <1>16, <1>17, <1>18 DEF Next

(* Concurrent ingestion survives a retention pass and every committed      *)
(* batch a crash: a record is lost to its retention or to a restore.       *)
THEOREM StoreLosesOnlyByPolicy == Spec => OnlyPolicyRemoves
<1>1. IInv /\ [Next]_vars => (swapping \/ ExpiredOnly)
  BY StepRemoves
<1>2. (swapping \/ ExpiredOnly) =>
        (swapping \/ \A r \in Visible \ Visible' : r[1] = "frame" /\ r[2] <= horizon)
  BY DEF ExpiredOnly
<1>3. IInv /\ [Next]_vars =>
        [swapping \/ \A r \in Visible \ Visible' : r[1] = "frame" /\ r[2] <= horizon]_vars
  BY <1>1, <1>2
<1> QED BY <1>3, StoreInvariant, PTL DEF Spec, OnlyPolicyRemoves

-----------------------------------------------------------------------------
(* Raw capture. *)

Lines == [line : Nat, upTo : Nat]
DataFiles == [lines : Seq(Nat), ended : BOOLEAN]
Manifests == [complete : BOOLEAN, contentSha256 : Seq(Nat), writtenRecords : Nat,
              sha256 : {NoDigest} \cup DataFiles]

(* The types, in three parts.                                              *)
ControlShape ==
  /\ id \in Captures /\ state \in {"open", "closing", "closed"}
  /\ accepting \in BOOLEAN /\ failed \in BOOLEAN /\ elapsed \in BOOLEAN
  /\ initialize \in {"none", "directory", "opening", "done", "failed"}
  /\ flush \in {"none", "starting", "ready", "draining"}
  /\ gzip \in {"none", "open", "ended", "destroyed"}
  /\ pipeline \in {"none", "running", "settled"}
  /\ finishing \in {"none", "flush", "pipeline", "hash", "manifest"}

DataShape ==
  /\ queue \in Seq(Lines) /\ lines \in Seq(Nat)
  /\ acceptedRecords \in Nat /\ droppedRecords \in Nat /\ rawBytes \in Nat

DiskShape ==
  /\ digest \in {NoDigest} \cup DataFiles
  /\ dataFiles \in [Captures -> {NoFile} \cup DataFiles]
  /\ manifests \in [Captures -> {NoManifest} \cup Manifests]
  /\ offered \in [Captures -> Nat] /\ faults \in Nat

CaptureShape == ControlShape /\ DataShape /\ DiskShape

(* What is written and what is queued are the accepted records, in order,  *)
(* and every record offered is one of them or dropped.                     *)
Numbered ==
  /\ lines = [n \in 1 .. Len(lines) |-> n]
  /\ \A i \in 1 .. Len(queue) : queue[i].line = Len(lines) + i
  /\ ~failed => acceptedRecords = Len(lines) + Len(queue)
  /\ Len(lines) + Len(queue) + droppedRecords = offered[id]

(* Bytes only grow along the queue, within every limit.                    *)
Budgeted ==
  /\ \A i \in 1 .. Len(queue) : rawBytes <= queue[i].upTo
  /\ \A i, j \in 1 .. Len(queue) : i < j => queue[i].upTo <= queue[j].upTo
  /\ Len(queue) <= QueueCapacity /\ QueuedBytes <= QueueByteCapacity
  /\ rawBytes + QueuedBytes <= MaxCaptureBytes

(* finish() has ended the stream: nothing is written any more. *)
Late == finishing \in {"pipeline", "hash", "manifest"} \/ state = "closed"

(* The file of every line that was written.                                *)
Whole == [lines |-> lines, ended |-> TRUE]

(* Where finish() stands, with what it has awaited: the file is whole once *)
(* the pipeline has settled without a failure.                             *)
Staged ==
  /\ (state = "closing") <=> (finishing # "none")
  /\ Late => flush = "none" /\ initialize \in {"done", "failed"}
  /\ finishing \in {"hash", "manifest"} \/ state = "closed" => pipeline # "running"
  /\ finishing \in {"hash", "manifest"} => initialize = "done"
  /\ initialize \in {"opening", "done"} => pipeline \in {"running", "settled"}
  /\ gzip = "ended" => Late
  /\ gzip = "destroyed" => failed
  /\ pipeline = "settled" => gzip \in {"ended", "destroyed"}
  /\ pipeline = "settled" /\ ~failed => dataFiles[id] \in {NoFile, Whole}
  /\ finishing = "manifest" /\ ~failed => digest = Whole

(* Captures to come have left nothing, and a manifest is the last word. *)
Historic ==
  /\ \A c \in Captures : c > id =>
       dataFiles[c] = NoFile /\ manifests[c] = NoManifest /\ offered[c] = 0
  /\ state # "closed" => manifests[id] = NoManifest
  /\ manifests[id] # NoManifest => initialize = "done"

(* A complete manifest tells what was offered, and of the file that is     *)
(* there unless retention took it.                                         *)
Truthful(c) ==
  manifests[c] # NoManifest /\ manifests[c].complete =>
    /\ manifests[c].sha256 = [lines |-> manifests[c].contentSha256, ended |-> TRUE]
    /\ manifests[c].contentSha256 = [n \in 1 .. offered[c] |-> n]
    /\ manifests[c].writtenRecords = offered[c]
    /\ dataFiles[c] \in {NoFile, manifests[c].sha256}

CaptureInv ==
  CaptureShape /\ Numbered /\ Budgeted /\ Staged /\ Historic /\ \A c \in Captures : Truthful(c)

LEMMA NoLines ==
  /\ Len(<<>>) = 0 /\ \A S : <<>> \in Seq(S)
  /\ <<>> = [n \in 1 .. 0 |-> n]
OBVIOUS

(* The options are numbers. *)
LEMMA Limits ==
  /\ QueueCapacity \in Nat /\ QueueByteCapacity \in Nat /\ MaxCaptureBytes \in Nat
  /\ MaxCaptures \in Nat /\ \A bytes \in Sizes : bytes \in Nat
BY RawCaptureAssumption

LEMMA QueuedLines ==
  ASSUME CaptureShape
  PROVE  /\ Len(queue) \in Nat /\ Len(lines) \in Nat /\ queue \in Seq(Lines)
         /\ \A i \in 1 .. Len(queue) : queue[i].line \in Nat /\ queue[i].upTo \in Nat
<1>1. Len(queue) \in Nat /\ Len(lines) \in Nat /\ queue \in Seq(Lines)
  BY DEF CaptureShape, DataShape
<1>2. \A i \in 1 .. Len(queue) : queue[i] \in Lines
  BY <1>1
<1>3. \A r \in Lines : r.line \in Nat /\ r.upTo \in Nat
  BY DEF Lines
<1> QED BY <1>1, <1>2, <1>3

(* Bytes are counted in the order of the queue. *)
LEMMA BytesGrow ==
  ASSUME CaptureShape, Budgeted, NEW n \in Nat, n <= Len(queue)
  PROVE  /\ BytesAfter(n) \in Nat /\ rawBytes \in Nat /\ rawBytes <= BytesAfter(n)
         /\ BytesAfter(Len(queue)) \in Nat /\ BytesAfter(n) <= BytesAfter(Len(queue))
         /\ rawBytes <= BytesAfter(Len(queue))
         /\ BytesAfter(Len(queue)) - rawBytes <= QueueByteCapacity
         /\ BytesAfter(Len(queue)) <= MaxCaptureBytes
<1>1. /\ Len(queue) \in Nat /\ rawBytes \in Nat
      /\ \A i \in 1 .. Len(queue) : queue[i].upTo \in Nat
  BY QueuedLines DEF CaptureShape, DataShape
<1>2. ASSUME NEW k \in Nat, k <= Len(queue)
      PROVE  BytesAfter(k) \in Nat /\ rawBytes <= BytesAfter(k)
  <2>1. k # 0 => k \in 1 .. Len(queue)
    BY <1>1, <1>2
  <2>2. k # 0 => queue[k].upTo \in Nat /\ rawBytes <= queue[k].upTo
    BY <1>1, <2>1 DEF Budgeted
  <2> QED BY <1>1, <2>2 DEF BytesAfter
<1>3. BytesAfter(n) <= BytesAfter(Len(queue))
  <2>1. CASE n = 0 \/ n = Len(queue)
    BY <1>1, <1>2, <2>1 DEF BytesAfter
  <2>2. CASE n # 0 /\ n < Len(queue)
    <3>1. n \in 1 .. Len(queue) /\ Len(queue) \in 1 .. Len(queue) /\ Len(queue) # 0
      BY <1>1, <2>2
    <3>2. queue[n].upTo <= queue[Len(queue)].upTo
      BY <2>2, <3>1 DEF Budgeted
    <3> QED BY <2>2, <3>1, <3>2 DEF BytesAfter
  <2> QED BY <1>1, <2>1, <2>2
<1>4. rawBytes + (BytesAfter(Len(queue)) - rawBytes) <= MaxCaptureBytes
      /\ BytesAfter(Len(queue)) - rawBytes <= QueueByteCapacity
  BY DEF Budgeted, QueuedBytes
<1>5. MaxCaptureBytes \in Nat
  BY Limits
<1> QED BY <1>1, <1>2, <1>3, <1>4, <1>5

(* markFailed() *)
LEMMA FailureKeeps ==
  ASSUME CaptureShape, Numbered, Budgeted, MarkFailed(0), UNCHANGED <<lines, rawBytes, offered>>
  PROVE  /\ failed' = TRUE /\ accepting' = FALSE /\ queue' = <<>> /\ queue' \in Seq(Lines)
         /\ droppedRecords' \in Nat
         /\ UNCHANGED <<id, state, elapsed, acceptedRecords>>
         /\ Numbered' /\ Budgeted'
<1>1. /\ failed' = TRUE /\ accepting' = FALSE /\ queue' = <<>> /\ queue' \in Seq(Lines)
      /\ droppedRecords' = droppedRecords + Len(queue) /\ droppedRecords' \in Nat
      /\ UNCHANGED <<id, state, elapsed, acceptedRecords>>
      /\ Len(queue') = 0
  BY NoLines DEF CaptureShape, DataShape, MarkFailed
<1>2. Numbered'
  BY <1>1 DEF CaptureShape, DataShape, Numbered
<1>3. BytesAfter(Len(queue))' = rawBytes
  BY <1>1 DEF BytesAfter
<1>4. QueuedBytes' = 0
  BY <1>3 DEF QueuedBytes, CaptureShape, DataShape
<1>5. rawBytes + QueuedBytes <= MaxCaptureBytes /\ QueuedBytes \in Nat
  <2>1. Len(queue) \in Nat
    BY QueuedLines
  <2> QED BY <2>1, BytesGrow DEF QueuedBytes
<1>6. Budgeted'
  BY <1>1, <1>4, <1>5, RawCaptureAssumption DEF CaptureShape, DataShape, Budgeted
<1> QED BY <1>1, <1>2, <1>6

(* Lines that gzip takes. *)
LEMMA WriteKeeps ==
  ASSUME CaptureShape, Numbered, Budgeted, NEW n \in Nat, n <= Len(queue), Write(n)
  PROVE  /\ lines' \in Seq(Nat) /\ Len(lines') = Len(lines) + n
         /\ lines' = [k \in 1 .. Len(lines') |-> k]
         /\ rawBytes' = BytesAfter(n) /\ rawBytes' \in Nat
         /\ BytesAfter(n) <= BytesAfter(Len(queue)) /\ rawBytes <= BytesAfter(n)
         /\ BytesAfter(Len(queue)) \in Nat
         /\ BytesAfter(Len(queue)) <= MaxCaptureBytes
<1> DEFINE part == [i \in 1 .. n |-> queue[i].line]
<1>1. /\ n \in Nat /\ Len(queue) \in Nat /\ Len(lines) \in Nat
      /\ \A i \in 1 .. Len(queue) :
           queue[i].line \in Nat /\ queue[i].line = Len(lines) + i
  BY QueuedLines DEF Numbered
<1>2. part \in Seq(Nat) /\ Len(part) = n /\ \A i \in 1 .. n : part[i] = Len(lines) + i
  BY <1>1
<1>3. lines' = lines \o part
  BY DEF Write
<1>4. lines' \in Seq(Nat) /\ Len(lines') = Len(lines) + n
  BY <1>2, <1>3 DEF CaptureShape, DataShape
<1>5. lines' = [k \in 1 .. Len(lines') |-> k]
  <2> HIDE DEF part
  <2>1. \A k \in 1 .. Len(lines) : lines[k] = k
    BY DEF Numbered
  <2>2. lines \in Seq(Nat)
    BY DEF CaptureShape, DataShape
  <2>3. ASSUME NEW k \in 1 .. Len(lines) + n PROVE lines'[k] = k
    <3>1. CASE k <= Len(lines)
      BY <1>1, <1>2, <1>3, <2>1, <2>2, <3>1
    <3>2. CASE k > Len(lines)
      <4>1. k - Len(lines) \in 1 .. n
        BY <1>1, <2>3, <3>2
      <4>2. lines'[k] = part[k - Len(lines)]
        BY <1>1, <1>2, <1>3, <2>2, <3>2, <4>1
      <4> QED BY <1>1, <1>2, <4>1, <4>2
    <3> QED BY <1>1, <3>1, <3>2
  <2> QED BY <1>4, <2>3
<1>6. rawBytes' = BytesAfter(n)
  BY DEF Write
<1>7. BytesAfter(n) \in Nat
  BY BytesGrow
<1> QED BY <1>4, <1>5, <1>6, <1>7, BytesGrow

(* The flush that follows: what it wrote is off the queue. *)
LEMMA FlushKeeps ==
  ASSUME CaptureShape, Numbered, Budgeted, NEW n \in Nat, n <= Len(queue), Write(n),
         queue' = SubSeq(queue, n + 1, Len(queue)),
         UNCHANGED <<id, failed, acceptedRecords, droppedRecords, offered>>
  PROVE  queue' \in Seq(Lines) /\ Numbered' /\ Budgeted'
<1>1. /\ n \in Nat /\ Len(queue) \in Nat /\ Len(lines) \in Nat /\ rawBytes \in Nat
      /\ queue \in Seq(Lines)
      /\ \A i \in 1 .. Len(queue) : queue[i].line = Len(lines) + i /\ queue[i].upTo \in Nat
  BY QueuedLines, BytesGrow DEF Numbered
<1>2. /\ queue' \in Seq(Lines) /\ Len(queue') = Len(queue) - n
      /\ \A i \in 1 .. Len(queue) - n : n + i \in 1 .. Len(queue) /\ queue'[i] = queue[n + i]
  BY <1>1
<1>3. /\ lines' \in Seq(Nat) /\ Len(lines') = Len(lines) + n
      /\ lines' = [k \in 1 .. Len(lines') |-> k]
      /\ rawBytes' = BytesAfter(n) /\ rawBytes' \in Nat
      /\ BytesAfter(n) <= BytesAfter(Len(queue)) /\ rawBytes <= BytesAfter(n)
      /\ BytesAfter(Len(queue)) \in Nat
      /\ BytesAfter(Len(queue)) <= MaxCaptureBytes
  BY WriteKeeps
<1>4. Numbered'
  <2>1. \A i \in 1 .. Len(queue)' : queue'[i].line = Len(lines') + i
    BY <1>1, <1>2, <1>3
  <2>2. acceptedRecords \in Nat /\ droppedRecords \in Nat
    BY DEF CaptureShape, DataShape
  <2>3. Len(lines') + Len(queue') = Len(lines) + Len(queue)
    <3>1. Len(lines') = Len(lines) + n /\ Len(queue') = Len(queue) - n
      BY <1>2, <1>3
    <3>2. n \in Nat /\ Len(queue) \in Nat /\ Len(lines) \in Nat
      BY <1>1
    <3>3. (Len(lines) + n) + (Len(queue) - n) = Len(lines) + Len(queue)
      BY <3>2
    <3> QED BY <3>1, <3>3
  <2>4. /\ ~failed' => acceptedRecords' = Len(lines') + Len(queue')
        /\ Len(lines') + Len(queue') + droppedRecords' = offered'[id']
    BY <2>3 DEF Numbered
  <2> QED BY <1>3, <2>1, <2>4 DEF Numbered
<1>5. BytesAfter(Len(queue))' = BytesAfter(Len(queue))
  <2>1. CASE n = Len(queue)
    BY <1>1, <1>2, <1>3, <2>1 DEF BytesAfter
  <2>2. CASE n < Len(queue)
    <3>1. /\ Len(queue') # 0 /\ Len(queue') \in 1 .. Len(queue) - n
          /\ n + Len(queue') = Len(queue) /\ Len(queue) # 0
      BY <1>1, <1>2, <2>2
    <3>2. queue'[Len(queue')] = queue[n + Len(queue')]
      BY <1>2, <3>1
    <3>3. BytesAfter(Len(queue)) = queue[Len(queue)].upTo
      BY <3>1 DEF BytesAfter
    <3>4. BytesAfter(Len(queue))' = queue'[Len(queue')].upTo
      BY <3>1 DEF BytesAfter
    <3> QED BY <3>1, <3>2, <3>3, <3>4
  <2> QED BY <1>1, <2>1, <2>2
<1>6. Len(queue) <= QueueCapacity /\ BytesAfter(Len(queue)) - rawBytes <= QueueByteCapacity
  BY DEF Budgeted, QueuedBytes
<1>7. Budgeted'
  <2>1. QueuedBytes' = BytesAfter(Len(queue)) - rawBytes'
    BY <1>5 DEF QueuedBytes
  <2>2. /\ QueuedBytes' <= QueueByteCapacity /\ rawBytes' + QueuedBytes' <= MaxCaptureBytes
        /\ Len(queue') <= QueueCapacity
    <3>1. Len(queue') <= Len(queue) /\ Len(queue') \in Nat /\ Len(queue) \in Nat
      BY <1>1, <1>2
    <3>2. /\ rawBytes \in Nat /\ rawBytes' \in Nat /\ rawBytes <= rawBytes'
          /\ BytesAfter(Len(queue)) \in Nat /\ BytesAfter(Len(queue)) <= MaxCaptureBytes
      BY <1>1, <1>3
    <3> QED BY <1>6, <2>1, <3>1, <3>2, Limits
  <2>3. \A i, j \in 1 .. Len(queue)' : i < j => queue'[i].upTo <= queue'[j].upTo
    <3> SUFFICES ASSUME NEW i \in 1 .. Len(queue'), NEW j \in 1 .. Len(queue'), i < j
                 PROVE  queue'[i].upTo <= queue'[j].upTo
      OBVIOUS
    <3>1. /\ n + i \in 1 .. Len(queue) /\ n + j \in 1 .. Len(queue) /\ n + i < n + j
          /\ queue'[i] = queue[n + i] /\ queue'[j] = queue[n + j]
      BY <1>1, <1>2
    <3> QED BY <3>1 DEF Budgeted
  <2>4. ASSUME NEW i \in 1 .. Len(queue)' PROVE rawBytes' <= queue'[i].upTo
    <3>1. n + i \in 1 .. Len(queue) /\ queue'[i] = queue[n + i] /\ n < n + i /\ i \in Nat
      BY <1>1, <1>2
    <3>2. CASE n = 0
      BY <1>3, <3>1, <3>2 DEF BytesAfter, Budgeted
    <3>3. CASE n # 0
      <4>1. n \in 1 .. Len(queue)
        BY <1>1, <3>3
      <4> QED BY <1>3, <3>1, <3>3, <4>1 DEF BytesAfter, Budgeted
    <3> QED BY <3>2, <3>3
  <2> QED BY <2>2, <2>3, <2>4 DEF Budgeted
<1> QED BY <1>2, <1>4, <1>7

(* The file of a capture that was not finished. *)
LEMMA Truncated ==
  ASSUME CaptureShape PROVE TruncatedFiles \subseteq {NoFile} \cup DataFiles
<1>1. \A n \in 0 .. Len(lines) : SubSeq(lines, 1, n) \in Seq(Nat)
  BY DEF CaptureShape, DataShape
<1>2. \A s \in Seq(Nat) : [lines |-> s, ended |-> FALSE] \in DataFiles
  BY DEF DataFiles
<1> QED BY <1>1, <1>2 DEF TruncatedFiles

(* One lemma for every callback: it keeps the invariant. *)
LEMMA KeepsRecord ==
  ASSUME CaptureInv, NEW bytes \in Sizes, NEW valid \in BOOLEAN, Record(bytes, valid)
  PROVE  CaptureInv'
<1>0. /\ state = "open" /\ UNCHANGED <<id, lines, rawBytes, digest, dataFiles, manifests, faults>>
      /\ offered' \in [Captures -> Nat] /\ offered'[id] = offered[id] + 1
      /\ \A c \in Captures : c # id => offered'[c] = offered[c]
      /\ manifests[id] = NoManifest /\ id \in Captures /\ finishing = "none" /\ ~Late
  <2>1. /\ state = "open" /\ UNCHANGED <<lines, rawBytes, digest, dataFiles, manifests, faults>>
        /\ offered' = [offered EXCEPT ![id] = @ + 1]
    BY DEF Record, output, directory
  <2>2. id' = id
    BY DEF Record, Refuse, ReachCaptureLimit, Accept, control
  <2> QED BY <2>1, <2>2 DEF CaptureInv, CaptureShape, ControlShape, DiskShape, Staged, Historic,
                            Late
<1>1. \/ Refuse \/ ReachCaptureLimit
      \/ ~failed /\ ~OverBudget(bytes) /\ ~QueueFull(bytes) /\ Accept(bytes)
  BY DEF Record, CaptureInv
<1>2. /\ bytes \in Nat /\ Len(queue) \in Nat /\ Len(lines) \in Nat /\ rawBytes \in Nat
      /\ queue \in Seq(Lines)
      /\ BytesAfter(Len(queue)) \in Nat /\ rawBytes <= BytesAfter(Len(queue))
      /\ acceptedRecords \in Nat /\ droppedRecords \in Nat /\ offered[id] \in Nat
  <2>1. bytes \in Nat
    BY RawCaptureAssumption
  <2>2. Len(queue) \in Nat /\ Len(lines) \in Nat /\ queue \in Seq(Lines)
    BY QueuedLines DEF CaptureInv
  <2> QED BY <2>1, <2>2, BytesGrow DEF CaptureInv, CaptureShape, ControlShape, DataShape,
                                       DiskShape
<1>3. \A c \in Captures : Truthful(c)'
  BY <1>0 DEF CaptureInv, Truthful
<1>4. ASSUME Refuse \/ ReachCaptureLimit
      PROVE  CaptureShape' /\ Numbered' /\ Budgeted' /\ Staged' /\ Historic'
  <2>1. /\ droppedRecords' = droppedRecords + 1
        /\ UNCHANGED <<queue, acceptedRecords, failed, elapsed, gzip, pipeline>>
        /\ \/ UNCHANGED <<state, finishing, initialize, flush, accepting>>
           \/ /\ state' = "closing" /\ finishing' = "flush" /\ accepting' = FALSE
              /\ \/ UNCHANGED <<initialize, flush>>
                 \/ /\ flush' \in {flush, "starting"} /\ initialize' \in {initialize, "directory"}
                    /\ initialize' # initialize => initialize = "none"
    BY <1>4 DEF Refuse, ReachCaptureLimit, Close, ScheduleFlush, control, stream
  <2>2. CaptureShape'
    <3>1. ControlShape'
      BY <1>0, <1>2, <2>1 DEF CaptureInv, CaptureShape, ControlShape
    <3>2. DataShape'
      BY <1>0, <1>2, <2>1 DEF CaptureInv, CaptureShape, DataShape
    <3>3. DiskShape'
      BY <1>0, <1>2, <2>1 DEF CaptureInv, CaptureShape, DiskShape
    <3> QED BY <3>1, <3>2, <3>3 DEF CaptureShape
  <2>3. Numbered'
    BY <1>0, <1>2, <2>1 DEF CaptureInv, Numbered
  <2>4. Budgeted'
    BY <1>0, <2>1 DEF CaptureInv, Budgeted, QueuedBytes, BytesAfter
  <2>5. Staged'
    BY <1>0, <2>1 DEF CaptureInv, Staged, Late
  <2>6. Historic'
    BY <1>0, <2>1 DEF CaptureInv, Historic, Captures
  <2> QED BY <2>2, <2>3, <2>4, <2>5, <2>6
<1>5. ASSUME ~failed, ~OverBudget(bytes), ~QueueFull(bytes), Accept(bytes)
      PROVE  CaptureShape' /\ Numbered' /\ Budgeted' /\ Staged' /\ Historic'
  <2> DEFINE new == [line |-> acceptedRecords + 1, upTo |-> rawBytes + QueuedBytes + bytes]
  <2>0. rawBytes + QueuedBytes = BytesAfter(Len(queue)) /\ new.upTo = BytesAfter(Len(queue)) + bytes
        /\ new.line = acceptedRecords + 1 /\ new \in Lines
    BY <1>2 DEF QueuedBytes, Lines
  <2>1. /\ queue' = Append(queue, new) /\ acceptedRecords' = acceptedRecords + 1
        /\ UNCHANGED <<state, failed, accepting, elapsed, droppedRecords, finishing, gzip,
                 pipeline>>
        /\ flush' \in {flush, "starting"} /\ initialize' \in {initialize, "directory"}
        /\ initialize' # initialize => initialize = "none"
    BY <1>5 DEF Accept, ScheduleFlush, control
  <2> HIDE DEF new
  <2>2. /\ queue' \in Seq(Lines) /\ Len(queue') = Len(queue) + 1
        /\ queue'[Len(queue) + 1] = new
        /\ \A i \in 1 .. Len(queue) : queue'[i] = queue[i]
    BY <1>2, <2>0, <2>1
  <2>3. CaptureShape'
    <3>1. ControlShape'
      BY <1>0, <1>2, <2>1, <2>2 DEF CaptureInv, CaptureShape, ControlShape
    <3>2. DataShape'
      BY <1>0, <1>2, <2>1, <2>2 DEF CaptureInv, CaptureShape, DataShape
    <3>3. DiskShape'
      BY <1>0, <1>2, <2>1, <2>2 DEF CaptureInv, CaptureShape, DiskShape
    <3> QED BY <3>1, <3>2, <3>3 DEF CaptureShape
  <2>4. Numbered'
    <3>1. acceptedRecords = Len(lines) + Len(queue)
      BY <1>5 DEF CaptureInv, Numbered
    <3>2. \A i \in 1 .. Len(queue)' : queue'[i].line = Len(lines) + i
      <4>1. \A i \in 1 .. Len(queue) : queue'[i].line = Len(lines) + i
        BY <1>2, <2>2 DEF CaptureInv, Numbered
      <4>2. queue'[Len(queue) + 1].line = Len(lines) + (Len(queue) + 1)
        BY <1>2, <2>0, <2>2, <3>1
      <4>3. \A i \in 1 .. Len(queue)' : i \in 1 .. Len(queue) \/ i = Len(queue) + 1
        BY <1>2, <2>2
      <4> QED BY <4>1, <4>2, <4>3
    <3> QED BY <1>0, <1>2, <1>5, <2>1, <2>2, <3>1, <3>2 DEF CaptureInv, Numbered
  <2>5. Budgeted'
    <3>1. BytesAfter(Len(queue))' = BytesAfter(Len(queue)) + bytes
      BY <1>2, <2>0, <2>2 DEF BytesAfter
    <3>2. QueuedBytes' = QueuedBytes + bytes /\ QueuedBytes \in Nat
      BY <1>0, <1>2, <3>1 DEF QueuedBytes
    <3>3. /\ rawBytes + QueuedBytes + bytes <= MaxCaptureBytes
          /\ Len(queue) < QueueCapacity /\ QueuedBytes + bytes <= QueueByteCapacity
      BY <1>2, <1>5, <3>2, RawCaptureAssumption DEF OverBudget, QueueFull
    <3>4. ASSUME NEW i \in 1 .. Len(queue)
          PROVE  /\ i \in 1 .. Len(queue) /\ queue[i].upTo \in Nat /\ rawBytes <= queue[i].upTo
                 /\ queue[i].upTo <= BytesAfter(Len(queue))
      <4>1. Len(queue) \in 1 .. Len(queue) /\ Len(queue) # 0 /\ queue[i].upTo \in Nat
            /\ queue[Len(queue)].upTo \in Nat
        BY <1>2, QueuedLines DEF CaptureInv
      <4>2. i = Len(queue) \/ i < Len(queue)
        BY <1>2, <4>1
      <4>3. rawBytes <= queue[i].upTo /\ queue[i].upTo <= queue[Len(queue)].upTo
        BY <4>1, <4>2 DEF CaptureInv, Budgeted
      <4> QED BY <4>1, <4>3 DEF BytesAfter
    <3>5. \A i \in 1 .. Len(queue)' : i \in 1 .. Len(queue) \/ i = Len(queue) + 1
      BY <1>2, <2>2
    <3>6. \A i \in 1 .. Len(queue)' : rawBytes <= queue'[i].upTo
      BY <1>2, <2>0, <2>2, <3>4, <3>5
    <3>7. ASSUME NEW i \in 1 .. Len(queue)', NEW j \in 1 .. Len(queue)', i < j
          PROVE  queue'[i].upTo <= queue'[j].upTo
      <4>1. i \in 1 .. Len(queue)
        BY <1>2, <2>2, <3>7
      <4>2. CASE j \in 1 .. Len(queue)
        BY <1>2, <2>2, <3>7, <4>1, <4>2 DEF CaptureInv, Budgeted
      <4>3. CASE j = Len(queue) + 1
        BY <1>2, <2>0, <2>2, <3>4, <4>1, <4>3
      <4> QED BY <3>5, <4>2, <4>3
    <3> QED BY <1>0, <1>2, <2>2, <3>2, <3>3, <3>6, <3>7, RawCaptureAssumption DEF Budgeted
  <2>6. Staged'
    BY <1>0, <2>1 DEF CaptureInv, Staged, Late
  <2>7. Historic'
    BY <1>0, <2>1 DEF CaptureInv, Historic
  <2> QED BY <2>3, <2>4, <2>5, <2>6, <2>7
<1> QED BY <1>1, <1>3, <1>4, <1>5 DEF CaptureInv

LEMMA KeepsShutdown ==
  ASSUME CaptureInv, Shutdown
  PROVE  CaptureInv'
<1>1. CaptureShape'
  <2>1. ControlShape'
    BY DEF CaptureInv, CaptureShape, ControlShape, Shutdown, Close, ScheduleFlush, stream
  <2>2. DataShape'
    BY DEF CaptureInv, CaptureShape, DataShape, Shutdown, Close, ScheduleFlush, counters, output
  <2>3. DiskShape'
    BY DEF CaptureInv, CaptureShape, DiskShape, Shutdown, Close, ScheduleFlush, directory
  <2> QED BY <2>1, <2>2, <2>3 DEF CaptureShape
<1>2. Numbered'
  BY DEF CaptureInv, Numbered, Shutdown, Close, ScheduleFlush, counters, output
<1>3. Budgeted'
  BY DEF CaptureInv, Budgeted, QueuedBytes, BytesAfter, Shutdown, Close, ScheduleFlush, output
<1>4. Staged'
  BY DEF CaptureInv, Staged, Late, Shutdown, Close, ScheduleFlush, stream
<1>5. Historic'
  BY DEF CaptureInv, Historic, Shutdown, Close, ScheduleFlush, directory
<1>6. \A c \in Captures : Truthful(c)'
  BY DEF CaptureInv, Truthful, Shutdown, Close, ScheduleFlush, directory
<1> QED BY <1>1, <1>2, <1>3, <1>4, <1>5, <1>6 DEF CaptureInv

LEMMA KeepsTimePasses ==
  ASSUME CaptureInv, TimePasses
  PROVE  CaptureInv'
<1>1. CaptureShape'
  <2>1. ControlShape'
    BY DEF CaptureInv, CaptureShape, ControlShape, TimePasses, stream
  <2>2. DataShape'
    BY DEF CaptureInv, CaptureShape, DataShape, TimePasses, counters, output
  <2>3. DiskShape'
    BY DEF CaptureInv, CaptureShape, DiskShape, TimePasses, directory
  <2> QED BY <2>1, <2>2, <2>3 DEF CaptureShape
<1>2. Numbered'
  BY DEF CaptureInv, Numbered, TimePasses, counters, output
<1>3. Budgeted'
  BY DEF CaptureInv, Budgeted, QueuedBytes, BytesAfter, TimePasses, output
<1>4. Staged'
  BY DEF CaptureInv, Staged, Late, TimePasses, stream
<1>5. Historic'
  BY DEF CaptureInv, Historic, TimePasses, directory
<1>6. \A c \in Captures : Truthful(c)'
  BY DEF CaptureInv, Truthful, TimePasses, directory
<1> QED BY <1>1, <1>2, <1>3, <1>4, <1>5, <1>6 DEF CaptureInv

LEMMA KeepsFinalizeFailed ==
  ASSUME CaptureInv, FinalizeFailed
  PROVE  CaptureInv'
<1>1. CaptureShape'
  <2>1. ControlShape'
    BY DEF CaptureInv, CaptureShape, ControlShape, FinalizeFailed, Close, stream
  <2>2. DataShape'
    BY DEF CaptureInv, CaptureShape, DataShape, FinalizeFailed, Close, counters, output
  <2>3. DiskShape'
    BY DEF CaptureInv, CaptureShape, DiskShape, FinalizeFailed, Close, directory
  <2> QED BY <2>1, <2>2, <2>3 DEF CaptureShape
<1>2. Numbered'
  BY DEF CaptureInv, Numbered, FinalizeFailed, Close, counters, output
<1>3. Budgeted'
  BY DEF CaptureInv, Budgeted, QueuedBytes, BytesAfter, FinalizeFailed, Close, output
<1>4. Staged'
  BY DEF CaptureInv, Staged, Late, FinalizeFailed, Close, stream
<1>5. Historic'
  BY DEF CaptureInv, Historic, FinalizeFailed, Close, directory
<1>6. \A c \in Captures : Truthful(c)'
  BY DEF CaptureInv, Truthful, FinalizeFailed, Close, directory
<1> QED BY <1>1, <1>2, <1>3, <1>4, <1>5, <1>6 DEF CaptureInv

LEMMA KeepsDirectoryReady ==
  ASSUME CaptureInv, DirectoryReady
  PROVE  CaptureInv'
<1>1. CaptureShape'
  <2>1. ControlShape'
    BY DEF CaptureInv, CaptureShape, ControlShape, DirectoryReady, Purged, control
  <2>2. DataShape'
    BY DEF CaptureInv, CaptureShape, DataShape, DirectoryReady, Purged, counters, output
  <2>3. DiskShape'
    BY DEF CaptureInv, CaptureShape, DiskShape, DirectoryReady, Purged
  <2> QED BY <2>1, <2>2, <2>3 DEF CaptureShape
<1>2. Numbered'
  BY DEF CaptureInv, Numbered, DirectoryReady, Purged, control, counters, output
<1>3. Budgeted'
  BY DEF CaptureInv, Budgeted, QueuedBytes, BytesAfter, DirectoryReady, Purged, output
<1>4. Staged'
  BY DEF CaptureInv, Staged, Late, DirectoryReady, Purged, control
<1>5. Historic'
  BY DEF CaptureInv, Historic, CaptureShape, ControlShape, DirectoryReady, Purged, control
<1>6. \A c \in Captures : Truthful(c)'
  BY DEF CaptureInv, Truthful, DirectoryReady, Purged
<1> QED BY <1>1, <1>2, <1>3, <1>4, <1>5, <1>6 DEF CaptureInv

LEMMA KeepsFileOpens ==
  ASSUME CaptureInv, FileOpens
  PROVE  CaptureInv'
<1>1. CaptureShape'
  <2>1. [lines |-> <<>>, ended |-> FALSE] \in DataFiles
    BY NoLines DEF DataFiles
  <2>11. ControlShape'
    BY <2>1 DEF CaptureInv, CaptureShape, ControlShape, FileOpens, control
  <2>12. DataShape'
    BY <2>1 DEF CaptureInv, CaptureShape, DataShape, FileOpens, counters, output
  <2>13. DiskShape'
    BY <2>1 DEF CaptureInv, CaptureShape, DiskShape, FileOpens
  <2> QED BY <2>11, <2>12, <2>13 DEF CaptureShape
<1>2. Numbered'
  BY DEF CaptureInv, Numbered, FileOpens, control, counters, output
<1>3. Budgeted'
  BY DEF CaptureInv, Budgeted, QueuedBytes, BytesAfter, FileOpens, output
<1>4. Staged'
  <2>1. ~Late /\ ~(pipeline = "settled" /\ ~failed)
    BY DEF CaptureInv, Staged, FileOpens
  <2>2. ~Late'
    BY <2>1 DEF FileOpens, Late, control
  <2>3. /\ UNCHANGED <<state, finishing, pipeline, gzip, failed, digest, lines, id>>
        /\ initialize' = "done"
    BY DEF FileOpens, control, output
  <2>4. finishing # "manifest" /\ finishing # "hash" /\ state # "closed"
    BY <2>1 DEF Late
  <2>5. pipeline \in {"running", "settled"}
    BY DEF CaptureInv, Staged, FileOpens
  <2> QED BY <2>1, <2>2, <2>3, <2>4, <2>5 DEF CaptureInv, Staged
<1>5. Historic'
  BY DEF CaptureInv, Historic, Captures, FileOpens, control
<1>6. \A c \in Captures : Truthful(c)'
  BY DEF CaptureInv, Truthful, Historic, DiskShape, FileOpens
<1> QED BY <1>1, <1>2, <1>3, <1>4, <1>5, <1>6 DEF CaptureInv

LEMMA KeepsInitializeFails ==
  ASSUME CaptureInv, InitializeFails
  PROVE  CaptureInv'
<1>0. /\ failed' = TRUE /\ accepting' = FALSE /\ queue' = <<>> /\ queue' \in Seq(Lines)
      /\ droppedRecords' \in Nat
      /\ UNCHANGED <<id, state, elapsed, acceptedRecords>>
      /\ Numbered' /\ Budgeted'
  BY FailureKeeps DEF CaptureInv, InitializeFails, output
<1>1. CaptureShape'
  <2>1. ControlShape'
    BY <1>0 DEF CaptureInv, CaptureShape, ControlShape, InitializeFails
  <2>2. DataShape'
    BY <1>0 DEF CaptureInv, CaptureShape, DataShape, InitializeFails, output
  <2>3. DiskShape'
    BY <1>0 DEF CaptureInv, CaptureShape, DiskShape, InitializeFails, Fault, directory
  <2> QED BY <2>1, <2>2, <2>3 DEF CaptureShape
<1>2. Numbered'
  BY <1>0
<1>3. Budgeted'
  BY <1>0
<1>4. Staged'
  BY DEF CaptureInv, Staged, InitializeFails, MarkFailed
<1>5. Historic'
  BY DEF CaptureInv, Historic, InitializeFails, MarkFailed, directory
<1>6. \A c \in Captures : Truthful(c)'
  BY DEF CaptureInv, Truthful, InitializeFails, MarkFailed, directory
<1> QED BY <1>1, <1>2, <1>3, <1>4, <1>5, <1>6 DEF CaptureInv

LEMMA KeepsFlushStarts ==
  ASSUME CaptureInv, FlushStarts
  PROVE  CaptureInv'
<1>1. CaptureShape'
  <2>1. ControlShape'
    BY DEF CaptureInv, CaptureShape, ControlShape, FlushStarts, control
  <2>2. DataShape'
    BY DEF CaptureInv, CaptureShape, DataShape, FlushStarts, counters, output
  <2>3. DiskShape'
    BY DEF CaptureInv, CaptureShape, DiskShape, FlushStarts, directory
  <2> QED BY <2>1, <2>2, <2>3 DEF CaptureShape
<1>2. Numbered'
  BY DEF CaptureInv, Numbered, FlushStarts, control, counters, output
<1>3. Budgeted'
  BY DEF CaptureInv, Budgeted, QueuedBytes, BytesAfter, FlushStarts, output
<1>4. Staged'
  BY DEF CaptureInv, Staged, Late, FlushStarts, control
<1>5. Historic'
  BY DEF CaptureInv, Historic, FlushStarts, control, directory
<1>6. \A c \in Captures : Truthful(c)'
  BY DEF CaptureInv, Truthful, FlushStarts, directory
<1> QED BY <1>1, <1>2, <1>3, <1>4, <1>5, <1>6 DEF CaptureInv

LEMMA KeepsDrained ==
  ASSUME CaptureInv, Drained
  PROVE  CaptureInv'
<1>1. CaptureShape'
  <2>1. ControlShape'
    BY DEF CaptureInv, CaptureShape, ControlShape, Drained, control
  <2>2. DataShape'
    BY DEF CaptureInv, CaptureShape, DataShape, Drained, counters, output
  <2>3. DiskShape'
    BY DEF CaptureInv, CaptureShape, DiskShape, Drained, directory
  <2> QED BY <2>1, <2>2, <2>3 DEF CaptureShape
<1>2. Numbered'
  BY DEF CaptureInv, Numbered, Drained, control, counters, output
<1>3. Budgeted'
  BY DEF CaptureInv, Budgeted, QueuedBytes, BytesAfter, Drained, output
<1>4. Staged'
  BY DEF CaptureInv, Staged, Late, Drained, control
<1>5. Historic'
  BY DEF CaptureInv, Historic, Drained, control, directory
<1>6. \A c \in Captures : Truthful(c)'
  BY DEF CaptureInv, Truthful, Drained, directory
<1> QED BY <1>1, <1>2, <1>3, <1>4, <1>5, <1>6 DEF CaptureInv

LEMMA KeepsFlushWrites ==
  ASSUME CaptureInv, NEW n \in Nat, NEW canContinue \in BOOLEAN, FlushWrites(n, canContinue)
  PROVE  CaptureInv'
<1>0. /\ lines' \in Seq(Nat) /\ rawBytes' \in Nat
      /\ queue' \in Seq(Lines) /\ Numbered' /\ Budgeted'
  <2>1. /\ n <= Len(queue) /\ Write(n)
        /\ queue' = SubSeq(queue, n + 1, Len(queue))
        /\ UNCHANGED <<id, failed, acceptedRecords, droppedRecords, offered>>
    BY DEF FlushWrites, control, counters
  <2> QED BY <2>1, WriteKeeps, FlushKeeps DEF CaptureInv
<1>1. CaptureShape'
  <2>1. ControlShape'
    BY <1>0 DEF CaptureInv, CaptureShape, ControlShape, FlushWrites, control
  <2>2. DataShape'
    BY <1>0 DEF CaptureInv, CaptureShape, DataShape, FlushWrites, counters
  <2>3. DiskShape'
    BY <1>0 DEF CaptureInv, CaptureShape, DiskShape, FlushWrites, directory
  <2> QED BY <2>1, <2>2, <2>3 DEF CaptureShape
<1>2. Numbered'
  BY <1>0
<1>3. Budgeted'
  BY <1>0
<1>4. Staged'
  BY DEF CaptureInv, Staged, Late, FlushWrites, Write, control
<1>5. Historic'
  BY DEF CaptureInv, Historic, FlushWrites, Write, control, directory
<1>6. \A c \in Captures : Truthful(c)'
  BY DEF CaptureInv, Truthful, FlushWrites, Write, directory
<1> QED BY <1>1, <1>2, <1>3, <1>4, <1>5, <1>6 DEF CaptureInv

LEMMA KeepsWriteThrows ==
  ASSUME CaptureInv, NEW n \in Nat, WriteThrows(n)
  PROVE  CaptureInv'
<1>0. /\ n <= Len(queue) /\ Write(n)
      /\ lines' \in Seq(Nat) /\ rawBytes' \in Nat /\ Len(lines') = Len(lines) + n
      /\ lines' = [k \in 1 .. Len(lines') |-> k]
      /\ rawBytes' <= MaxCaptureBytes /\ queue' = <<>> /\ queue' \in Seq(Lines)
      /\ Len(queue') = 0
      /\ failed' = TRUE /\ droppedRecords' = droppedRecords + Len(queue) - n
      /\ UNCHANGED <<id, offered, acceptedRecords>>
  <2>1. n <= Len(queue) /\ Write(n) /\ queue' = <<>>
    BY DEF WriteThrows, CaptureInv
  <2>2. /\ failed' = TRUE /\ droppedRecords' = droppedRecords + Len(queue) - n
        /\ UNCHANGED <<id, offered, acceptedRecords>>
    BY DEF WriteThrows
  <2>3. /\ lines' \in Seq(Nat) /\ Len(lines') = Len(lines) + n
        /\ lines' = [k \in 1 .. Len(lines') |-> k]
        /\ rawBytes' = BytesAfter(n) /\ rawBytes' \in Nat
        /\ BytesAfter(n) <= BytesAfter(Len(queue)) /\ BytesAfter(Len(queue)) \in Nat
        /\ BytesAfter(Len(queue)) <= MaxCaptureBytes
    BY <2>1, WriteKeeps DEF CaptureInv
  <2>4. rawBytes' <= MaxCaptureBytes
    BY <2>3, Limits
  <2> QED BY <2>1, <2>2, <2>3, <2>4, NoLines
<1>1. CaptureShape'
  <2>1. droppedRecords' \in Nat
    BY <1>0 DEF CaptureInv, CaptureShape, DataShape
  <2>11. ControlShape'
    BY <1>0, <2>1 DEF CaptureInv, CaptureShape, ControlShape, WriteThrows
  <2>12. DataShape'
    BY <1>0, <2>1 DEF CaptureInv, CaptureShape, DataShape, WriteThrows
  <2>13. DiskShape'
    BY <1>0, <2>1 DEF CaptureInv, CaptureShape, DiskShape, WriteThrows, Fault, directory
  <2> QED BY <2>11, <2>12, <2>13 DEF CaptureShape
<1>2. Numbered'
  BY <1>0 DEF CaptureInv, CaptureShape, DataShape, Numbered
<1>3. Budgeted'
  <2>1. BytesAfter(Len(queue))' = rawBytes' /\ rawBytes' \in Nat
    BY <1>0 DEF BytesAfter
  <2>2. QueuedBytes' = 0
    <3>1. QueuedBytes' = BytesAfter(Len(queue))' - rawBytes'
      BY DEF QueuedBytes
    <3>2. \A x \in Nat : x - x = 0
      OBVIOUS
    <3> QED BY <2>1, <3>1, <3>2
  <2>4. rawBytes' + QueuedBytes' = rawBytes'
    <3>1. \A x \in Nat : x + 0 = x
      OBVIOUS
    <3> QED BY <2>1, <2>2, <3>1
  <2>3. \A i \in 1 .. Len(queue') : FALSE
    BY <1>0
  <2>5. Len(queue') <= QueueCapacity /\ QueuedBytes' <= QueueByteCapacity
    BY <1>0, <2>2, Limits
  <2>6. rawBytes' + QueuedBytes' <= MaxCaptureBytes
    BY <1>0, <2>4
  <2> QED BY <2>3, <2>5, <2>6 DEF Budgeted
<1>4. Staged'
  BY DEF CaptureInv, Staged, Late, WriteThrows, Write
<1>5. Historic'
  BY DEF CaptureInv, Historic, WriteThrows, Write, directory
<1>6. \A c \in Captures : Truthful(c)'
  BY DEF CaptureInv, Truthful, WriteThrows, Write, directory
<1> QED BY <1>1, <1>2, <1>3, <1>4, <1>5, <1>6 DEF CaptureInv

LEMMA KeepsPipelineBreaks ==
  ASSUME CaptureInv, PipelineBreaks
  PROVE  CaptureInv'
<1>0. /\ failed' = TRUE /\ accepting' = FALSE /\ queue' = <<>> /\ queue' \in Seq(Lines)
      /\ droppedRecords' \in Nat
      /\ UNCHANGED <<id, state, elapsed, acceptedRecords>>
      /\ Numbered' /\ Budgeted'
  BY FailureKeeps DEF CaptureInv, PipelineBreaks, output
<1>1. CaptureShape'
  <2>1. /\ UNCHANGED <<lines, rawBytes, initialize, finishing, manifests, digest, offered>>
        /\ flush' = "none" /\ gzip' = "destroyed" /\ pipeline' = "settled"
        /\ faults' = faults + 1
    BY DEF PipelineBreaks, Fault, output
  <2>2. dataFiles' \in [Captures -> {NoFile} \cup DataFiles]
    BY Truncated DEF CaptureInv, CaptureShape, DiskShape, PipelineBreaks
  <2>11. ControlShape'
    BY <1>0, <2>1, <2>2 DEF CaptureInv, CaptureShape, ControlShape
  <2>12. DataShape'
    BY <1>0, <2>1, <2>2 DEF CaptureInv, CaptureShape, DataShape
  <2>13. DiskShape'
    BY <1>0, <2>1, <2>2 DEF CaptureInv, CaptureShape, DiskShape
  <2> QED BY <2>11, <2>12, <2>13 DEF CaptureShape
<1>2. Numbered'
  BY <1>0
<1>3. Budgeted'
  BY <1>0
<1>4. Staged'
  BY DEF CaptureInv, Staged, PipelineBreaks, MarkFailed, TruncatedFiles
<1>5. Historic'
  BY DEF CaptureInv, Historic, PipelineBreaks, MarkFailed, TruncatedFiles
<1>6. \A c \in Captures : Truthful(c)'
  BY DEF CaptureInv, Truthful, Historic, Staged, PipelineBreaks, MarkFailed, TruncatedFiles,
         output
<1> QED BY <1>1, <1>2, <1>3, <1>4, <1>5, <1>6 DEF CaptureInv

LEMMA KeepsPipelineSettles ==
  ASSUME CaptureInv, PipelineSettles
  PROVE  CaptureInv'
<1>1. CaptureShape'
  <2>1. dataFiles' \in [Captures -> {NoFile} \cup DataFiles]
    <3>1. Whole \in DataFiles
      BY DEF CaptureInv, CaptureShape, DataShape, Whole, DataFiles
    <3> QED BY <3>1, Truncated DEF CaptureInv, CaptureShape, DiskShape, PipelineSettles, Whole
  <2>11. ControlShape'
    BY <2>1 DEF CaptureInv, CaptureShape, ControlShape, PipelineSettles, control
  <2>12. DataShape'
    BY <2>1 DEF CaptureInv, CaptureShape, DataShape, PipelineSettles, counters, output
  <2>13. DiskShape'
    BY <2>1 DEF CaptureInv, CaptureShape, DiskShape, PipelineSettles
  <2> QED BY <2>11, <2>12, <2>13 DEF CaptureShape
<1>2. Numbered'
  BY DEF CaptureInv, Numbered, PipelineSettles, TruncatedFiles, control, counters, output
<1>3. Budgeted'
  BY DEF CaptureInv, Budgeted, QueuedBytes, BytesAfter, PipelineSettles, TruncatedFiles, output
<1>4. Staged'
  BY DEF CaptureInv, Staged, CaptureShape, ControlShape, DiskShape, Late, Whole, PipelineSettles,
         TruncatedFiles, control, output
<1>5. Historic'
  BY DEF CaptureInv, Historic, CaptureShape, DiskShape, PipelineSettles, TruncatedFiles, control
<1>6. \A c \in Captures : Truthful(c)'
  BY DEF CaptureInv, Truthful, Historic, Staged, CaptureShape, DiskShape, PipelineSettles,
         TruncatedFiles
<1> QED BY <1>1, <1>2, <1>3, <1>4, <1>5, <1>6 DEF CaptureInv

LEMMA KeepsEndStream ==
  ASSUME CaptureInv, EndStream
  PROVE  CaptureInv'
<1>1. CaptureShape'
  <2>1. ControlShape'
    BY DEF CaptureInv, CaptureShape, ControlShape, EndStream, control
  <2>2. DataShape'
    BY DEF CaptureInv, CaptureShape, DataShape, EndStream, counters, output
  <2>3. DiskShape'
    BY DEF CaptureInv, CaptureShape, DiskShape, EndStream, directory
  <2> QED BY <2>1, <2>2, <2>3 DEF CaptureShape
<1>2. Numbered'
  BY DEF CaptureInv, Numbered, EndStream, control, counters, output
<1>3. Budgeted'
  BY DEF CaptureInv, Budgeted, QueuedBytes, BytesAfter, EndStream, output
<1>4. Staged'
  BY DEF CaptureInv, Staged, Late, EndStream, control
<1>5. Historic'
  BY DEF CaptureInv, Historic, EndStream, control, directory
<1>6. \A c \in Captures : Truthful(c)'
  BY DEF CaptureInv, Truthful, EndStream, directory
<1> QED BY <1>1, <1>2, <1>3, <1>4, <1>5, <1>6 DEF CaptureInv

LEMMA KeepsAwaitPipeline ==
  ASSUME CaptureInv, AwaitPipeline
  PROVE  CaptureInv'
<1>1. CaptureShape'
  <2>1. ControlShape'
    BY DEF CaptureInv, CaptureShape, ControlShape, AwaitPipeline, Closed, stream
  <2>2. DataShape'
    BY DEF CaptureInv, CaptureShape, DataShape, AwaitPipeline, Closed, counters, output
  <2>3. DiskShape'
    BY DEF CaptureInv, CaptureShape, DiskShape, AwaitPipeline, Closed, directory
  <2> QED BY <2>1, <2>2, <2>3 DEF CaptureShape
<1>2. Numbered'
  BY DEF CaptureInv, Numbered, AwaitPipeline, Closed, counters, output
<1>3. Budgeted'
  BY DEF CaptureInv, Budgeted, QueuedBytes, BytesAfter, AwaitPipeline, Closed, output
<1>4. Staged'
  BY DEF CaptureInv, Staged, Late, Whole, AwaitPipeline, Closed, stream, output, directory
<1>5. Historic'
  BY DEF CaptureInv, Historic, AwaitPipeline, Closed, stream, directory
<1>6. \A c \in Captures : Truthful(c)'
  BY DEF CaptureInv, Truthful, AwaitPipeline, Closed, directory
<1> QED BY <1>1, <1>2, <1>3, <1>4, <1>5, <1>6 DEF CaptureInv

LEMMA KeepsHash ==
  ASSUME CaptureInv, Hash
  PROVE  CaptureInv'
<1>0. ASSUME MarkFailed(0) PROVE CaptureShape' /\ Numbered' /\ Budgeted'
  <2>1. /\ failed' = TRUE /\ accepting' = FALSE /\ queue' = <<>> /\ queue' \in Seq(Lines)
        /\ droppedRecords' \in Nat
        /\ UNCHANGED <<id, state, elapsed, acceptedRecords>>
        /\ Numbered' /\ Budgeted'
    BY <1>0, FailureKeeps DEF CaptureInv, Hash, output
  <2>2. digest' \in {NoDigest} \cup DataFiles /\ faults' \in Nat
    BY DEF Hash, Fault, CaptureInv, CaptureShape, ControlShape, DiskShape
  <2>3. CaptureShape'
    <3>1. ControlShape'
      BY <2>1, <2>2 DEF CaptureInv, CaptureShape, ControlShape, Hash, stream
    <3>2. DataShape'
      BY <2>1, <2>2 DEF CaptureInv, CaptureShape, DataShape, Hash, output
    <3>3. DiskShape'
      BY <2>1, <2>2 DEF CaptureInv, CaptureShape, DiskShape, Hash, directory
    <3> QED BY <3>1, <3>2, <3>3 DEF CaptureShape
  <2> QED BY <2>1, <2>3
<1>1. CaptureShape'
  <2>1. CASE ~MarkFailed(0)
    BY <2>1 DEF CaptureInv, CaptureShape, ControlShape, DataShape, DiskShape, Hash, control,
                counters, stream, output, directory
  <2> QED BY <1>0, <2>1
<1>2. Numbered'
  <2>1. CASE ~MarkFailed(0)
    BY <2>1 DEF CaptureInv, Numbered, Hash, control, counters, output
  <2> QED BY <1>0, <2>1
<1>3. Budgeted'
  <2>1. CASE ~MarkFailed(0)
    BY <2>1 DEF CaptureInv, Budgeted, QueuedBytes, BytesAfter, Hash, output
  <2> QED BY <1>0, <2>1
<1>4. Staged'
  BY DEF CaptureInv, Staged, Late, Whole, Hash, MarkFailed, control, stream, output, directory
<1>5. Historic'
  BY DEF CaptureInv, Historic, Hash, MarkFailed, control, stream, directory
<1>6. \A c \in Captures : Truthful(c)'
  BY DEF CaptureInv, Truthful, Hash, MarkFailed, directory
<1> QED BY <1>1, <1>2, <1>3, <1>4, <1>5, <1>6 DEF CaptureInv

LEMMA KeepsPublish ==
  ASSUME CaptureInv, Publish
  PROVE  CaptureInv'
<1>1. CaptureShape'
  <2>1. [complete |-> ManifestComplete, sha256 |-> digest, contentSha256 |-> lines,
         writtenRecords |-> Len(lines)] \in Manifests
    BY DEF CaptureInv, CaptureShape, DataShape, DiskShape, Manifests, ManifestComplete
  <2>2. manifests' \in [Captures -> {NoManifest} \cup Manifests]
    BY <2>1 DEF CaptureInv, CaptureShape, DiskShape, Publish
  <2>3. /\ UNCHANGED <<id, accepting, elapsed, queue, acceptedRecords, droppedRecords, lines,
           rawBytes,
                     initialize, flush, gzip, pipeline, digest, dataFiles, offered>>
        /\ state' = "closed" /\ finishing' = "none" /\ failed' \in {failed, TRUE}
        /\ faults' \in {faults, faults + 1}
    BY DEF Publish, Closed, Fault, stream, output, counters
  <2>11. ControlShape'
    BY <2>2, <2>3 DEF CaptureInv, CaptureShape, ControlShape
  <2>12. DataShape'
    BY <2>2, <2>3 DEF CaptureInv, CaptureShape, DataShape
  <2>13. DiskShape'
    BY <2>2, <2>3 DEF CaptureInv, CaptureShape, DiskShape
  <2> QED BY <2>11, <2>12, <2>13 DEF CaptureShape
<1>2. Numbered'
  BY DEF CaptureInv, Numbered, Publish, Closed, ManifestComplete, counters, output
<1>3. Budgeted'
  BY DEF CaptureInv, Budgeted, QueuedBytes, BytesAfter, Publish, Closed, ManifestComplete, output
<1>4. Staged'
  BY DEF CaptureInv, Staged, Late, Whole, Publish, Closed, ManifestComplete, stream, output
<1>5. Historic'
  <2>1. /\ id' = id /\ state' = "closed" /\ UNCHANGED <<dataFiles, offered, initialize>>
        /\ \A c \in Captures : c # id => manifests'[c] = manifests[c]
        /\ initialize = "done"
    BY DEF CaptureInv, CaptureShape, DiskShape, Staged, Publish, Closed, stream
  <2> QED BY <2>1 DEF CaptureInv, Historic, Captures
<1>6. \A c \in Captures : Truthful(c)'
  <2>1. SUFFICES ASSUME NEW c \in Captures PROVE Truthful(c)'
    OBVIOUS
  <2>2. UNCHANGED <<dataFiles, offered>>
    BY DEF Publish
  <2>3. CASE manifests'[c] = manifests[c]
    BY <2>2, <2>3 DEF CaptureInv, Truthful
  <2>4. CASE manifests'[c] # manifests[c]
    <3>1. /\ c = id
          /\ manifests'[id] = [complete |-> ManifestComplete, sha256 |-> digest,
                              contentSha256 |-> lines, writtenRecords |-> Len(lines)]
      BY <2>4 DEF CaptureInv, CaptureShape, DiskShape, Publish
    <3>2. SUFFICES ASSUME ManifestComplete PROVE Truthful(c)'
      BY <3>1 DEF Truthful
    <3>3. /\ ~failed /\ Len(lines) = offered[id] /\ lines = [n \in 1 .. Len(lines) |-> n]
      <4>1. ~failed /\ droppedRecords = 0 /\ acceptedRecords = Len(lines)
        BY <3>2 DEF ManifestComplete
      <4>2. /\ acceptedRecords = Len(lines) + Len(queue)
            /\ Len(lines) + Len(queue) + droppedRecords = offered[id]
            /\ lines = [n \in 1 .. Len(lines) |-> n]
        BY <4>1 DEF CaptureInv, Numbered
      <4>3. Len(lines) \in Nat /\ Len(queue) \in Nat
        BY QueuedLines DEF CaptureInv
      <4> QED BY <4>1, <4>2, <4>3
    <3>4. /\ digest = Whole /\ dataFiles[id] \in {NoFile, Whole}
      BY <3>3 DEF CaptureInv, Staged, Publish
    <3> QED BY <2>2, <3>1, <3>3, <3>4 DEF Truthful, Whole
  <2> QED BY <2>3, <2>4
<1> QED BY <1>1, <1>2, <1>3, <1>4, <1>5, <1>6 DEF CaptureInv

LEMMA KeepsOthersPurge ==
  ASSUME CaptureInv, NEW data, NEW manifest, OthersPurge(data, manifest)
  PROVE  CaptureInv'
<1>1. CaptureShape'
  <2>1. ControlShape'
    BY DEF CaptureInv, CaptureShape, ControlShape, OthersPurge, Purged, control, stream
  <2>2. DataShape'
    BY DEF CaptureInv, CaptureShape, DataShape, OthersPurge, Purged, counters, output
  <2>3. DiskShape'
    BY DEF CaptureInv, CaptureShape, DiskShape, OthersPurge, Purged
  <2> QED BY <2>1, <2>2, <2>3 DEF CaptureShape
<1>2. Numbered'
  BY DEF CaptureInv, Numbered, OthersPurge, Purged, control, counters, output
<1>3. Budgeted'
  BY DEF CaptureInv, Budgeted, QueuedBytes, BytesAfter, OthersPurge, Purged, output
<1>4. Staged'
  BY DEF CaptureInv, Staged, CaptureShape, ControlShape, Late, Whole, OthersPurge, Purged,
         control, stream, output
<1>5. Historic'
  BY DEF CaptureInv, Historic, CaptureShape, ControlShape, OthersPurge, Purged, control, stream
<1>6. \A c \in Captures : Truthful(c)'
  BY DEF CaptureInv, Truthful, OthersPurge, Purged
<1> QED BY <1>1, <1>2, <1>3, <1>4, <1>5, <1>6 DEF CaptureInv

(* A new recorder has nothing queued and nothing written. *)
LEMMA StartsWithinBudget ==
  ASSUME NewRecorder, Len(queue') = 0
  PROVE  Budgeted'
<1>1. rawBytes' = 0 /\ BytesAfter(Len(queue))' = 0
  BY DEF NewRecorder, BytesAfter
<1>2. QueuedBytes' = 0
  BY <1>1 DEF QueuedBytes
<1>3. \A i \in 1 .. Len(queue') : FALSE
  OBVIOUS
<1> QED BY <1>1, <1>2, <1>3, Limits DEF Budgeted

LEMMA KeepsReopen ==
  ASSUME CaptureInv, Reopen
  PROVE  CaptureInv'
<1>0. /\ id' = id + 1 /\ id' \in Captures /\ NewRecorder /\ offered' = offered
      /\ offered[id'] = 0 /\ Len(queue') = 0 /\ Len(lines') = 0
      /\ queue' \in Seq(Lines) /\ lines' \in Seq(Nat)
  <2>1. id' = id + 1 /\ id' \in Captures /\ NewRecorder /\ offered' = offered
    BY RawCaptureAssumption DEF CaptureInv, CaptureShape, ControlShape, Captures, Reopen,
                                NextRecorder
  <2>2. offered[id'] = 0
    BY <2>1 DEF CaptureInv, CaptureShape, ControlShape, Historic
  <2>3. queue' = <<>> /\ lines' = <<>>
    BY <2>1 DEF NewRecorder
  <2> QED BY <2>1, <2>2, <2>3, NoLines
<1>1. CaptureShape'
  <2>1. ControlShape'
    BY <1>0 DEF CaptureInv, ControlShape, Reopen, NewRecorder
  <2>2. DataShape'
    BY <1>0 DEF CaptureInv, DataShape, Reopen, NewRecorder
  <2>3. DiskShape'
    BY <1>0 DEF CaptureInv, CaptureShape, DiskShape, Reopen, NewRecorder, directory
  <2> QED BY <2>1, <2>2, <2>3 DEF CaptureShape
<1>2. Numbered'
  <2>1. lines' = [n \in 1 .. Len(lines') |-> n]
    BY <1>0, NoLines DEF NewRecorder
  <2>2. failed' = FALSE /\ acceptedRecords' = 0 /\ droppedRecords' = 0
    BY <1>0 DEF NewRecorder
  <2> QED BY <1>0, <2>1, <2>2 DEF Numbered
<1>3. Budgeted'
  BY <1>0, StartsWithinBudget
<1>4. Staged'
  BY DEF CaptureInv, Staged, Late, Reopen, NextRecorder, NewRecorder
<1>5. Historic'
  <2>1. UNCHANGED <<dataFiles, manifests>> /\ id' > id
    BY <1>0 DEF CaptureInv, CaptureShape, ControlShape, Captures, Reopen, directory
  <2>2. \A c \in Captures : c > id' => c > id
    BY <1>0, <2>1 DEF CaptureInv, CaptureShape, ControlShape, Captures
  <2> QED BY <1>0, <2>1, <2>2 DEF CaptureInv, Historic
<1>6. \A c \in Captures : Truthful(c)'
  BY DEF CaptureInv, Truthful, Reopen, NextRecorder, NewRecorder, directory
<1> QED BY <1>1, <1>2, <1>3, <1>4, <1>5, <1>6 DEF CaptureInv

LEMMA KeepsCrash ==
  ASSUME CaptureInv, Crash
  PROVE  CaptureInv'
<1>0. /\ id' = id + 1 /\ id' \in Captures /\ NewRecorder /\ offered' = offered
      /\ offered[id'] = 0 /\ Len(queue') = 0 /\ Len(lines') = 0
      /\ queue' \in Seq(Lines) /\ lines' \in Seq(Nat)
  <2>1. id' = id + 1 /\ id' \in Captures /\ NewRecorder /\ offered' = offered
    BY RawCaptureAssumption DEF CaptureInv, CaptureShape, ControlShape, Captures, Crash,
                                NextRecorder
  <2>2. offered[id'] = 0
    BY <2>1 DEF CaptureInv, CaptureShape, ControlShape, Historic
  <2>3. queue' = <<>> /\ lines' = <<>>
    BY <2>1 DEF NewRecorder
  <2> QED BY <2>1, <2>2, <2>3, NoLines
<1>1. CaptureShape'
  <2>1. dataFiles' \in [Captures -> {NoFile} \cup DataFiles]
    BY Truncated DEF CaptureInv, CaptureShape, DiskShape, Crash
  <2>2. manifests' = manifests /\ faults' = faults + 1
    BY DEF Crash, Fault
  <2>11. ControlShape'
    BY <1>0, <2>1, <2>2 DEF CaptureInv, ControlShape, NewRecorder
  <2>12. DataShape'
    BY <1>0, <2>1, <2>2 DEF CaptureInv, DataShape, NewRecorder
  <2>13. DiskShape'
    BY <1>0, <2>1, <2>2 DEF CaptureInv, CaptureShape, DiskShape, NewRecorder
  <2> QED BY <2>11, <2>12, <2>13 DEF CaptureShape
<1>2. Numbered'
  <2>1. lines' = [n \in 1 .. Len(lines') |-> n]
    BY <1>0, NoLines DEF NewRecorder
  <2>2. failed' = FALSE /\ acceptedRecords' = 0 /\ droppedRecords' = 0
    BY <1>0 DEF NewRecorder
  <2> QED BY <1>0, <2>1, <2>2 DEF Numbered
<1>3. Budgeted'
  BY <1>0, StartsWithinBudget
<1>4. Staged'
  BY DEF CaptureInv, Staged, Late, Crash, NextRecorder, NewRecorder
<1>5. /\ manifests' = manifests /\ manifests[id] = NoManifest
      /\ \A c \in Captures : c # id => dataFiles'[c] = dataFiles[c]
  <2>1. manifests' = manifests /\ manifests[id] = NoManifest
    BY DEF CaptureInv, Historic, Crash
  <2>2. dataFiles' = dataFiles \/ \E file : dataFiles' = [dataFiles EXCEPT ![id] = file]
    BY DEF Crash
  <2> QED BY <2>1, <2>2 DEF CaptureInv, CaptureShape, DiskShape
<1>6. Historic'
  <2>1. ASSUME NEW c \in Captures, c > id'
        PROVE  dataFiles'[c] = NoFile /\ manifests'[c] = NoManifest /\ offered'[c] = 0
    <3>1. c > id /\ c # id
      BY <1>0, <2>1 DEF CaptureInv, CaptureShape, ControlShape, Captures
    <3> QED BY <1>0, <1>5, <3>1 DEF CaptureInv, Historic
  <2>2. id' > id
    BY <1>0 DEF CaptureInv, CaptureShape, ControlShape, Captures
  <2>3. manifests'[id'] = NoManifest
    BY <1>0, <1>5, <2>2 DEF CaptureInv, Historic
  <2> QED BY <2>1, <2>3 DEF Historic
<1>7. \A c \in Captures : Truthful(c)'
  <2> SUFFICES ASSUME NEW c \in Captures PROVE Truthful(c)'
    OBVIOUS
  <2>1. CASE c = id
    BY <1>5, <2>1 DEF Truthful
  <2>2. CASE c # id
    <3>1. Truthful(c)
      BY DEF CaptureInv
    <3> QED BY <1>0, <1>5, <2>2, <3>1 DEF Truthful
  <2> QED BY <2>1, <2>2
<1> QED BY <1>1, <1>2, <1>3, <1>4, <1>6, <1>7 DEF CaptureInv

LEMMA CaptureStarts == CaptureInit => CaptureInv
<1> SUFFICES ASSUME CaptureInit PROVE CaptureInv
  OBVIOUS
<1>1. /\ queue = <<>> /\ lines = <<>> /\ Len(queue) = 0 /\ Len(lines) = 0
      /\ queue \in Seq(Lines) /\ lines \in Seq(Nat) /\ id \in Captures
      /\ lines = [n \in 1 .. Len(lines) |-> n]
  BY NoLines, RawCaptureAssumption DEF CaptureInit, Captures
<1>2. CaptureShape
  BY <1>1 DEF CaptureInit, CaptureShape, ControlShape, DataShape, DiskShape
<1>3. Numbered
  BY <1>1 DEF CaptureInit, Numbered
<1>4. Budgeted
  BY <1>1, RawCaptureAssumption DEF CaptureInit, Budgeted, QueuedBytes, BytesAfter
<1>5. Staged /\ Historic /\ \A c \in Captures : Truthful(c)
  BY <1>1 DEF CaptureInit, Staged, Late, Historic, Truthful
<1> QED BY <1>2, <1>3, <1>4, <1>5 DEF CaptureInv

LEMMA CaptureStep == CaptureInv /\ [CaptureNext]_captureVars => CaptureInv'
<1> SUFFICES ASSUME CaptureInv, [CaptureNext]_captureVars PROVE CaptureInv'
  OBVIOUS
<1>1. ASSUME NEW bytes \in Sizes, NEW valid \in BOOLEAN, Record(bytes, valid) PROVE CaptureInv'
  BY <1>1, KeepsRecord
<1>2. CASE Shutdown \/ ExpiryTimerFires
  BY <1>2, KeepsShutdown DEF ExpiryTimerFires
<1>3. CASE TimePasses \/ FinalizeFailed
  BY <1>3, KeepsTimePasses, KeepsFinalizeFailed
<1>4. CASE DirectoryReady \/ FileOpens \/ InitializeFails
  BY <1>4, KeepsDirectoryReady, KeepsFileOpens, KeepsInitializeFails
<1>5. CASE FlushStarts \/ Drained
  BY <1>5, KeepsFlushStarts, KeepsDrained
<1>6. ASSUME NEW n \in 0 .. QueueCapacity, NEW canContinue \in BOOLEAN, FlushWrites(n,
         canContinue)
      PROVE  CaptureInv'
  BY <1>6, KeepsFlushWrites
<1>7. ASSUME NEW n \in 0 .. QueueCapacity, WriteThrows(n) PROVE CaptureInv'
  BY <1>7, KeepsWriteThrows
<1>8. CASE PipelineBreaks \/ PipelineSettles
  BY <1>8, KeepsPipelineBreaks, KeepsPipelineSettles
<1>9. CASE EndStream \/ AwaitPipeline \/ Hash \/ Publish
  BY <1>9, KeepsEndStream, KeepsAwaitPipeline, KeepsHash, KeepsPublish
<1>10. ASSUME NEW data, NEW manifest, OthersPurge(data, manifest) PROVE CaptureInv'
  BY <1>10, KeepsOthersPurge
<1>11. CASE Reopen \/ Crash
  BY <1>11, KeepsReopen, KeepsCrash
<1>12. CASE UNCHANGED captureVars
  BY <1>12 DEF CaptureInv, CaptureShape, ControlShape, DataShape, DiskShape, Numbered, Budgeted,
               QueuedBytes, BytesAfter, Staged, Late,
     Whole, Historic, Truthful, captureVars, control, counters, stream, output, directory
<1> QED BY <1>1, <1>2, <1>3, <1>4, <1>5, <1>6, <1>7, <1>8, <1>9, <1>10, <1>11, <1>12
    DEF CaptureNext

(* What the invariant is for. *)
LEMMA CaptureInvTells == CaptureInv => CapturesAccountForRecords
<1> SUFFICES ASSUME CaptureInv PROVE CapturesAccountForRecords
  OBVIOUS
<1>1. RecordsAccountedFor
  BY DEF CaptureInv, Numbered, Budgeted, RecordsAccountedFor
<1>2. CompleteCapturesAreWhole
  <2> SUFFICES ASSUME NEW c \in Captures, Listed(manifests[c], dataFiles[c])
               PROVE  /\ ReadsBack(manifests[c], dataFiles[c])
                      /\ Len(dataFiles[c].lines) = offered[c]
    BY DEF CompleteCapturesAreWhole
  <2> DEFINE m == manifests[c]
             f == dataFiles[c]
  <2>1. /\ f = m.sha256 /\ f = [lines |-> m.contentSha256, ended |-> TRUE]
        /\ m.contentSha256 = [n \in 1 .. offered[c] |-> n] /\ m.writtenRecords = offered[c]
    BY DEF CaptureInv, Truthful, Listed, Discovered
  <2>2. offered[c] \in Nat
    BY DEF CaptureInv, CaptureShape, DiskShape
  <2>3. f.lines = [n \in 1 .. offered[c] |-> n] /\ f.ended /\ Len(f.lines) = offered[c]
    BY <2>1, <2>2
  <2> HIDE DEF m, f
  <2>4. ReadsBack(m, f)
    BY <2>1, <2>3 DEF ReadsBack
  <2> QED BY <2>3, <2>4 DEF m, f
<1> QED BY <1>1, <1>2 DEF CapturesAccountForRecords

(* At every moment the statistics of a recorder account for every record   *)
(* it was offered, within its limits, and a capture that its manifest and  *)
(* the catalog call complete reads back as every one of them, whatever     *)
(* failed, raced or crashed (rawCapture.ts record(), flushQueue() and      *)
(* finish(); rawCaptureCatalog.ts readCaptureSegment()).                   *)
THEOREM RawCapturesAccountForRecords == CaptureSpec => []CapturesAccountForRecords
BY CaptureStarts, CaptureStep, CaptureInvTells, PTL DEF CaptureSpec
=============================================================================
