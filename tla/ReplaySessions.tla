--------------------------- MODULE ReplaySessions ---------------------------
(***************************************************************************)
(* Raw replay sessions: ReplaySessionManager (server/replay/               *)
(* sessionManager.ts), its FileReplaySessionRepository and the routes of   *)
(* httpServer.ts that call it.  The operations of a session run one at a   *)
(* time behind a lock, a chain of promises, but await the capture and the  *)
(* repository inside it; delete, get and the cleanup timer take no lock.   *)
(* The process may crash at any step and restores what the file holds.     *)
(*                                                                         *)
(* The wall clock and the speed are one choice: a playing session's        *)
(* playhead is anywhere from its anchor on, which covers every speed and   *)
(* also a clock that steps back.  The rolling checksum is the sequence of  *)
(* frames it hashes.  A repository operation is one step, since only the   *)
(* repository itself, one operation at a time, and a restart see its file. *)
(***************************************************************************)
EXTENDS ReplaySource, Functions

CONSTANTS
  Sessions, Clients,
  SeekTargets, Limits,        \* arguments of requests
  MaxStored,                  \* MAX_SESSIONS of the repository
  MaxFaults,                  \* bound: failing files, crashes, expiries, changes
  Nobody                      \* waits for a cleanup's removal

ASSUME SessionsAssumption ==
  /\ SeekTargets \subseteq 0 .. Until /\ Limits \subseteq Nat \ {0}
  /\ {MaxStored, MaxFaults} \subseteq Nat /\ Nobody \notin Clients

VARIABLES
  phase,     \* "down", "restoring", "up"
  todo,      \* candidates restore() has still to visit
  created,   \* ids given out
  objects,   \* session objects by id, those deleted under an operation included
  present,   \* keys of the sessions map
  locks,     \* by id, the requests in the chain, the running one first
  request,   \* by client: the request it waits for
  tail,      \* the repository's operations: queued or running
  cache, disk,  \* the repository's map, and its file
  expired, changed,  \* ids past expiresAt; the capture differs from its checksum
  received,  \* history: frames clients were sent since the session's last seek
  unsure,    \* history: ids an answer of which failed or got lost since then
  gone,      \* history: ids whose deletion was answered, with nothing under way or failed
  faults

memory == <<objects, present, locks, request, tail, cache>>
history == <<received, unsure, gone>>
world == <<expired, changed, faults>>
vars == <<phase, todo, created, memory, disk, world, history>>

NoRequest == [op |-> "none"]
Empty == [id \in {} |-> 0]

(* set(): a map with one entry more, or a new value for an old one. *)
With(map, id, value) == [k \in {id} \cup DOMAIN map |-> IF k = id THEN value ELSE map[k]]
Without(map, id) == Restrict(map, DOMAIN map \ {id})

Init ==
  /\ phase = "up" /\ todo = {} /\ created = {}
  /\ objects = Empty /\ present = {}
  /\ locks = [id \in Sessions |-> <<>>]
  /\ request = [c \in Clients |-> NoRequest]
  /\ tail = <<>> /\ cache = Empty /\ disk = Empty
  /\ expired = {} /\ changed = FALSE
  /\ received = [id \in Sessions |-> <<>>] /\ unsure = {} /\ gone = {}
  /\ faults = 0

Fault == faults < MaxFaults /\ faults' = faults + 1

-----------------------------------------------------------------------------
(* Session objects, and what is saved of them. *)

InitialCheckpoint(target) == [seek |-> target, rolled |-> <<>>]

NewSession(autoplay) ==
  [status |-> IF autoplay THEN "playing" ELSE "paused", playhead |-> 0, anchor |-> 0,
   checkpoint |-> InitialCheckpoint(0)]

(* Where updatePlayhead() may put the playhead. *)
Playheads(session) ==
  IF session.status = "playing" THEN session.anchor .. Until ELSE {session.playhead}

AdvanceCheckpoint(checkpoint, frames) ==
  [checkpoint EXCEPT !.rolled = @ \o frames]

Cursor(checkpoint) == IF checkpoint.rolled = <<>> THEN 0 ELSE Last(checkpoint.rolled)

(* Anchors are not saved. *)
PublicSnapshot(session) ==
  [status |-> session.status, playhead |-> session.playhead,
   checkpoint |-> session.checkpoint]

(* Mutant: a restart begins again at the seek target. *)
RestoredFromSeek(saved) ==
  [status |-> "paused", playhead |-> saved.playhead, anchor |-> saved.playhead,
   checkpoint |-> InitialCheckpoint(saved.checkpoint.seek)]
(* A playing session comes back paused. *)
Restored(saved) ==
  [status |-> IF saved.status = "playing" THEN "paused" ELSE saved.status,
   playhead |-> saved.playhead, anchor |-> saved.playhead, checkpoint |-> saved.checkpoint]

Paused(session) ==
  [session EXCEPT !.status = IF @ = "completed" THEN @ ELSE "paused",
                  !.anchor = session.playhead]

Seeked(session, target) ==
  [session EXCEPT !.status = IF @ = "completed" THEN "paused" ELSE @,
                  !.playhead = target, !.anchor = target,
                  !.checkpoint = InitialCheckpoint(target)]

(* The capture does not change, so every answer is known beforehand. *)
Pages == {[query |-> query, page |-> Page(query)] : query \in Queries(Limits)}

PageFromPlayhead(session, limit, preRoll) ==  \* mutant: the watermark moves with the playhead
  LET query == [after |-> Cursor(session.checkpoint), startAt |-> session.playhead,
                through |-> session.playhead, limit |-> limit,
                includePreRoll |-> preRoll /\ Cursor(session.checkpoint) = 0]
  IN  (CHOOSE answer \in Pages : answer.query = query).page
PageOf(session, limit, preRoll) ==
  LET cursor == Cursor(session.checkpoint)
      query == [after |-> cursor, startAt |-> session.checkpoint.seek,
                through |-> session.playhead, limit |-> limit,
                includePreRoll |-> preRoll /\ cursor = 0]
  IN  (CHOOSE answer \in Pages : answer.query = query).page

AfterRead(session, page) ==
  LET advanced == [session EXCEPT
        !.checkpoint = AdvanceCheckpoint(@, page.frames)]
  IN  IF session.playhead >= Until /\ ~page.hasMore
      THEN [advanced EXCEPT !.status = "completed", !.anchor = Until]
      ELSE advanced

-----------------------------------------------------------------------------
(* Requests and the lock. *)

Locked == {"pause", "resume", "speed", "seek", "read"}

Idle(c) == phase = "up" /\ request[c] = NoRequest

ReleaseNothing(c) ==  \* mutant: an operation that ends keeps the lock
  /\ request' = [request EXCEPT ![c] = NoRequest]
  /\ UNCHANGED locks
(* The request is answered or throws; the finally clause gives the lock to *)
(* the next one in the chain.                                              *)
Release(c) ==
  /\ request' = [request EXCEPT ![c] = NoRequest]
  /\ locks' = IF request[c].op \in Locked
              THEN [locks EXCEPT ![request[c].id] = Tail(@)] ELSE locks

Wait(c, stage) == request' = [request EXCEPT ![c].stage = stage]

(* persist() hands the repository a copy of the session as it is now. *)
Persist(c, id) ==
  tail' = Append(tail, 
    [op |-> "save", id |-> id, by |-> c, session |-> PublicSnapshot(objects'[id])])

(* delete(): out of the map now, out of the repository in its turn. *)
Drop(by, id) ==
  /\ present' = present \ {id}
  /\ tail' = Append(tail, [op |-> "remove", id |-> id, by |-> by])

Create(c, id, autoplay) ==
  /\ Idle(c) /\ id \notin created /\ ~changed
  /\ created' = created \cup {id}
  /\ objects' = With(objects, id, NewSession(autoplay))
  /\ present' = present \cup {id}
  /\ request' = [request EXCEPT ![c] = [op |-> "create", id |-> id, stage |-> "saving"]]
  /\ Persist(c, id)
  /\ UNCHANGED <<phase, todo, locks, cache, disk, world, history>>

(* A client knows an id from the answer to a create. *)
Known(id) ==
  id \in created /\ \A c \in Clients : request[c] # NoRequest =>
                      ~(request[c].op = "create" /\ request[c].id = id)

(* A call for a session that is gone, with no chain to wait for, throws    *)
(* and changes nothing: it is not a step.                                  *)
Enqueue(c, id, op, arg, preRoll) ==
  /\ Idle(c) /\ Known(id) /\ (id \in present \/ locks[id] # <<>>)
  /\ request' = [request EXCEPT ![c] =
       [op |-> op, id |-> id, arg |-> arg, preRoll |-> preRoll, stage |-> "lock",
        frames |-> <<>>]]
  /\ locks' = [locks EXCEPT ![id] = Append(@, c)]
  /\ UNCHANGED <<phase, todo, created, objects, present, tail, cache, disk, world, history>>

Turn(c, stage) ==
  /\ phase = "up" /\ request[c] # NoRequest
  /\ request[c].op \in Locked /\ request[c].stage = stage
  /\ Head(locks[request[c].id]) = c

FoundAtCall(id) == TRUE  \* mutant: the session is looked up before the lock is taken
Found(id) == id \in present

(* The chain reaches c: the session is gone, or it expired and is deleted. *)
StartMissing(c) ==
  /\ Turn(c, "lock")
  /\ LET id == request[c].id
     IN  \/ /\ ~Found(id)
            /\ Release(c)
            /\ UNCHANGED <<present, tail>>
         \/ /\ Found(id) /\ id \in expired
            /\ Drop(c, id) /\ Wait(c, "saving")
            /\ UNCHANGED locks
  /\ UNCHANGED <<phase, todo, created, objects, cache, disk, world, history>>

(* The synchronous part of an operation, up to its first await. *)
Starts(c, op) ==
  /\ Turn(c, "lock") /\ request[c].op = op
  /\ Found(request[c].id) /\ request[c].id \notin expired

Save(c, id, session) ==
  /\ objects' = [objects EXCEPT ![id] = session]
  /\ Persist(c, id) /\ Wait(c, "saving")

StartPlayback(c) ==
  /\ \E op \in {"pause", "resume", "speed"} : Starts(c, op)
  /\ LET id == request[c].id
     IN  \E playhead \in Playheads(objects[id]) :
           LET moved == [objects[id] EXCEPT !.playhead = playhead]
           IN  CASE request[c].op = "pause" -> Save(c, id, Paused(moved))
                 [] request[c].op = "speed" ->
                      Save(c, id, [moved EXCEPT !.anchor = playhead])
                 [] OTHER -> /\ moved.status # "completed"
                             /\ Save(c, id, [moved EXCEPT !.status = "playing",
                                                          !.anchor = playhead])
  /\ UNCHANGED <<phase, todo, created, present, locks, cache, disk, world, history>>

(* A completed replay does not resume; one that is not playing reads nothing. *)
AnswerAtOnce(c) ==
  /\ \/ /\ Starts(c, "resume")
        /\ objects[request[c].id].status = "completed"
     \/ /\ Starts(c, "read")
        /\ objects[request[c].id].status # "playing"
  /\ Release(c)
  /\ UNCHANGED <<phase, todo, created, objects, present, tail, cache, disk, world, history>>

StartRead(c) ==
  /\ Starts(c, "read")
  /\ LET id == request[c].id
     IN  /\ objects[id].status = "playing"
         /\ \E playhead \in Playheads(objects[id]) :
              objects' = [objects EXCEPT ![id].playhead = playhead]
  /\ Wait(c, "source")
  /\ UNCHANGED <<phase, todo, created, present, locks, tail, cache, disk, world, history>>

StartSeek(c) ==
  /\ Starts(c, "seek")
  /\ Wait(c, "source")
  /\ UNCHANGED <<phase, todo, created, objects, present, locks, tail, cache, disk, world,
                 history>>

-----------------------------------------------------------------------------
(* The capture answers. *)

(* It cannot be read, or is not the capture the session was made for. *)
SourceThrows(c) ==
  /\ Turn(c, "source")
  /\ (changed /\ UNCHANGED faults) \/ (~changed /\ Fault)
  /\ Release(c)
  /\ UNCHANGED <<phase, todo, created, objects, present, tail, cache, disk, expired, changed,
                 history>>

SeekAnswers(c) ==
  /\ Turn(c, "source") /\ request[c].op = "seek" /\ ~changed
  /\ LET id == request[c].id
     IN  /\ Save(c, id, Seeked(objects[id], request[c].arg))
         /\ received' = [received EXCEPT ![id] = <<>>]
         /\ unsure' = unsure \ {id}
  /\ UNCHANGED <<phase, todo, created, present, locks, cache, disk, world, gone>>

(* The checkpoint moves over the page before it is saved. *)
ReadAnswers(c) ==
  /\ Turn(c, "source") /\ request[c].op = "read" /\ ~changed
  /\ LET id == request[c].id
     IN  \E page \in {PageOf(objects[id], request[c].arg, request[c].preRoll)} :
           /\ objects' = [objects EXCEPT ![id] = AfterRead(objects[id], page)]
           /\ Persist(c, id)
           /\ request' = [request EXCEPT ![c].stage = "saving", ![c].frames = page.frames]
  /\ UNCHANGED <<phase, todo, created, present, locks, cache, disk, world, history>>

-----------------------------------------------------------------------------
(* delete(), get() of an expired session, and the cleanup timer. *)

(* No operation waits for the capture, and no save of the session failed. *)
NothingUnderWay(id) ==
  /\ id \notin unsure
  /\ \A c \in Clients : request[c] = NoRequest \/ request[c].id # id
                        \/ request[c].stage # "source"

Delete(c, id) ==
  /\ Idle(c) /\ Known(id) /\ id \in present
  /\ Drop(c, id)
  /\ request' = [request EXCEPT ![c] =
       [op |-> "delete", id |-> id, stage |-> "saving", quiet |-> NothingUnderWay(id)]]
  /\ UNCHANGED <<phase, todo, created, objects, locks, cache, disk, world, history>>

Cleanup(id) ==
  /\ phase = "up" /\ id \in present \cap expired
  /\ Drop(Nobody, id)
  /\ UNCHANGED <<phase, todo, created, objects, locks, request, cache, disk, world, history>>

-----------------------------------------------------------------------------
(* The repository runs its operations one after the other. *)

Full(operation) ==
  /\ operation.op = "save" /\ operation.id \notin DOMAIN cache
  /\ Cardinality(DOMAIN cache) >= MaxStored

Applied(operation) ==
  IF operation.op = "save" THEN With(cache, operation.id, operation.session)
  ELSE Without(cache, operation.id)

(* Nothing to remove: no file is written. *)
Vacuous(operation) == operation.op = "remove" /\ operation.id \notin DOMAIN cache

(* What the waiting request does when its operation is done. *)
Succeeds(c) ==
  LET id == request[c].id
  IN  /\ received' = IF request[c].op = "read"
                     THEN [received EXCEPT ![id] = @ \o request[c].frames] ELSE received
      /\ gone' = IF request[c].op = "delete" /\ request[c].quiet /\ id \notin unsure
                 THEN gone \cup {id} ELSE gone

RepositoryRuns ==
  /\ phase \in {"up"} /\ tail # <<>> /\ ~Full(Head(tail))
  /\ cache' = Applied(Head(tail))
  /\ disk' = IF Vacuous(Head(tail)) THEN disk ELSE cache'
  /\ tail' = Tail(tail)
  /\ IF Head(tail).by = Nobody
     THEN UNCHANGED <<request, locks, received, gone>>
     ELSE Succeeds(Head(tail).by) /\ Release(Head(tail).by)
  /\ UNCHANGED <<phase, todo, created, objects, present, world, unsure>>

(* The map keeps the change that did not reach the file. *)
RepositoryFails ==
  /\ phase = "up" /\ tail # <<>> /\ ~Vacuous(Head(tail))
  /\ IF Full(Head(tail)) THEN UNCHANGED <<cache, faults>>
     ELSE cache' = Applied(Head(tail)) /\ Fault
  /\ tail' = Tail(tail)
  /\ IF Head(tail).by = Nobody THEN UNCHANGED <<request, locks>>
     ELSE Release(Head(tail).by)
  /\ unsure' = unsure \cup {Head(tail).id}
  /\ UNCHANGED <<phase, todo, created, objects, present, disk, expired, changed, received,
                 gone>>

-----------------------------------------------------------------------------
(* A crash, and RawReplayRuntime.open() with its restore(). *)

Crash ==
  /\ phase # "down" /\ Fault
  /\ phase' = "down" /\ todo' = {}
  /\ objects' = Empty /\ present' = {} /\ cache' = Empty /\ tail' = <<>>
  /\ locks' = [id \in Sessions |-> <<>>]
  /\ request' = [c \in Clients |-> NoRequest]
  /\ unsure' = unsure \cup {request[c].id : c \in
       {d \in Clients : request[d] # NoRequest /\ request[d].stage = "saving"}}
  /\ UNCHANGED <<created, disk, expired, changed, received, gone>>

Open ==
  /\ phase = "down"
  /\ phase' = "restoring"
  /\ cache' = disk /\ todo' = DOMAIN disk
  /\ UNCHANGED <<created, objects, present, locks, request, tail, disk, world, history>>

Visited(id) == phase = "restoring" /\ id \in todo /\ todo' = todo \ {id}

Restore(id) ==
  /\ Visited(id) /\ id \notin expired /\ ~changed
  /\ \E session \in {Restored(cache[id])} :
       /\ objects' = With(objects, id, session)
       /\ cache' = With(cache, id, PublicSnapshot(session))
  /\ disk' = cache'
  /\ present' = present \cup {id}
  /\ UNCHANGED <<phase, created, locks, request, tail, world, history>>

(* The save fails: the session stays in the map but leaves the repository. *)
RestoreUnsaved(id) ==
  /\ Visited(id) /\ id \notin expired /\ ~changed /\ Fault
  /\ objects' = With(objects, id, Restored(cache[id]))
  /\ present' = present \cup {id}
  /\ cache' = Without(cache, id)
  /\ disk' \in {disk, cache'}
  /\ unsure' = unsure \cup {id}
  /\ UNCHANGED <<phase, created, locks, request, tail, expired, changed, received, gone>>

Discard(id) ==
  /\ Visited(id) /\ (id \in expired \/ changed)
  /\ cache' = Without(cache, id)
  /\ disk' \in {disk, cache'}  \* a failing removal is passed over
  /\ UNCHANGED <<phase, created, objects, present, locks, request, tail, world, history>>

Opened ==
  /\ phase = "restoring" /\ todo = {}
  /\ phase' = "up"
  /\ UNCHANGED <<todo, created, memory, disk, world, history>>

-----------------------------------------------------------------------------
(* The clock passes expiresAt; the capture's files change. *)

Expires(id) ==
  /\ id \in created \ expired /\ Fault
  /\ expired' = expired \cup {id}
  /\ UNCHANGED <<phase, todo, created, memory, disk, changed, history>>

SourceChanges ==
  /\ ~changed /\ changed' = TRUE /\ Fault
  /\ UNCHANGED <<phase, todo, created, memory, disk, expired, history>>

Call(c, id) ==
  \/ \E op \in {"pause", "resume", "speed"} : Enqueue(c, id, op, 0, FALSE)
  \/ \E target \in SeekTargets : Enqueue(c, id, "seek", target, FALSE)
  \/ \E limit \in Limits, preRoll \in BOOLEAN : Enqueue(c, id, "read", limit, preRoll)
  \/ Delete(c, id)
  \/ \E autoplay \in BOOLEAN : Create(c, id, autoplay)

Serve(c) ==
  \/ StartMissing(c) \/ StartPlayback(c) \/ AnswerAtOnce(c) \/ StartRead(c) \/ StartSeek(c)
  \/ SourceThrows(c) \/ SeekAnswers(c) \/ ReadAnswers(c)

Repository == RepositoryRuns \/ RepositoryFails

Next ==
  \/ \E c \in Clients, id \in Sessions : Call(c, id)
  \/ \E c \in Clients : Serve(c)
  \/ Repository
  \/ \E id \in Sessions : Cleanup(id) \/ Expires(id)
  \/ \E id \in Sessions : Restore(id) \/ RestoreUnsaved(id) \/ Discard(id)
  \/ Crash \/ Open \/ Opened \/ SourceChanges

Spec == Init /\ [][Next]_vars

(* The event loop runs what is ready, and files answer, well or badly. *)
Fairness == WF_vars(Repository) /\ \A c \in Clients : WF_vars(Serve(c))

FairSpec == Spec /\ Fairness

-----------------------------------------------------------------------------
(* docs/phase-2/replay-contract.md:28: the rolling checksum is a function  *)
(* of the capture and the seek target, whatever the speed, the pauses, the *)
(* restarts and the pages of the reader.  Of any capture it covers the     *)
(* live frames, in capture order and none passed over, and of what lies    *)
(* before the watermark snapshots and the depth records that follow one    *)
(* without a gap.  If the capture's clock is steady that is as much of its *)
(* one pre-roll as was asked for and fitted the first page: that part does *)
(* depend on the page.                                                     *)
SpeedInvariant ==
  \A id \in DOMAIN objects :
    Delivers(objects[id].checkpoint.rolled, objects[id].checkpoint.seek)

(* Reading is at most once: since the last seek no frame is sent twice or  *)
(* out of order, over failed saves, crashes and restores; and while every  *)
(* answer arrived, what was sent is exactly what the checkpoint counts.    *)
ReceivedOnce ==
  \A id \in Sessions :
    /\ \A i, j \in DOMAIN received[id] : i < j => received[id][i] < received[id][j]
    /\ id \in present \ unsure /\ (\A c \in Clients : request[c] # NoRequest =>
                                     request[c].stage # "saving" \/ request[c].id # id)
         => received[id] = objects[id].checkpoint.rolled

(* A session whose deletion was answered never comes back, neither in      *)
(* memory nor with a restart, unless an operation was waiting for the      *)
(* capture when it was asked for, which saves the session again, or the    *)
(* repository had failed to keep it before it answered.                    *)
DeletedStayGone == gone \cap (present \cup DOMAIN disk) = {}

(* Every request is answered: no failure, deletion or expiry leaves a lock *)
(* taken, and no chain waits for itself.                                   *)
RequestsAnswered ==
  \A c \in Clients : request[c] # NoRequest ~> request[c] = NoRequest
=============================================================================
