----------------------------- MODULE BinanceFeed -----------------------------
(***************************************************************************)
(* The adapter of server/feeds/binanceFeed.ts: two sockets a connection,   *)
(* depth events buffered while a REST snapshot is awaited, the snapshot    *)
(* reconciled with the buffer, and a restart on every doubt.  The exchange *)
(* is DepthStream; it may drop, repeat, damage or stall what it sends,     *)
(* MaxFaults times in all.  One action is one callback of the event loop.  *)
(*                                                                         *)
(* Callbacks of sockets and snapshot requests of earlier connections can   *)
(* still arrive: every handler takes the generation it was bound with, and *)
(* g < gen is a late callback.  The backoff delay is left out: a timer is  *)
(* armed or not.  Trade payloads touch only tradeSilent's clock, so a      *)
(* working trade socket is one that is not in "stalled".                   *)
(***************************************************************************)
EXTENDS DepthStream, RawProjection

CONSTANTS
  MaxBufferedDepth,  \* options.maxBufferedDepth
  MaxFaults,         \* bound: faults of the exchange and the network
  MaxStarts          \* bound: calls of start()

ASSUME FeedAssumption ==
  /\ MaxBufferedDepth \in Nat \ {0}
  /\ MaxFaults \in Nat
  /\ MaxStarts \in Nat \ {0}

NoSnapshot == -1
Streams == {"depth", "trade"}
None == 0

VARIABLES
  running, gen, depthSocket, tradeSocket, reconnectTimer, healthTimer,
  opened,     \* current sockets in readyState OPEN; last*MessageAt > 0 alike
  synchronizing, reconciliationReady, live, bufferedDepth,
  reconciliationSnapshot, validator,
  stalled,    \* current sockets that went silent without closing
  status,     \* the last status emitted
  fetching,   \* pending snapshot requests: <<generation, seq when sent>>
  seq,        \* the exchange: its last change number
  cursor,     \* the last change number sent on the current depth socket
  mirror,     \* a listener's book, rebuilt from "reconciled" and "depth"
  verdict,    \* what the listener made of the last event emitted
  replay,     \* the book projected from the "raw" events emitted so far
  faults, starts

connection == <<running, gen, depthSocket, tradeSocket, reconnectTimer, healthTimer,
                opened, stalled>>
sync == <<synchronizing, reconciliationReady, live, bufferedDepth,
          reconciliationSnapshot, validator, status>>
exchange == <<seq, cursor>>
listener == <<mirror, verdict>>
vars == <<connection, sync, fetching, exchange, listener, replay, faults, starts>>

Init ==
  /\ running = FALSE /\ gen = 0 /\ depthSocket = None /\ tradeSocket = None
  /\ reconnectTimer = FALSE /\ healthTimer = None /\ opened = {}
  /\ synchronizing = FALSE /\ reconciliationReady = FALSE /\ live = FALSE
  /\ bufferedDepth = <<>> /\ reconciliationSnapshot = NoSnapshot /\ validator = EmptyBook
  /\ status = [state |-> "none", session |-> 0]
  /\ fetching = {}
  /\ seq = 0 /\ cursor = 0 /\ stalled = {}
  /\ mirror = EmptyBook /\ verdict = "none" /\ replay = EmptyProjection
  /\ faults = 0 /\ starts = 0

-----------------------------------------------------------------------------
(* Shared steps of the handlers. *)

IsCurrentDepthUnguarded(g) == running  \* mutant: late callbacks act
IsCurrentDepth(g) == running /\ g = gen /\ depthSocket = g
IsCurrentTrade(g) == running /\ g = gen /\ tradeSocket = g
TransportAlive(open) == Streams \subseteq open

Fault == faults < MaxFaults /\ faults' = faults + 1

EmitStatus(state, g) == status' = [state |-> state, session |-> g]

ResetConnectionState(isSynchronizing) ==
  /\ synchronizing' = isSynchronizing
  /\ bufferedDepth' = <<>> /\ reconciliationSnapshot' = NoSnapshot
  /\ reconciliationReady' = FALSE /\ live' = FALSE

(* Mutant: the trade socket survives the restart. *)
TerminateDepthOnly ==
  /\ depthSocket' = None /\ UNCHANGED tradeSocket
  /\ opened' = {} /\ stalled' = {}

TerminateSockets ==
  /\ depthSocket' = None /\ tradeSocket' = None
  /\ opened' = {} /\ stalled' = {}

(* restart(): the running feed drops its connection and arms the timer. *)
DropConnection(state) ==
  /\ gen' = gen + 1
  /\ reconnectTimer' = TRUE /\ healthTimer' = None
  /\ TerminateSockets
  /\ ResetConnectionState(FALSE)
  /\ EmitStatus(state, gen + 1)
  /\ UNCHANGED running

Restart(state) == DropConnection(state) /\ UNCHANGED <<validator, listener>>

(* connect(): new sockets under a new generation, a new validator. *)
Connect(state) ==
  /\ gen' = gen + 1
  /\ validator' = EmptyBook
  /\ ResetConnectionState(TRUE)
  /\ EmitStatus(state, gen + 1)
  /\ depthSocket' = gen + 1 /\ tradeSocket' = gen + 1
  /\ opened' = {} /\ stalled' = {}
  /\ healthTimer' = gen + 1
  /\ UNCHANGED listener

(* connect() when a socket constructor throws: restart(..., "error"). *)
ConnectThrows ==
  /\ gen' = gen + 2
  /\ validator' = EmptyBook
  /\ ResetConnectionState(FALSE)
  /\ TerminateSockets
  /\ EmitStatus("error", gen + 2)
  /\ reconnectTimer' = TRUE /\ healthTimer' = None
  /\ UNCHANGED listener

(* maybeBecomeLive() inside a handler that left these values. *)
MaybeBecomeLive(ready, open) ==
  IF ~live /\ ready /\ TransportAlive(open)
  THEN live' = TRUE /\ EmitStatus("live", gen)
  ELSE UNCHANGED <<live, status>>

DrainOne(acc, u) ==
  LET r == ApplyUpdate(acc.book, u)
  IN IF ~acc.ok \/ u.end <= acc.from \/ r.status = "ignored" THEN acc
     ELSE [acc EXCEPT !.book = r.book, !.ok = (r.status = "applied")]

(* drainReconciliation(): the buffer through the candidate book, then the  *)
(* handoff if an event bridged the snapshot.  A failed event throws, and   *)
(* both callers restart.                                                   *)
DrainReconciliation(book, from, queued) ==
  \E drained \in {FoldLeft(DrainOne, [book |-> book, ok |-> TRUE, from |-> from], queued)} :
    IF ~drained.ok
    THEN Restart("error")
    ELSE /\ bufferedDepth' = <<>>
         /\ UNCHANGED connection
         /\ IF HasBridgedSnapshot(drained.book)
            THEN /\ validator' = Fingerprinted(drained.book)
                 /\ synchronizing' = FALSE /\ reconciliationReady' = TRUE
                 /\ reconciliationSnapshot' = NoSnapshot
                 /\ \E handoff \in {LoadSnapshot(EmptyBook, ExportSnapshot(drained.book))} :
                      /\ mirror' = handoff
                      /\ verdict' = IF Fingerprint(handoff) = Fingerprint(drained.book)
                                    THEN "verified" ELSE "mismatch"
                 /\ MaybeBecomeLive(TRUE, opened)
            ELSE /\ validator' = drained.book
                 /\ reconciliationSnapshot' = from
                 /\ UNCHANGED <<synchronizing, reconciliationReady, live, status, listener>>

-----------------------------------------------------------------------------
(* Calls of the owner. *)

Start ==
  /\ ~running /\ starts < MaxStarts
  /\ starts' = starts + 1
  /\ running' = TRUE
  /\ \/ Connect("connecting") /\ UNCHANGED <<faults, reconnectTimer>>
     \/ ConnectThrows /\ Fault
  /\ UNCHANGED <<fetching, exchange, replay>>

Stop ==
  /\ running
  /\ running' = FALSE
  /\ gen' = gen + 1
  /\ reconnectTimer' = FALSE /\ healthTimer' = None
  /\ TerminateSockets
  /\ ResetConnectionState(FALSE)
  /\ UNCHANGED <<validator, status, fetching, exchange, listener, replay, faults, starts>>

(* requestResync(), called by the gateway when its own book disagrees. *)
RequestResync ==
  /\ running /\ Fault
  /\ Restart("syncing")
  /\ UNCHANGED <<fetching, exchange, replay, starts>>

-----------------------------------------------------------------------------
(* Timers. *)

ReconnectTimerFires ==
  /\ reconnectTimer /\ running
  /\ \/ Connect("reconnecting") /\ reconnectTimer' = FALSE /\ UNCHANGED faults
     \/ ConnectThrows /\ Fault
  /\ UNCHANGED <<running, fetching, exchange, replay, starts>>

SilentTradeOnly == stalled \cap {"trade"}  \* mutant: depthSilent forgotten
Silent == stalled

(* The health interval finds a stream silent that had been heard from. *)
HealthTick ==
  /\ healthTimer # None /\ running /\ healthTimer = gen
  /\ Silent # {}
  /\ Restart("reconnecting")
  /\ UNCHANGED <<fetching, exchange, replay, faults, starts>>

-----------------------------------------------------------------------------
(* Socket callbacks, bound to generation g. *)

DepthOpen(g) ==
  /\ g = gen => "depth" \notin opened
  /\ IF IsCurrentDepth(g)
     THEN /\ opened' = opened \cup {"depth"}
          /\ EmitStatus("syncing", g)
          /\ fetching' = fetching \cup {<<g, seq>>}
          /\ cursor' = seq
     ELSE UNCHANGED <<opened, status, fetching, cursor>>
  /\ UNCHANGED <<running, gen, depthSocket, tradeSocket, reconnectTimer, healthTimer,
                 stalled, synchronizing, reconciliationReady, live, bufferedDepth,
                 reconciliationSnapshot, validator, seq, listener, replay, faults, starts>>

TradeOpen(g) ==
  /\ g = gen => "trade" \notin opened
  /\ IF IsCurrentTrade(g)
     THEN /\ opened' = opened \cup {"trade"}
          /\ MaybeBecomeLive(reconciliationReady, opened')
     ELSE UNCHANGED <<opened, live, status>>
  /\ UNCHANGED <<running, gen, depthSocket, tradeSocket, reconnectTimer, healthTimer,
                 stalled, synchronizing, reconciliationReady, bufferedDepth,
                 reconciliationSnapshot, validator, fetching, exchange, listener, replay,
                 faults, starts>>

SocketClose(g) ==
  /\ IF IsCurrentDepth(g) \/ IsCurrentTrade(g)
     THEN Restart("reconnecting") /\ Fault
     ELSE UNCHANGED <<connection, sync, listener, faults>>
  /\ UNCHANGED <<fetching, exchange, replay, starts>>

BufferFull == Len(bufferedDepth) >= MaxBufferedDepth

Emits(status_) == status_ = "applied"

(* What the listener makes of an event.  Its book is fresh from the        *)
(* handoff until the first event: one that chains on it but starts later   *)
(* is a gap to a book that has not bridged its snapshot ("lateStart").    *)
LateStart(b, u) == ~b.bridged /\ u.prev = b.updateId /\ u.start > b.updateId + 1
HeardAs(r, u) == IF r.status = "gap" /\ LateStart(mirror, u) THEN "lateStart" ELSE r.status

(* emit("depth").  A listener that refuses the event drops its book and    *)
(* calls requestResync() before emit() returns; updateId keeps the change  *)
(* number it has heard of.                                                 *)
EmitDepth(u) ==
  \E heard \in {ApplyUpdate(mirror, u)} :
    /\ verdict' = HeardAs(heard, u)
    /\ IF heard.status \in {"applied", "ignored"}
       THEN /\ mirror' = heard.book
            /\ UNCHANGED <<connection, synchronizing, reconciliationReady, live,
                           bufferedDepth, reconciliationSnapshot, status>>
       ELSE /\ mirror' = [EmptyBook EXCEPT !.updateId = u.end]
            /\ DropConnection("syncing")

(* handleDepthMessage() of a payload that parsed. *)
HandleDepth(u) ==
  IF synchronizing
  THEN IF BufferFull
       THEN Restart("syncing")
       ELSE IF reconciliationSnapshot # NoSnapshot
       THEN DrainReconciliation(validator, reconciliationSnapshot, Append(bufferedDepth, u))
       ELSE /\ bufferedDepth' = Append(bufferedDepth, u)
            /\ UNCHANGED <<connection, synchronizing, reconciliationReady, live,
                           reconciliationSnapshot, validator, status, listener>>
  ELSE \E r \in {ApplyUpdate(validator, u)} :
         IF r.status \notin {"applied", "ignored"}
         THEN Restart("syncing")
         ELSE /\ validator' = r.book
              /\ IF Emits(r.status)
                 THEN EmitDepth(u)
                 ELSE UNCHANGED <<connection, synchronizing, reconciliationReady, live,
                                  bufferedDepth, reconciliationSnapshot, status, listener>>

(* The futures stream: every event names its predecessor. *)
EventAfter == [f \in Framings |-> Event(f, f.from)]
DamagedUpdate(u) == [u EXCEPT !.bids = {[tick |-> t, qty |-> -1] : t \in Ticks}]

(* emit("raw"): the gateway records the payload before it is looked at.    *)
EmitRawDepth(g, u) == replay' = ProjectDepth(replay, g, u, MaxBufferedDepth)
EmitRawGarbage == replay' = Broken

(* What the current socket may carry: the next event intact, a level of it *)
(* damaged, nothing (lost), a payload that does not parse, or a repeat.    *)
DepthMessage(g) ==
  /\ g = gen => "depth" \in opened \ stalled
  /\ IF ~IsCurrentDepth(g)
     THEN UNCHANGED <<connection, sync, cursor, listener, replay, faults>>
     ELSE \E f \in Framings : f.end <= seq /\
            LET u == EventAfter[f]
            IN \/ /\ f.from = cursor /\ cursor' = f.end
                  /\ \/ HandleDepth(u) /\ EmitRawDepth(g, u) /\ UNCHANGED faults
                     \/ /\ HandleDepth(DamagedUpdate(u)) /\ EmitRawDepth(g, DamagedUpdate(u))
                        /\ Fault
                     \/ Fault /\ UNCHANGED <<connection, sync, listener, replay>>
                     \/ Fault /\ EmitRawGarbage /\ UNCHANGED <<connection, sync, listener>>
               \/ /\ f.end = cursor /\ HandleDepth(u) /\ EmitRawDepth(g, u)
                  /\ Fault /\ UNCHANGED cursor
  /\ UNCHANGED <<fetching, seq, starts>>

StreamSnapshot == [n \in 0 .. LastSeq |-> SnapshotAt(n)]

(* The continuation of synchronize() after its await: a book the exchange  *)
(* had between the request and now, one older than that (a stale cache),   *)
(* no body (HTTP, timeout), or one that does not parse or load.            *)
SnapshotArrives(request) ==
  /\ request \in fetching
  /\ fetching' = fetching \ {request}
  /\ UNCHANGED <<exchange, starts>>
  /\ IF ~IsCurrentDepth(request[1])
     THEN UNCHANGED <<connection, sync, listener, replay, faults>>
     ELSE \/ \E n \in 0 .. seq : \E s \in {StreamSnapshot[n]} :
               /\ IF n >= request[2] THEN UNCHANGED faults ELSE Fault
               /\ \E candidate \in {LoadSnapshot(validator, s)} :
                    DrainReconciliation(candidate, n, bufferedDepth)
               /\ replay' = ProjectSnapshot(replay, request[1], s)
          \/ Restart("error") /\ Fault /\ UNCHANGED replay
          \/ Restart("error") /\ Fault /\ EmitRawGarbage

-----------------------------------------------------------------------------
(* The exchange. *)

Change ==
  /\ seq < LastSeq
  /\ seq' = seq + 1
  /\ UNCHANGED <<connection, sync, fetching, cursor, listener, replay, faults, starts>>

Stall(s) ==
  /\ s \in opened \ stalled /\ Fault
  /\ stalled' = stalled \cup {s}
  /\ UNCHANGED <<running, gen, depthSocket, tradeSocket, reconnectTimer, healthTimer, opened,
                 sync, fetching, exchange, listener, replay, starts>>

Next ==
  \/ Start \/ Stop \/ RequestResync
  \/ ReconnectTimerFires \/ HealthTick
  \/ \E g \in 1 .. gen : DepthOpen(g)
  \/ \E g \in 1 .. gen : TradeOpen(g)
  \/ \E g \in 1 .. gen : SocketClose(g)
  \/ \E g \in 1 .. gen : DepthMessage(g)
  \/ \E r \in fetching : SnapshotArrives(r)
  \/ Change
  \/ \E s \in Streams : Stall(s)

Spec == Init /\ [][Next]_vars

(* Timers fire, requests settle (7 s abort), handshakes end (8 s limit),   *)
(* a working socket delivers what the exchange sends, and the exchange     *)
(* goes on trading while its history lasts.                                *)
Fairness ==
  /\ WF_vars(ReconnectTimerFires) /\ WF_vars(HealthTick)
  /\ WF_vars(DepthOpen(gen)) /\ WF_vars(TradeOpen(gen)) /\ WF_vars(DepthMessage(gen))
  /\ WF_vars(\E r \in fetching : SnapshotArrives(r))
  /\ WF_vars(Change)

FairSpec == Spec /\ Fairness

-----------------------------------------------------------------------------
(* The fields keep their types and the buffer its limit. *)
TypeOK ==
  /\ running \in BOOLEAN /\ gen \in Nat
  /\ {depthSocket, tradeSocket, healthTimer} \subseteq 0 .. gen
  /\ reconnectTimer \in BOOLEAN
  /\ opened \subseteq Streams /\ stalled \subseteq opened
  /\ {synchronizing, reconciliationReady, live} \subseteq BOOLEAN
  /\ bufferedDepth \in Seq(UpdateType) /\ Len(bufferedDepth) <= MaxBufferedDepth
  /\ reconciliationSnapshot \in {NoSnapshot} \cup 0 .. LastSeq
  /\ {validator, mirror} \subseteq BookType
  /\ status \in [state : {"none", "connecting", "reconnecting", "syncing", "live", "error"},
                 session : Nat]
  /\ fetching \subseteq (1 .. gen) \X (0 .. LastSeq)
  /\ {seq, cursor} \subseteq 0 .. LastSeq
  /\ verdict \in {"none", "verified", "mismatch", "lateStart"} \cup
                 {"applied", "ignored", "gap", "unsynced", "invalid"}
  /\ faults \in 0 .. MaxFaults /\ starts \in 0 .. MaxStarts

(* A listener that loads the handoff of drainReconciliation() and applies  *)
(* every "depth" event gets the checkpoint's fingerprint; no event is a    *)
(* repeat, a crossing or the end of a missed one.  The one refusal is of   *)
(* the first event after a handoff, when it chains on the handoff but      *)
(* starts past the next change number: nothing is missing, and yet the     *)
(* listener demands a resync (orderBook.ts:114, README section 6).         *)
(* Otherwise, from the handoff to the restart, its book is the exchange's  *)
(* at the feed's own sequence number, whatever was lost on the way.        *)
ListenerTracksExchange ==
  /\ verdict \in {"none", "verified", "applied", "lateStart"}
  /\ reconciliationReady =>
       /\ verdict \in {"verified", "applied"}
       /\ mirror.loaded /\ mirror.updateId = validator.updateId
       /\ mirror.bids = Truth[mirror.updateId].bids
       /\ mirror.asks = Truth[mirror.updateId].asks

(* A capture of everything received replays to the book that was live:     *)
(* whenever the feed has a reconciled book, projectRawCapture() of the     *)
(* "raw" events so far holds the same one, across reconnects, gaps and     *)
(* repeats, unless a payload in it does not parse or overflowed.           *)
CaptureReplaysTheBook ==
  reconciliationReady /\ ~replay.broken =>
    /\ replay.active = gen /\ replay.book.updateId = validator.updateId
    /\ replay.book.bids = validator.bids /\ replay.book.asks = validator.asks

(* "live" is claimed exactly while a reconciled book and both sockets of   *)
(* the current connection stand behind it, under the session it names.     *)
LiveStatusTruthful ==
  /\ status.session = gen
  /\ (status.state = "live") <=> live
  /\ live => reconciliationReady /\ opened = Streams /\ ~synchronizing

(* A running feed always has something that will wake it: the reconnect    *)
(* timer, or two sockets under the health timer of their own generation,   *)
(* and claims to be live only as above;                                    *)
(* a stopped one has nothing left that could.                              *)
Supervised ==
  IF running
  THEN /\ LiveStatusTruthful
       /\ IF reconnectTimer
          THEN depthSocket = None /\ tradeSocket = None /\ healthTimer = None
          ELSE depthSocket = gen /\ tradeSocket = gen /\ healthTimer = gen
  ELSE ~reconnectTimer /\ healthTimer = None /\ opened = {} /\ ~live

(* The feed implements DepthFeed: what its owner sees are the statuses,    *)
(* hand-overs and contiguous deliveries of the contract, and a reconnect,  *)
(* a refusal or a late callback never takes the delivered sequence back.   *)
Contract ==
  INSTANCE DepthFeed WITH retry <- reconnectTimer, ready <- reconciliationReady,
                          head <- mirror.updateId
ImplementsDepthFeed == Contract!Spec

(* synchronize() never wedges: a connection that is synchronizing hands a  *)
(* book over, restarts or is stopped, unless the bounded history ends and  *)
(* leaves a loaded snapshot with no event to bridge it.                    *)
HistoryOver ==
  cursor = LastSeq /\ reconciliationSnapshot # NoSnapshot /\ bufferedDepth = <<>>

SynchronizationSettles ==
  synchronizing ~> reconciliationReady \/ reconnectTimer \/ ~running \/ HistoryOver
=============================================================================
