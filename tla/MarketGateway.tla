---------------------------- MODULE MarketGateway ----------------------------
(***************************************************************************)
(* The vertical slice of server/marketGateway.ts: one symbol, two sources. *)
(* The Binance feed is the contract DepthFeed (which BinanceFeed           *)
(* implements) over the exchange DepthStream; the demo feed is             *)
(* server/feeds/demoFeed.ts.  Emitters are synchronous: a feed step puts   *)
(* its events in "emitted", and nothing else runs until the handlers bound *)
(* in bindFeeds() have taken them.  A handler that calls back into the     *)
(* feed (requestResync) has the nested events handled first.               *)
(*                                                                         *)
(* A listener of the gateway (the WebSocket layer, insights) is reduced to *)
(* what "market_reset" and "snapshot" told it last.  Analytics, trades and *)
(* history are left out: they read this state and never write it.          *)
(***************************************************************************)
EXTENDS DepthStream, Sequences, SequencesExt

CONSTANTS
  DemoTruth,      \* the demo feed's books, by parity of its sequence number
  MaxPending,     \* maxPendingBinanceUpdates
  MaxDemoSeq,     \* bound: steps of the demo feed
  MaxFaults,      \* bound: failed or lost connections and silences
  MaxStarts       \* bound: calls of start()

ASSUME GatewayAssumption ==
  /\ DemoTruth \in [{0, 1} -> [bids : Sides, asks : Sides]]
  /\ \A p \in {0, 1} : ~Crossed(DemoTruth[p].bids, DemoTruth[p].asks)
  /\ MaxPending \in Nat \ {0}
  /\ {MaxDemoSeq, MaxFaults} \subseteq Nat /\ MaxStarts \in Nat \ {0}

VARIABLES
  running, gen, retry, ready, live, head, status,  \* the feed, see DepthFeed
  emitted,        \* events whose handlers have not run yet
  forceDemo,      \* options.forceDemo
  started, source, book, session, currentStatus, fallbackTimer,
  staged,         \* pendingBinanceReconciliation
  pending,        \* pendingBinanceUpdates
  demoRunning, demoSeq,
  audience,       \* a listener: the session it was told of, frozen or not
  minted,         \* randomUUID() calls so far
  faults, starts

feed == <<running, gen, retry, ready, live, head, status>>
market == <<source, book, session, currentStatus, audience>>
staging == <<staged, pending>>
demo == <<demoRunning, demoSeq>>
bounds == <<faults, starts>>
vars == <<feed, emitted, forceDemo, started, market, fallbackTimer, staging, demo,
          minted, bounds>>

Feed == INSTANCE DepthFeed

-----------------------------------------------------------------------------
(* Events and session identities. *)

StatusEvent(state, g) == [kind |-> "status", state |-> state, session |-> g]
Reconciled(n) == [kind |-> "reconciled", at |-> n]
DepthEvent(f) == [kind |-> "depth", from |-> f.from, start |-> f.start, end |-> f.end]
Quiet == emitted = <<>>

BinanceSession(g) == <<"binance", g>>
Uuid(k) == <<"uuid", k>>
Begun(id) == [id |-> id, validity |-> "syncing"]
Invalidated(id, validity) == [id |-> id, validity |-> validity]
Committed(id) == [id |-> id, validity |-> "valid"]

NoReconciliation == [snapshot |-> {}, fingerprint |-> NoDigest]
Reconciliation(n) ==
  [snapshot |-> SnapshotAt(n), fingerprint |-> <<n, Truth[n].bids, Truth[n].asks>>]

DepthUpdate(e) == Event(e, e.from)

NothingStaged == staged.fingerprint = NoDigest
Valid == session.validity = "valid"
IsMarketDataValid == Valid /\ book.loaded

DemoBook(n) == DemoTruth[n % 2]
AllLevels(side) == {[tick |-> t, qty |-> side[t]] : t \in Ticks}
DemoSnapshot(n) == [lastUpdateId |-> n, bids |-> SnapshotLevels(DemoBook(n).bids),
                    asks |-> SnapshotLevels(DemoBook(n).asks)]
DemoUpdate(n) == [start |-> n, end |-> n, prev |-> n - 1,
                  bids |-> AllLevels(DemoBook(n).bids), asks |-> AllLevels(DemoBook(n).asks)]

Init ==
  /\ Feed!Init
  /\ emitted = <<>> /\ forceDemo \in BOOLEAN /\ started = FALSE
  /\ source = "binance" /\ book = EmptyBook
  /\ session = Invalidated(Uuid(0), "invalid")
  /\ currentStatus = "connecting" /\ fallbackTimer = FALSE
  /\ staged = NoReconciliation /\ pending = <<>>
  /\ demoRunning = FALSE /\ demoSeq = 1
  /\ audience = [session |-> Uuid(0), frozen |-> TRUE]
  /\ minted = 0 /\ faults = 0 /\ starts = 0

-----------------------------------------------------------------------------
(* Shared steps. *)

Fault == faults < MaxFaults /\ faults' = faults + 1

(* Mutant: no reset is published when the session was not valid. *)
InvalidateOnlyValid(id, validity, kept) ==
  /\ session' = Invalidated(id, validity)
  /\ book' = kept
  /\ audience' = IF Valid THEN [session |-> id, frozen |-> TRUE] ELSE audience

(* invalidateMarketData(): market_reset unless nothing changes for readers. *)
InvalidateMarketData(id, validity, kept) ==
  /\ session' = Invalidated(id, validity)
  /\ book' = kept
  /\ audience' = IF Valid \/ id # session.id THEN [session |-> id, frozen |-> TRUE]
                 ELSE audience

ClearStaged == staged' = NoReconciliation /\ pending' = <<>>

(* requestResync() in a handler: the feed's status is handled first. *)
RequestResync ==
  IF running
  THEN /\ Feed!Drop("syncing")
       /\ emitted' = <<StatusEvent("syncing", gen + 1)>> \o Tail(emitted)
  ELSE /\ emitted' = Tail(emitted)
       /\ UNCHANGED feed

(* Mutant: only errors arm the fallback. *)
FallbackOnErrorsOnly(state) == {"error"}
FallbackStates(state) == {"reconnecting", "error", "stale"}
ScheduleDemoFallback(state) ==
  fallbackTimer' = (fallbackTimer \/ (state \in FallbackStates(state) /\ started /\ ~forceDemo))

(* processSnapshot("demo", ...) on the snapshot demo.start() emits. *)
DemoCommitted(id) ==
  /\ book' = Fingerprinted(LoadSnapshot(EmptyBook, DemoSnapshot(demoSeq)))
  /\ session' = Committed(id)
  /\ audience' = [session |-> id, frozen |-> FALSE]
  /\ currentStatus' = "demo"
  /\ demoRunning' = TRUE

(* switchToDemo(): begin, reset, market_reset, demo.start(), status. *)
SwitchToDemo(id) == source' = "demo" /\ fallbackTimer' = FALSE /\ DemoCommitted(id)

-----------------------------------------------------------------------------
(* Handlers of the Binance feed's events. *)

OnReconciled ==
  /\ emitted # <<>> /\ Head(emitted).kind = "reconciled"
  /\ staged' = Reconciliation(Head(emitted).at) /\ pending' = <<>>
  /\ emitted' = Tail(emitted)
  /\ UNCHANGED <<feed, forceDemo, started, market, fallbackTimer, demo, minted, bounds>>

PendingFull == Len(pending) >= MaxPending

(* "depth" while a commit is pending, or for a source that is not shown. *)
StageDepth ==
  /\ emitted # <<>> /\ Head(emitted).kind = "depth"
  /\ source # "binance" \/ ~Valid
  /\ IF NothingStaged
     THEN emitted' = Tail(emitted) /\ UNCHANGED <<feed, staging>>
     ELSE IF PendingFull
     THEN ClearStaged /\ RequestResync
     ELSE /\ pending' = Append(pending, DepthUpdate(Head(emitted)))
          /\ emitted' = Tail(emitted)
          /\ UNCHANGED <<feed, staged>>
  /\ UNCHANGED <<forceDemo, started, market, fallbackTimer, demo, minted, bounds>>

(* processDepth("binance", ...).  The book is fresh from the handoff until *)
(* the first event: it refuses one that starts late (DepthStream), which   *)
(* the feed, whose own book has bridged its snapshot, lets through.        *)
ProcessDepth ==
  /\ emitted # <<>> /\ Head(emitted).kind = "depth"
  /\ source = "binance" /\ Valid
  /\ \E r \in {ApplyUpdate(book, DepthUpdate(Head(emitted)))} :
       IF r.status \in {"applied", "ignored"}
       THEN /\ book' = IF r.status = "applied" THEN Fingerprinted(r.book) ELSE r.book
            /\ emitted' = Tail(emitted)
            /\ UNCHANGED <<feed, session, audience>>
       ELSE InvalidateMarketData(session.id, "invalid", EmptyBook) /\ RequestResync
  /\ UNCHANGED <<forceDemo, started, source, currentStatus, fallbackTimer, staging, demo,
                 minted, bounds>>

StatusAsIs(state) == state  \* mutant: the feed's trouble becomes the market's
StatusBehindDemo(state) == "demo"

(* handleBinanceStatus() of every state but "live". *)
OnDown ==
  /\ emitted # <<>> /\ Head(emitted).kind = "status" /\ Head(emitted).state # "live"
  /\ ClearStaged
  /\ emitted' = Tail(emitted)
  /\ IF source = "binance"
     THEN /\ InvalidateMarketData(BinanceSession(Head(emitted).session),
               IF Head(emitted).state = "error" THEN "invalid" ELSE "syncing", EmptyBook)
          /\ currentStatus' = Head(emitted).state
          /\ ScheduleDemoFallback(Head(emitted).state)
     ELSE /\ currentStatus' = StatusBehindDemo(Head(emitted).state)
          /\ UNCHANGED <<session, book, audience, fallbackTimer>>
  /\ UNCHANGED <<feed, forceDemo, started, source, demo, minted, bounds>>

CommitOne(acc, u) ==
  LET r == ApplyUpdate(acc.book, u)
  IN IF ~acc.ok \/ r.status = "ignored" THEN acc
     ELSE [book |-> r.book, ok |-> r.status = "applied"]

CandidateUnfolded(reconciliation, updates) ==  \* mutant: pending updates dropped
  [book |-> LoadSnapshot(EmptyBook, reconciliation.snapshot), ok |-> TRUE]

(* The candidate of switchToBinance(): the staged snapshot, checked against *)
(* the feed's fingerprint, then every update received since.                *)
Candidate(reconciliation, updates) ==
  LET loaded == LoadSnapshot(EmptyBook, reconciliation.snapshot)
  IN FoldLeft(CommitOne,
       [book |-> loaded, ok |-> /\ SnapshotAcceptable(reconciliation.snapshot)
                                /\ Fingerprint(loaded) = reconciliation.fingerprint],
       updates)

(* switchToBinance() *)
OnLive ==
  /\ emitted # <<>> /\ Head(emitted).kind = "status" /\ Head(emitted).state = "live"
  /\ ClearStaged
  /\ \E candidate \in {IF NothingStaged THEN [book |-> EmptyBook, ok |-> FALSE]
                       ELSE Candidate(staged, pending)} :
       IF candidate.ok
       THEN /\ fallbackTimer' = FALSE
            /\ demoRunning' = FALSE
            /\ source' = "binance"
            /\ book' = Fingerprinted(candidate.book)
            /\ session' = Committed(BinanceSession(Head(emitted).session))
            /\ audience' = [session |-> session'.id, frozen |-> FALSE]
            /\ currentStatus' = "live"
            /\ emitted' = Tail(emitted)
            /\ UNCHANGED feed
       ELSE RequestResync /\ UNCHANGED <<market, fallbackTimer, demoRunning>>
  /\ UNCHANGED <<forceDemo, started, demoSeq, minted, bounds>>

-----------------------------------------------------------------------------
(* The gateway's own operations and timers. *)

(* start(): idempotent, and it throws once shutdown() was called. *)
Start ==
  /\ Quiet /\ ~started /\ session.validity # "closed" /\ starts < MaxStarts
  /\ starts' = starts + 1 /\ started' = TRUE
  /\ IF forceDemo
     THEN /\ SwitchToDemo(Uuid(minted + 2)) /\ minted' = minted + 2
          /\ UNCHANGED <<feed, emitted, faults>>
     ELSE /\ source' = "binance"
          /\ session' = Begun(Uuid(minted + 1)) /\ minted' = minted + 1
          /\ fallbackTimer' = TRUE
          /\ \/ /\ Feed!Start /\ UNCHANGED faults
                /\ emitted' = <<StatusEvent("connecting", gen + 1)>>
             \/ /\ Feed!StartFails /\ Fault
                /\ emitted' = <<StatusEvent("connecting", gen + 1),
                                StatusEvent("error", gen + 2)>>
          /\ UNCHANGED <<book, audience, currentStatus, demoRunning>>
  /\ UNCHANGED <<forceDemo, staging, demoSeq>>

(* The part stop() and shutdown() share: feeds and timers. *)
StopIngress ==
  /\ Feed!Stop \/ (~running /\ UNCHANGED feed)
  /\ started' = FALSE /\ demoRunning' = FALSE /\ fallbackTimer' = FALSE

Stop ==
  /\ Quiet /\ started
  /\ StopIngress
  /\ UNCHANGED <<emitted, forceDemo, market, staging, demoSeq, minted, bounds>>

(* shutdown(), up to its first await. *)
Shutdown ==
  /\ Quiet /\ session.validity # "closed"
  /\ StopIngress
  /\ session' = [session EXCEPT !.validity = "closed"]
  /\ book' = EmptyBook
  /\ audience' = [session |-> session.id, frozen |-> TRUE]
  /\ currentStatus' = "closed"
  /\ UNCHANGED <<emitted, forceDemo, source, staging, demoSeq, minted, bounds>>

(* The fallback timer of scheduleDemoFallback(). *)
FallbackFires ==
  /\ Quiet /\ fallbackTimer
  /\ IF currentStatus # "live" /\ started /\ source # "demo"
     THEN SwitchToDemo(Uuid(minted + 1)) /\ minted' = minted + 1
     ELSE fallbackTimer' = FALSE /\ UNCHANGED <<market, demoRunning, minted>>
  /\ UNCHANGED <<feed, emitted, forceDemo, started, staging, demoSeq, bounds>>

StaleRestartsFeed ==
  IF running
  THEN Feed!Drop("syncing") /\ emitted' = <<StatusEvent("syncing", gen + 1)>>
  ELSE UNCHANGED <<feed, emitted>>

(* emitFrame() when the market has been silent for staleAfterMs. *)
GoesStale ==
  /\ Quiet /\ started /\ IsMarketDataValid /\ currentStatus # "stale" /\ Fault
  /\ IF source = "binance"
     THEN /\ InvalidateMarketData(session.id, "stale", book)
          /\ currentStatus' = "stale"
          /\ StaleRestartsFeed
          /\ UNCHANGED demoRunning
     ELSE DemoCommitted(session.id) /\ UNCHANGED <<feed, emitted>>
  /\ UNCHANGED <<forceDemo, started, source, fallbackTimer, staging, demoSeq, minted, starts>>

(* The demo feed's interval, and processDepth("demo", ...). *)
DemoStep ==
  /\ Quiet /\ demoRunning /\ demoSeq < MaxDemoSeq
  /\ demoSeq' = demoSeq + 1
  /\ IF source = "demo" /\ Valid
     THEN \E r \in {ApplyUpdate(book, DemoUpdate(demoSeq + 1))} :
            IF r.status \in {"applied", "ignored"}
            THEN /\ book' = IF r.status = "applied" THEN Fingerprinted(r.book) ELSE r.book
                 /\ UNCHANGED <<session, audience, currentStatus>>
            ELSE /\ book' = Fingerprinted(LoadSnapshot(EmptyBook, DemoSnapshot(demoSeq + 1)))
                 /\ audience' = [session |-> session.id, frozen |-> FALSE]
                 /\ currentStatus' = "demo"
                 /\ UNCHANGED session
     ELSE UNCHANGED <<book, session, audience, currentStatus>>
  /\ UNCHANGED <<feed, emitted, forceDemo, started, source, fallbackTimer, staging,
                 demoRunning, minted, bounds>>

-----------------------------------------------------------------------------
(* Steps of the Binance feed. *)

FeedOpened ==
  /\ Quiet /\ Feed!Opened
  /\ emitted' = <<StatusEvent("syncing", gen)>>
  /\ UNCHANGED <<forceDemo, started, market, fallbackTimer, staging, demo, minted, bounds>>

FeedHandsOver(n) ==
  /\ Quiet
  /\ \/ Feed!HandOver(n) /\ emitted' = <<Reconciled(n)>>
     \/ Feed!HandOverLive(n) /\ emitted' = <<Reconciled(n), StatusEvent("live", gen)>>
  /\ UNCHANGED <<forceDemo, started, market, fallbackTimer, staging, demo, minted, bounds>>

FeedGoesLive ==
  /\ Quiet /\ Feed!GoLive
  /\ emitted' = <<StatusEvent("live", gen)>>
  /\ UNCHANGED <<forceDemo, started, market, fallbackTimer, staging, demo, minted, bounds>>

FeedDelivers(n) ==
  /\ Quiet /\ Feed!Deliver(n)
  /\ \E f \in Framings : /\ f.from = head /\ f.end = n
                         /\ emitted' = <<DepthEvent(f)>>
  /\ UNCHANGED <<forceDemo, started, market, fallbackTimer, staging, demo, minted, bounds>>

FeedDrops(state) ==
  /\ Quiet /\ Feed!Drop(state) /\ Fault
  /\ emitted' = <<StatusEvent(state, gen + 1)>>
  /\ UNCHANGED <<forceDemo, started, market, fallbackTimer, staging, demo, minted, starts>>

FeedReconnects ==
  /\ Quiet
  /\ \/ /\ Feed!Reconnect /\ UNCHANGED faults
        /\ emitted' = <<StatusEvent("reconnecting", gen + 1)>>
     \/ /\ Feed!ReconnectFails /\ Fault
        /\ emitted' = <<StatusEvent("reconnecting", gen + 1), StatusEvent("error", gen + 2)>>
  /\ UNCHANGED <<forceDemo, started, market, fallbackTimer, staging, demo, minted, starts>>

Handlers == OnReconciled \/ StageDepth \/ ProcessDepth \/ OnDown \/ OnLive

Next ==
  \/ OnReconciled \/ StageDepth \/ ProcessDepth \/ OnDown \/ OnLive
  \/ Start \/ Stop \/ Shutdown
  \/ FallbackFires \/ GoesStale \/ DemoStep
  \/ FeedOpened \/ FeedGoesLive \/ FeedReconnects
  \/ \E n \in 0 .. LastSeq : FeedHandsOver(n)
  \/ \E n \in 0 .. LastSeq : FeedDelivers(n)
  \/ \E state \in Feed!DropStates : FeedDrops(state)

(* Handlers run at once and armed timers fire; nothing is assumed of the   *)
(* network: the feed may never open, hand over or go live.                 *)
Spec == Init /\ [][Next]_vars
FairSpec ==
  Spec /\ WF_vars(Handlers) /\ WF_vars(FallbackFires) /\ WF_vars(FeedReconnects)

-----------------------------------------------------------------------------
(* The fields keep their types and the pending queue its limit. *)
TypeOK ==
  /\ {running, retry, ready, live, started, forceDemo, fallbackTimer, demoRunning}
       \subseteq BOOLEAN
  /\ gen \in Nat /\ head \in 0 .. LastSeq /\ Len(emitted) <= 2
  /\ source \in {"binance", "demo"}
  /\ book \in BookType
  /\ session.id \in {"binance", "uuid"} \X Nat
  /\ session.validity \in {"invalid", "syncing", "stale", "valid", "closed"}
  /\ currentStatus \in {"connecting", "syncing", "reconnecting", "error", "live", "demo",
                        "stale", "closed"}
  /\ pending \in Seq(UpdateType) /\ Len(pending) <= MaxPending
  /\ demoSeq \in 1 .. MaxDemoSeq
  /\ audience.session \in {"binance", "uuid"} \X Nat /\ audience.frozen \in BOOLEAN

(* docs/phase-1/reliability-contract.md, the atomic handoff: whenever the  *)
(* session is valid the book shown is the whole book of the active source  *)
(* at the source's own position, and for Binance the session is the one of *)
(* the connection that delivered it; the sources never mix.                *)
ValidBookIsTheSourcesBook ==
  started /\ Quiet /\ Valid =>
    /\ book.loaded
    /\ IF source = "binance"
       THEN /\ session.id = BinanceSession(gen) /\ book.updateId = head
            /\ book.bids = Truth[head].bids /\ book.asks = Truth[head].asks
       ELSE /\ session.id[1] = "uuid" /\ book.updateId = demoSeq
            /\ book.bids = DemoBook(demoSeq).bids /\ book.asks = DemoBook(demoSeq).asks

(* A change of source or of feed generation publishes market_reset, and    *)
(* frozen holds in every state but valid: once the handlers have run, what *)
(* the listeners were told last is the current session and its validity.   *)
ListenersToldOfEverySession ==
  started /\ Quiet => audience = [session |-> session.id, frozen |-> ~Valid]

(* The feed is live exactly while its book is the one shown: no live feed  *)
(* is left behind the demo, and no dead one is shown as the market.        *)
LiveFeedIsShown == live <=> source = "binance" /\ Valid

(* Nor does the published state contradict the source and the session.     *)
PublishedStatusHonest ==
  started /\ Quiet =>
    /\ LiveFeedIsShown
    /\ CASE source = "demo" -> Valid /\ currentStatus = "demo"
         [] source = "binance" -> (currentStatus = "live" <=> Valid) /\ currentStatus # "demo"

(* A started gateway that has no valid data gets some, from Binance or,    *)
(* whatever the network does, from the demo feed.                          *)
MarketRecovers == started ~> Valid \/ ~started
=============================================================================
