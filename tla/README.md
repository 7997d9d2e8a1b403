# Formal models of xbmap

xbmap streams the order book of Binance futures markets to browsers. A server
reconciles the exchange's REST snapshot with its WebSocket stream, falls back to
a demo source when the exchange is away, serves any number of WebSocket clients
per symbol, records what it sees, rolls the history up, backs it up, replays it
and raises alerts; a page shows all that. This directory holds TLA+ models of
server and page, TLC configurations that model-check them on small instances,
laws of the pure parts that TLC evaluates over bounded inputs, and TLAPS proofs
of the theorems that hold for every value of the constants.

Paths below are relative to the repository's root (`server/...`, and `src/...`
for the page). The server is one Node.js process and the page one browser tab:
handlers never run in parallel, and every interleaving is between *callbacks of
an event loop* (socket events, timers, settled promises). One action of a model
is one such callback, or one segment between two `await`s, with everything it
calls synchronously.

## 1. Inventory

| Component | Source | State it keeps | Operations | Talks to |
|---|---|---|---|---|
| Order book | `server/core/orderBook.ts` | bid and ask levels, `lastUpdateId`, bridged flag, fingerprint cache | `loadSnapshot`, `applyUpdate`, `fingerprint`, `hasBridgedSnapshot`, queries | owned by the feed (validator) and by the gateway (shown) |
| Binance feed | `server/feeds/binanceFeed.ts` | generation, two sockets, depth buffer, pending snapshot, reconnect and health timers, live flag | `start`, `stop`, `requestResync`, socket and timer callbacks, `synchronize`, `drainReconciliation`, `restart` | emits `status`, `reconciled`, `depth`, `trade` to the gateway; hands what it received to a capture |
| Market gateway | `server/marketGateway.ts`, `server/core/dataQuality.ts`, `server/feeds/demoFeed.ts` | active source, book, session and validity, staged updates, timers; trades, buckets, frames, settings | `start`, `stop`, `shutdown`, feed handlers, `switchToDemo`, `finalizeBinanceHandoff`, `emitFrame`, `updateSettings` | consumes both feeds; publishes `market_reset`, `snapshot`, `depth_frame`, `trade_bucket`, `metric`, `status`, ... |
| Session manager and connections | `server/marketSessionManager.ts`, `server/httpServer.ts` (WebSocket part) | sessions with reference count and eviction timer; clients with subscriptions and heartbeat flag | `acquire`, `release`, eviction, `drain`; connect, subscribe, unsubscribe, pong, close | builds and disposes gateways |
| HTTP and WebSocket service | `server/httpServer.ts` | per-client delivery sequence and socket buffer; rate-limit records | `onGatewayEvent` with back-pressure; middleware and REST handlers | gateway events to browsers; every other component |
| History writer | `server/storage/batchedWriter.ts` | queue, batch in flight, timer, drain and close promises, failure | `enqueue`, `flush`, `close`, timer, drain | appends batches to a history store |
| History runtime and maintenance | `server/historyPersistence.ts`, `server/storage/downsampleWorker.ts`, `server/storage/downsample.ts` | maintenance chain, retention and backup timers, capture bounds | record, `queryHistory`, `runRetention`, `createBackup`, roll-up, `close` | writer and store |
| File history store | `server/storage/fileHistoryStore.ts` | catalog on disk, segment files, pins, pending deletes, generation | `initialize`, `appendBatch`, `query`, `runRetention`, `createBackup`, `restoreBackup`, checkpoints | the file system |
| ClickHouse store | `server/storage/clickHouseHistoryStore.ts` | none of its own | the same operations as SQL over HTTP | ClickHouse |
| PostgreSQL sessions | `server/storage/postgresReplaySessions.ts` | none | constructed nowhere | |
| Raw capture | `server/recording/rawCapture.ts` | bounded queue, gzip stream, byte and time budget, manifest | `record`, `close`, abort, failure | feed messages to a file |
| Replay sessions | `server/replay/sessionManager.ts`, `fileSessionRepository.ts` | sessions with clock, playhead, checkpoint and lock; persisted copies | create, control, read, seek, delete, cleanup, restore | replay sources |
| Replay sources and runtime | `server/replayRuntime.ts`, `server/replay/*` | catalog of captures, projections | refresh, page, project | captures and history |
| Browser market client | `src/lib/marketDataClient.ts` | socket, expected delivery sequence, reconciliation, selected symbol | connect, message, gap, reconnect, switch | the WebSocket service |
| Browser presentation | `src/lib/useMarketData.ts`, `replayController.ts`, `replayApi.ts`, `marketNormalization.ts`, `ringBuffer.ts`, `src/App.tsx` | buffers, reconciliation shown, replay clock | events, clear, load, play, pause, seek, speed | market client |
| Alert engine | `server/alerts/alertEngine.ts`, `server/insights/insightsRuntime.ts` | rules, cooldowns, baselines, open outcomes, audit | evaluate, edit, save | gateway frames, insights |
| Analytics and insights | `server/core/analytics.ts`, `tradeAggregator.ts`, `ringBuffer.ts`, `server/insights/insightEngine.ts` | numeric windows, walls, trend state | per-event computation, tick | gateway |
| Derivatives and liquidations | `server/feeds/binanceDerivatives.ts`, `binanceLiquidations.ts` | last values, window of liquidations | poll, socket | insights |
| Authentication | `server/auth/*` | accounts, workspaces, flags, sessions, failures | login, validate, admin routes, save | HTTP service |
| Observability | `server/observability/*` | series, buckets, alerts, incidents, spans | record, sample, export | everything |
| Bootstrap | `server/index.ts`, `server/instruments.ts` | the wiring; one `HistoryPersistence` per symbol; rule files | boot, signals | everything |

What is hard in this code, and what makes each part correct:

* **Book.** An update is found to cross only after both sides were written; it
  must then leave no trace. Sequence rules must neither accept a gap nor refuse a
  healthy stream, the event straddling the snapshot being the boundary case.
* **Feed.** The snapshot request races the stream, the buffer's limit, the
  sockets' ends and any number of late callbacks of connections already replaced.
  What it emits must be one contiguous, faithful stream, and what it captured
  must project to the same book; it must never be without something that will
  wake it, nor synchronize for ever.
* **Gateway.** Two sources, one visible book. The hand-off is atomic, listeners
  hear of every change of session, the status describes what is shown, and every
  loss ends in data being shown again (`docs/phase-1/reliability-contract.md`). A
  trade is in one bubble and one second, however late it comes, or went with a bucket or
  a second that was emptied on purpose.
* **Sessions.** Reference counts against repeated, refused and vanished clients,
  eviction timers against re-acquisition, drain against late subscribers.
* **Delivery.** Frames are dropped for slow clients and connections break while the
  market resets and the user switches; once the switch is answered, what a page shows as
  live must have been proven by the server for the market it names, and live data must
  come back.
* **Writer and runtime.** One drain, several flushers, timers cleared by everything,
  a failing batch, jobs that flush, and a close that overlaps all of them.
* **Store.** Ingestion, queries, retention, backup, roll-up and restore overlap at
  file granularity, and the process can die between any two steps.
* **Capture.** Limits in records, bytes and time against a compressing stream that
  pushes back, fails or ends; a manifest may only claim what can be read back.
* **Replay sessions.** A lock that deletion does not take, a page that moves the
  playhead before it is saved, saves that fail, processes that restart.
* **Page.** React runs updaters later than the calls that queued them; clear, load
  and symbol switches come between.
* **Alerts.** Walls come and go between ticks; rules are edited while they cool
  down and saved after a delay.

## 2. Modules and the code

| Module | Models | State and actions |
|---|---|---|
| `OrderBook` | `orderBook.ts` as pure operators | a book record; `LoadSnapshot`, `ApplyUpdate`, `Fingerprinted`, undo as `CaptureUndo` / `ApplyLevels` |
| `OrderBookObject` | one object called with any input | `Replace`, `Load`, `Update`, `TakeFingerprint` |
| `DepthStream` | the exchange (external): a history `Truth` of books and the events and snapshots it publishes | operators |
| `BookTracking` | an object fed only from that history, with anything lost, repeated, reordered or damaged | `OrderBookObject`'s actions over `StreamSnapshots`, `StreamUpdates` and damaged inputs |
| `DepthFeed` | abstract: what a feed promises its owner | statuses, hand-overs, contiguous deliveries |
| `BinanceFeed` | `binanceFeed.ts` | one action per callback: `Start`, `Stop`, `RequestResync`, `DepthOpen(g)`, `TradeOpen(g)`, `SocketClose(g)`, `DepthMessage(g)`, `SnapshotArrives(r)`, `ReconnectTimerFires`, `HealthTick`; the exchange's `Change` and `Stall`. `g` is the generation a callback was bound with; `g < gen` is a late one |
| `RawProjection` | `rawProjection.ts`: the book a capture's records rebuild | operators over `OrderBook`, used by `BinanceFeed` on what it captured |
| `MarketGateway` | `marketGateway.ts` over the contract `DepthFeed` and `demoFeed.ts` | feed steps put events in `emitted`, the handlers take them before anything else runs; timers; `Start`, `Stop`, `Shutdown` |
| `MarketTape`, `RingBuffer` | the other half of `marketGateway.ts` with `tradeAggregator.ts`, the trend detector of `analytics.ts` and both ring buffers | trades, frames, resets, settings, shutdown |
| `MarketSessions` | `marketSessionManager.ts` with the WebSocket life cycle of `httpServer.ts` and the wiring of `index.ts` | `Connect`, `SubscribeActive`, `SubscribeNew`, `Unsubscribe`, `Pong`, `Vanish`, `SocketClose`, `SocketError`, `Heartbeat`, `EvictTimerFires`, `ShutdownCompletes`, `Close`, `DrainCompletes` |
| `MarketDelivery` | `onGatewayEvent` and the WebSocket messages of `httpServer.ts` with `marketDataClient.ts` and the connection part of `useMarketData.ts` | the server's sends, drops and terminations; the wire; the client's messages, gaps, reconnects, switches, pauses |
| `MarketView` | `useMarketData.ts`, `replayController.ts`, the switches of `App.tsx` | events of a source, deferred updaters, the user, the replay's ticks |
| `Normalization` | `marketNormalization.ts`, the pure part of `replayApi.ts` | operators from JSON values to events |
| `DurableQueue` | abstract: what the writer promises | `Accept`, `Store`, `Fail`, `Close`, `Closed` |
| `BatchedWriter` | `batchedWriter.ts` | `Enqueue`, `TimerFires`, `Flush`, `Close`, `StoreAnswers` |
| `HistoryRuntime` | `historyPersistence.ts` over the writer's own actions | `Record`, `RecordMetric`, `Query`, jobs, the maintenance chain, `Close` await by await |
| `HistoryStore` | `fileHistoryStore.ts`, the maintenance tasks and `downsampleWorker.ts` | append in three steps, leases (`QueryLeases`, `QueryEnds`, `Unlink`), retention, backup, roll-up and restore step by step, `Restart` = crash and `initialize()` |
| `ClickHouseStore` | `clickHouseHistoryStore.ts`, and the roll-up with its sums over it or over files | operators over a store value |
| `RawCapture` | `rawCapture.ts`, and what `rawCaptureCatalog.ts` makes of its files | one action per callback of file, gzip stream, timers and producers |
| `ReplaySource` | `replaySource.ts` as pure operators | pages, pre-roll, seek points |
| `ReplaySessions` | `sessionManager.ts`, `fileSessionRepository.ts` and the replay routes | requests queue behind the lock, each segment an action; saves that fail, expiry, crash |
| `Alerts` | walls of `insightEngine.ts`, rules of `alertEngine.ts`, `insightsRuntime.ts`, the rules file of `index.ts` | `Frame`, `Tick`, REST edits, saves, restart |
| `Signals`, `Insights`, `Derivatives` | `alertEngine.ts` in full, `insightEngine.ts`, both derivative feeds | operators over sequences of inputs |
| `Accounts`, `HttpRoutes` | `auth/*`, the middleware and every REST route | operators over a service value; a route is its list of steps |
| `Observability` | `observability/*` | operators over sequences of calls |
| `DepthStreamProofs` | lemmas on books, level lists, the exchange's stream, sets of integers and folds over sequences, shared by the next four | |
| `MarketStateProofs` | theorems about `OrderBookObject`, `BookTracking`, `Alerts` and `MarketTape` | |
| `MarketGatewayProofs` | theorems about `MarketGateway` and `MarketView` | |
| `MarketSessionsProofs` | theorems about `MarketSessions` and `MarketDelivery` | |
| `BinanceFeedProofs` | theorems about `BinanceFeed` | |
| `HistoryStoreProofs` | theorems about `HistoryStore` and `RawCapture` | |
| `ReplaySessionsProofs` | theorems about `ReplaySource` and `ReplaySessions` | |
| `HistoryRuntimeProofs` | theorems about `BatchedWriter` and `HistoryRuntime` | |
| `MC*` | constants for TLC, and the laws of the pure modules (section 3) | |

Composition: `OrderBookObject` and `BookTracking` extend `OrderBook`;
`BinanceFeed` uses it three times, for the feed's validator, for the book of the
listener (`mirror`) that replays what the feed emits, and through `RawProjection`
for the book a capture rebuilds; it implements `DepthFeed`. `MarketGateway` is
built over `DepthFeed` instead of `BinanceFeed`, so that the refinement stands in
for the product of the two state spaces. `BatchedWriter` implements
`DurableQueue`; `HistoryRuntime` extends `BatchedWriter`, so that its run shows
the refinement for the writer as it is used. `ReplaySessions` extends
`ReplaySource`.
`MarketTape` and `MarketView` share `RingBuffer`.

Choices a reader should know:

* *Sides* are functions from ticks to quantities, 0 meaning absent, and level lists
  are sets of records; a negative quantity stands for everything
  `validateLevels()` throws on and two records for one tick for a duplicate. A
  fingerprint is the tuple that the code hashes.
* *The feed.* Back-off delay and attempt counter are left out: a timer is armed or
  not. Trade payloads are left out; a silent trade socket is in `stalled`.
* *The gateway's audience* is what the last `market_reset` or `snapshot` told the
  listeners.
* *The store's lock.* `withCatalogLock` bodies contain awaits, but every reader and
  writer of what they touch takes the same lock; such a body is one step, except
  the restore's, whose two renames a crash can separate.
* *A segment's content* is the set of records written to it, fixed when the file is
  created. Query limits, cursors, checksums and temporary names are left out; so
  are unlinks that fail, which leave only orphans for the next `initialize()`.
  A roll-up's queries are one step each: the segments they lease are immutable.
* *Replay sessions.* The wall clock times the speed is one counter of playback
  time. Which live frames are delivered does not depend on the clock of the capture;
  which pre-roll is, does, and `SpeedInvariant` fixes it for a clock that steps back
  neither before a snapshot nor from past the end of the range (`SteadyClock`, as the
  capture of the run).
* *Values that may be missing* are sets of at most one element; a partial failure of
  a pure operator is the state it leaves together with a status.
* *`TypeOK`*, where a module has one, states the shape of its variables; it holds in the
  runs and takes no place among their properties, except where a proof rests on it.
* *Laws.* A module without behaviour of its own (`Accounts`, `Signals`,
  `Normalization`, ...) is stated as operators, and what must hold of them as named
  `ASSUME`s of an MC module, over every input of a bounded set: TLC evaluates them
  in the run whose module extends them. Each has been broken by changing the
  operators it speaks of.

## 3. Runs

Each cfg bounds the model; every bound is a named constant.

| Run | Module | Distinct states | Properties |
|---|---|---|---|
| `order_book` | `MCBookTracking` | 144 | `TracksExchange`, `HealthyStreamAccepted`, `RejectionKeepsBook` |
| `binance_feed` | `MCBinanceFeed` | 198,750 | `ListenerTracksExchange`, `Supervised`, `CaptureReplaysTheBook`, `ImplementsDepthFeed`, `SynchronizationSettles` |
| `market_gateway` | `MCMarketGateway` | 79,056 | `ValidBookIsTheSourcesBook`, `ListenersToldOfEverySession`, `PublishedStatusHonest`, `MarketRecovers`; laws of `Observability` |
| `market_sessions` | `MCMarketSessions` | 485,188 | `SubscribersKeepTheirSession`, `IdleSessionsAreOnTheClock`, `VanishedPeersAreReleased`; laws of `Accounts` and `HttpRoutes` |
| `history_runtime` | `MCHistoryRuntime` | 311,938 | `ImplementsDurableQueue`, `FlushMeansPersisted`, `CloseLeavesNoWriter`, `WorkSettles`; laws of `ClickHouseStore` |
| `history_store` | `HistoryStore` | 10,993,690 | `SegmentsPresent`, `StoredOnce`, `CheckpointCovered`, `FilesAccountedFor`, `OnlyPolicyRemoves` |
| `market_delivery` | `MarketDelivery` | 666,503 | `NoFalseGap`, `ShowsTheSelectedMarket`, `LiveAgain` |
| `raw_capture` | `RawCapture` | 644,668 | `CapturesAccountForRecords`, `CloseSettles` |
| `replay_sessions` | `MCReplaySessions` | 1,130,091 | `SpeedInvariant`, `ReceivedOnce`, `DeletedStayGone`, `RequestsAnswered`; laws `PageSizeMatters`, `PagesOfAnyCapture` |
| `alerts` | `MCAlerts` | 3,406,664 | `AlertsKnowTheWalls`, `AlertsAreSpaced`, `RulesFileFollows`; laws of `Signals`, `Insights`, `Derivatives` |
| `market_tape` | `MCMarketTape` | 1,451,329 | `TradesCountOnce`, `TrendIsConfirmed`; law `RingKeepsTheLatest` |
| `market_view` | `MCMarketView` | 911,327 | `PageIsTruthful`, `ReplayKeepsTime`; laws of `Normalization`, law `ClockStepsMatter` of `ReplaySource` |

What each shows:

* `order_book`: fed from the exchange's history with anything lost, repeated,
  reordered or damaged, a loaded book equals the exchange's at its own sequence
  number and is untouched by what it refuses. An event that continues it is applied,
  or refused as a gap where the book has only the event's range to judge by and
  that range starts late.
* `binance_feed`: what the feed emits is contiguous and faithful, and a listener
  refuses none of it but an event that starts late right after the handover; a running
  feed always has something to wake it and a stopped one nothing, a capture replays to
  the book that was shown, and no connection synchronizes for ever.
* `market_gateway`: a valid book is of one source, listeners hear of every session,
  the status is of what is shown, and the market comes back from every loss.
* `market_sessions`: no subscriber's session is evicted, an idle one has its timer,
  a vanished peer loses its subscriptions, and a market that only such peers kept running
  stops unless a repeated subscribe left it a reference.
* `history_runtime`: nothing accepted is lost or out of order under recording,
  queries, jobs and close at once; a flush that succeeds means persisted; after
  close no writer is left with work; nothing waits for ever.
* `history_store`: the store can be opened at every moment, nothing read
  disappears under its reader, nothing is stored twice, leaked, or removed except
  by policy or restore, and a roll-up's mark never runs ahead of its targets. A
  restore may come at any moment nothing is leased; what it overtakes (a deletion, a
  roll-up under way) is what the properties except, by name, and nothing else.
* `market_delivery`: the client reports no gap that no fault caused; once the server has
  answered the latest subscription, nothing of another market reaches the page and what
  is shown as live was proven for the selected one; and live data returns.
* `raw_capture`: a capture that says it is complete reads back whole and the
  statistics account for every record offered; closing settles.
* `replay_sessions`: at every speed, page and pause a checkpoint counts live frames in
  order with none left out, and what it counts besides is pre-roll; no record is received twice between seeks; a deleted session
  stays gone; every request is answered.
* `alerts`: what frames have told the rules are the walls there are; a rule never
  alerts twice within its cooldown; the rules on disk follow those in memory.
* `market_tape`: every accepted trade is in one bubble, open, or in a bucket that a reset
  or another bucket length emptied, and in one of these only; it is counted in the
  second it belongs to, pending, or emptied by a reset, unless no frame followed that
  second in the next one; a trend changes only after its confirmations.
* `market_view`: no signal outlives the book it was computed from, the chart shows
  one market or one replay in order, and a replay keeps its time.

Deadlock checking is off where the system may stop: bounded histories end, a
stopped feed, a shut-down gateway, a drained server, a closed writer, a finished
capture and an idle page take no further step. `order_book` checks it.

### Bounds, and why they are enough

* *Book.* Two or three ticks give every crossing and every way to add, delete and
  resize on both sides; five changes give both sides of each sequence boundary.
  The theorems of section 5 have no bound.
* *Feed.* Three changes, a buffer of two (so it overflows), two faults (a lost,
  repeated or damaged event, a stall, a failed connect or request) and two starts:
  two connections are replaced while callbacks of both are still pending. The second
  change number belongs to another stream of the exchange, so that events start late.
* *Gateway.* A staging queue of one (so it overflows), three faults, two starts, and a
  change number of another stream here too.
* *Sessions.* Two clients, three symbols, two sessions, one subscription each, two
  references a session and three gateways: both limits are reached, and a symbol is
  evicted and acquired again.
* *Runtime.* Records of one and two bytes with a batch of 2 records or 3 bytes and a
  queue of 3 records or 5 bytes: each limit is the binding one in some state. Four
  records are more than queue and batch hold at once; two maintenance jobs and
  three callers flush across a drain.
* *Store.* Two frames in one bucket, five segment files, one query, two backups kept, one
  restore a process and one crash: two appends, their roll-up and a rewrite exist at
  once with a lease over any of them; a roll-up is repeated after the crash that
  separated its append from its mark; and a restore, of either backup, falls between
  any two steps of a roll-up or of an unlink. Several buckets, with crashes
  and missing seconds, are in the laws of `ClickHouseStore`, over both stores.
* *Delivery.* A soft limit of two and a hard limit of five messages, one fault, one
  switch and two sessions of a market: messages are dropped, then the client is
  terminated, while a reset and a switch are in flight.
* *Capture.* Records of three sizes around the queue's and the capture's byte limits,
  four offers, two captures and two faults.
* *Replay.* Five records of which some share a time, pages of one and three, with and
  without pre-roll, two clients on one session, two faults (a failed save, a crash, an expiry).
* *Alerts.* One level, two interchangeable rules, cooldowns of two and three ticks,
  two pending transitions, three edits and one fault. Values of every other rule
  type are in the laws of `Signals`.
* *Tape.* Two bubbles a second, a lateness of one, two trades, two sessions, one change
  of settings, four units of time.
* *View.* Two symbols, a recorded replay and the built-in one, two messages, three
  actions of the user, two updaters queued, two entries kept.

### Laws

| Module | Laws (named `ASSUME`s) |
|---|---|
| `Accounts` | `ChangesAreScheduled`, `ShortBootstrapIsNotSaved`, `RefusalsChangeNothing`, `BootHasAnAdministrator`, `WorkspacesHaveOwners`, `SessionsSlide`, `LockoutFollowsTheFailures` |
| `HttpRoutes` | `RefusedRequestsChangeNothing`, `GatesComeFirst`, `ReadsChangeThreeThings`, `ProbesAndPageNeedASession`, `MeasuredIsLetThrough`, `LimiterCountsWindows`, `EmptyIsTheMinimum`, `BudgetMissesOneBucket` |
| `Observability` | `SeriesCountOnce`, `AlertsShowTheLastWindow`, `OnlyTheMemoryAlertFlaps`, `IncidentsAreOnTheTrail`, `BucketsAreCumulative`, `SpansAreSentOnceInOrder`, `WaitingSpansNeedAnother` |
| `Signals` | `MarketsAreIndependent`, `ShadowModeChangesOnlyDelivery`, `EveryHitIsAccountedFor`, `BaselinesFollowTheMarket`, `HorizonsExitOnTime`, `PerformanceCountsOnce`, `VelocityRulesIgnoreTheirOp` |
| `Insights` | `VwapKeepsItsPairs`, `ALateStreamHasNoWindows`, `OnlyTheFrontGrowsOld`, `ProfileAndFootprintAgree`, `AddedLessPulledIsHeld`, `AbsorptionComparesTheEnds`, `ExhaustionNeedsFading`, `FramesFollowInput` |
| `Derivatives` | `StaleShowsNothing`, `TheFirstMissForgets`, `OnlyOverlapsGoBack`, `APollOutlivesStop`, `LiquidationsAreWhole` |
| `Normalization` | `EveryEventHasItsType`, `ReadingTwiceIsReadingOnce`, `UnitsAgree`, `SpellingDoesNotMatter`, `QuotesComeFromTheLevels`, `PublishedIsDrawn`, `ReplayEventsAreLiveEvents`, `ReplayAddsUp` |
| `ClickHouseStore` | `AppendsAreAtLeastOnce`, `PagesShowEveryRecord`, `RetentionTakesTheShortestAge`, `RestoredRowsHaveNoTime`, `RollupsSurviveCrashes`, `MinutesNeverComeOnClickHouse`, `AnswersMixResolutions` |
| `ReplaySource`, `RingBuffer` | `PageSizeMatters`, `PagesOfAnyCapture`, `ClockStepsMatter`, `RingKeepsTheLatest` |

Several compare an operator with a reference definition (the limiter's windows,
the lockout's streaks, sliding sessions, baselines, the profile); others state what
the code does where its documents say something else, listed in section 6.

## 4. Fairness

Safety needs none. The liveness properties assume only what the code sets up:

* *Feed*: armed timers fire; a snapshot request settles (it is aborted after 7 s);
  a handshake ends (limit 8 s); a working socket delivers what the exchange sent;
  the exchange goes on trading while the bounded history lasts. A stalled socket
  delivers nothing: it is the health timer that notices.
* *Gateway*: handlers run, the fallback timer fires and the feed's own reconnect
  timer fires. Nothing is assumed of the network, so `MarketRecovers` holds with an
  exchange that never comes back.
* *Sessions*: the heartbeat interval and the eviction timers fire, a terminated
  socket emits `close`, a gateway's shutdown and the drain complete. Clients are
  under no obligation but one: they do not put off an eviction for ever. A subscribe
  that is refused for the client's limit has acquired and releases again
  (`server/httpServer.ts:1298`), which arms the eviction timer anew.
* *Runtime*: the writer's timer fires, the store answers, with success or failure,
  and a job that was started ends.
* *Delivery*: sent messages arrive or the connection breaks, the client's reconnect
  timer fires, the gateway goes on publishing frames.
* *Capture*: the streams answer (data taken, drained, ended or failed) and the
  awaits of `close()` continue.
* *Replay*: the repository answers, with success or failure, and each client's turn at
  the lock comes.

## 5. Proofs

| Theorem (module) | States | For every ... |
|---|---|---|
| `OrderBookTypeCorrect`, `OrderBookNeverCrossed`, `OrderBookFingerprintCurrent`, `OrderBookRejectionKeepsBook`, `OrderBookUpdatesAdvance` (`MarketStateProofs`) | types, an uncrossed book, a current digest, no trace of a rejected call, no way back | set of ticks, of snapshots and of updates, malformed ones included |
| `BookTracksExchange`, `BookAcceptsHealthyStream` (`MarketStateProofs`) | `TracksExchange`, `HealthyStreamAccepted` | history of the exchange whose books are uncrossed |
| `FeedSupervised`, `FeedTracksExchange`, `FeedCaptureReplays` (`BinanceFeedProofs`) | `Supervised`, `ListenerTracksExchange`, `CaptureReplaysTheBook` | history, buffer limit, number of faults and of starts |
| `FeedImplementsDepthFeed` (`BinanceFeedProofs`) | `ImplementsDepthFeed`: the contract the gateway is modelled over | the same |
| `GatewayShowsTheSourcesBook`, `GatewayTellsItsListeners`, `GatewayStatusHonest` (`MarketGatewayProofs`) | `ValidBookIsTheSourcesBook`, `ListenersToldOfEverySession`, `PublishedStatusHonest` | history, demo market, queue limit, number of faults and of starts |
| `SessionLimitsHold`, `SessionsOutliveSubscriptions`, `UnreferencedSessionsAreTimed` (`MarketSessionsProofs`) | the limits of `TypeOK`, `SubscribersKeepTheirSession`, `IdleSessionsAreOnTheClock` | finite set of clients and of symbols, and limits |
| `WriterInvariant`, `WriterCountsItsBytes`, `WriterFlushMeansPersisted`, `WriterImplementsDurableQueue` (`HistoryRuntimeProofs`) | `TypeOK` (limits and bytes), `FlushMeansPersisted`, `ImplementsDurableQueue`, for `BatchedWriter` alone | limits, record set and number of callers |
| `RuntimeKeepsRecords`, `RuntimeCloseIsFinal` (`HistoryRuntimeProofs`) | the same two, and `CloseLeavesNoWriter`, for `HistoryRuntime` | the same, and any number of jobs |
| `StoreKeepsItsSegments`, `StoreKeepsRecordsOnce`, `StoreCoversItsCheckpoint`, `StoreAccountsForFiles`, `StoreLosesOnlyByPolicy` (`HistoryStoreProofs`) | `SegmentsPresent`, `StoredOnce`, `CheckpointCovered`, `FilesAccountedFor`, `OnlyPolicyRemoves` | number of frames, files, queries, backups, restores and crashes |
| `GapsAreReal`, `PageKeepsToItsMarket` (`MarketSessionsProofs`) | `NoFalseGap`, `ShowsTheSelectedMarket` | finite set of instruments, limits of the socket's buffer, number of losses, switches and market sessions, and length of what is in flight |
| `RawCapturesAccountForRecords` (`HistoryStoreProofs`) | `CapturesAccountForRecords` | limits, sizes of records, number of records, captures and faults |
| `DeletionsAreFinal`, `DeliveredOnce` (`ReplaySessionsProofs`) | `DeletedStayGone`, `ReceivedOnce` | capture, set of sessions and of clients, limits, seek targets, number of failures and crashes |
| `CheckpointsAreDeterministic` (`ReplaySessionsProofs`) | `SpeedInvariant` | the same, whatever the clock of the capture did |
| `AlertsHearOfEveryWall`, `AlertsSpaced`, `RulesFileFollowsRules` (`MarketStateProofs`) | `AlertsKnowTheWalls`, `AlertsAreSpaced`, `RulesFileFollows` | set of levels and of rules, inputs and patches, cooldowns, number of edits and faults |
| `TapeCountsTradesOnce`, `TrendsAreConfirmed` (`MarketStateProofs`) | `TradesCountOnce`, `TrendIsConfirmed` | length of buckets, confirmations, lateness, number of trades, sessions and settings |
| `ReplayStaysOnTime`, `PageShowsTheChoice` (`MarketGatewayProofs`) | `ReplayKeepsTime`, `PageIsTruthful` | set of symbols, recordings, speeds, number of messages, actions and updaters |

Each component's theorems rest on one inductive invariant, whose preservation is
proved with a lemma or a step per action.

*Order book.* `TypeOK` is inductive. The rollback is the crux: `UndoRestores`
shows that applying the captured undo levels gives back the side, prices that were
not held included; `ApplyUpdateCases` then says that an update either succeeds
uncrossed or returns the book it was given, from which the other three follow.

*Tracking.* `EventAdvances` says that an event covering the changes `a..b` takes
`Truth[n]` to `Truth[b]` for any `n` in `a-1..b`; with `GenuineEventTracks` the
sequence rules of `applyUpdate()` guarantee such an `n` whatever was lost before.
The converse, `HealthyStreamAccepted`, says what becomes of every event that no change
separates from the book (`Continues`): that it is never taken for a crossing or for
malformed uses that the exchange's books are uncrossed and its final levels valid, and
that it is refused as a gap exactly where only its range counts and starts late
(`JudgedByRange`) follows from the two sequence rules.

*Feed.* `ListenerTracksExchange` says nothing of a feed that still synchronizes, so
that its invariant `Core` has to: what is buffered are events of the connection at
hand (`Books`), the cursor and the listener's place lie in a known order
(`Heads`), a request under way belongs to a generation (`Requests`), and flags,
timers and sockets combine in a few ways only (`Phases`). The reconciliation replays
the buffer on a fresh book in one step; `DrainPrefixes` follows it event by
event and `DrainOutcome` gives its three ends: handed over, still waiting, restart. The
refinement maps every callback to a step of `DepthFeed` or a stutter (`EveryStepIsOwnerStep`). For the
capture, `Captured` relates the projection of everything recorded so far to the
feed's own buffer or book, and `DrainReplays` shows that draining the records one by
one, as `projectRawCapture()` does, ends where the feed's reconciliation ends. An event
that starts late right after the handover is applied by the validator and refused by
the listener (`LateStart`); the contract has it as `Refused`, a delivery whose handler
asks for a resync before it returns.

*Gateway.* The three properties speak of a gateway whose handlers have run. Between
a step of the feed and the last handler, market, feed and the events under way must
fit together, so `IInv` lists what a handler can find: the feed fell (`Falling`),
handed a book over (`HandedOver`), went live (`WentLive`), delivered a change
(`Delivered`), or nothing is under way and the market is `Settled`. What is staged
before the sockets are both open is a contiguous chain from the book handed
over (`StagedAt`), and `Commits` shows that committing a chain gives the exchange's
book at its end.

*Sessions.* To `TypeOK` and `IdleSessionsAreOnTheClock`, `IInv` adds `Backed`: a session
has as many references as subscribers and repeated subscribes together. What repeated
subscribes took (section 6) is counted in the history variable `repeated`. `BootHistoryOpen` is what keeps
the history of the boot symbol under its session.

*Writer and runtime.* `FlushMeansPersisted` is not inductive. `Inv` is the
conjunction of `Shape`, `Bounded`, `InOrder` (stored, batch and queue, concatenated,
are the accepted records), `OneDrain` and `PendingIsServed` (what is pending has a
timer, a drain or a failure); `ContinueKeepsInv` isolates the loop of the drain.
`Counted` adds that `pendingBytes` is the sum of what is queued, which `BytesOfBoth` lets
a batch be cut from and given back to. The refinement maps `persisted` to `stored` and
`failure` to `failed`. Every step of the runtime is a step or a stutter of its writer
(`RuntimeImplementsWriter`), so both promises carry over; `Closing` says how far each
await of `close()` has come and what can no longer happen from there on.

*Store.* Counts and files: `Counted` makes `pins` the number of holders, `Present` and
`Apart` say that what is named or leased is there and never on its way out, `Fresh`
that a prepared file is known to its preparer alone, `Accounted` that the others are
queued for deletion. Records: `WriterAhead` (frames are handed over once), `Sound`
(every catalog, also a backup's or one being copied, holds a record once and covers
its mark), and for the maintenance task `Rewriting` (replacements hold exactly what
is retained), `Copying` and `RollingUp` (every bucket up to the new mark is visible
or among what is being appended). `Swapping` is the moment between a restore's
renames. A restore looks at leases only, so that it can overtake a deletion or a
roll-up. Three history variables say so: `crossed`, the files that were being deleted
when it swapped, `stale`, that it came since the roll-up at hand began, and
`overtaken`, the buckets which such a roll-up appended or marked afterwards. The
invariant holds of everything else, and the properties except just these.

*Replay sessions.* `Protocol` is what the lock and the repository's queue promise:
who is past the lock of a session is the first in its chain (`Chains`), nobody but its
creator knows a session that is not answered yet (`Unknown`), and what is queued
belongs to one request that waits for it (`Queued`). A deletion takes no lock.
What makes it final is that its removal stands behind every save of the session
that was queued before it, and that no request waits for the capture, which would
save the session again (`Deleted`); `Kept` says that the file holds nothing that
the repository does not know of, for a removal the repository takes for vacuous
would leave it there. For delivery, `Ahead` keeps every copy of a checkpoint, in memory, in
the repository and in its file, as far as what was sent, `PageFollows` the page under
way behind it, and `Exact` says that they agree as long as no answer was lost. `NobodySaves` is
where the lock is used: whoever has it finds no save of the session in
the queue. `PageInOrder` proves of `Page` that it returns records in the capture's
order, all behind the cursor, whatever the clock of the capture did (`Scanned`: a
pre-roll that waits is behind every frame there is). Whatever the clock did, a scan
leaves no record of the range out behind it, and what it holds or remembers from before
the range is a snapshot or follows one without a gap (`Unbroken`, `PageUnbroken`); from
page to page that is `GaplessOn`. With a steady clock the pre-roll is collected while
every record lies before the range, so that it is the one pre-roll of the seek
(`Covers`, `PageCovers`, `SteadyOn`). `RolledOn` puts both together, for every
checkpoint in `Checkpoints`. How much of the pre-roll a page holds is left open, as it
depends on the page.

*Delivery.* `NoFalseGap` needs `LossesCounted`: each gap, each hole in flight and each
hole already passed was paid for by a fault. `ShowsTheSelectedMarket` needs what is in
flight in both directions: `Conversation` says that the messages up undo every
subscription but the latest, `InOrder` that behind its answer every envelope down is of
the selected market and tells what the next one tells until a reset or a loss; `Follows`
and `Current` say, of a client whose status would be believed and of one that shows live
data, that what is in flight does not contradict the page. `Offline` is what a broken
socket leaves.

*Capture.* `Numbered` makes what is written and queued the accepted records in order;
`Budgeted` is about bytes along the queue. The two properties meet in `close()`: `Staged`
lists where `finish()` can stand and what each await has established, from which the
file is whole when it is hashed, `Historic` that manifests are written last, and
`Truthful`, of every capture, what a complete manifest promises, also after retention
or a crash.

*Alerts and tape.* `Spaced` adds to `AlertsAreSpaced` the age of each rule's last alert,
which outlives edits; `FileFollows` that a save which began alone holds the rules in
force unless a later one is due. `WallsKnown` carries `AlertsKnowTheWalls` through
`UpdateWalls`, whose transitions are news one after the other (`NewsFollow`,
`GoneFollow`). For the tape, `Unpersisted` says that what waits for its second are exactly
the session's trades since the reset, `DroppedAreTaken` what a reset or another bucket
length has emptied, and `BubblesHoldEachTradeOnce` and `SecondsLieBehind` keep what is
published and persisted behind them; `TrendFollowsFrames`
bounds the detector's counts by the frames that really favoured the side.

*Page.* `PlayerOK` says that a page is in a replay exactly when its player has events,
that the cursor parts them (`Positioned`), and that the clock meets the time played
(`Started`). `ReplayKeepsTime` follows; `PageIsTruthful` speaks of a page whose updaters
have run, so that `Fits` has to speak of those that wait: they are of the selected source,
of times that are due and behind what is drawn, and a clear that waits finds nothing to
lose. `RunPrefixes` and `RunsFit` follow React running the queue one updater after the
other; `mixed` is the exception the run names.

The assumptions are the named `ASSUME`s of the modules: ticks are naturals and
"no previous sequence" is no integer (`OrderBookAssumption`), the exchange's books
are uncrossed (`DepthStreamAssumption`), inputs are genuine or visibly damaged
(`GenuineInputsAssumption`), limits are positive and a batch fits the queue
(`WriterAssumption`, which the constructor enforces), sizes are larger than the envelope
of a record (`RawCaptureAssumption`), the soft limit of a socket is below the hard one
(`DeliveryAssumption`), recordings are sorted by time, as `load()` sorts them, and speeds
positive (`ViewAssumption`), bounds are naturals and sets of readers finite. TLC
evaluates all of them. No theorem has a hypothesis besides.

*Induction.* The library's induction theorems take a predicate as parameter, which
the provers cannot instantiate. Where a proof walks a buffer, `IntervalInduction`
takes the set of the indices a fact holds of instead, `FoldRecursion` gives the
intermediate results of a fold, and `LeastElement` the first index a search stops at
(`DepthStreamProofs`). `LoopRuns` and `SumExists` do for the scan of a page and for the
bytes of a queue what `FoldRecursion` does for a fold.

*Only model-checked*:

* the liveness properties `SynchronizationSettles`, `MarketRecovers`,
  `VanishedPeersAreReleased`, `WorkSettles`, `LiveAgain`, `CloseSettles` and
  `RequestsAnswered`: the prover handles neither fairness nor `ENABLED`. Every other
  property of the runs is stated by a theorem;
* the laws, which are evaluated over bounded inputs.

## 6. Where the code and its documents disagree

Met while modelling; the definitions follow the code.

* **A repeated subscribe leaks a reference.** `server/httpServer.ts:1285` acquires
  before it looks at the client's set; line 1310 says re-subscribes are idempotent.
  The session is never evicted, and the market runs for ever, also when every peer that
  subscribed is gone (`repeated` in `VanishedPeersAreReleased`).
* **A healthy event taken for a gap.** Change numbers are shared between streams, so an
  event may start past the next number and be chained by its `pu`. A bridged book goes
  by `pu`; one that was just loaded goes by the range and refuses it
  (`server/core/orderBook.ts:93`, `:114`). The feed's validator is bridged
  when it hands over and the gateway's book is loaded anew: right after a handover the
  feed emits such an event and the gateway refuses it, drops the book and asks for a
  resync (`server/marketGateway.ts:589`, `:704`) though nothing is missing. The tests
  only start an event at the next number (`server/__tests__/binanceFeed.test.ts:40`,
  `:71`). `lateStart` in `ListenerTracksExchange`, `JudgedByRange` in
  `HealthyStreamAccepted`; the gateway recovers by its ordinary path.
* **A symbol acquired after its eviction records nothing.** Eviction's `shutdown()`
  closes the one `HistoryPersistence` the symbol has (`server/index.ts:125`,
  `server/historyPersistence.ts:345`), and the fresh gateway that
  `server/marketSessionManager.ts:201` promises is wired to it.
* **A restore under a roll-up.** `server/storage/downsampleWorker.ts:142` publishes its
  mark without looking whether a restore came between, against the promise at
  line 50. `restoreBackup()` waits for the writer and not for the maintenance chain
  (`server/historyPersistence.ts:338`), and the store asks only that nothing is leased
  (`server/storage/fileHistoryStore.ts:446`). A mark is then published without its
  targets, or a bucket the restored backup already holds is appended again. The model
  has both; `CheckpointCovered` and `StoredOnce` except the `overtaken` buckets.
* **A restore under a deletion.** The unlinks that follow the release of a lease run
  outside the lock. A restore that brings one of these files back can lose it to the
  unlink, and `initialize()` then refuses the store; one that is rolled back can leave
  such a file behind as an orphan (`crossed` in `SegmentsPresent` and
  `FilesAccountedFor`).
* **A client that switches symbol accepts the old symbol's messages.**
  `ingest()` of `src/lib/marketDataClient.ts` does not look at the envelope's symbol;
  what arrives between the switch and the unsubscription's effect is
  shown as the new one's, against `src/lib/useMarketData.ts:498` ("must never render
  frames from the previous symbol"). `ShowsTheSelectedMarket` speaks of the time from
  the server's answer to the latest subscription on.
* **A gap within a second of a snapshot request asks for none.** The cooldown swallows
  the request and no timer repeats it, so the page can stay frozen until the next
  reset or reconnect (the `muted` exception in `LiveAgain`).
* **A pre-roll longer than a page** is cut (`server/replay/replaySource.ts:127`), so
  that the rolling checksum depends on the size of the page, against
  `docs/phase-2/replay-contract.md:28`.
* **A clock that steps back behind a record past the range** makes what is delivered
  depend on the speed (`server/replay/replaySource.ts:157`, law `ClockStepsMatter`),
  against `docs/phase-2/replay-contract.md:21` and `:28`: a reader that asks before the
  final watermark stops at that record with the pre-roll it has; one that first asks at
  the watermark passes over it and collects the depth records that follow. Only the
  pre-roll differs; the live frames are the same (`CheckpointsAreDeterministic`).
* **A missing second ends the roll-ups of its capture.** `emitFrame` records the last
  full second only; a tick that comes more than a second late skips one, and every
  later run of the worker stops at that incomplete bucket
  (`server/storage/downsampleWorker.ts:117`, law `RollupsSurviveCrashes`).
* **History in ClickHouse.** `query()` ignores the resolution and the capture that are
  asked for. Minutes are therefore never rolled up ("Conflicting source metric
  frame"); a crash between append and mark blocks the five-second roll-ups for good,
  the case `downsampleWorker.ts:51` says is covered; a query for seconds counts
  volume twice. Retention applies the shortest of the frames' ages to the whole table
  (`server/storage/clickHouseHistoryStore.ts:262`), against three years for minutes
  (`:336`). A backup holds the aliases of the SELECT, which the columns of the INSERT
  do not name: restored rows have no time, or the server refuses them if it is set
  to reject unknown fields. A restore adds to what is there. A batch that is
  retried is stored again, as the tables reject nothing.
* **Metric windows are cut at the server's clock**, against
  `server/insights/insightEngine.ts:6` ("no wall-clock inside the compute path").
* **The first failed poll of derivatives forgets every value and says it is not
  stale**, against `server/feeds/binanceDerivatives.ts:112`; a poll in flight still
  updates after `stop()`.
* **A GET of insights takes wall transitions** the rules were to hear
  (`server/insights/insightEngine.ts:606`; `taken` in `AlertsKnowTheWalls`). Rule files are
  written in place and unserialised (`damaged` in `RulesFileFollows`).
* **With authentication required the probes and the page need a session**
  (`server/httpServer.ts:289`, against `:286`). PATCH of flags and of accounts applies
  what precedes the part it refuses. An empty numeric parameter is the minimum. The
  lockout counts the failures of the whole service, against
  `docs/security/threat-model.md:10`. An account promoted at boot under a password
  that is too short is not saved.
* **The memory alert resolves and fires again at every sample** between its two ratios
  (`server/observability/alerts.ts:130`). A value equal to a bucket's bound is in that
  bucket, against the comment at `server/observability/metrics.ts:112`.
* **The page** may draw a frame of the previous symbol, pushed by an updater that was
  queued before the switch (`src/lib/useMarketData.ts:498` says never; `mixed` in
  `PageIsTruthful`), and a live message into a replay in the same way.
* **Close of a history** whose flush fails returns before maintenance is awaited
  (`server/historyPersistence.ts:352`); a query after close opens the store again.

## 7. Not modelled, and why

* Components, drawing and styles of the page, the demo generator, and the scripts for
  benchmarks, soaks and fixtures: no protocol state of this code.
* The rolling arithmetic of `analytics.ts` (rates, momentum, ratios): floating point.
* `postgresReplaySessions.ts`: constructed nowhere in the program. Its placeholder
  dataset row breaks the constraints of its own migration.
* Bodies of answers, exposition text, process gauges, log lines, and the parsing of
  files and environment.
* In the file store: checksums and damaged files, pruning of old backups, the
  durability of directory entries across a power failure (the model's crash is the
  process's, after which completed writes remain). A crash between the two renames of
  a restore leaves no directory and the next process starts with an empty store: the
  model has that step, and `OnlyPolicyRemoves` leaves it out, as the code promises
  nothing about it.
* A subscription that arrives while `drain()` waits builds a session nobody drains.
  `MarketSessions` has the behaviour; no property states it, as nothing promises
  otherwise.
* Several markets at once in `Alerts` and `MarketTape`; markets are independent in the
  code (law `MarketsAreIndependent`), but evicted ones go on being evaluated, as
  nothing calls `dropSession`.

## 8. State of the plan

The components of the inventory are modelled but for section 7, and every safety
property of the runs has its theorem. What is left, were the project to grow:

1. `CloseLeavesNoWriter` for a close() that failed, which today leaves jobs that go on
   working (section 6).
2. Laws that speak of a single fold over the inputs, for inputs of every length, with
   `FoldRecursion`; the others compare recursive operators and stay with TLC.
