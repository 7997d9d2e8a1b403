--------------------------- MODULE MarketDelivery ---------------------------
(***************************************************************************)
(* One browser and the WebSocket that feeds it: the per-connection half of *)
(* server/httpServer.ts (greeting, subscribe, snapshot recovery,           *)
(* back-pressure), the transport src/lib/marketDataClient.ts (delivery     *)
(* positions, reconciliation, reconnect) and the projection                *)
(* src/lib/useMarketData.ts with the mode and symbol switches of App.tsx.  *)
(*                                                                         *)
(* A market is its session number and whether its book is valid; what is   *)
(* drawn is an image: the market and session a depth frame shows.  The     *)
(* delivery sequence is a position in "down": an envelope lost on the way  *)
(* leaves a Hole, an envelope never sent leaves nothing.  price and metric *)
(* take the branches of depth_frame at both ends; a trade bucket takes the *)
(* client's, and the server withholds none from a slow client.             *)
(***************************************************************************)
EXTENDS Naturals, Sequences, SequencesExt, FiniteSets

CONSTANTS
  Instruments, Default,  \* instruments; DEFAULT_SYMBOL
  SoftLimit,          \* envelopes buffered past which frames are dropped (1 MiB)
  HardLimit,          \* envelopes buffered past which 1013 is sent (8 MiB)
  MaxMarketSessions,  \* bound: sessions of a market
  MaxFaults,          \* bound: lost or repeated envelopes, broken connections
  MaxSwitches,        \* bound: symbol switches and replays the user asks for
  MaxDown             \* bound: envelopes in flight when a frame is published

ASSUME DeliveryAssumption ==
  /\ IsFiniteSet(Instruments) /\ Default \in Instruments
  /\ {SoftLimit, HardLimit} \subseteq Nat \ {0} /\ SoftLimit < HardLimit
  /\ {MaxFaults, MaxSwitches, MaxDown} \subseteq Nat /\ MaxMarketSessions \in Nat \ {0}

VARIABLES
  market,     \* per symbol: session and validity, see MarketGateway
  conn,       \* the server's end: open, subscriptions
  down, up,   \* envelopes and client messages in flight
  client,     \* WebSocketMarketDataClient
  view,       \* the hook's state: images, status, replay
  fetching,   \* fetchReplayCapture() has not settled
  answer,     \* history: the latest subscription is asked for, answered, settled
  gaps,       \* resyncCount increments of the client
  faults, switches

bounds == <<faults, switches>>
deliveryVars == <<market, conn, down, up, client, view, fetching, answer, gaps, bounds>>

-----------------------------------------------------------------------------
(* Envelopes, images, and the view's reaction to an event: ingest(). *)

Image == [symbol : Instruments, session : 1..MaxMarketSessions]
Recorded == [symbol |-> "replay", session |-> 0]
NoImage == [symbol |-> "none", session |-> 0]

ImageOf(s) == [symbol |-> s, session |-> market[s].session]

Envelope(kind, s) ==
  [kind |-> kind, image |-> ImageOf(s), valid |-> market[s].valid, ask |-> 0, again |-> FALSE]
Kinds == {"snapshot", "depth_frame", "status", "market_reset", "control"}
(* "subscribed", "unsubscribed", "heartbeat"; only the first has an ask, the
   number of the switch it answers. *)
Control(n) == [kind |-> "control", image |-> NoImage, valid |-> FALSE, ask |-> n, again |-> FALSE]
Hole == [Control(0) EXCEPT !.kind = "hole"]

Shown(v, image) ==
  [v EXCEPT !.images = @ \cup {image}, !.newest = image,
            !.stale = ~v.replay /\ (@ \/ ~v.status.valid)]
Told(v, valid, session) ==
  [v EXCEPT !.status = [valid |-> valid, session |-> session], !.stale = ~valid]
Cleared(v) == [v EXCEPT !.images = {}, !.newest = NoImage]
Restarted(v, session) == Told(Cleared(v), FALSE, session)

(* emitStatus() of the client, which knows no session. *)
Announced(v, valid) == IF v.replay THEN v ELSE Told(v, valid, 0)

(* What the page renders as live data. *)
Live == ~view.replay /\ ~view.stale /\ view.newest # NoImage

Frozen(c) == [c EXCEPT !.awaiting = TRUE, !.snapshotReceived = FALSE, !.stale = TRUE]

DeliveryInit ==
  /\ market = [s \in Instruments |-> [session |-> 1, valid |-> TRUE]]
  /\ conn = [open |-> FALSE, subs |-> {}]
  /\ down = <<>> /\ up = <<>>
  /\ client = [socket |-> "connecting", running |-> TRUE, selection |-> Default,
               awaiting |-> TRUE, snapshotReceived |-> FALSE, stale |-> TRUE,
               positioned |-> FALSE, missing |-> FALSE, cooldown |-> FALSE, muted |-> FALSE,
               ask |-> 1]  \* history: subscriptions asked for
  /\ view = [images |-> {}, newest |-> NoImage, status |-> [valid |-> FALSE, session |-> 0],
             stale |-> TRUE, replay |-> FALSE]
  /\ fetching = FALSE /\ answer = "asked" /\ gaps = 0 /\ faults = 0 /\ switches = 0

-----------------------------------------------------------------------------
(* The server. *)

Channel == [open |-> conn.open, queue |-> down]

(* Mutant: the position is taken before the back-pressure check. *)
OfferCounted(c, e) ==
  IF ~c.open THEN c
  ELSE IF Len(c.queue) >= HardLimit THEN [c EXCEPT !.open = FALSE]
  ELSE IF Len(c.queue) >= SoftLimit /\ e.kind = "depth_frame"
       THEN [c EXCEPT !.queue = Append(@, Hole)]
  ELSE [c EXCEPT !.queue = Append(@, e)]

(* onGatewayEvent() for one subscribed client. *)
Offer(c, e) ==
  IF ~c.open THEN c
  ELSE IF Len(c.queue) >= HardLimit THEN [c EXCEPT !.open = FALSE]
  ELSE IF Len(c.queue) >= SoftLimit /\ e.kind = "depth_frame" THEN c
  ELSE [c EXCEPT !.queue = Append(@, e)]

(* What is offered reaches the subscribed client. *)
Broadcast(s, offered) ==
  IF s \in conn.subs
  THEN /\ conn' = [conn EXCEPT !.open = offered.open,
                               !.subs = IF offered.open THEN @ ELSE {}]
       /\ down' = offered.queue
  ELSE UNCHANGED <<conn, down>>

Reply(events) == down' = down \o events

(* createSnapshotRecoveryEvents() *)
RecoveryEvents(s) ==
  IF market[s].valid THEN <<Envelope("snapshot", s), Envelope("status", s)>>
  ELSE <<Envelope("status", s)>>

(* invalidateMarketData() and the status that follows it. *)
Freeze(s) ==
  /\ market[s].valid /\ market[s].session < MaxMarketSessions
  /\ market' = [market EXCEPT ![s].valid = FALSE]
  /\ Broadcast(s, Offer(Offer(Channel, Envelope("market_reset", s)'), Envelope("status", s)'))
  /\ UNCHANGED <<up, client, view, fetching, answer, gaps, bounds>>

(* switchToBinance() or switchToDemo(): reset, snapshot, status. *)
Commit(s) ==
  /\ ~market[s].valid
  /\ market' = [market EXCEPT ![s] = [session |-> @.session + 1, valid |-> TRUE]]
  /\ Broadcast(s, Offer(Offer(Offer(Channel, Envelope("market_reset", s)'),
                               Envelope("snapshot", s)'), Envelope("status", s)'))
  /\ UNCHANGED <<up, client, view, fetching, answer, gaps, bounds>>

(* emitFrame() *)
EmitFrame(s) ==
  /\ market[s].valid /\ s \in conn.subs /\ Len(down) < MaxDown
  /\ Broadcast(s, Offer(Channel, Envelope("depth_frame", s)))
  /\ UNCHANGED <<market, up, client, view, fetching, answer, gaps, bounds>>

(* The 15 s heartbeat and the answer to a ping. *)
SendHeartbeat ==
  /\ conn.open /\ down = <<>>
  /\ Reply(<<Control(0)>>)
  /\ UNCHANGED <<market, conn, up, client, view, fetching, answer, gaps, bounds>>

(* Mutant: the subscription survives its "unsubscribe". *)
KeptSubscription(s) == conn.subs
WithoutSubscription(s) == conn.subs \ {s}

(* handleClientMessage() *)
HandleClientMessage ==
  /\ conn.open /\ up # <<>> /\ up' = Tail(up)
  /\ LET m == Head(up)
     IN  \/ /\ m.kind = "subscribe"
            /\ conn' = [conn EXCEPT !.subs = @ \cup {m.symbol}]
            /\ Reply(<<Control(m.ask)>> \o RecoveryEvents(m.symbol))
         \/ /\ m.kind = "unsubscribe"
            /\ conn' = [conn EXCEPT !.subs = WithoutSubscription(m.symbol)]
            /\ Reply(<<Control(0)>>)
         \/ /\ m.kind = "request_snapshot"
            /\ Reply(FlattenSeq([i \in 1..Cardinality(conn.subs) |->
                                   RecoveryEvents(SetToSeq(conn.subs)[i])]))
            /\ UNCHANGED conn
  /\ UNCHANGED <<market, client, view, fetching, answer, gaps, bounds>>

-----------------------------------------------------------------------------
(* The transport: sockets. *)

Send(messages) == up' = IF client.socket = "open" THEN up \o messages ELSE up
Message(kind, s, n) == [kind |-> kind, symbol |-> s, ask |-> n]

(* "connection" at the server, then handleOpen() at the client. *)
HandleOpen ==
  /\ client.socket = "connecting"
  /\ conn' = [open |-> TRUE, subs |-> {}]
  /\ down' = <<Envelope("status", Default)>>
  /\ client' = [Frozen(client) EXCEPT !.socket = "open", !.positioned = FALSE,
                                      !.missing = FALSE, !.muted = FALSE]
  /\ up' = <<Message("subscribe", client.selection, client.ask)>>
  /\ view' = Announced(view, FALSE) /\ answer' = "asked"
  /\ UNCHANGED <<market, fetching, gaps, bounds>>

(* The peer, or the network, ends the connection; what is in flight is lost. *)
ConnectionBreaks ==
  /\ conn.open /\ faults < MaxFaults /\ faults' = faults + 1
  /\ conn' = [open |-> FALSE, subs |-> {}]
  /\ down' = <<>>
  /\ UNCHANGED <<market, up, client, view, fetching, answer, gaps, switches>>

(* handleClose(), on the close event or after the 20 s of silence. *)
HandleClose ==
  /\ client.socket = "open" /\ ~conn.open /\ down = <<>>
  /\ client' = [client EXCEPT !.socket = "none", !.stale = TRUE]
  /\ up' = <<>>
  /\ view' = Announced(view, FALSE)
  /\ UNCHANGED <<market, conn, down, fetching, answer, gaps, bounds>>

(* The reconnect timer: openSocket(). *)
Reconnect ==
  /\ client.socket = "none" /\ client.running
  /\ client' = [client EXCEPT !.socket = "connecting"]
  /\ view' = Announced(view, FALSE)
  /\ UNCHANGED <<market, conn, down, up, fetching, answer, gaps, bounds>>

(* An envelope is lost, or seen twice, between the two ends. *)
LoseEnvelope ==
  /\ down # <<>> /\ Head(down).kind # "hole" /\ faults < MaxFaults
  /\ down' = [down EXCEPT ![1] = Hole] /\ faults' = faults + 1
  /\ UNCHANGED <<market, conn, up, client, view, fetching, answer, gaps, switches>>

RepeatEnvelope ==
  /\ down # <<>> /\ Head(down).kind = "snapshot" /\ faults < MaxFaults
  /\ down' = Append(down, [Head(down) EXCEPT !.again = TRUE]) /\ faults' = faults + 1
  /\ UNCHANGED <<market, conn, up, client, view, fetching, answer, gaps, switches>>

-----------------------------------------------------------------------------
(* The transport: ingest(). *)

(* Mutant: the cooldown starts, and the request is never sent. *)
OnlyCool(c) == client' = [c EXCEPT !.cooldown = TRUE] /\ up' = up

(* sendSnapshotRequest(), at most once a second; "muted" remembers that the
   cooldown swallowed the request. *)
RequestUnlessCooling(c) ==
  IF c.cooldown
  THEN /\ client' = [c EXCEPT !.muted = TRUE] /\ up' = up
  ELSE /\ client' = [c EXCEPT !.cooldown = TRUE]
       /\ Send(<<Message("request_snapshot", c.selection, 0)>>)

Receiving(e) ==
  /\ client.socket = "open" /\ down # <<>>
  /\ e = Head(down) /\ down' = Tail(down)
  /\ UNCHANGED <<market, conn, fetching, bounds>>

(* A position that never arrives. *)
Skip(e) ==
  /\ Receiving(e) /\ e.kind = "hole"
  /\ client' = [client EXCEPT !.missing = TRUE]
  /\ UNCHANGED <<up, view, answer, gaps>>

(* Mutant: a repeated position is taken for a new one. *)
(* A position the stream has passed already. *)
Old(e) == e.again

(* The envelope follows one that never arrived. *)
Gapped(e) == client.positioned /\ client.missing

IgnoreOld(e) == Receiving(e) /\ Old(e) /\ UNCHANGED <<client, up, view, answer, gaps>>

(* Freeze, ask for a snapshot, and drop the envelope that showed the gap. *)
DetectGap(e) ==
  /\ Receiving(e) /\ e.kind # "hole" /\ ~Old(e) /\ Gapped(e)
  /\ gaps' = gaps + 1 /\ UNCHANGED answer
  /\ view' = Announced(view, FALSE)
  /\ RequestUnlessCooling([Frozen(client) EXCEPT !.missing = FALSE])

Positioned == [client EXCEPT !.positioned = TRUE, !.missing = FALSE]
Accepting(e, kind) ==
  Receiving(e) /\ e.kind = kind /\ ~Old(e) /\ ~Gapped(e) /\ UNCHANGED gaps

AcceptControl(e) ==
  /\ Accepting(e, "control")
  /\ client' = Positioned
  /\ answer' = IF e.ask = client.ask THEN "answered" ELSE answer
  /\ UNCHANGED <<up, view>>

AcceptReset(e) ==
  /\ Accepting(e, "market_reset")
  /\ client' = Frozen(Positioned)
  /\ view' = Restarted(view, e.image.session)
  /\ UNCHANGED <<up, answer>>

(* A snapshot passes the freeze; it ends silence only when not frozen. *)
AcceptSnapshot(e) ==
  /\ Accepting(e, "snapshot")
  /\ client' = [Positioned EXCEPT !.snapshotReceived = TRUE, !.stale = @ /\ client.awaiting]
  /\ view' = Shown(IF client.stale /\ ~client.awaiting THEN Announced(view, TRUE) ELSE view,
                   e.image)
  /\ UNCHANGED <<up, answer>>

(* A frame is dropped while frozen, and otherwise ends a silence. *)
AcceptFrame(e) ==
  /\ Accepting(e, "depth_frame")
  /\ client' = [Positioned EXCEPT !.stale = @ /\ client.awaiting]
  /\ view' = IF client.awaiting THEN view
             ELSE Shown(IF client.stale THEN Announced(view, TRUE) ELSE view, e.image)
  /\ UNCHANGED <<up, answer>>

(* A valid status proves nothing while frozen without a snapshot. *)
Proven(e) == ~client.awaiting \/ client.snapshotReceived

AcceptStatus(e) ==
  /\ Accepting(e, "status")
  /\ \/ /\ e.valid /\ ~Proven(e)
        /\ RequestUnlessCooling([Positioned EXCEPT !.stale = TRUE])
        /\ UNCHANGED <<view, answer>>
     \/ /\ e.valid => Proven(e)
        /\ client' = [Positioned EXCEPT !.stale = ~e.valid, !.awaiting = ~e.valid,
                                        !.muted = @ /\ ~e.valid]
        /\ view' = Told(view, e.valid, e.image.session)
        /\ answer' = IF answer = "asked" THEN "asked" ELSE "settled"
        /\ UNCHANGED up

Receive ==
  \E e \in {Head(down) : i \in 1..Len(down)} :
    \/ Skip(e) \/ IgnoreOld(e) \/ DetectGap(e) \/ AcceptControl(e) \/ AcceptReset(e)
    \/ AcceptSnapshot(e) \/ AcceptFrame(e) \/ AcceptStatus(e)

(* The stale timer: no market data for staleAfterMs. *)
GoStale ==
  /\ client.socket = "open" /\ ~client.stale
  /\ client' = [client EXCEPT !.stale = TRUE]
  /\ view' = Announced(view, FALSE)
  /\ UNCHANGED <<market, conn, down, up, fetching, answer, gaps, bounds>>

(* One second since the last snapshot request. *)
CooldownEnds ==
  /\ client.cooldown
  /\ client' = [client EXCEPT !.cooldown = FALSE]
  /\ UNCHANGED <<market, conn, down, up, view, fetching, answer, gaps, bounds>>

-----------------------------------------------------------------------------
(* The user. *)

Asks == switches < MaxSwitches /\ switches' = switches + 1

(* selectSymbol(): goLive() first when a replay is shown; then the hook's
   setSelection() clears and the client's setSelection() resubscribes. *)
SelectSymbol(s) ==
  /\ s # client.selection /\ Asks
  /\ client' = [Frozen(client) EXCEPT
                  !.selection = s, !.ask = @ + 1, !.running = TRUE, !.muted = FALSE,
                  !.socket = IF @ = "none" THEN "connecting" ELSE @]
  /\ Send(<<Message("unsubscribe", client.selection, 0),
            Message("subscribe", s, client'.ask)>>)
  /\ view' = Announced(Cleared([view EXCEPT !.replay = FALSE]), FALSE)
  /\ answer' = "asked"
  /\ UNCHANGED <<market, conn, down, fetching, gaps, faults>>

(* requestSnapshot() of the hook: the page freezes without being told. *)
RequestSnapshot ==
  /\ client.socket = "open" /\ Asks
  /\ client' = [Frozen(client) EXCEPT !.cooldown = TRUE, !.muted = FALSE]
  /\ Send(<<Message("request_snapshot", client.selection, 0)>>)
  /\ UNCHANGED <<market, conn, down, view, fetching, answer, gaps, faults>>

(* selectMode("replay"): fetch a capture; the page changes when it settles. *)
SelectReplay ==
  /\ ~fetching /\ Asks /\ fetching' = TRUE
  /\ UNCHANGED <<market, conn, down, up, client, view, answer, gaps, faults>>

(* replayControls.load() disconnects, clears and plays the first event. *)
LoadReplay ==
  /\ fetching /\ fetching' = FALSE
  /\ client' = [client EXCEPT !.socket = "none", !.running = FALSE]
  /\ conn' = [open |-> FALSE, subs |-> {}] /\ down' = <<>> /\ up' = <<>>
  /\ view' = Shown([Cleared(view) EXCEPT !.replay = TRUE, !.stale = FALSE,
                                         !.status = [valid |-> FALSE, session |-> 0]],
                   Recorded)
  /\ answer' = "asked"
  /\ UNCHANGED <<market, gaps, bounds>>

(* selectMode("live"): goLive(). *)
GoLive ==
  /\ view.replay
  /\ client' = [client EXCEPT !.running = TRUE, !.socket = "connecting"]
  /\ view' = Announced(Cleared([view EXCEPT !.replay = FALSE]), FALSE)
  /\ UNCHANGED <<market, conn, down, up, fetching, answer, gaps, bounds>>

-----------------------------------------------------------------------------
DeliveryNext ==
  \/ \E s \in Instruments : Freeze(s) \/ Commit(s) \/ EmitFrame(s) \/ SelectSymbol(s)
  \/ SendHeartbeat \/ HandleClientMessage
  \/ HandleOpen \/ ConnectionBreaks \/ HandleClose \/ Reconnect
  \/ LoseEnvelope \/ RepeatEnvelope \/ Receive \/ GoStale \/ CooldownEnds
  \/ RequestSnapshot \/ SelectReplay \/ LoadReplay \/ GoLive

DeliverySpec == DeliveryInit /\ [][DeliveryNext]_deliveryVars

(* Timers fire, sockets deliver what they hold, the feed recovers. *)
FairDeliverySpec ==
  /\ DeliverySpec
  /\ WF_deliveryVars(Receive) /\ WF_deliveryVars(HandleClientMessage)
  /\ WF_deliveryVars(SendHeartbeat) /\ WF_deliveryVars(HandleOpen)
  /\ WF_deliveryVars(HandleClose) /\ WF_deliveryVars(Reconnect)
  /\ \A s \in Instruments : WF_deliveryVars(Commit(s)) /\ WF_deliveryVars(EmitFrame(s))

-----------------------------------------------------------------------------
(* The bound leaves a frozen market a session to come back in. *)
MarketType ==
  {m \in [session : 1..MaxMarketSessions, valid : BOOLEAN] :
     m.valid \/ m.session < MaxMarketSessions}

(* Only a valid market has snapshots and frames; only those are repeated that
   are here, see RepeatEnvelope. *)
MarketEnvelope ==
  {e \in [kind : Kinds \ {"control"}, image : Image, valid : BOOLEAN, ask : {0},
          again : BOOLEAN] :
     (e.kind \in {"snapshot", "depth_frame"} => e.valid) /\ (e.again => e.kind = "snapshot")}
ControlEnvelope ==
  [kind : {"control"}, image : {NoImage}, valid : {FALSE}, ask : Nat, again : {FALSE}]

Envelopes == MarketEnvelope \cup ControlEnvelope \cup {Hole}

MessageType ==
  {m \in [kind : {"subscribe", "unsubscribe", "request_snapshot"}, symbol : Instruments,
          ask : Nat] : m.kind = "subscribe" <=> m.ask # 0}

ClientType ==
  [socket : {"none", "connecting", "open"}, running : BOOLEAN, selection : Instruments,
   awaiting : BOOLEAN, snapshotReceived : BOOLEAN, stale : BOOLEAN, positioned : BOOLEAN,
   missing : BOOLEAN, cooldown : BOOLEAN, muted : BOOLEAN, ask : Nat \ {0}]

ViewType ==
  [images : SUBSET (Image \cup {Recorded}), newest : Image \cup {Recorded, NoImage},
   status : [valid : BOOLEAN, session : 0..MaxMarketSessions], stale : BOOLEAN,
   replay : BOOLEAN]

DeliveryTypeOK ==
  /\ market \in [Instruments -> MarketType]
  /\ conn \in [open : BOOLEAN, subs : SUBSET Instruments]
  /\ down \in Seq(Envelopes)
  /\ up \in Seq(MessageType)
  /\ client \in ClientType /\ view \in ViewType /\ fetching \in BOOLEAN
  /\ answer \in {"asked", "answered", "settled"}
  /\ gaps \in Nat /\ faults \in 0..MaxFaults /\ switches \in 0..MaxSwitches

(* Delivery gaps are real: frames the server withholds from a slow client,
   and jumps of the global sequence, never make the client resynchronise
   (docs/phase-1/reliability-contract.md, "Sequence dan delivery"). *)
NoFalseGap == gaps <= faults

(* Once the server has answered the latest subscription, nothing of another
   market is added to the view, and no recording to the live view. *)
NoLateImages ==
  \A image \in view'.images \ view.images :
    IF view'.replay THEN image = Recorded
    ELSE image # Recorded /\ (answer' # "asked" => image.symbol = client'.selection)

(* Data shown as live is of the selected market, and of the session whose
   validity the server proved last. *)
LiveIsProven ==
  answer = "settled" /\ Live /\ view.status.session # 0
    => view.newest = [symbol |-> client.selection, session |-> view.status.session]

(* Once the server has answered the latest subscription, the page takes no
   other market's data and shows none as live. Until then it may show the
   market left behind as the selected one: ingest() does not look at the
   symbol, whatever useMarketData.ts:498 says (README, section 6). *)
ShowsTheSelectedMarket == [][NoLateImages /\ LiveIsProven']_deliveryVars

(* A page in live mode shows live data again and again, whatever is lost,
   repeated, reset or disconnected - unless a freeze fell within the second
   that follows a snapshot request, which sends no request of its own. *)
LiveAgain == ~view.replay ~> (Live \/ view.replay \/ client.muted)
=============================================================================
