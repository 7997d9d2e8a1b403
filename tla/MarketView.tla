------------------------------ MODULE MarketView ------------------------------
(***************************************************************************)
(* The page: the hook src/lib/useMarketData.ts between a live or demo      *)
(* source and the chart, the player of recorded events                     *)
(* src/lib/replayController.ts, the verdict of src/lib/dataQuality.ts, and *)
(* what the user does in App.tsx.                                          *)
(*                                                                         *)
(* ingest() hands React an updater; React runs the updaters in order, but  *)
(* later: "queue" holds them.  The ring buffers are not React state: an    *)
(* updater pushes to them when it runs, clear() empties them at once.      *)
(* replayActiveRef too is read when the updater runs.                      *)
(* MarketDelivery has the transport; here a source sends what it likes,    *)
(* of the market it was told to show.  One buffer stands for the three: a  *)
(* capture here has depth frames or trades, and metrics and price ticks    *)
(* are buffered and cleared as trades are.                                 *)
(***************************************************************************)
EXTENDS Integers, Sequences, SequencesExt

CONSTANTS
  Symbols, Default,   \* instruments, the first one shown
  Remote, BuiltIn,    \* the events of the gateway's capture and of the demo's
  Speeds,             \* speeds the user cycles through, the first one first
  Kept,               \* capacity of the ring buffers
  MaxClock, MaxSent, MaxUser, MaxQueue   \* bounds

RecordedKinds == {"status", "depth_frame", "trade_bucket", "trend_signal"}

ASSUME ViewAssumption ==
  /\ Default \in Symbols /\ Kept \in Nat \ {0}
  /\ {MaxClock, MaxSent, MaxUser, MaxQueue} \subseteq Nat
  /\ Speeds \in Seq(Nat \ {0}) /\ Speeds # <<>>
  /\ {Remote, BuiltIn} \subseteq Seq([kind : RecordedKinds, at : Nat])
  /\ \A capture \in {Remote, BuiltIn} : \A i, j \in DOMAIN capture :
       i <= j => capture[i].at <= capture[j].at  \* load() sorts them

Recorded == [mode |-> "replay", symbol |-> Default]

VARIABLES
  now,            \* the clock
  page,           \* replayActiveRef, mode and selection
  queue,          \* updaters React has not run
  buffer,         \* RingBuffer.values: what the chart is drawn from
  data,           \* the hook's state
  player,         \* ReplayController
  fetching,       \* fetchReplayCapture() has not settled
  sound,          \* history: validity was not lost since the trend was set
  mixed,          \* history: why the buffers may hold what they should not
  reached,        \* history: the position the time played has reached
  sent, acted     \* counts, for the bounds

viewVars == <<now, page, queue, buffer, data, player, fetching, sound, mixed, reached,
          sent, acted>>
screen == <<queue, buffer, data, sound, mixed>>

-----------------------------------------------------------------------------
(* ingest(): the updaters. *)

NoTrend == "none"

Still(trend, valid) == IF valid THEN trend ELSE NoTrend

LastOf(seq, n) == SubSeq(seq, 1 + (IF Len(seq) > n THEN Len(seq) - n ELSE 0), Len(seq))

Update(kind, market, at, good) == [kind |-> kind, market |-> market, at |-> at, good |-> good]
Image(u) == [market |-> u.market, at |-> u.at, book |-> u.kind = "depth_frame"]

HasBook(frames) == \E i \in DOMAIN frames : frames[i].book

(* statusHasValidBook(), of the status the updater finds. *)
FrameProven(s) == page.active \/ (~s.data.stale /\ s.data.valid)

RunFrame(s, u) ==
  LET frames == LastOf(Append(s.buffer, Image(u)), Kept)
      invalid == ~u.good \/ ~FrameProven(s)
  IN [s EXCEPT !.buffer = frames, !.data.frames = frames,
               !.data.stale = IF Image(u).book THEN invalid ELSE @,
               !.data.trend = IF Image(u).book THEN Still(@, ~invalid) ELSE @,
               !.sound = @ /\ u.good]

RunTrend(s, u) ==
  LET allowed == ~s.data.stale /\ IF page.active THEN HasBook(s.data.frames) ELSE s.data.valid
  IN [s EXCEPT !.data.trend = IF allowed THEN u.market.mode ELSE NoTrend, !.sound = allowed]

(* The status of a recording lacks the proofs statusHasValidBook() asks.   *)
RunStatus(s, u) ==
  [s EXCEPT !.data.valid = u.good /\ ~page.active, !.data.stale = ~u.good,
            !.data.trend = Still(@, u.good), !.sound = @ /\ u.good]

RunReset(s) ==
  [s EXCEPT !.buffer = <<>>, !.data = [frames |-> <<>>, trend |-> NoTrend, stale |-> TRUE,
                                       valid |-> FALSE],
            !.sound = FALSE]

(* The updater of clear(): the buffers were emptied when it was called. *)
RunClear(s) == [s EXCEPT !.data.frames = <<>>, !.data.trend = NoTrend, !.sound = FALSE]

(* The updater of load(): "Replay ready". *)
RunReady(s) == [s EXCEPT !.data.stale = FALSE, !.data.valid = FALSE]

Run(s, u) ==
  CASE u.kind \in {"depth_frame", "trade_bucket"} -> RunFrame(s, u)
    [] u.kind = "trend_signal" -> RunTrend(s, u)
    [] u.kind = "status" -> RunStatus(s, u)
    [] u.kind = "market_reset" -> RunReset(s)
    [] u.kind = "clear" -> RunClear(s)
    [] u.kind = "ready" -> RunReady(s)

(* React runs the updaters and renders. *)
Render ==
  /\ queue # <<>> /\ queue' = <<>>
  /\ \E s \in {FoldLeft(Run, [buffer |-> buffer, data |-> data, sound |-> sound], queue)} :
       buffer' = s.buffer /\ data' = s.data /\ sound' = s.sound
  /\ UNCHANGED <<now, page, player, fetching, mixed, reached, sent, acted>>

-----------------------------------------------------------------------------
(* The source. *)

Enqueue(us) == queue' = queue \o us

(* What connecting to a market, or changing to it, announces at once: the  *)
(* demo is live from its first frame.                                      *)
Announcement(market) ==
  IF market.mode = "live" THEN <<Update("status", market, 0, FALSE)>>
  ELSE [i \in 1 .. 3 |->
          Update(<<"status", "depth_frame", "trend_signal">>[i], market, 0, TRUE)]

(* The source is connected unless a replay is shown. *)
Send(kind, good) ==
  /\ ~page.active /\ sent < MaxSent /\ Len(queue) < MaxQueue
  /\ kind # "status" /\ kind # "depth_frame" => good
  /\ sent' = sent + 1
  /\ Enqueue(<<Update(kind, page.market, 0, good)>>)
  /\ UNCHANGED <<now, page, buffer, data, player, fetching, sound, mixed, reached,
                 acted>>

-----------------------------------------------------------------------------
(* ReplayController. *)

Idle(speed) ==
  [status |-> "idle", events |-> <<>>, cursor |-> 0, index |-> 0, speed |-> speed,
   wall |-> 0, anchor |-> 0]

From(p) == p.events[1].at
To(p) == Last(p.events).at
Clamp(p, t) == IF t < From(p) THEN From(p) ELSE IF t > To(p) THEN To(p) ELSE t

(* lowerBound(): how many of the events, which are in order, come before t. *)
LowerBound(p, t) ==
  CHOOSE n \in 0 .. Len(p.events) : \A i \in DOMAIN p.events : i <= n <=> p.events[i].at < t

(* load(), of events in the order of their times. *)
Loaded(events, speed) ==
  IF events = <<>> THEN [Idle(speed) EXCEPT !.status = "ready"]
  ELSE [Idle(speed) EXCEPT !.status = "ready", !.events = events, !.cursor = events[1].at]

Anchored(p) == [p EXCEPT !.wall = now, !.anchor = p.cursor]

Target(p) ==
  LET reach == p.anchor + (now - p.wall) * p.speed IN IF reach > To(p) THEN To(p) ELSE reach

(* The loop of advance(): where it stops on its way to time t. *)
IndexAt(p, t) ==
  CHOOSE n \in p.index .. Len(p.events) :
    /\ \A i \in p.index + 1 .. n : p.events[i].at <= t
    /\ n < Len(p.events) => p.events[n + 1].at > t

(* advance(): the events up to the playhead are emitted, in order. *)
PlayedOn(p) ==
  LET index == IndexAt(p, Target(p))
  IN [p EXCEPT !.cursor = Target(p), !.index = index,
               !.status = IF Target(p) >= To(p) /\ index >= Len(p.events) THEN "ended" ELSE @]

Emitted(from, to, events) ==
  [i \in 1 .. to - from |->
     Update(events[from + i].kind, Recorded, events[from + i].at, TRUE)]

Sought(p, t) ==
  LET c == Clamp(p, t)
      q == [p EXCEPT !.status = IF @ = "playing" THEN @ ELSE "paused", !.cursor = c,
                     !.index = LowerBound(p, c)]
  IN IF p.status = "playing" THEN Anchored(q) ELSE q

(* play(): from the end, it starts over. *)
Playing(p) ==
  IF p.events = <<>> \/ p.status = "playing" THEN p
  ELSE LET q == IF p.status = "ended" THEN Sought(p, From(p)) ELSE p
       IN PlayedOn([Anchored(q) EXCEPT !.status = "playing"])

(* What play() emits; after the end, from the beginning. *)
PlayedFrom(p) == IF p.status = "ended" THEN 0 ELSE p.index

Paused(p) ==
  LET q == PlayedOn(p) IN IF q.index < Len(q.events) THEN [q EXCEPT !.status = "paused"] ELSE q

(* Mutant: the time already played is counted at the new speed. *)
SpedUpAtOnce(p, speed) ==
  [(IF p.status = "playing" THEN PlayedOn(p) ELSE p) EXCEPT !.speed = speed]

(* setSpeed(): what was played so far was played at the old speed. *)
SpedUp(p, speed) ==
  [(IF p.status = "playing" THEN Anchored(PlayedOn(p)) ELSE p) EXCEPT !.speed = speed]

Tick ==
  /\ player.status = "playing"
  /\ player' = PlayedOn(player)
  /\ Enqueue(Emitted(player.index, player'.index, player.events))
  /\ UNCHANGED <<now, page, buffer, data, fetching, sound, mixed, reached, sent, acted>>

Clock ==
  /\ now < MaxClock /\ now' = now + 1
  /\ reached' = IF player.status = "playing" THEN reached + player.speed ELSE reached
  /\ UNCHANGED <<page, screen, player, fetching, sent, acted>>

-----------------------------------------------------------------------------
(* The user. *)

Acts == acted < MaxUser /\ acted' = acted + 1

Overtaken == queue # <<>>

Cleared == Update("clear", page.market, 0, TRUE)

(* clear(): the buffers at once, the state when React gets to it. *)
ClearThen(us) ==
  /\ buffer' = <<>>
  /\ Enqueue(<<Cleared>> \o us)
  /\ mixed' = Overtaken
  /\ UNCHANGED <<data, sound>>

(* goLive(): clear(), and the source that was left for a replay connects. *)
BackToLive == <<Cleared>> \o IF page.active THEN Announcement(page.market) ELSE <<>>

(* Mutant: the chart keeps what it shows. *)
SelectWithoutClearing(symbol) ==
  /\ Acts /\ symbol # page.market.symbol /\ ~page.active
  /\ page' = [page EXCEPT !.market.symbol = symbol]
  /\ Enqueue(Announcement(page'.market))
  /\ UNCHANGED <<now, buffer, data, player, fetching, sound, mixed, reached, sent>>

(* To another market, by setSelection() or setMode(), out of a replay by   *)
(* goLive() first, which reconnects the market that is being left.         *)
Leave(market, live) ==
  /\ page' = [active |-> FALSE, market |-> market]
  /\ player' = Idle(player.speed)
  /\ buffer' = <<>>
  /\ Enqueue(live \o IF market = page.market THEN <<>>
                     ELSE <<Cleared>> \o Announcement(market))
  /\ mixed' = (Overtaken \/ (market # page.market /\ Len(live) > 2))
  /\ reached' = 0 /\ UNCHANGED <<now, data, fetching, sound, sent>>

SelectSymbol(symbol) ==
  /\ Acts /\ symbol # page.market.symbol
  /\ Leave([page.market EXCEPT !.symbol = symbol], IF page.active THEN BackToLive ELSE <<>>)

SelectMode(mode) ==
  /\ Acts
  /\ Leave([page.market EXCEPT !.mode = mode], BackToLive)

SelectReplay ==
  /\ Acts /\ ~fetching /\ fetching' = TRUE
  /\ UNCHANGED <<now, page, screen, player, reached, sent>>

(* The promise settles: replayControls.load() with autoplay, whatever the  *)
(* user did meanwhile.                                                     *)
Load(events) ==
  /\ fetching /\ fetching' = FALSE
  /\ page' = [page EXCEPT !.active = TRUE]
  /\ player' = Playing(Loaded(events, player.speed))
  /\ ClearThen(<<Update("ready", Recorded, 0, TRUE)>> \o Emitted(0, player'.index, events))
  /\ reached' = events[1].at
  /\ UNCHANGED <<now, sent, acted>>

(* A capture without events, and a failed request, load the built-in one. *)
FetchSettles == \E events \in {Remote, BuiltIn} \ {<<>>} : Load(events)

Play ==
  /\ Acts /\ player.status \in {"ready", "paused", "ended"}
  /\ player' = Playing(player)
  /\ Enqueue(Emitted(PlayedFrom(player), player'.index, player.events))
  /\ mixed' = (mixed \/ player.status = "ended")
  /\ reached' = IF player.status = "ended" THEN From(player) ELSE player.cursor
  /\ UNCHANGED <<now, page, buffer, data, sound, fetching, sent>>

Pause ==
  /\ Acts /\ player.status = "playing"
  /\ player' = Paused(player)
  /\ Enqueue(Emitted(player.index, player'.index, player.events))
  /\ UNCHANGED <<now, page, buffer, data, sound, mixed, fetching, reached, sent>>

(* seek() clears the chart when it goes back; to the cursor's own time, it *)
(* repeats the events of that time.                                        *)
Seek(t) ==
  /\ Acts /\ player.events # <<>> /\ t \in From(player) .. To(player)
  /\ player' = Sought(player, t)
  /\ reached' = t
  /\ IF t < player.cursor THEN ClearThen(<<>>)
     ELSE /\ mixed' = (mixed \/ player'.index < player.index)
          /\ UNCHANGED <<queue, buffer, data, sound>>
  /\ UNCHANGED <<now, page, fetching, sent>>

SetSpeed(speed) ==
  /\ Acts /\ player.events # <<>> /\ speed # player.speed
  /\ player' = SpedUp(player, speed)
  /\ Enqueue(Emitted(player.index, player'.index, player.events))
  /\ UNCHANGED <<now, page, buffer, data, sound, mixed, fetching, reached, sent>>

(* recoverDashboard(): clear(), and in a replay back to its start.         *)
(* pause() emits what is due, and seek() clears again: that clear overtakes *)
(* what pause() emitted.                                                    *)
Restarted ==
  LET p == IF player.status = "playing" THEN Paused(player) ELSE player
      due == Emitted(player.index, p.index, player.events)
  IN /\ player' = Sought(p, From(p))
     /\ buffer' = <<>>
     /\ Enqueue(<<Cleared>> \o due \o IF From(p) < p.cursor THEN <<Cleared>> ELSE <<>>)
     /\ mixed' = (Overtaken \/ due # <<>>)
     /\ reached' = From(p)
     /\ UNCHANGED <<page, data, sound>>

RecoverDashboard ==
  /\ Acts
  /\ IF page.active THEN Restarted ELSE ClearThen(<<>>) /\ UNCHANGED <<page, player, reached>>
  /\ UNCHANGED <<now, fetching, sent>>

-----------------------------------------------------------------------------
ViewInit ==
  /\ now = 0
  /\ page = [active |-> FALSE, market |-> [mode |-> "live", symbol |-> Default]]
  /\ queue = Announcement([mode |-> "live", symbol |-> Default])
  /\ buffer = <<>>
  /\ data = [frames |-> <<>>, trend |-> NoTrend, stale |-> TRUE, valid |-> FALSE]
  /\ player = Idle(Head(Speeds)) /\ fetching = FALSE
  /\ sound = FALSE /\ mixed = FALSE /\ reached = 0 /\ sent = 0 /\ acted = 0

ViewNext ==
  \/ Render \/ Tick \/ Clock
  \/ \E kind \in {"depth_frame", "trend_signal", "status", "market_reset"} :
       \E good \in BOOLEAN : Send(kind, good)
  \/ \E symbol \in Symbols : SelectSymbol(symbol)
  \/ \E mode \in {"live", "demo"} : SelectMode(mode)
  \/ SelectReplay \/ FetchSettles \/ Play \/ Pause
  \/ \E t \in 0 .. MaxClock * 2 : Seek(t)
  \/ \E speed \in ToSet(Speeds) : SetSpeed(speed)
  \/ RecoverDashboard

ViewSpec == ViewInit /\ [][ViewNext]_viewVars

-----------------------------------------------------------------------------
Replaying == player.status # "idle"

(* assessDataQuality(): whether the page calls its book valid. *)
ShownValid ==
  /\ HasBook(data.frames)
  /\ Replaying \/ (data.valid /\ ~data.stale)

(* validatedTrend(): a signal the page shows was computed after validity   *)
(* was last lost ("Prevents a previously computed signal from resurfacing  *)
(* while book validity is unknown", src/lib/dataQuality.ts), and belongs   *)
(* to what the page plays.                                                 *)
ShownTrendIsCurrent == data.trend # NoTrend /\ ShownValid => sound

(* The chart is drawn from one market, the selected one, or from one       *)
(* replay, in the order of its times; a change of either starts from an    *)
(* empty chart.  Except: an updater that clear() overtook pushes into the  *)
(* emptied buffers; and a replay that starts over after its end, or seeks  *)
(* to its own cursor, adds to what is drawn.                               *)
ChartShowsOneSource ==
  queue = <<>> /\ ~mixed =>
    \A i \in DOMAIN data.frames :
      /\ data.frames[i].market = IF page.active THEN Recorded ELSE page.market
      /\ \A j \in i + 1 .. Len(data.frames) : data.frames[i].at <= data.frames[j].at

(* Both: what the page shows is current, and of what the user chose.       *)
PageIsTruthful == ShownTrendIsCurrent /\ ChartShowsOneSource

(* The playhead is where the time played, at the speed of each moment, has *)
(* taken it, through pauses, seeks and changes of speed; the events before *)
(* it have been emitted or skipped, those after it have not.               *)
ReplayKeepsTime ==
  player.events # <<>> =>
    /\ player.status = "playing" =>
         Target(player) = IF reached > To(player) THEN To(player) ELSE reached
    /\ \A i \in DOMAIN player.events :
         /\ i <= player.index => player.events[i].at <= player.cursor
         /\ i > player.index => player.events[i].at >= player.cursor
=============================================================================
