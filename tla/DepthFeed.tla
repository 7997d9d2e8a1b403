------------------------------ MODULE DepthFeed ------------------------------
(***************************************************************************)
(* What server/feeds/binanceFeed.ts promises its owner, without sockets,   *)
(* snapshots, buffers or timers: statuses under rising generations, then   *)
(* one hand-over of a book per connection, contiguous depth after it, and  *)
(* "live" only on top of a handed-over book.  head is the exchange change  *)
(* number of the last thing delivered: it never goes back, not even across *)
(* reconnects.  BinanceFeed implements this module.                        *)
(***************************************************************************)
EXTENDS Integers

CONSTANT LastSeq  \* the last change number of the bounded history

VARIABLES running, gen, retry, ready, live, head, status

feedVars == <<running, gen, retry, ready, live, head, status>>

Status(state, g) == [state |-> state, session |-> g]
DropStates == {"syncing", "reconnecting", "error"}

Init ==
  /\ running = FALSE /\ gen = 0 /\ retry = FALSE
  /\ ready = FALSE /\ live = FALSE /\ head = 0
  /\ status = Status("none", 0)

BookLost == ready' = FALSE /\ live' = FALSE /\ UNCHANGED head

(* connect() *)
Connect(state) ==
  /\ gen' = gen + 1 /\ retry' = FALSE
  /\ status' = Status(state, gen + 1)
  /\ BookLost

(* connect() that throws restarts under the next generation. *)
ConnectFails ==
  /\ gen' = gen + 2 /\ retry' = TRUE
  /\ status' = Status("error", gen + 2)
  /\ BookLost

Start == ~running /\ running' = TRUE /\ Connect("connecting")
StartFails == ~running /\ running' = TRUE /\ ConnectFails

Stop ==
  /\ running /\ running' = FALSE
  /\ gen' = gen + 1 /\ retry' = FALSE
  /\ BookLost /\ UNCHANGED status

(* restart(), for whatever reason. *)
Drop(state) ==
  /\ running
  /\ gen' = gen + 1 /\ retry' = TRUE
  /\ status' = Status(state, gen + 1)
  /\ BookLost /\ UNCHANGED running

Reconnect == running /\ retry /\ Connect("reconnecting") /\ UNCHANGED running
ReconnectFails == running /\ retry /\ ConnectFails /\ UNCHANGED running

(* The depth socket opens: synchronize() begins. *)
Opened ==
  /\ running /\ ~retry
  /\ status.state \in {"connecting", "reconnecting"}
  /\ status' = Status("syncing", gen)
  /\ UNCHANGED <<running, gen, retry, ready, live, head>>

(* synchronize() of the current connection has begun and not finished. *)
Opening == running /\ ~retry /\ ~ready /\ status.state = "syncing"

GoLive ==
  /\ ready /\ ~live
  /\ live' = TRUE /\ status' = Status("live", gen)
  /\ UNCHANGED <<running, gen, retry, ready, head>>

(* A "reconciled" event: the exchange's book after change n. *)
HandOver(n) ==
  /\ Opening /\ n >= head
  /\ ready' = TRUE /\ head' = n
  /\ UNCHANGED <<running, gen, retry, live, status>>

(* The same, with both sockets already open. *)
HandOverLive(n) ==
  /\ Opening /\ n >= head
  /\ ready' = TRUE /\ head' = n /\ live' = TRUE
  /\ status' = Status("live", gen)
  /\ UNCHANGED <<running, gen, retry>>

(* A "depth" event: the changes head + 1 .. n. *)
Deliver(n) ==
  /\ ready /\ n > head
  /\ head' = n
  /\ UNCHANGED <<running, gen, retry, ready, live, status>>

(* A "depth" event whose handler asks for a resync before it returns.      *)
Refused(n) ==
  /\ ready /\ n > head
  /\ head' = n
  /\ gen' = gen + 1 /\ retry' = TRUE
  /\ status' = Status("syncing", gen + 1)
  /\ ready' = FALSE /\ live' = FALSE
  /\ UNCHANGED running

Next ==
  \/ Start \/ StartFails \/ Stop
  \/ \E state \in DropStates : Drop(state)
  \/ Reconnect \/ ReconnectFails
  \/ Opened \/ GoLive
  \/ \E n \in 0 .. LastSeq : HandOver(n) \/ HandOverLive(n) \/ Deliver(n) \/ Refused(n)

Spec == Init /\ [][Next]_feedVars
=============================================================================
