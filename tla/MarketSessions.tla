--------------------------- MODULE MarketSessions ---------------------------
(***************************************************************************)
(* Who keeps a market running: the WebSocket clients of                    *)
(* server/httpServer.ts, the reference counts, eviction timers and drain   *)
(* of server/marketSessionManager.ts, and the gateways and the one durable *)
(* history per symbol that server/index.ts wires to them.  A gateway is    *)
(* <<symbol, k>>, the k-th one built.  One action is one callback of the   *)
(* event loop.                                                             *)
(*                                                                         *)
(* A client is one connection.  "terminated" is a socket the server has    *)
(* dropped from its set (heartbeat, "error") whose "close" event is still  *)
(* due: data the peer had already sent can still arrive as messages.       *)
(***************************************************************************)
EXTENDS Integers, FiniteSets

CONSTANTS
  Clients, Symbols,
  DefaultSymbol,              \* registered and started at boot
  MaxSessions,                \* options.maxSessions
  MaxSubscriptionsPerClient,
  MaxRefs,                    \* bound: references to a session
  MaxGateways                 \* bound: gateways built, the one at boot included

ASSUME SessionsAssumption ==
  /\ IsFiniteSet(Clients) /\ IsFiniteSet(Symbols)
  /\ DefaultSymbol \in Symbols
  /\ MaxSessions \in Nat \ {0} /\ MaxSubscriptionsPerClient \in Nat \ {0}
  /\ MaxRefs \in Nat \ {0} /\ MaxGateways \in Nat \ {0}

VARIABLES
  phase,          \* of each connection
  dead,           \* peers that vanished without closing
  alive,          \* client.alive
  subscriptions,  \* client.subscriptions
  sessions,       \* the manager's map; gateway 0 means no entry
  built,          \* gateways created so far
  disposing,      \* gateways whose asynchronous shutdown() is pending
  historyOpen,    \* the symbol's HistoryPersistence accepts records
  repeated,       \* history: references to each session that a client took
                  \* by subscribing to what it was subscribed to
  closing         \* service.close(): "serving", "draining", "drained"

connection == <<phase, dead, alive>>
registry == <<sessions, built, disposing>>
vars == <<connection, subscriptions, registry, historyOpen, repeated, closing>>

NoSession == [gateway |-> 0, refCount |-> 0, evictTimer |-> FALSE]
Session(k, refs) == [gateway |-> k, refCount |-> refs, evictTimer |-> FALSE]
Active == {s \in Symbols : sessions[s].gateway # 0}

Init ==
  /\ phase = [c \in Clients |-> "new"] /\ dead = {}
  /\ alive = [c \in Clients |-> TRUE]
  /\ subscriptions = [c \in Clients |-> {}]
  /\ sessions = [s \in Symbols |-> IF s = DefaultSymbol THEN Session(1, 0) ELSE NoSession]
  /\ built = 1
  /\ disposing = {}
  /\ historyOpen = [s \in Symbols |-> TRUE] /\ repeated = [s \in Symbols |-> 0]
  /\ closing = "serving"

-----------------------------------------------------------------------------
(* The manager's operations, on its map. *)

AcquireKeepingTimer(map, s) ==  \* mutant: the eviction is not cancelled
  [map EXCEPT ![s].refCount = @ + 1]
Acquired(map, s) ==
  [map EXCEPT ![s].refCount = @ + 1, ![s].evictTimer = FALSE]

(* release(): count refs[s] times for every s; a count at zero arms the    *)
(* timer.  An unknown symbol is ignored.                                   *)
Dropped(session, n) ==
  LET left == IF session.refCount > n THEN session.refCount - n ELSE 0
  IN [session EXCEPT !.refCount = left, !.evictTimer = @ \/ left = 0]
Released(map, refs) ==
  [s \in Symbols |-> IF refs[s] = 0 \/ map[s].gateway = 0 THEN map[s]
                     ELSE Dropped(map[s], refs[s])]

Held(clients) == [s \in Symbols |-> Cardinality({c \in clients : s \in subscriptions[c]})]
Once(targets) == [s \in Symbols |-> IF s \in targets THEN 1 ELSE 0]

(* disposeSession(): out of the map first, then the asynchronous shutdown. *)
Disposed(targets) ==
  /\ sessions' = [s \in Symbols |-> IF s \in targets THEN NoSession ELSE sessions[s]]
  /\ disposing' = disposing \cup {<<s, sessions[s].gateway>> : s \in targets}
  /\ repeated' = [s \in Symbols |-> IF s \in targets THEN 0 ELSE repeated[s]]

ReleaseClients(clients) ==
  /\ sessions' = Released(sessions, Held(clients))
  /\ subscriptions' = [c \in Clients |-> IF c \in clients THEN {} ELSE subscriptions[c]]

-----------------------------------------------------------------------------
(* Connections. *)

Connect(c) ==
  /\ phase[c] = "new" /\ closing = "serving"
  /\ phase' = [phase EXCEPT ![c] = "open"]
  /\ UNCHANGED <<dead, alive, subscriptions, registry, historyOpen, repeated, closing>>

Vanish(c) ==
  /\ phase[c] = "open" /\ c \notin dead
  /\ dead' = dead \cup {c}
  /\ UNCHANGED <<phase, alive, subscriptions, registry, historyOpen, repeated, closing>>

Pong(c) ==
  /\ phase[c] = "open" /\ c \notin dead /\ ~alive[c]
  /\ alive' = [alive EXCEPT ![c] = TRUE]
  /\ UNCHANGED <<phase, dead, subscriptions, registry, historyOpen, repeated, closing>>

SocketClose(c) ==
  /\ phase[c] = "terminated" \/ (phase[c] = "open" /\ c \notin dead)
  /\ phase' = [phase EXCEPT ![c] = "closed"]
  /\ ReleaseClients({c})
  /\ UNCHANGED <<dead, alive, built, disposing, historyOpen, repeated, closing>>

SocketError(c) ==
  /\ phase[c] = "open"
  /\ phase' = [phase EXCEPT ![c] = "terminated"]
  /\ ReleaseClients({c})
  /\ UNCHANGED <<dead, alive, built, disposing, historyOpen, repeated, closing>>

SilentNever(c) == FALSE  \* mutant: nobody is ever terminated
Silent(c) == ~alive[c]

(* The heartbeat interval: terminate who missed a pong, ping the rest. *)
Heartbeat ==
  LET open == {c \in Clients : phase[c] = "open"}
      reaped == {c \in open : Silent(c)}
  IN /\ closing = "serving" /\ open # {}
     /\ phase' = [c \in Clients |-> IF c \in reaped THEN "terminated" ELSE phase[c]]
     /\ alive' = [c \in Clients |-> IF c \in open \ reaped THEN FALSE ELSE alive[c]]
     /\ ReleaseClients(reaped)
     /\ UNCHANGED <<dead, built, disposing, historyOpen, repeated, closing>>

-----------------------------------------------------------------------------
(* Client messages.  A repeated subscribe takes another reference, which   *)
(* nothing gives back.                                                     *)

MayMessage(c) ==
  \/ phase[c] = "open" /\ c \notin dead
  \/ phase[c] = "terminated"

OverLimit(c, s) ==
  s \notin subscriptions[c] /\ Cardinality(subscriptions[c]) >= MaxSubscriptionsPerClient

(* The end of "subscribe", on the map acquire() left. *)
Admit(c, s, map) ==
  IF OverLimit(c, s)
  THEN sessions' = Released(map, Once({s})) /\ UNCHANGED subscriptions
  ELSE /\ sessions' = map
       /\ subscriptions' = [subscriptions EXCEPT ![c] = @ \cup {s}]

SubscribeActive(c, s) ==
  /\ MayMessage(c) /\ s \in Active /\ sessions[s].refCount < MaxRefs
  /\ Admit(c, s, Acquired(sessions, s))
  /\ repeated' = [repeated EXCEPT ![s] = IF s \in subscriptions[c] THEN @ + 1 ELSE @]
  /\ UNCHANGED <<connection, built, disposing, historyOpen, closing>>

(* acquire() builds a gateway unless the manager is at capacity. *)
SubscribeNew(c, s) ==
  /\ MayMessage(c) /\ s \notin Active
  /\ Cardinality(Active) < MaxSessions /\ built < MaxGateways
  /\ built' = built + 1
  /\ Admit(c, s, [sessions EXCEPT ![s] = Session(built + 1, 1)])
  /\ UNCHANGED <<connection, disposing, historyOpen, repeated, closing>>

ReleaseTwice(targets) == [s \in Symbols |-> IF s \in targets THEN 2 ELSE 0]  \* mutant
ReleaseEach(targets) == Once(targets)

(* "unsubscribe", with or without a symbol. *)
Unsubscribe(c, targets) ==
  /\ MayMessage(c) /\ targets # {} /\ targets \subseteq subscriptions[c]
  /\ Cardinality(targets) = 1 \/ targets = subscriptions[c]
  /\ subscriptions' = [subscriptions EXCEPT ![c] = @ \ targets]
  /\ sessions' = Released(sessions, ReleaseEach(targets))
  /\ UNCHANGED <<connection, built, disposing, historyOpen, repeated, closing>>

-----------------------------------------------------------------------------
(* Timers and shutdown. *)

EvictTimerFires(s) ==
  /\ sessions[s].evictTimer
  /\ Disposed({s})
  /\ UNCHANGED <<connection, subscriptions, built, historyOpen, closing>>

(* The end of gateway.shutdown(), which closes the symbol's history. *)
ShutdownCompletes(g) ==
  /\ g \in disposing
  /\ disposing' = disposing \ {g}
  /\ historyOpen' = [historyOpen EXCEPT ![g[1]] = FALSE]
  /\ UNCHANGED <<connection, subscriptions, sessions, built, repeated, closing>>

(* service.close(): the timers stop and drain() disposes what is there. *)
Close ==
  /\ closing = "serving"
  /\ closing' = "draining"
  /\ Disposed(Active)
  /\ UNCHANGED <<connection, subscriptions, built, historyOpen>>

(* drain() ends, and closeRealtimeServer() closes the sockets. *)
DrainCompletes ==
  /\ closing = "draining" /\ disposing = {}
  /\ closing' = "drained"
  /\ phase' = [c \in Clients |-> IF phase[c] = "open" THEN "terminated" ELSE phase[c]]
  /\ UNCHANGED <<dead, alive, subscriptions, registry, historyOpen, repeated>>

Next ==
  \/ \E c \in Clients : Connect(c) \/ Vanish(c) \/ Pong(c) \/ SocketClose(c) \/ SocketError(c)
  \/ Heartbeat
  \/ \E c \in Clients, s \in Symbols : SubscribeActive(c, s) \/ SubscribeNew(c, s)
  \/ \E c \in Clients : \E targets \in SUBSET subscriptions[c] : Unsubscribe(c, targets)
  \/ \E s \in Symbols : EvictTimerFires(s)
  \/ \E g \in disposing : ShutdownCompletes(g)
  \/ Close \/ DrainCompletes

Spec == Init /\ [][Next]_vars

(* Intervals and timeouts fire, a terminated socket closes, and a gateway  *)
(* finishes shutting down.  An eviction timer that stays armed fires: no   *)
(* client arms it anew for ever with subscribes that are refused.          *)
FairSpec ==
  /\ Spec
  /\ WF_vars(Heartbeat)
  /\ \A c \in Clients : WF_vars(phase[c] = "terminated" /\ SocketClose(c))
  /\ \A s \in Symbols : WF_vars(EvictTimerFires(s))
  /\ WF_vars(\E g \in disposing : ShutdownCompletes(g))
  /\ WF_vars(DrainCompletes)

-----------------------------------------------------------------------------
SessionType == [gateway : 0 .. MaxGateways, refCount : 0 .. MaxRefs, evictTimer : BOOLEAN]

(* The maps keep their types, and the two limits hold. *)
TypeOK ==
  /\ phase \in [Clients -> {"new", "open", "terminated", "closed"}]
  /\ dead \subseteq Clients /\ alive \in [Clients -> BOOLEAN]
  /\ subscriptions \in [Clients -> SUBSET Symbols]
  /\ \A c \in Clients : Cardinality(subscriptions[c]) <= MaxSubscriptionsPerClient
  /\ sessions \in [Symbols -> SessionType] /\ Cardinality(Active) <= MaxSessions
  /\ built \in 1 .. MaxGateways
  /\ disposing \subseteq Symbols \X (1 .. MaxGateways)
  /\ historyOpen \in [Symbols -> BOOLEAN] /\ repeated \in [Symbols -> Nat]
  /\ closing \in {"serving", "draining", "drained"}

Subscribers(s) == {c \in Clients : s \in subscriptions[c]}

(* No session is evicted, or about to be, under a client that subscribes   *)
(* to it: every subscription is backed by a reference of its own, and no   *)
(* other reference is left but those of repeated subscribes, however the   *)
(* others were released.  The boot session keeps its history besides; a    *)
(* market that was evicted and is subscribed to again does not get its own *)
(* back.                                                                   *)
SubscribersKeepTheirSession ==
  closing = "serving" =>
    \A s \in Symbols :
      /\ s \in Active => sessions[s].refCount = Cardinality(Subscribers(s)) + repeated[s]
      /\ Subscribers(s) # {} => /\ s \in Active /\ ~sessions[s].evictTimer
                                /\ sessions[s].gateway = 1 => historyOpen[s]

(* A timer is armed exactly while a session is unreferenced; the one       *)
(* exception is the boot session nobody has subscribed to yet, which       *)
(* register() leaves without a timer.                                      *)
IdleSessionsAreOnTheClock ==
  \A s \in Active :
    /\ sessions[s].evictTimer => sessions[s].refCount = 0
    /\ sessions[s].refCount = 0 =>
         sessions[s].evictTimer \/ (s = DefaultSymbol /\ sessions[s].gateway = 1)

(* A market whose subscribers' peers have all vanished without closing.    *)
Deserted(s) == Subscribers(s) # {} /\ Subscribers(s) \subseteq dead /\ repeated[s] = 0

(* A peer that vanished without closing is found by the heartbeat, and its *)
(* subscriptions go; and a market that only such peers kept running stops, *)
(* unless another client comes, or a repeated subscribe has taken a        *)
(* reference that nobody gives back: the market then runs for ever.        *)
VanishedPeersAreReleased ==
  /\ \A c \in Clients : c \in dead ~> subscriptions[c] = {} \/ closing # "serving"
  /\ \A s \in Symbols :
       Deserted(s) ~> \/ s \notin Active \/ repeated[s] > 0 \/ closing # "serving"
                      \/ \E c \in Clients \ dead : s \in subscriptions[c]
=============================================================================
