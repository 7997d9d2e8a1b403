------------------------ MODULE MarketSessionsProofs ------------------------
(***************************************************************************)
(* What the sessions promise the clients they serve, at both ends.         *)
(*                                                                         *)
(* The manager (MarketSessions), for every number of clients, symbols,     *)
(* limits and gateways: its limits hold, a subscription keeps its market   *)
(* running, and an unreferenced one is on the clock.  The promises rest on *)
(* each other: an eviction is harmless because an armed timer means no     *)
(* reference, and no reference means no subscriber, as the references are  *)
(* those of the subscriptions and of repeated subscribes, no more and no   *)
(* fewer, while the service serves.                                        *)
(*                                                                         *)
(* The delivery to one browser (MarketDelivery), for every set of          *)
(* instruments, every pair of back-pressure limits and any number of       *)
(* faults, resets, switches and replays: the gaps it counts are real, and  *)
(* the page keeps to the market the user selected.  DeliveryInv, below,    *)
(* says what the envelopes and messages in flight still have to tell.      *)
(***************************************************************************)
EXTENDS MarketSessions, MarketDelivery, DepthStreamProofs

(* A symbol out of the manager's map has neither references nor a timer. *)
GoneIsGone == \A s \in Symbols : sessions[s].gateway = 0 => sessions[s] = NoSession

(* Every subscription has a reference of its own, and so has every repeat. *)
Backed ==
  closing = "serving" =>
    \A s \in Symbols :
      /\ s \in Active => sessions[s].refCount = Cardinality(Subscribers(s)) + repeated[s]
      /\ s \notin Active => Subscribers(s) = {} /\ repeated[s] = 0

(* While the boot session lives, its symbol's history has not been closed  *)
(* and no gateway is on its way to close it.                               *)
BootHistoryOpen ==
  \A s \in Symbols : sessions[s].gateway = 1 =>
    historyOpen[s] /\ \A g \in disposing : g[1] # s

IInv == TypeOK /\ GoneIsGone /\ IdleSessionsAreOnTheClock /\ Backed /\ BootHistoryOpen

-----------------------------------------------------------------------------
(* What a map of sessions looks like at any time, whatever points at it. *)
Clocked(map) ==
  \A s \in Symbols :
    /\ map[s].gateway = 0 => map[s] = NoSession
    /\ map[s].gateway # 0 =>
         /\ map[s].evictTimer => map[s].refCount = 0
         /\ map[s].refCount = 0 =>
              map[s].evictTimer \/ (s = DefaultSymbol /\ map[s].gateway = 1)

LEMMA ClockedIsTheClock ==
  ASSUME TypeOK PROVE Clocked(sessions) <=> GoneIsGone /\ IdleSessionsAreOnTheClock
BY DEF TypeOK, Clocked, GoneIsGone, IdleSessionsAreOnTheClock, Active

(* release() keeps the sessions there are, takes what it was told to where *)
(* there is as much, and arms the timer of whatever it leaves unreferenced.              *)
LEMMA ReleaseKeepsClock ==
  ASSUME NEW map \in [Symbols -> SessionType], Clocked(map), NEW refs \in [Symbols -> Nat]
  PROVE  /\ Released(map, refs) \in [Symbols -> SessionType]
         /\ Clocked(Released(map, refs))
         /\ \A s \in Symbols :
              /\ Released(map, refs)[s].gateway = map[s].gateway
              /\ map[s].gateway # 0 /\ map[s].refCount >= refs[s] =>
                     Released(map, refs)[s].refCount = map[s].refCount - refs[s]
              /\ refs[s] = 0 => Released(map, refs)[s] = map[s]
<1>0. MaxRefs \in Nat /\ MaxGateways \in Nat
  BY SessionsAssumption
<1>1. SUFFICES ASSUME NEW s \in Symbols
      PROVE  /\ Released(map, refs)[s] \in SessionType
             /\ Released(map, refs)[s].gateway = map[s].gateway
             /\ map[s].gateway = 0 => Released(map, refs)[s] = NoSession
             /\ map[s].gateway # 0 =>
                  /\ map[s].refCount >= refs[s] =>
                       Released(map, refs)[s].refCount = map[s].refCount - refs[s]
                  /\ Released(map, refs)[s].evictTimer => Released(map, refs)[s].refCount = 0
                  /\ Released(map, refs)[s].refCount = 0 =>
                       Released(map, refs)[s].evictTimer
                         \/ (s = DefaultSymbol /\ map[s].gateway = 1)
             /\ refs[s] = 0 => Released(map, refs)[s] = map[s]
  BY DEF Clocked, Released
<1>2. map[s] \in SessionType /\ refs[s] \in Nat
  OBVIOUS
<1>3. CASE refs[s] = 0 \/ map[s].gateway = 0
  BY <1>0, <1>2, <1>3 DEF Clocked, Released, SessionType
<1>4. CASE ~(refs[s] = 0 \/ map[s].gateway = 0)
  <2> DEFINE left == IF map[s].refCount > refs[s] THEN map[s].refCount - refs[s] ELSE 0
  <2>1. /\ map[s].gateway \in 0 .. MaxGateways /\ map[s].refCount \in 0 .. MaxRefs
        /\ map[s].evictTimer \in BOOLEAN
    BY <1>2 DEF SessionType
  <2>2. /\ left \in 0 .. MaxRefs /\ left <= map[s].refCount
        /\ map[s].refCount >= refs[s] => left = map[s].refCount - refs[s]
    BY <1>0, <1>2, <2>1
  <2>3. Released(map, refs)[s] =
          [gateway |-> map[s].gateway, refCount |-> left,
           evictTimer |-> map[s].evictTimer \/ left = 0]
    BY <1>2, <1>4 DEF Released, Dropped, SessionType
  <2>4. map[s].evictTimer => left = 0
    BY <1>4, <2>1, <2>2 DEF Clocked
  <2> HIDE DEF left
  <2>5. /\ Released(map, refs)[s].gateway = map[s].gateway
        /\ Released(map, refs)[s].refCount = left
        /\ Released(map, refs)[s].evictTimer = (map[s].evictTimer \/ left = 0)
    BY <2>3
  <2>6. Released(map, refs)[s] \in SessionType
    BY <2>1, <2>2, <2>3 DEF SessionType
  <2>7. Released(map, refs)[s].evictTimer <=> left = 0
    BY <2>4, <2>5
  <2> QED BY <1>4, <2>2, <2>5, <2>6, <2>7
<1> QED BY <1>3, <1>4

-----------------------------------------------------------------------------
(* The registry's half of the invariant: all but the connections. *)
RegistryOK ==
  /\ subscriptions \in [Clients -> SUBSET Symbols]
  /\ \A c \in Clients : Cardinality(subscriptions[c]) <= MaxSubscriptionsPerClient
  /\ sessions \in [Symbols -> SessionType] /\ Cardinality(Active) <= MaxSessions
  /\ built \in 1 .. MaxGateways
  /\ disposing \subseteq Symbols \X (1 .. MaxGateways)
  /\ historyOpen \in [Symbols -> BOOLEAN] /\ repeated \in [Symbols -> Nat]
  /\ Clocked(sessions) /\ Backed /\ BootHistoryOpen

ConnectionsOK ==
  /\ phase \in [Clients -> {"new", "open", "terminated", "closed"}]
  /\ dead \subseteq Clients /\ alive \in [Clients -> BOOLEAN]
  /\ closing \in {"serving", "draining", "drained"}

LEMMA InvIsBoth == IInv <=> ConnectionsOK /\ RegistryOK
BY ClockedIsTheClock DEF IInv, TypeOK, ConnectionsOK, RegistryOK

LEMMA ConstantBounds ==
  /\ MaxRefs \in Nat \ {0} /\ MaxGateways \in Nat \ {0}
  /\ MaxSessions \in Nat \ {0} /\ MaxSubscriptionsPerClient \in Nat \ {0}
BY SessionsAssumption

(* Whoever subscribes is a finite set, and so is what a client lists. *)
LEMMA SubscribersFinite ==
  ASSUME NEW s
  PROVE  IsFiniteSet(Subscribers(s)) /\ Cardinality(Subscribers(s)) \in Nat
BY SessionsAssumption, FS_Subset, FS_CardinalityType DEF Subscribers

LEMMA ActiveFinite == IsFiniteSet(Active) /\ Cardinality(Active) \in Nat
BY SessionsAssumption, FS_Subset, FS_CardinalityType DEF Active

(* A step that leaves the markets in the map leaves its size. *)
LEMMA SameActive ==
  ASSUME \A s \in Symbols : sessions'[s].gateway = sessions[s].gateway
  PROVE  Active' = Active
BY DEF Active

(* Clients leave: each takes the references of its subscriptions along and *)
(* no other, so the rest keeps one reference per subscription.             *)
LEMMA ReleaseClientsKeepsRegistry ==
  ASSUME RegistryOK, NEW clients \in SUBSET Clients, ReleaseClients(clients),
         UNCHANGED <<built, disposing, historyOpen, repeated, closing>>
  PROVE  RegistryOK'
<1> DEFINE held == Held(clients)
<1>1. \A s \in Symbols :
        /\ Subscribers(s)' = Subscribers(s) \ clients
        /\ Subscribers(s) \cap clients = {c \in clients : s \in subscriptions[c]}
  <2>1. \A c \in Clients :
          subscriptions'[c] = IF c \in clients THEN {} ELSE subscriptions[c]
    BY DEF ReleaseClients
  <2>2. ASSUME NEW s \in Symbols
        PROVE  Subscribers(s)' = Subscribers(s) \ clients
    <3>1. \A c \in Clients : s \in subscriptions'[c] <=> s \in subscriptions[c] /\ c \notin clients
      BY <2>1
    <3> QED BY <3>1 DEF Subscribers
  <2>3. ASSUME NEW s \in Symbols
        PROVE  Subscribers(s) \cap clients = {c \in clients : s \in subscriptions[c]}
    BY DEF Subscribers
  <2> QED BY <2>2, <2>3
<1>2. \A s \in Symbols :
        /\ held[s] = Cardinality(Subscribers(s) \cap clients)
        /\ IsFiniteSet(Subscribers(s) \cap clients)
        /\ Cardinality(Subscribers(s) \ clients) = Cardinality(Subscribers(s)) - held[s]
  <2> TAKE s \in Symbols
  <2>1. held[s] = Cardinality({c \in clients : s \in subscriptions[c]})
    BY DEF Held
  <2>2. held[s] = Cardinality(Subscribers(s) \cap clients)
    BY <1>1, <2>1
  <2>3. IsFiniteSet(Subscribers(s))
    BY SubscribersFinite
  <2>4. IsFiniteSet(Subscribers(s) \cap clients)
    BY <2>3, FS_Intersection
  <2>5. Cardinality(Subscribers(s) \ clients)
          = Cardinality(Subscribers(s)) - Cardinality(Subscribers(s) \cap clients)
    BY <2>3, FS_Difference
  <2> QED BY <2>2, <2>4, <2>5
<1>3. held \in [Symbols -> Nat]
  <2>1. \A s \in Symbols : held[s] \in Nat
    BY <1>2, FS_CardinalityType
  <2> QED BY <2>1 DEF Held
<1>4. /\ sessions' \in [Symbols -> SessionType]
      /\ Clocked(sessions')
      /\ \A s \in Symbols :
           /\ sessions'[s].gateway = sessions[s].gateway
           /\ sessions[s].gateway # 0 /\ sessions[s].refCount >= held[s] =>
                  sessions'[s].refCount = sessions[s].refCount - held[s]
  BY <1>3, ReleaseKeepsClock DEF RegistryOK, ReleaseClients
<1>5. Active' = Active
  BY <1>4, SameActive
<1>6. /\ subscriptions' \in [Clients -> SUBSET Symbols]
      /\ \A c \in Clients : Cardinality(subscriptions'[c]) <= MaxSubscriptionsPerClient
  <2>1. subscriptions' \in [Clients -> SUBSET Symbols]
    BY DEF RegistryOK, ReleaseClients
  <2>2. \A c \in Clients : subscriptions'[c] = {} \/ subscriptions'[c] = subscriptions[c]
    BY DEF RegistryOK, ReleaseClients
  <2>3. Cardinality({}) <= MaxSubscriptionsPerClient
    BY FS_EmptySet, ConstantBounds
  <2>4. ASSUME NEW c \in Clients
        PROVE  Cardinality(subscriptions'[c]) <= MaxSubscriptionsPerClient
    <3>1. CASE subscriptions'[c] = {}
      BY <2>3, <3>1
    <3>2. CASE subscriptions'[c] = subscriptions[c]
      BY <3>2 DEF RegistryOK
    <3> QED BY <2>2, <3>1, <3>2
  <2> QED BY <2>1, <2>4
<1>7. Backed'
  <2> SUFFICES ASSUME closing = "serving", NEW s \in Symbols
      PROVE  /\ s \in Active =>
                  sessions'[s].refCount = Cardinality(Subscribers(s)') + repeated[s]
             /\ s \notin Active => Subscribers(s)' = {} /\ repeated[s] = 0
    BY <1>5 DEF Backed
  <2>1. CASE s \notin Active
    BY <1>1, <2>1 DEF RegistryOK, Backed
  <2>2. CASE s \in Active
    <3>1. sessions[s].refCount = Cardinality(Subscribers(s)) + repeated[s]
      BY <2>2 DEF RegistryOK, Backed
    <3>2. repeated[s] \in Nat /\ sessions[s].gateway # 0
      BY <2>2 DEF RegistryOK, Active
    <3>3. /\ Cardinality(Subscribers(s)') = Cardinality(Subscribers(s)) - held[s]
          /\ Cardinality(Subscribers(s)') \in Nat /\ Cardinality(Subscribers(s)) \in Nat
      <4>1. IsFiniteSet(Subscribers(s) \ clients)
        BY SubscribersFinite, FS_Difference
      <4> QED BY <1>1, <1>2, <4>1, SubscribersFinite, FS_CardinalityType
    <3>4. held[s] \in Nat
      BY <1>3
    <3> HIDE DEF held
    <3>5. sessions[s].refCount >= held[s]
      BY <3>1, <3>2, <3>3, <3>4
    <3> QED BY <1>4, <2>2, <3>1, <3>2, <3>3, <3>4, <3>5
  <2> QED BY <2>1, <2>2
<1>8. BootHistoryOpen'
  BY <1>4 DEF RegistryOK, BootHistoryOpen
<1> QED BY <1>4, <1>5, <1>6, <1>7, <1>8 DEF RegistryOK

(* A subscription ends with one more reference and one more subscriber, or *)
(* over the client's limit with neither; map is what acquire() left.       *)
LEMMA AdmitKeepsRegistry ==
  ASSUME RegistryOK, NEW c \in Clients, NEW s \in Symbols,
         NEW map \in [Symbols -> SessionType], Clocked(map), Admit(c, s, map),
         map[s].gateway # 0, map[s].refCount >= 1,
         s \in Active =>
           /\ map[s].refCount = sessions[s].refCount + 1
           /\ map[s].gateway = sessions[s].gateway
           /\ repeated'[s] = IF s \in subscriptions[c] THEN repeated[s] + 1 ELSE repeated[s],
         s \notin Active => map[s].gateway # 1 /\ map[s].refCount = 1 /\ repeated' = repeated,
         repeated' \in [Symbols -> Nat], \A t \in Symbols \ {s} : repeated'[t] = repeated[t],
         \A t \in Symbols \ {s} : map[t] = sessions[t],
         Cardinality(Active \cup {s}) <= MaxSessions,
         built' \in 1 .. MaxGateways, UNCHANGED <<disposing, historyOpen, closing>>
  PROVE  RegistryOK'
<1> DEFINE once == Once({s})
<1>1. once \in [Symbols -> Nat] /\ once[s] = 1 /\ \A t \in Symbols \ {s} : once[t] = 0
  BY DEF Once
<1>2. /\ sessions' \in [Symbols -> SessionType] /\ Clocked(sessions')
      /\ \A t \in Symbols : sessions'[t].gateway = map[t].gateway
      /\ \A t \in Symbols \ {s} : sessions'[t] = sessions[t]
      /\ OverLimit(c, s) => sessions'[s].refCount = map[s].refCount - 1
      /\ ~OverLimit(c, s) => sessions' = map
  <2>1. CASE OverLimit(c, s)
    <3>1. sessions' = Released(map, once)
      BY <2>1 DEF Admit
    <3>2. /\ sessions' \in [Symbols -> SessionType] /\ Clocked(sessions')
          /\ \A t \in Symbols :
               /\ sessions'[t].gateway = map[t].gateway
               /\ map[t].gateway # 0 /\ map[t].refCount >= once[t] =>
                    sessions'[t].refCount = map[t].refCount - once[t]
               /\ once[t] = 0 => sessions'[t] = map[t]
      <4> HIDE DEF once
      <4> QED BY <1>1, <3>1, ReleaseKeepsClock
    <3>3. /\ sessions'[s].refCount = map[s].refCount - 1
          /\ \A t \in Symbols \ {s} : sessions'[t] = map[t]
      <4> HIDE DEF once
      <4> QED BY <1>1, <3>2
    <3> QED BY <2>1, <3>2, <3>3
  <2>2. CASE ~OverLimit(c, s)
    BY <2>2 DEF Admit
  <2> QED BY <2>1, <2>2
<1>3. Cardinality(Active') <= MaxSessions
  <2>1. Active' = Active \cup {s}
    BY <1>2 DEF Active
  <2> QED BY <2>1
<1>4. subscriptions' \in [Clients -> SUBSET Symbols]
  BY DEF RegistryOK, Admit
<1>5. ASSUME NEW d \in Clients
      PROVE  Cardinality(subscriptions'[d]) <= MaxSubscriptionsPerClient
  <2>1. CASE subscriptions'[d] = subscriptions[d]
    BY <2>1 DEF RegistryOK
  <2>2. CASE subscriptions'[d] # subscriptions[d]
    <3>1. d = c /\ s \notin subscriptions[c] /\ subscriptions'[c] = subscriptions[c] \cup {s}
      BY <2>2 DEF RegistryOK, Admit
    <3>2. ~OverLimit(c, s)
      BY <2>2 DEF Admit
    <3>3. IsFiniteSet(subscriptions[c]) /\ Cardinality(subscriptions[c]) \in Nat
      BY SessionsAssumption, FS_Subset, FS_CardinalityType DEF RegistryOK
    <3>4. Cardinality(subscriptions'[c]) = Cardinality(subscriptions[c]) + 1
      <4>1. Cardinality(subscriptions[c] \cup {s}) = Cardinality(subscriptions[c]) + 1
        BY ONLY <3>1, <3>3, FS_AddElement
      <4> QED BY <3>1, <4>1
    <3> QED BY <3>1, <3>2, <3>3, <3>4, ConstantBounds DEF OverLimit
  <2> QED BY <2>1, <2>2
<1>6. Backed'
  <2> SUFFICES ASSUME closing = "serving", NEW t \in Symbols
      PROVE  /\ t \in Active' =>
                  sessions'[t].refCount = Cardinality(Subscribers(t)') + repeated'[t]
             /\ t \notin Active' => Subscribers(t)' = {} /\ repeated'[t] = 0
    BY DEF Backed
  <2>1. \A u \in Symbols \ {s} : Subscribers(u)' = Subscribers(u)
    BY DEF RegistryOK, Admit, Subscribers
  <2>2. CASE t # s
    BY <1>2, <2>1, <2>2 DEF RegistryOK, Backed, Active
  <2>3. CASE t = s
    <3> DEFINE n == Cardinality(Subscribers(s))
    <3>1. /\ map[s].refCount \in Nat /\ sessions[s].refCount \in Nat /\ repeated[s] \in Nat
          /\ IsFiniteSet(Subscribers(s)) /\ n \in Nat
      BY ConstantBounds, SubscribersFinite DEF RegistryOK, SessionType
    <3>2. s \in Active'
      BY <1>2 DEF Active
    <3>3. /\ map[s].refCount = n + repeated[s] + 1
          /\ repeated'[s] = IF c \in Subscribers(s) THEN repeated[s] + 1 ELSE repeated[s]
      <4>1. c \in Subscribers(s) <=> s \in subscriptions[c]
        BY DEF Subscribers
      <4>2. CASE s \in Active
        BY <3>1, <4>1, <4>2 DEF RegistryOK, Backed
      <4>3. CASE s \notin Active
        <5>1. Subscribers(s) = {} /\ repeated[s] = 0
          BY <4>3 DEF RegistryOK, Backed
        <5> QED BY <4>3, <5>1, FS_EmptySet
      <4> QED BY <4>2, <4>3
    <3>4. CASE OverLimit(c, s)
      <4>1. Subscribers(s)' = Subscribers(s) /\ c \notin Subscribers(s)
        BY <3>4 DEF Admit, OverLimit, Subscribers
      <4>2. sessions'[s].refCount = map[s].refCount - 1 /\ repeated'[s] = repeated[s]
        BY <1>2, <3>3, <3>4, <4>1
      <4> HIDE DEF n
      <4>3. sessions'[s].refCount = n + repeated'[s]
        BY <3>1, <3>3, <4>2
      <4> QED BY <2>3, <3>2, <4>1, <4>3 DEF n
    <3>5. CASE ~OverLimit(c, s)
      <4>1. sessions' = map
        BY <1>2, <3>5
      <4>2. Subscribers(s)' = Subscribers(s) \cup {c}
        <5>1. \A d \in Clients : s \in subscriptions'[d] <=> s \in subscriptions[d] \/ d = c
          BY <3>5 DEF RegistryOK, Admit
        <5> QED BY <5>1 DEF Subscribers
      <4>3. Cardinality(Subscribers(s)') = IF c \in Subscribers(s) THEN n ELSE n + 1
        BY <3>1, <4>2, FS_AddElement
      <4> HIDE DEF n
      <4>4. sessions'[s].refCount = Cardinality(Subscribers(s)') + repeated'[s]
        <5>1. CASE c \in Subscribers(s)
          BY <3>1, <3>3, <4>1, <4>3, <5>1
        <5>2. CASE c \notin Subscribers(s)
          BY <3>1, <3>3, <4>1, <4>3, <5>2
        <5> QED BY <5>1, <5>2
      <4> QED BY <2>3, <3>2, <4>4
    <3> QED BY <3>4, <3>5
  <2> QED BY <2>2, <2>3
<1>7. BootHistoryOpen'
  <2> SUFFICES ASSUME NEW t \in Symbols, sessions'[t].gateway = 1
      PROVE  historyOpen[t] /\ \A g \in disposing : g[1] # t
    BY DEF BootHistoryOpen
  <2>1. sessions[t].gateway = 1
    BY <1>2 DEF Active
  <2> QED BY <2>1 DEF RegistryOK, BootHistoryOpen
<1> QED BY <1>2, <1>3, <1>4, <1>5, <1>6, <1>7 DEF RegistryOK

(* Sessions leave the map together, with their gateways on the way to a    *)
(* close; while the service serves, only ones nobody subscribes to leave.  *)
LEMMA DisposeKeepsRegistry ==
  ASSUME RegistryOK, NEW targets \in SUBSET Active, Disposed(targets),
         closing' = "serving" =>
           closing = "serving" /\ \A s \in targets : Subscribers(s) = {},
         UNCHANGED <<subscriptions, built, historyOpen>>
  PROVE  RegistryOK'
<1>0. targets \subseteq Symbols
  BY DEF Active
<1>1. /\ sessions' \in [Symbols -> SessionType] /\ Clocked(sessions')
      /\ \A s \in Symbols : sessions'[s] = IF s \in targets THEN NoSession ELSE sessions[s]
  <2>1. NoSession \in SessionType /\ NoSession.gateway = 0
    BY ConstantBounds DEF NoSession, SessionType
  <2> HIDE DEF NoSession
  <2> QED BY <2>1 DEF RegistryOK, Clocked, Disposed
<1>2. NoSession.gateway = 0
  BY DEF NoSession
<1>3. Active' = Active \ targets
  BY <1>1, <1>2 DEF Active
<1>4. Cardinality(Active') <= MaxSessions
  <2>1. Cardinality(Active') <= Cardinality(Active) /\ Cardinality(Active') \in Nat
    BY <1>3, ActiveFinite, FS_Subset, FS_CardinalityType
  <2> QED BY <2>1, ActiveFinite, ConstantBounds DEF RegistryOK
<1>5. disposing' \subseteq Symbols \X (1 .. MaxGateways)
  <2>1. \A s \in targets : sessions[s].gateway \in 1 .. MaxGateways
    BY ConstantBounds DEF RegistryOK, SessionType, Active
  <2> QED BY <1>0, <2>1 DEF RegistryOK, Disposed
<1>6. Backed'
  <2> SUFFICES ASSUME closing' = "serving", NEW s \in Symbols
      PROVE  /\ s \in Active' =>
                  sessions'[s].refCount = Cardinality(Subscribers(s)') + repeated'[s]
             /\ s \notin Active' => Subscribers(s)' = {} /\ repeated'[s] = 0
    BY DEF Backed
  <2>1. Subscribers(s)' = Subscribers(s)
    BY DEF Subscribers
  <2>2. /\ s \in Active => sessions[s].refCount = Cardinality(Subscribers(s)) + repeated[s]
        /\ s \notin Active => Subscribers(s) = {} /\ repeated[s] = 0
    BY DEF RegistryOK, Backed
  <2>3. repeated'[s] = IF s \in targets THEN 0 ELSE repeated[s]
    BY DEF Disposed
  <2>4. CASE s \in targets
    BY <1>3, <2>1, <2>3, <2>4
  <2>5. CASE s \notin targets
    BY <1>1, <1>3, <2>1, <2>2, <2>3, <2>5
  <2> QED BY <2>4, <2>5
<1>7. BootHistoryOpen'
  <2> SUFFICES ASSUME NEW s \in Symbols, sessions'[s].gateway = 1
      PROVE  historyOpen[s] /\ \A g \in disposing' : g[1] # s
    BY DEF BootHistoryOpen
  <2>1. s \notin targets /\ sessions[s].gateway = 1
    BY <1>1, <1>2
  <2>2. historyOpen[s] /\ \A g \in disposing : g[1] # s
    BY <2>1 DEF RegistryOK, BootHistoryOpen
  <2>3. disposing' = disposing \cup {<<t, sessions[t].gateway>> : t \in targets}
        /\ historyOpen' = historyOpen
    BY DEF Disposed
  <2> QED BY <2>1, <2>2, <2>3
<1>8. repeated' \in [Symbols -> Nat]
  <2>1. repeated' = [s \in Symbols |-> IF s \in targets THEN 0 ELSE repeated[s]]
    BY DEF Disposed
  <2> QED BY <2>1 DEF RegistryOK
<1> QED BY <1>1, <1>4, <1>5, <1>6, <1>7, <1>8 DEF RegistryOK

(* A step of the connections alone. *)
LEMMA UntouchedRegistry ==
  ASSUME RegistryOK, UNCHANGED <<subscriptions, registry, historyOpen, repeated>>,
         closing' = "serving" => closing = "serving"
  PROVE  RegistryOK'
<1>1. UNCHANGED <<subscriptions, sessions, built, disposing, historyOpen, repeated>>
  BY DEF registry
<1>2. Active' = Active /\ \A s : Subscribers(s)' = Subscribers(s)
  BY <1>1 DEF Active, Subscribers
<1>3. Backed'
  BY <1>1, <1>2 DEF RegistryOK, Backed
<1>4. BootHistoryOpen' /\ Clocked(sessions')
  BY <1>1 DEF RegistryOK, BootHistoryOpen
<1> QED BY <1>1, <1>2, <1>3, <1>4 DEF RegistryOK

-----------------------------------------------------------------------------
LEMMA SessionsInit == Init => IInv
<1> SUFFICES ASSUME Init PROVE IInv
  OBVIOUS
<1>1. ConnectionsOK
  BY DEF Init, ConnectionsOK
<1>2. Active = {DefaultSymbol}
  BY SessionsAssumption DEF Init, Active, Session, NoSession
<1>3. \A c \in Clients : subscriptions[c] = {}
  BY DEF Init
<1>4. \A s \in Symbols : Subscribers(s) = {}
  BY <1>3 DEF Subscribers
<1>5. sessions \in [Symbols -> SessionType] /\ Clocked(sessions)
  BY ConstantBounds DEF Init, Clocked, Session, NoSession, SessionType
<1>6. /\ Cardinality(Active) <= MaxSessions
      /\ \A c \in Clients : Cardinality(subscriptions[c]) <= MaxSubscriptionsPerClient
  <2>1. Cardinality({DefaultSymbol}) = 1 /\ Cardinality({}) = 0
    BY FS_Singleton, FS_EmptySet
  <2> QED BY <1>2, <1>3, <2>1, ConstantBounds
<1>7. Backed /\ BootHistoryOpen
  <2>1. \A s \in Symbols : repeated[s] = 0 /\ sessions[s].refCount = 0
    BY DEF Init, Session, NoSession
  <2>2. Backed
    BY <1>4, <2>1, FS_EmptySet DEF Backed
  <2>3. BootHistoryOpen
    BY DEF Init, BootHistoryOpen
  <2> QED BY <2>2, <2>3
<1>8. RegistryOK
  BY <1>5, <1>6, <1>7, ConstantBounds DEF Init, RegistryOK
<1> QED BY <1>1, <1>8, InvIsBoth

LEMMA SubscribeKeepsRegistry ==
  ASSUME RegistryOK, NEW c \in Clients, NEW s \in Symbols,
         SubscribeActive(c, s) \/ SubscribeNew(c, s)
  PROVE  RegistryOK'
<1>1. CASE SubscribeActive(c, s)
  <2> DEFINE map == Acquired(sessions, s)
  <2>1. sessions[s].refCount \in 0 .. MaxRefs - 1 /\ sessions[s] \in SessionType
    BY <1>1, ConstantBounds DEF SubscribeActive, RegistryOK, SessionType
  <2>2. /\ map[s] = [gateway |-> sessions[s].gateway, refCount |-> sessions[s].refCount + 1,
                     evictTimer |-> FALSE]
        /\ \A t \in Symbols \ {s} : map[t] = sessions[t]
    BY <2>1 DEF RegistryOK, Acquired, SessionType
  <2>3. /\ map[s].gateway = sessions[s].gateway /\ sessions[s].gateway # 0
        /\ map[s].refCount = sessions[s].refCount + 1
        /\ map[s].evictTimer = FALSE /\ map[s] \in SessionType
    <3>1. sessions[s].gateway \in 0 .. MaxGateways /\ sessions[s].refCount + 1 \in 0 .. MaxRefs
      BY <2>1, ConstantBounds DEF SessionType
    <3>2. sessions[s].gateway # 0
      BY <1>1 DEF SubscribeActive, Active
    <3> QED BY <2>2, <3>1, <3>2 DEF SessionType
  <2>4. map \in [Symbols -> SessionType]
    BY <2>2, <2>3 DEF RegistryOK, Acquired
  <2>5. map[s].refCount >= 1
    BY <2>1, <2>3
  <2>6. Clocked(map)
    <3>1. map[s].gateway # 0 /\ map[s].refCount # 0 /\ ~map[s].evictTimer
      BY <2>1, <2>3
    <3> HIDE DEF map
    <3> QED BY <2>2, <3>1 DEF RegistryOK, Clocked
  <2>7. Active \cup {s} = Active
    BY <1>1 DEF SubscribeActive
  <2>8. Admit(c, s, map) /\ UNCHANGED <<built, disposing, historyOpen, closing>>
    BY <1>1 DEF SubscribeActive
  <2>10. /\ repeated' \in [Symbols -> Nat]
         /\ repeated'[s] = IF s \in subscriptions[c] THEN repeated[s] + 1 ELSE repeated[s]
         /\ \A t \in Symbols \ {s} : repeated'[t] = repeated[t]
    <3>1. repeated' = [repeated EXCEPT ![s] = IF s \in subscriptions[c] THEN @ + 1 ELSE @]
      BY <1>1 DEF SubscribeActive
    <3>2. repeated \in [Symbols -> Nat]
      BY DEF RegistryOK
    <3> QED BY <3>1, <3>2
  <2>9. s \in Active
    BY <1>1 DEF SubscribeActive
  <2> HIDE DEF map
  <2> QED BY <2>3, <2>4, <2>5, <2>6, <2>7, <2>8, <2>9, <2>10, <2>2, AdmitKeepsRegistry
         DEF RegistryOK
<1>2. CASE SubscribeNew(c, s)
  <2> DEFINE map == [sessions EXCEPT ![s] = Session(built + 1, 1)]
  <2>1. built' = built + 1 /\ built \in 1 .. MaxGateways /\ built < MaxGateways
    BY <1>2 DEF SubscribeNew, RegistryOK
  <2>2. map[s] = Session(built + 1, 1) /\ \A t \in Symbols \ {s} : map[t] = sessions[t]
    BY DEF RegistryOK
  <2>3. /\ map[s].gateway = built + 1 /\ map[s].refCount = 1
        /\ map[s].evictTimer = FALSE /\ map[s] \in SessionType
    <3>1. map[s] = [gateway |-> built + 1, refCount |-> 1, evictTimer |-> FALSE]
      BY <2>2 DEF Session
    <3>2. built + 1 \in 0 .. MaxGateways /\ 1 \in 0 .. MaxRefs
      BY <2>1, ConstantBounds
    <3> HIDE DEF map
    <3> QED BY <3>1, <3>2 DEF SessionType
  <2>4. map \in [Symbols -> SessionType]
    BY <2>2, <2>3 DEF RegistryOK
  <2>5. /\ map[s].gateway # 0 /\ map[s].gateway # 1 /\ map[s].refCount >= 1
        /\ built' \in 1 .. MaxGateways
    BY <2>1, <2>3, ConstantBounds
  <2>6. Clocked(map)
    <3>1. map[s].gateway # 0 /\ map[s].refCount # 0 /\ ~map[s].evictTimer
      BY <2>3, <2>5
    <3> HIDE DEF map
    <3> QED BY <2>2, <3>1 DEF RegistryOK, Clocked
  <2>7. Cardinality(Active \cup {s}) <= MaxSessions
    <3>1. s \notin Active /\ Cardinality(Active) < MaxSessions
      BY <1>2 DEF SubscribeNew
    <3>2. Cardinality(Active \cup {s}) = Cardinality(Active) + 1
      BY <3>1, ActiveFinite, FS_AddElement
    <3> QED BY <3>1, <3>2, ActiveFinite, ConstantBounds
  <2>8. /\ Admit(c, s, map) /\ UNCHANGED <<disposing, historyOpen, repeated, closing>>
        /\ s \notin Active
    BY <1>2 DEF SubscribeNew
  <2>9. repeated' = repeated /\ repeated \in [Symbols -> Nat]
    BY <2>8 DEF RegistryOK
  <2> HIDE DEF map
  <2> QED BY <2>2, <2>3, <2>4, <2>5, <2>6, <2>7, <2>8, <2>9, AdmitKeepsRegistry
<1> QED BY <1>1, <1>2

LEMMA UnsubscribeKeepsRegistry ==
  ASSUME RegistryOK, NEW c \in Clients, NEW targets \in SUBSET subscriptions[c],
         Unsubscribe(c, targets)
  PROVE  RegistryOK'
<1> DEFINE refs == ReleaseEach(targets)
<1>0. refs \in [Symbols -> Nat] /\ \A s \in Symbols : refs[s] = IF s \in targets THEN 1 ELSE 0
  BY DEF ReleaseEach, Once
<1>1. /\ sessions' \in [Symbols -> SessionType] /\ Clocked(sessions')
      /\ \A s \in Symbols :
           /\ sessions'[s].gateway = sessions[s].gateway
           /\ sessions[s].gateway # 0 /\ sessions[s].refCount >= refs[s] =>
                  sessions'[s].refCount = sessions[s].refCount - refs[s]
  BY <1>0, ReleaseKeepsClock DEF RegistryOK, Unsubscribe
<1>2. Active' = Active
  BY <1>1, SameActive
<1>3. subscriptions' = [subscriptions EXCEPT ![c] = @ \ targets]
  BY DEF Unsubscribe
<1>4. \A d \in Clients : subscriptions'[d] = IF d = c THEN subscriptions[c] \ targets
                                              ELSE subscriptions[d]
  BY <1>3 DEF RegistryOK
<1>5. ASSUME NEW d \in Clients
      PROVE  Cardinality(subscriptions'[d]) <= MaxSubscriptionsPerClient
  <2>1. CASE d = c
    <3>1. IsFiniteSet(subscriptions[c])
      BY SessionsAssumption, FS_Subset DEF RegistryOK
    <3>2. /\ Cardinality(subscriptions[c]) \in Nat
          /\ Cardinality(subscriptions[c] \ targets) \in Nat
          /\ Cardinality(subscriptions[c] \ targets) <= Cardinality(subscriptions[c])
      BY <3>1, FS_Subset, FS_CardinalityType
    <3> QED BY <1>4, <2>1, <3>2, ConstantBounds DEF RegistryOK
  <2>2. CASE d # c
    BY <1>4, <2>2 DEF RegistryOK
  <2> QED BY <2>1, <2>2
<1>6. Backed'
  <2> SUFFICES ASSUME closing = "serving", NEW s \in Symbols
      PROVE  /\ s \in Active =>
                  sessions'[s].refCount = Cardinality(Subscribers(s)') + repeated[s]
             /\ s \notin Active => Subscribers(s)' = {} /\ repeated[s] = 0
    BY <1>2 DEF Unsubscribe, Backed
  <2>1. CASE s \notin Active
    <3>1. Subscribers(s) = {} /\ repeated[s] = 0
      BY <2>1 DEF RegistryOK, Backed
    <3> QED BY <1>4, <2>1, <3>1 DEF Subscribers
  <2>2. CASE s \in Active
    <3> DEFINE n == Cardinality(Subscribers(s))
    <3>1. sessions[s].refCount = n + repeated[s] /\ sessions[s].gateway # 0
      BY <2>2 DEF RegistryOK, Backed, Active
    <3>2. n \in Nat /\ repeated[s] \in Nat /\ IsFiniteSet(Subscribers(s))
      BY SubscribersFinite DEF RegistryOK
    <3>3. CASE s \in targets
      <4>1. Subscribers(s)' = Subscribers(s) \ {c} /\ c \in Subscribers(s)
        BY <1>4, <3>3 DEF Subscribers
      <4>2. Cardinality(Subscribers(s)') = n - 1 /\ n # 0
        BY <3>2, <4>1, FS_RemoveElement, FS_EmptySet
      <4> HIDE DEF n
      <4> QED BY <1>0, <1>1, <2>2, <3>1, <3>2, <3>3, <4>2
    <3>4. CASE s \notin targets
      <4>1. Subscribers(s)' = Subscribers(s)
        BY <1>4, <3>4 DEF Subscribers
      <4> HIDE DEF n
      <4>2. sessions'[s].refCount = n + repeated[s]
        BY <1>0, <1>1, <3>1, <3>2, <3>4
      <4> QED BY <2>2, <4>1, <4>2 DEF n
    <3> QED BY <3>3, <3>4
  <2> QED BY <2>1, <2>2
<1>7. BootHistoryOpen'
  BY <1>1 DEF RegistryOK, BootHistoryOpen, Unsubscribe
<1>8. subscriptions' \in [Clients -> SUBSET Symbols]
  BY <1>3 DEF RegistryOK
<1> QED BY <1>1, <1>2, <1>5, <1>6, <1>7, <1>8 DEF RegistryOK, Unsubscribe

LEMMA SessionsStep ==
  ASSUME IInv, [Next]_vars
  PROVE  IInv'
<1>0. ConnectionsOK /\ RegistryOK
  BY InvIsBoth
<1> SUFFICES ConnectionsOK' /\ RegistryOK'
  BY DEF IInv, TypeOK, GoneIsGone, IdleSessionsAreOnTheClock, Clocked, Active,
         ConnectionsOK, RegistryOK
<1>1. ASSUME NEW c \in Clients, Connect(c) \/ Vanish(c) \/ Pong(c)
      PROVE  ConnectionsOK' /\ RegistryOK'
  <2>1. ConnectionsOK'
    BY <1>0, <1>1 DEF ConnectionsOK, Connect, Vanish, Pong
  <2>2. UNCHANGED <<subscriptions, registry, historyOpen, repeated, closing>>
    BY <1>1 DEF Connect, Vanish, Pong
  <2> QED BY <1>0, <2>1, <2>2, UntouchedRegistry
<1>2. ASSUME NEW c \in Clients, SocketClose(c) \/ SocketError(c)
      PROVE  ConnectionsOK' /\ RegistryOK'
  <2>1. ConnectionsOK'
    BY <1>0, <1>2 DEF ConnectionsOK, SocketClose, SocketError
  <2>2. ReleaseClients({c}) /\ UNCHANGED <<built, disposing, historyOpen, repeated, closing>>
    BY <1>2 DEF SocketClose, SocketError
  <2> QED BY <1>0, <2>1, <2>2, ReleaseClientsKeepsRegistry
<1>3. CASE Heartbeat
  <2> DEFINE open == {c \in Clients : phase[c] = "open"}
             reaped == {c \in open : Silent(c)}
  <2>1. ConnectionsOK'
    BY <1>0, <1>3 DEF ConnectionsOK, Heartbeat
  <2>2. ReleaseClients(reaped) /\ UNCHANGED <<built, disposing, historyOpen, repeated, closing>>
    BY <1>3 DEF Heartbeat
  <2>3. reaped \in SUBSET Clients
    OBVIOUS
  <2> HIDE DEF reaped
  <2> QED BY <1>0, <2>1, <2>2, <2>3, ReleaseClientsKeepsRegistry
<1>4. ASSUME NEW c \in Clients, NEW s \in Symbols, SubscribeActive(c, s) \/ SubscribeNew(c, s)
      PROVE  ConnectionsOK' /\ RegistryOK'
  <2>1. ConnectionsOK'
    BY <1>0, <1>4 DEF ConnectionsOK, connection, SubscribeActive, SubscribeNew
  <2> QED BY <1>0, <1>4, <2>1, SubscribeKeepsRegistry
<1>5. ASSUME NEW c \in Clients, NEW targets \in SUBSET subscriptions[c], Unsubscribe(c, targets)
      PROVE  ConnectionsOK' /\ RegistryOK'
  <2>1. ConnectionsOK'
    BY <1>0, <1>5 DEF ConnectionsOK, connection, Unsubscribe
  <2> QED BY <1>0, <1>5, <2>1, UnsubscribeKeepsRegistry
<1>6. ASSUME NEW s \in Symbols, EvictTimerFires(s)
      PROVE  ConnectionsOK' /\ RegistryOK'
  <2>1. ConnectionsOK'
    BY <1>0, <1>6 DEF ConnectionsOK, connection, EvictTimerFires
  <2>2. s \in Active /\ sessions[s].refCount = 0
    BY <1>0, <1>6 DEF RegistryOK, Clocked, NoSession, EvictTimerFires, Active
  <2>3. closing = "serving" => Subscribers(s) = {}
    <3>1. Subscribers(s) # {} => Cardinality(Subscribers(s)) > 0
      BY SubscribersFinite, FS_EmptySet
    <3>2. closing = "serving" => 0 = Cardinality(Subscribers(s)) + repeated[s]
      BY <1>0, <2>2 DEF RegistryOK, Backed
    <3>3. repeated[s] \in Nat
      BY <1>0, <2>2 DEF RegistryOK, Active
    <3> QED BY <3>1, <3>2, <3>3, SubscribersFinite
  <2>4. Disposed({s}) /\ UNCHANGED <<subscriptions, built, historyOpen, closing>>
    BY <1>6 DEF EvictTimerFires
  <2> QED BY <1>0, <2>1, <2>2, <2>3, <2>4, DisposeKeepsRegistry
<1>7. ASSUME NEW g \in disposing, ShutdownCompletes(g)
      PROVE  ConnectionsOK' /\ RegistryOK'
  <2>1. ConnectionsOK'
    BY <1>0, <1>7 DEF ConnectionsOK, connection, ShutdownCompletes
  <2>2. /\ UNCHANGED <<subscriptions, sessions, built, repeated, closing>>
        /\ disposing' = disposing \ {g}
        /\ historyOpen' = [historyOpen EXCEPT ![g[1]] = FALSE]
    BY <1>7 DEF ShutdownCompletes
  <2>3. BootHistoryOpen'
    BY <1>0, <1>7, <2>2 DEF RegistryOK, BootHistoryOpen
  <2>4. Backed' /\ Active' = Active
    BY <1>0, <2>2 DEF RegistryOK, Backed, Active, Subscribers
  <2> QED BY <1>0, <2>1, <2>2, <2>3, <2>4 DEF RegistryOK
<1>8. CASE Close
  <2>1. ConnectionsOK'
    BY <1>0, <1>8 DEF ConnectionsOK, connection, Close
  <2>2. /\ Disposed(Active) /\ closing' # "serving"
        /\ UNCHANGED <<subscriptions, built, historyOpen>>
    BY <1>8 DEF Close
  <2> QED BY <1>0, <2>1, <2>2, DisposeKeepsRegistry
<1>9. CASE DrainCompletes
  <2>1. ConnectionsOK'
    BY <1>0, <1>9 DEF ConnectionsOK, DrainCompletes
  <2>2. UNCHANGED <<subscriptions, registry, historyOpen, repeated>> /\ closing' # "serving"
    BY <1>9 DEF DrainCompletes
  <2> QED BY <1>0, <2>1, <2>2, UntouchedRegistry
<1>10. CASE UNCHANGED vars
  <2>1. ConnectionsOK'
    BY <1>0, <1>10 DEF ConnectionsOK, vars, connection
  <2>2. UNCHANGED <<subscriptions, registry, historyOpen, repeated, closing>>
    BY <1>10 DEF vars
  <2> QED BY <1>0, <2>1, <2>2, UntouchedRegistry
<1> QED
  BY <1>1, <1>2, <1>3, <1>4, <1>5, <1>6, <1>7, <1>8, <1>9, <1>10 DEF Next

THEOREM SessionsInvariant == Spec => []IInv
<1>1. Init => IInv
  BY SessionsInit
<1>2. IInv /\ [Next]_vars => IInv'
  BY SessionsStep
<1> QED BY <1>1, <1>2, PTL DEF Spec

(* The manager never holds more sessions, nor a client more subscriptions, *)
(* than their limits (TypeOK), on any sequence of subscribes, unsubscribes *)
(* and evictions.                                                          *)
THEOREM SessionLimitsHold == Spec => []TypeOK
<1>1. IInv => TypeOK
  BY DEF IInv
<1> QED BY <1>1, SessionsInvariant, PTL

(* No market is evicted, or about to be, under a subscriber: acquire(),    *)
(* release(), the heartbeat, socket closes and evictions, in any order,    *)
(* leave every subscription a reference of its own, and no others but what *)
(* repeated subscribes took.                                               *)
THEOREM SessionsOutliveSubscriptions == Spec => []SubscribersKeepTheirSession
<1>1. IInv => SubscribersKeepTheirSession
  <2> SUFFICES ASSUME IInv, closing = "serving", NEW s \in Symbols, Subscribers(s) # {}
      PROVE  /\ s \in Active /\ ~sessions[s].evictTimer
             /\ sessions[s].gateway = 1 => historyOpen[s]
    BY DEF SubscribersKeepTheirSession, IInv, Backed
  <2>1. s \in Active /\ sessions[s].refCount = Cardinality(Subscribers(s)) + repeated[s]
        /\ repeated[s] \in Nat
    BY DEF IInv, Backed, TypeOK
  <2>2. Cardinality(Subscribers(s)) # 0 /\ Cardinality(Subscribers(s)) \in Nat
    BY SubscribersFinite, FS_EmptySet
  <2>3. sessions[s].refCount # 0
    BY <2>1, <2>2
  <2> QED BY <2>1, <2>3 DEF IInv, IdleSessionsAreOnTheClock, BootHistoryOpen
<1> QED BY <1>1, SessionsInvariant, PTL

(* release() arms the timer of every session it leaves unreferenced, and   *)
(* acquire() disarms it: no other step changes a timer, so a market nobody *)
(* uses is always on its way out.                                          *)
THEOREM UnreferencedSessionsAreTimed == Spec => []IdleSessionsAreOnTheClock
<1>1. IInv => IdleSessionsAreOnTheClock
  BY DEF IInv
<1> QED BY <1>1, SessionsInvariant, PTL

-----------------------------------------------------------------------------
(* The inductive invariant of the delivery.                                *)

(* Each gap, and each hole the client has passed or is about to receive,   *)
(* was paid for by a fault; holes are only ever at the head.               *)
HolesAhead == IF down # <<>> /\ Head(down).kind = "hole" THEN 1 ELSE 0
LossesCounted ==
  /\ \A i \in 2 .. Len(down) : down[i].kind # "hole"
  /\ gaps + HolesAhead + (IF client.missing THEN 1 ELSE 0) <= faults

(* Without a socket nothing is in flight, and what the page shows is stale *)
(* or recorded.                                                            *)
Offline ==
  /\ client.socket # "open" =>
       ~conn.open /\ down = <<>> /\ up = <<>> /\ (view.replay \/ view.stale)
  /\ ~conn.open => conn.subs = {}
  /\ view.replay => client.socket = "none" /\ ~client.running

(* Once the messages q are handled, no subscription to x is left.          *)
Leaves(q, subs, x) ==
  /\ x \in subs => \E i \in 1 .. Len(q) : q[i].kind = "unsubscribe" /\ q[i].symbol = x
  /\ \A i \in 1 .. Len(q) : q[i].kind = "subscribe" /\ q[i].symbol = x =>
       \E j \in i .. Len(q) : q[j].kind = "unsubscribe" /\ q[j].symbol = x

(* They leave every symbol but the selected one; the latest subscription,  *)
(* number n, is to the selected one, and only snapshots are asked for      *)
(* after it.                                                               *)
Asked(q, subs, sel, n) ==
  /\ \A x \in Instruments \ {sel} : Leaves(q, subs, x)
  /\ \A i \in 1 .. Len(q) : q[i].ask <= n
  /\ \A i \in 1 .. Len(q) : q[i].ask = n =>
       /\ q[i].symbol = sel
       /\ \A j \in i + 1 .. Len(q) : q[j].kind = "request_snapshot"

(* An envelope that tells of a market for the first time, and what it      *)
(* tells; after a reset or a loss the next one may tell something else.    *)
Fresh(e) == e.kind \in Kinds \ {"control"} /\ ~e.again
Tells(e) == [session |-> e.image.session, valid |-> e.valid]
Breaks(e) == e.kind \in {"market_reset", "hole"}
Unbroken(q, k, l) == \A j \in k + 1 .. l : ~Breaks(q[j])

(* The answer to subscription n has been received (done) or is among the   *)
(* envelopes q; for After, before the k-th of them.                        *)
Heard(q, done, n) == done \/ \E j \in 1 .. Len(q) : q[j].ask = n
After(q, done, n, k) == done \/ \E j \in 1 .. Len(q) : j < k /\ q[j].ask = n

(* What follows the k-th envelope tells t until a reset or a loss, and so  *)
(* does the market's own state m at the end of it while the client is      *)
(* subscribed (on).                                                        *)
Leads(q, done, n, k, on, m, t) ==
  /\ \A l \in k + 1 .. Len(q) :
       After(q, done, n, l) /\ Fresh(q[l]) /\ Unbroken(q, k, l) => Tells(q[l]) = t
  /\ on /\ Unbroken(q, k, Len(q)) => m = t

(* What an answer is followed by: a snapshot, or that there is no book.    *)
StateOf(e) == Fresh(e) /\ (e.kind = "snapshot" \/ (e.kind = "status" /\ ~e.valid))

(* Behind the answer, every envelope is of the selected market and leads   *)
(* to the next; the answer itself is followed by the market's state.       *)
Stream(q, done, n, sel, on, m) ==
  \A k \in 1 .. Len(q) :
     /\ q[k].ask <= n
     /\ After(q, done, n, k) /\ Fresh(q[k]) =>
          q[k].image.symbol = sel /\ Leads(q, done, n, k, on, m, Tells(q[k]))
     /\ q[k].ask = n => k < Len(q) /\ StateOf(q[k + 1])

Done == answer # "asked"
Here == market[client.selection]
On == client.selection \in conn.subs

(* The messages in flight undo every subscription but the latest; once the *)
(* server has answered that one, it has no other.                          *)
Conversation ==
  /\ Asked(up, conn.subs, client.selection, client.ask)
  /\ Heard(down, Done, client.ask) =>
       /\ conn.subs \subseteq {client.selection}
       /\ \A i \in 1 .. Len(up) : up[i].kind = "request_snapshot"

InOrder == Stream(down, Done, client.ask, client.selection, On, Here)

(* The session and validity that an envelope tells of a market. *)
States == [session : 1 .. MaxMarketSessions, valid : BOOLEAN]

(* What is in flight tells t, up to the next reset or loss. *)
Ahead(t) == Leads(down, TRUE, client.ask, 0, On, Here, t)

(* A status would be believed: Proven(). *)
Proved == ~client.awaiting \/ client.snapshotReceived

(* While a status would be believed, the page already shows the image it   *)
(* proves, or is stale if it proves there is no book.  Otherwise a loss    *)
(* has been passed, nothing would be believed, or the state that follows   *)
(* the answer is about to be received.                                     *)
Follows ==
  client.socket = "open" /\ answer # "asked" =>
   /\ client.positioned
   /\ \/ client.missing
      \/ ~Proved
      \/ \E m \in States :
           /\ Ahead(m)
           /\ IF m.valid THEN view.newest = [symbol |-> client.selection, session |-> m.session]
                         ELSE answer = "settled" => view.stale
      \/ /\ answer = "answered"
         /\ IF down = <<>> THEN ~conn.open
            ELSE Head(down).kind = "hole" \/ StateOf(Head(down))

(* While the page is not stale, what it shows is what the last status      *)
(* proved, and nothing in flight says otherwise unless a gap will be seen. *)
Current ==
  client.socket = "open" /\ answer = "settled" /\ ~view.stale /\ view.status.session # 0 =>
    /\ view.newest = [symbol |-> client.selection, session |-> view.status.session]
    /\ client.missing \/ Ahead([session |-> view.status.session, valid |-> TRUE])

DeliveryInv ==
  DeliveryTypeOK /\ LossesCounted /\ Offline /\ Conversation /\ InOrder /\ Follows /\ Current

-----------------------------------------------------------------------------
(* What is in flight, as it grows and is received. *)

LEMMA EnvelopeShape ==
  ASSUME NEW e \in Envelopes
  PROVE  /\ e.kind \in Kinds \cup {"hole"} /\ e.ask \in Nat /\ e.again \in BOOLEAN
         /\ e.ask # 0 => e.kind = "control"
         /\ e.again => e.kind = "snapshot"
         /\ e.kind = "hole" => e = Hole
         /\ Fresh(e) => e \in MarketEnvelope
<1>1. CASE e \in MarketEnvelope
  BY <1>1 DEF MarketEnvelope, Kinds, Fresh
<1>2. CASE e \in ControlEnvelope
  BY <1>2 DEF ControlEnvelope, Kinds, Fresh
<1>3. CASE e = Hole
  <2>1. e.kind = "hole" /\ e.ask = 0 /\ e.again = FALSE
    BY <1>3 DEF Hole, Control
  <2>2. ~Fresh(e) /\ e.kind # "snapshot" /\ e.kind # "control"
    BY <2>1 DEF Fresh, Kinds
  <2>3. e.ask \in Nat
    BY <2>1
  <2> QED BY <1>3, <2>1, <2>2, <2>3, Zenon
<1> QED BY <1>1, <1>2, <1>3 DEF Envelopes

LEMMA AfterGrows ==
  ASSUME NEW q \in Seq(Envelopes), NEW e \in Envelopes, NEW done \in BOOLEAN, NEW n \in Nat \ {0}
  PROVE  /\ \A k \in 1 .. Len(q) : After(Append(q, e), done, n, k) <=> After(q, done, n, k)
         /\ After(Append(q, e), done, n, Len(q) + 1) <=> Heard(q, done, n)
         /\ Heard(Append(q, e), done, n) <=> Heard(q, done, n) \/ e.ask = n
BY DEF After, Heard

LEMMA UnbrokenGrows ==
  ASSUME NEW q \in Seq(Envelopes), NEW e \in Envelopes, NEW k \in 0 .. Len(q)
  PROVE  /\ \A l \in 0 .. Len(q) : Unbroken(Append(q, e), k, l) <=> Unbroken(q, k, l)
         /\ Unbroken(Append(q, e), k, Len(q) + 1) <=> Unbroken(q, k, Len(q)) /\ ~Breaks(e)
BY DEF Unbroken

(* What led somewhere still does when one more envelope is sent. *)
LEMMA LeadsGrows ==
  ASSUME NEW q \in Seq(Envelopes), NEW e \in Envelopes, NEW done \in BOOLEAN, NEW n \in Nat \ {0},
         NEW k \in 0 .. Len(q), NEW on, NEW on2, NEW m, NEW m2, NEW t,
         Leads(q, done, n, k, on, m, t),
         \/ Breaks(e)
         \/ /\ m2 = m /\ (on2 => on)
            /\ Heard(q, done, n) /\ Fresh(e) => on /\ Tells(e) = m
  PROVE  Leads(Append(q, e), done, n, k, on2, m2, t)
<1> DEFINE q2 == Append(q, e)
<1>1. q2 \in Seq(Envelopes) /\ Len(q2) = Len(q) + 1 /\ Len(q) \in Nat
      /\ q2[Len(q) + 1] = e /\ \A l \in 1 .. Len(q) : q2[l] = q[l]
  OBVIOUS
<1>2. ASSUME NEW l \in k + 1 .. Len(q2), After(q2, done, n, l), Fresh(q2[l]), Unbroken(q2, k, l)
      PROVE  Tells(q2[l]) = t
  <2>1. CASE l <= Len(q)
    <3>1. l \in 1 .. Len(q) /\ l \in k + 1 .. Len(q) /\ l \in 0 .. Len(q)
      BY <1>1, <2>1
    <3>2. After(q, done, n, l) /\ Unbroken(q, k, l)
      BY <1>2, <3>1, AfterGrows, UnbrokenGrows
    <3> QED BY <1>1, <1>2, <3>1, <3>2 DEF Leads
  <2>2. CASE l = Len(q) + 1
    <3>1. Heard(q, done, n) /\ Unbroken(q, k, Len(q)) /\ ~Breaks(e)
      BY <1>2, <2>2, AfterGrows, UnbrokenGrows
    <3>2. Fresh(e)
      BY <1>1, <1>2, <2>2
    <3>3. on /\ Tells(e) = m
      BY <3>1, <3>2
    <3> QED BY <1>1, <2>2, <3>1, <3>3 DEF Leads
  <2> QED BY <1>1, <2>1, <2>2
<1>3. ASSUME on2, Unbroken(q2, k, Len(q2)) PROVE m2 = t
  <2>1. Unbroken(q, k, Len(q)) /\ ~Breaks(e)
    BY <1>1, <1>3, UnbrokenGrows
  <2> QED BY <1>3, <2>1 DEF Leads
<1> HIDE DEF q2
<1>4. Leads(q2, done, n, k, on2, m2, t)
  BY <1>2, <1>3 DEF Leads
<1> QED BY <1>4 DEF q2

LEMMA StreamGrows ==
  ASSUME NEW q \in Seq(Envelopes), NEW e \in Envelopes, NEW done \in BOOLEAN, NEW n \in Nat \ {0},
         NEW on, NEW on2, NEW m, NEW m2, NEW sel,
         Stream(q, done, n, sel, on, m), e.ask = 0,
         Heard(q, done, n) /\ Fresh(e) => e.image.symbol = sel /\ (on2 => Tells(e) = m2),
         \/ Breaks(e)
         \/ /\ m2 = m /\ (on2 => on)
            /\ Heard(q, done, n) /\ Fresh(e) => on /\ Tells(e) = m
  PROVE  Stream(Append(q, e), done, n, sel, on2, m2)
<1> DEFINE q2 == Append(q, e)
<1>1. q2 \in Seq(Envelopes) /\ Len(q2) = Len(q) + 1 /\ Len(q) \in Nat
      /\ q2[Len(q) + 1] = e /\ \A l \in 1 .. Len(q) : q2[l] = q[l]
  OBVIOUS
<1>2. SUFFICES ASSUME NEW k \in 1 .. Len(q2)
               PROVE  /\ q2[k].ask <= n
                      /\ After(q2, done, n, k) /\ Fresh(q2[k]) =>
                           /\ q2[k].image.symbol = sel
                           /\ Leads(q2, done, n, k, on2, m2, Tells(q2[k]))
                      /\ q2[k].ask = n => k < Len(q2) /\ StateOf(q2[k + 1])
  <2> HIDE DEF q2
  <2> QED BY DEF Stream, q2
<1>3. CASE k <= Len(q)
  <2>1. k \in 1 .. Len(q) /\ k \in 0 .. Len(q) /\ q2[k] = q[k]
    BY <1>1, <1>3
  <2>2. q[k].ask <= n /\ (q[k].ask = n => k < Len(q) /\ StateOf(q[k + 1]))
    BY <2>1 DEF Stream
  <2>3. k < Len(q) => k + 1 \in 1 .. Len(q)
    BY <2>1
  <2>4. ASSUME After(q2, done, n, k), Fresh(q2[k])
        PROVE  q2[k].image.symbol = sel /\ Leads(q2, done, n, k, on2, m2, Tells(q2[k]))
    <3>1. After(q, done, n, k) /\ Fresh(q[k])
      BY <2>1, <2>4, AfterGrows
    <3>2. q[k].image.symbol = sel /\ Leads(q, done, n, k, on, m, Tells(q[k]))
      BY <2>1, <3>1 DEF Stream
    <3>3. Leads(q2, done, n, k, on2, m2, Tells(q[k]))
      <4> HIDE DEF q2
      <4> QED BY <2>1, <3>2, LeadsGrows DEF q2
    <3> QED BY <2>1, <3>2, <3>3
  <2> HIDE DEF q2
  <2> QED BY <1>1, <2>1, <2>2, <2>3, <2>4
<1>4. CASE k = Len(q) + 1
  <2>1. q2[k] = e /\ Len(q2) = k /\ 0 # n /\ 0 <= n
    BY <1>1, <1>4
  <2>2. ASSUME After(q2, done, n, k), Fresh(q2[k])
        PROVE  q2[k].image.symbol = sel /\ Leads(q2, done, n, k, on2, m2, Tells(q2[k]))
    <3>1. Heard(q, done, n)
      BY <1>4, <2>2, AfterGrows
    <3>2. e.image.symbol = sel /\ (on2 => Tells(e) = m2)
      BY <2>1, <2>2, <3>1
    <3>3. k + 1 .. Len(q2) = {}
      BY <1>1, <1>4
    <3> HIDE DEF q2
    <3> QED BY <2>1, <3>2, <3>3 DEF Leads
  <2> HIDE DEF q2
  <2> QED BY <2>1, <2>2
<1> HIDE DEF q2
<1> QED BY <1>1, <1>3, <1>4

(* Before the answer there is nothing to be said of the envelopes. *)
LEMMA UnheardStream ==
  ASSUME NEW q \in Seq(Envelopes), NEW n \in Nat \ {0}, NEW on, NEW m, NEW sel,
         \A k \in 1 .. Len(q) : q[k].ask < n
  PROVE  Stream(q, FALSE, n, sel, on, m) /\ ~Heard(q, FALSE, n)
<1>1. \A k \in 1 .. Len(q) : q[k].ask \in Nat
  BY EnvelopeShape
<1>2. \A k \in 1 .. Len(q) : q[k].ask # n /\ q[k].ask <= n
  BY <1>1
<1> QED BY <1>2 DEF Stream, Heard, After

(* An answer is followed by the state of the market it is about. *)
LEMMA StreamStarts ==
  ASSUME NEW q \in Seq(Envelopes), NEW c \in ControlEnvelope, NEW e \in Envelopes,
         NEW n \in Nat \ {0}, NEW on, NEW m, NEW sel,
         \A k \in 1 .. Len(q) : q[k].ask < n,
         c.ask = n, StateOf(e), e.image.symbol = sel, on => Tells(e) = m
  PROVE  Stream(Append(Append(q, c), e), FALSE, n, sel, on, m)
<1> DEFINE q2 == Append(Append(q, c), e)
<1>1. c \in Envelopes /\ ~Fresh(c)
  BY DEF Envelopes, ControlEnvelope, Fresh
<1>2. q2 \in Seq(Envelopes) /\ Len(q2) = Len(q) + 2 /\ Len(q) \in Nat
      /\ q2[Len(q) + 2] = e /\ q2[Len(q) + 1] = c /\ \A l \in 1 .. Len(q) : q2[l] = q[l]
  BY <1>1
<1>3. Fresh(e) /\ e.ask = 0 /\ 0 # n /\ 0 <= n /\ n <= n
  BY EnvelopeShape DEF StateOf, Fresh
<1>4. SUFFICES ASSUME NEW k \in 1 .. Len(q2)
               PROVE  /\ q2[k].ask <= n
                      /\ After(q2, FALSE, n, k) /\ Fresh(q2[k]) =>
                           /\ q2[k].image.symbol = sel
                           /\ Leads(q2, FALSE, n, k, on, m, Tells(q2[k]))
                      /\ q2[k].ask = n => k < Len(q2) /\ StateOf(q2[k + 1])
  <2> HIDE DEF q2
  <2> QED BY DEF Stream, q2
<1> HIDE DEF q2
<1>5. CASE k <= Len(q)
  <2>1. \A j \in 1 .. Len(q2) : j < k => q2[j].ask # n
    <3>1. \A j \in 1 .. Len(q) : q[j].ask \in Nat /\ q[j].ask < n
      BY EnvelopeShape
    <3> QED BY <1>2, <1>5, <3>1
  <2>2. q2[k].ask < n /\ q2[k].ask \in Nat
    BY <1>2, <1>5, EnvelopeShape
  <2>3. ~After(q2, FALSE, n, k)
    BY <2>1 DEF After
  <2>4. q2[k].ask <= n /\ q2[k].ask # n
    BY <2>2
  <2> QED BY <2>3, <2>4
<1>6. CASE k = Len(q) + 1
  <2>1. q2[k] = c /\ k < Len(q2) /\ q2[k + 1] = e
    BY <1>2, <1>6
  <2> QED BY <1>1, <1>3, <2>1
<1>7. CASE k = Len(q) + 2
  <2>1. q2[k] = e /\ k = Len(q2) /\ k + 1 .. Len(q2) = {}
    BY <1>2, <1>7
  <2>2. Leads(q2, FALSE, n, k, on, m, Tells(e))
    BY <2>1 DEF Leads
  <2> QED BY <1>3, <2>1, <2>2
<1>8. k <= Len(q) \/ k = Len(q) + 1 \/ k = Len(q) + 2
  BY <1>2
<1> QED BY <1>5, <1>6, <1>7, <1>8

LEMMA TailShape ==
  ASSUME NEW q \in Seq(Envelopes), q # <<>>
  PROVE  /\ Tail(q) \in Seq(Envelopes) /\ Len(q) \in Nat \ {0} /\ Len(Tail(q)) = Len(q) - 1
         /\ \A k \in 1 .. Len(q) - 1 : Tail(q)[k] = q[k + 1]
         /\ Head(q) = q[1] /\ Head(q) \in Envelopes
OBVIOUS

LEMMA LeadsOn ==
  ASSUME NEW q \in Seq(Envelopes), q # <<>>, NEW done \in BOOLEAN, NEW done2 \in BOOLEAN,
         NEW n \in Nat \ {0}, NEW k \in 0 .. Len(q) - 1, NEW on, NEW m, NEW t,
         done2 => done \/ q[1].ask = n
  PROVE  /\ k # 0 /\ After(Tail(q), done2, n, k) => After(q, done, n, k + 1)
         /\ Leads(q, done, n, k + 1, on, m, t) => Leads(Tail(q), done2, n, k, on, m, t)
         /\ Heard(Tail(q), done2, n) => Heard(q, done, n)
<1> DEFINE p == Tail(q)
<1>1. /\ p \in Seq(Envelopes) /\ Len(q) \in Nat \ {0} /\ Len(p) = Len(q) - 1
      /\ \A i \in 1 .. Len(p) : p[i] = q[i + 1] /\ i + 1 \in 1 .. Len(q)
  BY TailShape
<1>2. 1 \in 1 .. Len(q)
  BY <1>1
<1> HIDE DEF p
<1>3. ASSUME NEW l \in 1 .. Len(p), After(p, done2, n, l) PROVE After(q, done, n, l + 1)
  <2>1. CASE done2
    BY <1>1, <1>2, <2>1 DEF After
  <2>2. CASE \E j \in 1 .. Len(p) : j < l /\ p[j].ask = n
    <3>1. PICK j \in 1 .. Len(p) : j < l /\ p[j].ask = n
      BY <2>2
    <3>2. j + 1 \in 1 .. Len(q) /\ j + 1 < l + 1 /\ q[j + 1].ask = n
      BY <1>1, <3>1
    <3> QED BY <3>2 DEF After
  <2> QED BY <1>3, <2>1, <2>2 DEF After
<1>4. ASSUME NEW l \in 0 .. Len(p), Unbroken(p, k, l) PROVE Unbroken(q, k + 1, l + 1)
  <2>1. SUFFICES ASSUME NEW j \in k + 2 .. l + 1 PROVE ~Breaks(q[j])
    BY DEF Unbroken
  <2>2. j - 1 \in k + 1 .. l /\ j - 1 \in 1 .. Len(p) /\ (j - 1) + 1 = j
    BY <1>1
  <2>3. p[j - 1] = q[j]
    BY <1>1, <2>2
  <2> QED BY <1>4, <2>2, <2>3 DEF Unbroken
<1>5. ASSUME Leads(q, done, n, k + 1, on, m, t) PROVE Leads(p, done2, n, k, on, m, t)
  <2>1. ASSUME NEW l \in k + 1 .. Len(p), After(p, done2, n, l), Fresh(p[l]), Unbroken(p, k, l)
        PROVE  Tells(p[l]) = t
    <3>1. l \in 1 .. Len(p) /\ l \in 0 .. Len(p) /\ l + 1 \in (k + 1) + 1 .. Len(q)
      BY <1>1
    <3>2. p[l] = q[l + 1] /\ After(q, done, n, l + 1) /\ Unbroken(q, k + 1, l + 1)
      BY <1>1, <1>3, <1>4, <2>1, <3>1
    <3> QED BY <1>5, <2>1, <3>1, <3>2 DEF Leads
  <2>2. ASSUME on, Unbroken(p, k, Len(p)) PROVE m = t
    <3>1. Len(p) \in 0 .. Len(p) /\ Len(p) + 1 = Len(q)
      BY <1>1
    <3>2. Unbroken(q, k + 1, Len(q))
      BY <1>4, <2>2, <3>1
    <3> QED BY <1>5, <2>2, <3>2 DEF Leads
  <2> QED BY <2>1, <2>2 DEF Leads
<1>6. Heard(p, done2, n) => Heard(q, done, n)
  BY <1>1, <1>2 DEF Heard
<1>7. k # 0 => k \in 1 .. Len(p)
  BY <1>1
<1> QED BY <1>3, <1>5, <1>6, <1>7 DEF p

(* The stream without its head, which may have been the answer. *)
LEMMA StreamOn ==
  ASSUME NEW q \in Seq(Envelopes), q # <<>>, NEW done \in BOOLEAN, NEW done2 \in BOOLEAN,
         NEW n \in Nat \ {0}, NEW on, NEW m, NEW sel, Stream(q, done, n, sel, on, m),
         done2 => done \/ q[1].ask = n
  PROVE  Stream(Tail(q), done2, n, sel, on, m)
<1> DEFINE p == Tail(q)
<1>1. /\ p \in Seq(Envelopes) /\ Len(q) \in Nat \ {0} /\ Len(p) = Len(q) - 1
      /\ \A i \in 1 .. Len(p) : p[i] = q[i + 1] /\ i + 1 \in 1 .. Len(q)
  BY TailShape
<1>2. SUFFICES ASSUME NEW k \in 1 .. Len(p)
               PROVE  /\ p[k].ask <= n
                      /\ After(p, done2, n, k) /\ Fresh(p[k]) =>
                           /\ p[k].image.symbol = sel
                           /\ Leads(p, done2, n, k, on, m, Tells(p[k]))
                      /\ p[k].ask = n => k < Len(p) /\ StateOf(p[k + 1])
  <2> HIDE DEF p
  <2> QED BY DEF Stream, p
<1>3. p[k] = q[k + 1] /\ k + 1 \in 1 .. Len(q) /\ k \in 0 .. Len(q) - 1 /\ k # 0
  BY <1>1
<1>4. /\ After(p, done2, n, k) => After(q, done, n, k + 1)
      /\ Leads(q, done, n, k + 1, on, m, Tells(q[k + 1])) =>
            Leads(p, done2, n, k, on, m, Tells(q[k + 1]))
  BY <1>3, LeadsOn
<1>5. /\ q[k + 1].ask <= n
      /\ After(q, done, n, k + 1) /\ Fresh(q[k + 1]) =>
           q[k + 1].image.symbol = sel /\ Leads(q, done, n, k + 1, on, m, Tells(q[k + 1]))
      /\ q[k + 1].ask = n => k + 1 < Len(q) /\ StateOf(q[k + 2])
  BY <1>3 DEF Stream
<1>6. k + 1 < Len(q) => k < Len(p) /\ k + 1 \in 1 .. Len(p) /\ p[k + 1] = q[k + 2]
  <2> SUFFICES ASSUME k + 1 < Len(q)
               PROVE  k < Len(p) /\ k + 1 \in 1 .. Len(p) /\ p[k + 1] = q[k + 2]
    OBVIOUS
  <2>1. k < Len(p) /\ k + 1 \in 1 .. Len(p) /\ (k + 1) + 1 = k + 2
    BY <1>1
  <2> QED BY <1>1, <2>1
<1> HIDE DEF p
<1> QED BY <1>3, <1>4, <1>5, <1>6

(* What led up to the head leads on behind it, unless the head ends it. *)
LEMMA LeadsPastHead ==
  ASSUME NEW q \in Seq(Envelopes), q # <<>>, NEW n \in Nat \ {0}, NEW on, NEW m, NEW t,
         Leads(q, TRUE, n, 0, on, m, t), ~Breaks(Head(q))
  PROVE  /\ Leads(Tail(q), TRUE, n, 0, on, m, t)
         /\ Fresh(Head(q)) => Tells(Head(q)) = t
<1>1. Len(q) \in Nat \ {0} /\ 1 \in 1 .. Len(q) /\ Head(q) = q[1] /\ 0 \in 0 .. Len(q) - 1
  BY TailShape
<1>2. Unbroken(q, 0, 1) /\ \A l \in 1 .. Len(q) : Unbroken(q, 1, l) => Unbroken(q, 0, l)
  BY <1>1 DEF Unbroken
<1>3. Leads(q, TRUE, n, 1, on, m, t)
  BY <1>1, <1>2 DEF Leads, After
<1>4. Leads(Tail(q), TRUE, n, 0, on, m, t)
  <2>1. 0 + 1 = 1
    OBVIOUS
  <2> QED BY <1>1, <1>3, <2>1, LeadsOn
<1> QED BY <1>1, <1>2, <1>4 DEF Leads, After

-----------------------------------------------------------------------------
(* What the server tells of a market. *)

(* An envelope of the market s in state m. *)
Said(kind, s, m) ==
  [kind |-> kind, image |-> [symbol |-> s, session |-> m.session], valid |-> m.valid,
   ask |-> 0, again |-> FALSE]

LEMMA EnvelopeSays ==
  ASSUME NEW kind, NEW s
  PROVE  /\ Envelope(kind, s) = Said(kind, s, market[s])
         /\ Envelope(kind, s)' = Said(kind, s, market'[s])
BY DEF Envelope, ImageOf, Said

LEMMA SaidShape ==
  ASSUME NEW kind \in Kinds \ {"control"}, NEW s \in Instruments, NEW m \in MarketType,
         kind \in {"snapshot", "depth_frame"} => m.valid
  PROVE  /\ Said(kind, s, m) \in MarketEnvelope /\ Tells(Said(kind, s, m)) = m
         /\ Said(kind, s, m).image.symbol = s /\ Said(kind, s, m).kind = kind
         /\ Said(kind, s, m).ask = 0 /\ ~Said(kind, s, m).again /\ Fresh(Said(kind, s, m))
         /\ Said(kind, s, m).valid = m.valid
BY DEF Said, MarketEnvelope, MarketType, Tells, Image, Fresh, Kinds

(* No hole. *)
Whole == MarketEnvelope \cup ControlEnvelope

(* q is what is in flight after some envelopes of the market s, of which m
   is the latest state. *)
Grown(s, q, on, m) ==
  /\ q \in Seq(Envelopes) /\ Len(down) <= Len(q)
  /\ \A i \in 1 .. Len(down) : q[i] = down[i]
  /\ \A i \in Len(down) + 1 .. Len(q) : q[i] \in Whole /\ q[i].ask = 0
  /\ s = client.selection => Stream(q, Done, client.ask, s, on, m)
  /\ s = client.selection /\ Done =>
       \A t \in States : Ahead(t) => Leads(q, TRUE, client.ask, 0, on, m, t)

LEMMA GrownShape ==
  ASSUME DeliveryTypeOK, NEW s, NEW q, NEW on, NEW m, Grown(s, q, on, m)
  PROVE  /\ down \in Seq(Envelopes) /\ q \in Seq(Envelopes) /\ Len(down) <= Len(q)
         /\ \A i \in 1 .. Len(down) : q[i] = down[i]
         /\ \A i \in Len(down) + 1 .. Len(q) : q[i].ask = 0 /\ q[i].kind # "hole"
<1>1. \A e \in Whole : e.kind # "hole"
  BY DEF Whole, MarketEnvelope, ControlEnvelope, Kinds
<1> QED BY <1>1 DEF Grown, DeliveryTypeOK

(* One more envelope of the market, of what it has become. *)
LEMMA GrownBy ==
  ASSUME DeliveryTypeOK, NEW s, NEW q, NEW on, NEW m, NEW m2, Grown(s, q, on, m),
         NEW e \in Whole, e.ask = 0,
         Fresh(e) => e.image.symbol = s /\ Tells(e) = m2,
         Breaks(e) \/ (m2 = m /\ (Fresh(e) => on))
  PROVE  Grown(s, Append(q, e), on, m2)
<1>1. q \in Seq(Envelopes) /\ e \in Envelopes
  BY DEF Whole, Envelopes, Grown
<1>2. client.ask \in Nat \ {0} /\ Done \in BOOLEAN
  BY DEF DeliveryTypeOK, ClientType, Done
<1>3. /\ Append(q, e) \in Seq(Envelopes) /\ Len(down) <= Len(Append(q, e))
      /\ \A i \in 1 .. Len(down) : Append(q, e)[i] = down[i]
      /\ \A i \in Len(down) + 1 .. Len(Append(q, e)) :
           Append(q, e)[i] \in Whole /\ Append(q, e)[i].ask = 0
  <2>1. /\ Append(q, e) \in Seq(Envelopes) /\ Len(Append(q, e)) = Len(q) + 1
        /\ \A i \in 1 .. Len(q) : Append(q, e)[i] = q[i]
        /\ Append(q, e)[Len(q) + 1] = e /\ Len(q) \in Nat /\ Len(down) \in Nat
    BY <1>1 DEF DeliveryTypeOK
  <2>2. ASSUME NEW i \in Len(down) + 1 .. Len(q) + 1
        PROVE  Append(q, e)[i] \in Whole /\ Append(q, e)[i].ask = 0
    <3>1. CASE i <= Len(q)
      BY <2>1, <3>1 DEF Grown
    <3>2. CASE i = Len(q) + 1
      BY <2>1, <3>2
    <3> QED BY <2>1, <3>1, <3>2
  <2>3. Len(down) <= Len(q) /\ \A i \in 1 .. Len(down) : q[i] = down[i]
    BY DEF Grown
  <2>4. \A i \in 1 .. Len(down) : i \in 1 .. Len(q)
    BY <2>1, <2>3
  <2> QED BY <2>1, <2>2, <2>3, <2>4
<1>4. ASSUME s = client.selection PROVE Stream(Append(q, e), Done, client.ask, s, on, m2)
  <2>1. Stream(q, Done, client.ask, s, on, m)
    BY <1>4 DEF Grown
  <2> QED BY <1>1, <1>2, <2>1, StreamGrows
<1>5. ASSUME s = client.selection, Done, NEW t \in States, Ahead(t)
      PROVE  Leads(Append(q, e), TRUE, client.ask, 0, on, m2, t)
  <2>1. Leads(q, TRUE, client.ask, 0, on, m, t)
    BY <1>5 DEF Grown
  <2>2. Stream(q, Done, client.ask, s, on, m) => Heard(q, TRUE, client.ask)
    BY DEF Heard
  <2>3. 0 \in 0 .. Len(q)
    BY <1>1
  <2> QED BY <1>1, <1>2, <2>1, <2>3, LeadsGrows
<1> QED BY <1>3, <1>4, <1>5 DEF Grown

LEMMA GrownStops ==
  ASSUME NEW s, NEW q, NEW on, NEW on2, NEW m, NEW m2, Grown(s, q, on, m), on2 => on /\ m2 = m
  PROVE  Grown(s, q, on2, m2)
BY DEF Grown, Stream, Leads

ChannelType == [open : BOOLEAN, queue : Seq(Envelopes)]

(* Nothing, a closed connection, a frame withheld, or one more envelope. *)
LEMMA OfferCases ==
  ASSUME NEW c \in ChannelType, NEW e \in Envelopes
  PROVE  /\ Offer(c, e) \in ChannelType
         /\ \/ ~c.open /\ Offer(c, e) = c
            \/ ~Offer(c, e).open /\ Offer(c, e).queue = c.queue
            \/ c.open /\ e.kind = "depth_frame" /\ Offer(c, e) = c
            \/ c.open /\ Offer(c, e).open /\ Offer(c, e).queue = Append(c.queue, e)
<1>1. c.open \in BOOLEAN /\ c.queue \in Seq(Envelopes)
  BY DEF ChannelType
<1>2. /\ [c EXCEPT !.open = FALSE] \in ChannelType
      /\ [c EXCEPT !.open = FALSE].open = FALSE /\ [c EXCEPT !.open = FALSE].queue = c.queue
  BY DEF ChannelType
<1>3. [c EXCEPT !.queue = Append(@, e)] = [open |-> c.open, queue |-> Append(c.queue, e)]
  BY DEF ChannelType
<1>4. Append(c.queue, e) \in Seq(Envelopes)
  BY <1>1
<1>5. \/ ~c.open /\ Offer(c, e) = c
      \/ c.open /\ Offer(c, e) = [c EXCEPT !.open = FALSE]
      \/ c.open /\ e.kind = "depth_frame" /\ Offer(c, e) = c
      \/ c.open /\ Offer(c, e) = [open |-> c.open, queue |-> Append(c.queue, e)]
  BY <1>3 DEF Offer
<1>6. Offer(c, e) \in ChannelType
  <2>1. /\ [open |-> c.open, queue |-> Append(c.queue, e)] \in ChannelType
    BY <1>1, <1>4 DEF ChannelType
  <2> QED BY <1>2, <1>5, <2>1
<1>7. CASE ~c.open
  BY <1>5, <1>6, <1>7
<1>8. CASE c.open /\ Offer(c, e) = [c EXCEPT !.open = FALSE]
  BY <1>2, <1>6, <1>8
<1>9. CASE c.open /\ Offer(c, e) = [open |-> c.open, queue |-> Append(c.queue, e)]
  <2>1. Offer(c, e).open = c.open /\ Offer(c, e).queue = Append(c.queue, e)
    BY <1>9
  <2> QED BY <1>6, <1>9, <2>1
<1> QED BY <1>5, <1>6, <1>7, <1>8, <1>9

(* Envelopes of the market s were offered to its subscriber. *)
Fed(s, c, m) == c \in ChannelType /\ Grown(s, c.queue, c.open, m)

LEMMA OfferFeeds ==
  ASSUME DeliveryTypeOK, NEW s \in Instruments, NEW c, NEW m, NEW m2 \in MarketType, Fed(s, c, m),
         NEW kind \in Kinds \ {"control"}, kind \in {"snapshot", "depth_frame"} => m2.valid,
         kind = "market_reset" \/ m2 = m
  PROVE  Fed(s, Offer(c, Said(kind, s, m2)), m2)
<1> DEFINE e == Said(kind, s, m2)
           d == Offer(c, e)
<1>1. /\ e \in Whole /\ e \in Envelopes /\ Tells(e) = m2 /\ e.image.symbol = s /\ e.kind = kind
      /\ e.ask = 0
  BY SaidShape DEF Whole, Envelopes
<1> HIDE DEF e, d
<1> SUFFICES Fed(s, d, m2)
  BY DEF d, e
<1>2. c \in ChannelType /\ c.open \in BOOLEAN /\ Grown(s, c.queue, c.open, m)
  BY DEF Fed, ChannelType
<1>3. /\ d \in ChannelType
      /\ \/ ~c.open /\ d = c
         \/ ~d.open /\ d.queue = c.queue
         \/ c.open /\ e.kind = "depth_frame" /\ d = c
         \/ c.open /\ d.open /\ d.queue = Append(c.queue, e)
  BY <1>1, <1>2, OfferCases DEF d
<1>4. CASE ~c.open /\ d = c
  <2>1. c.open = FALSE
    BY <1>2, <1>4
  <2>2. Grown(s, d.queue, d.open, m2)
    BY <1>2, <1>4, <2>1, GrownStops
  <2> QED BY <1>3, <2>2 DEF Fed
<1>5. CASE ~d.open /\ d.queue = c.queue
  <2>1. d.open = FALSE
    BY <1>3, <1>5 DEF ChannelType
  <2>2. Grown(s, d.queue, d.open, m2)
    BY <1>2, <1>5, <2>1, GrownStops
  <2> QED BY <1>3, <2>2 DEF Fed
<1>6. CASE c.open /\ e.kind = "depth_frame" /\ d = c
  <2>1. m2 = m
    BY <1>1, <1>6
  <2> QED BY <1>2, <1>3, <1>6, <2>1 DEF Fed
<1>7. CASE c.open /\ d.open /\ d.queue = Append(c.queue, e)
  <2>1. d.open = c.open
    BY <1>2, <1>3, <1>7 DEF ChannelType
  <2>2. Breaks(e) \/ m2 = m
    BY <1>1 DEF Breaks
  <2>3. Grown(s, d.queue, d.open, m2)
    BY <1>1, <1>2, <1>7, <2>1, <2>2, GrownBy
  <2> QED BY <1>3, <2>3 DEF Fed
<1> QED BY <1>3, <1>4, <1>5, <1>6, <1>7

(* Nothing sent to a client that is not subscribed. *)
LEMMA NothingGrown ==
  ASSUME DeliveryInv, NEW s
  PROVE  Grown(s, down, s \in conn.subs, market[s])
<1>1. down \in Seq(Envelopes) /\ Len(down) \in Nat /\ Len(down) <= Len(down)
      /\ Len(down) + 1 .. Len(down) = {}
  BY DEF DeliveryInv, DeliveryTypeOK
<1>2. s = client.selection => On = (s \in conn.subs) /\ Here = market[s]
  BY DEF On, Here
<1>3. s = client.selection => Stream(down, Done, client.ask, s, s \in conn.subs, market[s])
  BY <1>2 DEF DeliveryInv, InOrder
<1>4. s = client.selection =>
        \A t \in States :
          Ahead(t) => Leads(down, TRUE, client.ask, 0, s \in conn.subs, market[s], t)
  BY <1>2 DEF Ahead
<1> QED BY <1>1, <1>3, <1>4 DEF Grown

LEMMA ChannelFed ==
  ASSUME DeliveryInv, NEW s \in conn.subs
  PROVE  Fed(s, Channel, market[s])
<1>1. conn.open = TRUE /\ (s \in conn.subs) = TRUE /\ down \in Seq(Envelopes)
  BY DEF DeliveryInv, DeliveryTypeOK, Offline
<1>2. Channel = [open |-> TRUE, queue |-> down]
  BY <1>1 DEF Channel
<1>3. Grown(s, down, TRUE, market[s])
  BY <1>1, NothingGrown
<1> QED BY <1>1, <1>2, <1>3 DEF Fed, ChannelType

(* A message is taken from the head of what the client sent. *)
LEMMA TailAsked ==
  ASSUME NEW q \in Seq(MessageType), q # <<>>, NEW subs, NEW subs2, NEW sel, NEW n,
         Asked(q, subs, sel, n),
         \A x \in subs2 \ {sel} :
           /\ x \in subs \/ (Head(q).kind = "subscribe" /\ Head(q).symbol = x)
           /\ ~(Head(q).kind = "unsubscribe" /\ Head(q).symbol = x)
  PROVE  /\ Tail(q) \in Seq(MessageType) /\ Asked(Tail(q), subs2, sel, n)
         /\ (\A i \in 1 .. Len(q) : q[i].kind = "request_snapshot") =>
              \A i \in 1 .. Len(Tail(q)) : Tail(q)[i].kind = "request_snapshot"
<1> DEFINE p == Tail(q)
<1>1. /\ p \in Seq(MessageType) /\ Len(p) = Len(q) - 1 /\ Len(q) \in Nat \ {0}
      /\ \A i \in 1 .. Len(p) : p[i] = q[i + 1] /\ i + 1 \in 1 .. Len(q)
      /\ Head(q) = q[1] /\ 1 \in 1 .. Len(q) /\ Head(q) \in MessageType
  OBVIOUS
<1>2. \A i \in 2 .. Len(q) : i - 1 \in 1 .. Len(p) /\ p[i - 1] = q[i] /\ i \in 1 .. Len(q)
  <2>1. \A i \in 2 .. Len(q) : i - 1 \in 1 .. Len(p) /\ (i - 1) + 1 = i
    BY <1>1
  <2> QED BY <1>1, <2>1
<1> HIDE DEF p
<1>3. ASSUME NEW x \in Instruments \ {sel} PROVE Leaves(p, subs2, x)
  <2>1. Leaves(q, subs, x)
    BY <1>3 DEF Asked
  <2>2. ASSUME x \in subs2
        PROVE  \E i \in 1 .. Len(p) : p[i].kind = "unsubscribe" /\ p[i].symbol = x
    <3>1. ~(q[1].kind = "unsubscribe" /\ q[1].symbol = x)
      BY <1>1, <1>3, <2>2
    <3>2. PICK j \in 1 .. Len(q) : q[j].kind = "unsubscribe" /\ q[j].symbol = x
      <4>1. CASE x \in subs
        BY <2>1, <4>1 DEF Leaves
      <4>2. CASE q[1].kind = "subscribe" /\ q[1].symbol = x
        BY <1>1, <2>1, <4>2 DEF Leaves
      <4> QED BY <1>1, <1>3, <2>2, <4>1, <4>2
    <3>3. j \in 2 .. Len(q)
      BY <1>1, <3>1, <3>2
    <3> QED BY <1>2, <3>2, <3>3
  <2>3. ASSUME NEW i \in 1 .. Len(p), p[i].kind = "subscribe", p[i].symbol = x
        PROVE  \E j \in i .. Len(p) : p[j].kind = "unsubscribe" /\ p[j].symbol = x
    <3>1. i + 1 \in 1 .. Len(q) /\ q[i + 1] = p[i]
      BY <1>1
    <3>2. PICK j \in i + 1 .. Len(q) : q[j].kind = "unsubscribe" /\ q[j].symbol = x
      BY <2>1, <2>3, <3>1 DEF Leaves
    <3>3. j \in 2 .. Len(q) /\ j - 1 \in i .. Len(p)
      BY <1>1, <3>1
    <3> QED BY <1>2, <3>2, <3>3
  <2> QED BY <2>2, <2>3 DEF Leaves
<1>4. \A i \in 1 .. Len(p) : p[i].ask <= n
  BY <1>1 DEF Asked
<1>5. ASSUME NEW i \in 1 .. Len(p), p[i].ask = n
      PROVE  p[i].symbol = sel /\ \A j \in i + 1 .. Len(p) : p[j].kind = "request_snapshot"
  <2>1. i + 1 \in 1 .. Len(q) /\ q[i + 1] = p[i]
    BY <1>1
  <2>2. q[i + 1].symbol = sel /\ \A j \in (i + 1) + 1 .. Len(q) : q[j].kind = "request_snapshot"
    BY <1>5, <2>1 DEF Asked
  <2>3. ASSUME NEW j \in i + 1 .. Len(p) PROVE p[j].kind = "request_snapshot"
    <3>1. j \in 1 .. Len(p) /\ j + 1 \in (i + 1) + 1 .. Len(q)
      BY <1>1
    <3> QED BY <1>1, <2>2, <3>1
  <2> QED BY <2>1, <2>2, <2>3
<1>6. Asked(p, subs2, sel, n)
  BY <1>3, <1>4, <1>5 DEF Asked
<1>7. (\A i \in 1 .. Len(q) : q[i].kind = "request_snapshot") =>
        \A i \in 1 .. Len(p) : p[i].kind = "request_snapshot"
  BY <1>1
<1> QED BY <1>1, <1>6, <1>7 DEF p

(* The server takes a snapshot request from the head. *)
Answered == up # <<>> /\ Head(up).kind = "request_snapshot" /\ up' = Tail(up)

(* The server sends what a market has become, and the client does nothing. *)
LEMMA GrownKeeps ==
  ASSUME DeliveryInv, NEW s \in Instruments,
         market' \in [Instruments -> MarketType],
         \A x \in Instruments \ {s} : market'[x] = market[x],
         conn' \in [open : BOOLEAN, subs : SUBSET Instruments],
         conn'.subs \subseteq conn.subs, conn'.open => conn.open, ~conn'.open => conn'.subs = {},
         Grown(s, down', s \in conn'.subs, market'[s]),
         s = client.selection \/ s \in conn.subs \/ (down' = down /\ conn' = conn),
         down' = down \/ conn.open \/ down # <<>>,
         up' = up \/ Answered,
         UNCHANGED <<client, view, fetching, answer, gaps, switches>>,
         faults' \in 0 .. MaxFaults, faults <= faults'
  PROVE  DeliveryInv'
<1> DEFINE n == client.ask
           sel == client.selection
<1>1. /\ DeliveryTypeOK /\ client \in ClientType /\ n \in Nat \ {0} /\ sel \in Instruments
      /\ Done \in BOOLEAN /\ Done' = Done /\ client' = client
  BY DEF DeliveryInv, DeliveryTypeOK, ClientType, Done
<1>0. /\ up' \in Seq(MessageType) /\ Asked(up', conn'.subs, sel, n)
      /\ (\A i \in 1 .. Len(up) : up[i].kind = "request_snapshot") =>
           \A i \in 1 .. Len(up') : up'[i].kind = "request_snapshot"
      /\ (up = <<>> => up' = <<>>)
  <2>1. up \in Seq(MessageType) /\ Asked(up, conn.subs, sel, n)
    BY DEF DeliveryInv, DeliveryTypeOK, Conversation
  <2>2. CASE up' = up
    BY <2>1, <2>2 DEF Asked, Leaves
  <2>3. CASE Answered
    <3> HIDE DEF sel, n
    <3>1. \A x \in conn'.subs \ {sel} :
            /\ x \in conn.subs \/ (Head(up).kind = "subscribe" /\ Head(up).symbol = x)
            /\ ~(Head(up).kind = "unsubscribe" /\ Head(up).symbol = x)
      BY <2>3 DEF Answered
    <3>2. /\ Tail(up) \in Seq(MessageType) /\ Asked(Tail(up), conn'.subs, sel, n)
          /\ (\A i \in 1 .. Len(up) : up[i].kind = "request_snapshot") =>
               \A i \in 1 .. Len(Tail(up)) : Tail(up)[i].kind = "request_snapshot"
      BY <2>1, <2>3, <3>1, TailAsked DEF Answered
    <3> QED BY <2>3, <3>2 DEF Answered
  <2> QED BY <2>2, <2>3
<1>2. DeliveryTypeOK'
  BY <1>0, <1>1 DEF DeliveryTypeOK, Grown
<1>3. /\ down \in Seq(Envelopes) /\ down' \in Seq(Envelopes) /\ Len(down) <= Len(down')
      /\ \A i \in 1 .. Len(down) : down'[i] = down[i]
      /\ \A i \in Len(down) + 1 .. Len(down') : down'[i].ask = 0 /\ down'[i].kind # "hole"
      /\ Len(down) \in Nat /\ Len(down') \in Nat
  BY <1>1, GrownShape
<1>4. \A i \in 1 .. Len(down') : i \in 1 .. Len(down) \/ i \in Len(down) + 1 .. Len(down')
  BY <1>3
<1>5. LossesCounted'
  <2>1. \A i \in 2 .. Len(down) : i \in 1 .. Len(down) /\ down[i].kind # "hole"
    BY DEF DeliveryInv, LossesCounted
  <2>2. ASSUME NEW i \in 2 .. Len(down') PROVE down'[i].kind # "hole"
    <3>1. i \in 1 .. Len(down') /\ (i \in 1 .. Len(down) => i \in 2 .. Len(down))
      BY <1>3
    <3> QED BY <1>3, <1>4, <2>1, <3>1
  <2>3. down # <<>> => down' # <<>> /\ Head(down') = Head(down)
    <3> SUFFICES ASSUME down # <<>> PROVE down' # <<>> /\ Head(down') = Head(down)
      OBVIOUS
    <3>1. 1 \in 1 .. Len(down) /\ 1 \in 1 .. Len(down')
      BY <1>3
    <3> QED BY <1>3, <3>1
  <2>4. down = <<>> /\ down' # <<>> => Head(down').kind # "hole"
    <3> SUFFICES ASSUME down = <<>>, down' # <<>> PROVE Head(down').kind # "hole"
      OBVIOUS
    <3>1. 1 \in Len(down) + 1 .. Len(down') /\ Head(down') = down'[1]
      BY <1>3
    <3> QED BY <1>3, <3>1
  <2>5. HolesAhead' <= HolesAhead /\ HolesAhead \in {0, 1} /\ HolesAhead' \in {0, 1}
    BY <2>3, <2>4 DEF HolesAhead
  <2>6. gaps + HolesAhead + (IF client.missing THEN 1 ELSE 0) <= faults
        /\ gaps \in Nat /\ faults \in Nat /\ faults' \in Nat
    BY DEF DeliveryInv, LossesCounted, DeliveryTypeOK
  <2>7. gaps' + HolesAhead' + (IF client'.missing THEN 1 ELSE 0) <= faults'
    <3> DEFINE b == IF client.missing THEN 1 ELSE 0
    <3>1. b \in Nat /\ gaps + HolesAhead + b <= faults
      BY <2>6
    <3>2. gaps' = gaps /\ (IF client'.missing THEN 1 ELSE 0) = b
      BY <1>1
    <3> HIDE DEF b
    <3>3. \A g, h, i, x, f, k \in Nat :
            g + h + x <= f /\ i <= h /\ f <= k => g + i + x <= k
      OBVIOUS
    <3>4. HolesAhead \in Nat /\ HolesAhead' \in Nat
      BY <2>5
    <3>5. gaps + HolesAhead' + b <= faults'
      BY <2>5, <2>6, <3>1, <3>3, <3>4
    <3> QED BY <3>2, <3>5
  <2> QED BY <2>2, <2>7 DEF LossesCounted
<1>6. Offline'
  BY <1>0 DEF DeliveryInv, Offline
<1>7. Heard(down', Done, n) => Heard(down, Done, n)
  <2>1. \A j \in 1 .. Len(down') : down'[j].ask = n => j \in 1 .. Len(down) /\ down[j].ask = n
    BY <1>1, <1>3, <1>4
  <2> QED BY <2>1 DEF Heard
<1>8. Heard(down, Done, n) =>
        conn.subs \subseteq {sel} /\ \A i \in 1 .. Len(up) : up[i].kind = "request_snapshot"
  BY DEF DeliveryInv, Conversation
<1>9. Conversation'
  <2>1. Heard(down', Done', n) =>
          conn'.subs \subseteq {sel} /\ \A i \in 1 .. Len(up') : up'[i].kind = "request_snapshot"
    BY <1>0, <1>1, <1>7, <1>8
  <2> QED BY <1>0, <1>1, <2>1 DEF Conversation
<1>10. s # sel /\ Heard(down, Done, n) => down' = down /\ conn' = conn /\ Here' = Here
  BY <1>1, <1>8 DEF Here
<1>11. s = sel => On' = (s \in conn'.subs) /\ Here' = market'[s]
  BY <1>1 DEF On, Here
<1>12. InOrder'
  <2>1. Stream(down, Done, n, sel, On, Here)
    BY DEF DeliveryInv, InOrder
  <2>2. CASE s = sel
    BY <1>1, <1>11, <2>2 DEF Grown, InOrder
  <2>3. CASE s # sel /\ Heard(down, Done, n)
    BY <1>1, <1>10, <2>1, <2>3 DEF InOrder, On
  <2>4. CASE ~Heard(down, Done, n)
    <3>1. \A k \in 1 .. Len(down) : down[k].ask <= n /\ down[k].ask # n /\ down[k].ask \in Nat
      BY <1>3, <2>1, <2>4, EnvelopeShape DEF Stream, Heard
    <3>2. \A k \in 1 .. Len(down') : down'[k].ask < n
      BY <1>1, <1>3, <1>4, <3>1
    <3>3. Done = FALSE
      BY <1>1, <2>4 DEF Heard
    <3> QED BY <1>1, <1>3, <3>2, <3>3, UnheardStream DEF InOrder
  <2> QED BY <2>2, <2>3, <2>4
<1>13. ASSUME Done, NEW m \in States, Ahead(m) PROVE Ahead(m)'
  <2>1. CASE s = sel
    BY <1>1, <1>11, <1>13, <2>1 DEF Grown, Ahead
  <2>2. CASE s # sel
    <3>1. Heard(down, Done, n)
      BY <1>13 DEF Heard
    <3> QED BY <1>1, <1>10, <1>13, <2>2, <3>1 DEF Ahead, On
  <2> QED BY <2>1, <2>2
<1>14. Follows'
  <2> SUFFICES ASSUME client.socket = "open", answer # "asked"
               PROVE  Follows'
    BY DEF Follows
  <2>1. Done /\ client.positioned
    BY DEF Done, DeliveryInv, Follows
  <2>2. CASE client.missing \/ ~Proved
    BY <1>1, <2>1, <2>2 DEF Follows, Proved
  <2>3. CASE \E m \in States :
               /\ Ahead(m)
               /\ IF m.valid THEN view.newest = [symbol |-> sel, session |-> m.session]
                             ELSE answer = "settled" => view.stale
    <3>1. \E m \in States :
            /\ Ahead(m)'
            /\ IF m.valid THEN view'.newest = [symbol |-> sel, session |-> m.session]
                          ELSE answer' = "settled" => view'.stale
      BY <1>13, <2>1, <2>3
    <3> QED BY <1>1, <2>1, <3>1 DEF Follows
  <2>4. CASE /\ answer = "answered"
             /\ IF down = <<>> THEN ~conn.open
                ELSE Head(down).kind = "hole" \/ StateOf(Head(down))
    <3>1. CASE down = <<>>
      BY <1>1, <2>1, <2>4, <3>1 DEF Follows
    <3>2. CASE down # <<>>
      <4>1. 1 \in 1 .. Len(down) /\ down' # <<>> /\ Head(down') = Head(down)
        BY <1>3, <3>2
      <4> QED BY <1>1, <2>1, <2>4, <3>2, <4>1 DEF Follows
    <3> QED BY <3>1, <3>2
  <2> QED BY <2>2, <2>3, <2>4 DEF DeliveryInv, Follows
<1>15. Current'
  <2> SUFFICES ASSUME client.socket = "open", answer = "settled", ~view.stale,
                      view.status.session # 0
               PROVE  Current'
    BY DEF Current
  <2>1. [session |-> view.status.session, valid |-> TRUE] \in States /\ Done
    BY DEF Done, States, DeliveryInv, DeliveryTypeOK, ViewType
  <2>2. PICK m \in States : m = [session |-> view.status.session, valid |-> TRUE]
    BY <2>1
  <2>3. /\ view.newest = [symbol |-> sel, session |-> view.status.session]
        /\ client.missing \/ Ahead(m)
    BY <2>2 DEF DeliveryInv, Current
  <2>4. client.missing \/ Ahead(m)'
    BY <1>13, <2>1, <2>3
  <2> QED BY <1>1, <2>2, <2>3, <2>4 DEF Current
<1> QED BY <1>2, <1>5, <1>6, <1>9, <1>12, <1>14, <1>15 DEF DeliveryInv

LEMMA BroadcastKeeps ==
  ASSUME DeliveryInv, NEW s \in Instruments, NEW c,
         market' \in [Instruments -> MarketType],
         \A x \in Instruments \ {s} : market'[x] = market[x],
         s \in conn.subs => Fed(s, c, market'[s]),
         Broadcast(s, c),
         UNCHANGED <<up, client, view, fetching, answer, gaps, bounds>>
  PROVE  DeliveryInv'
<1>1. conn \in [open : BOOLEAN, subs : SUBSET Instruments] /\ (~conn.open => conn.subs = {})
  BY DEF DeliveryInv, DeliveryTypeOK, Offline
<1>2. faults' = faults /\ faults \in 0 .. MaxFaults /\ faults <= faults'
      /\ UNCHANGED <<up, client, view, fetching, answer, gaps, switches>>
  BY DEF bounds, DeliveryInv, DeliveryTypeOK
<1>3. CASE s \in conn.subs
  <2>1. c.open \in BOOLEAN /\ Grown(s, c.queue, c.open, market'[s]) /\ conn.open
    BY <1>1, <1>3 DEF Fed, ChannelType
  <2>2. conn' = [conn EXCEPT !.open = c.open, !.subs = IF c.open THEN @ ELSE {}]
        /\ down' = c.queue
    BY <1>3 DEF Broadcast
  <2>3. /\ conn' \in [open : BOOLEAN, subs : SUBSET Instruments] /\ conn'.subs \subseteq conn.subs
        /\ (~conn'.open => conn'.subs = {}) /\ (s \in conn'.subs => c.open)
    <3>1. CASE c.open = TRUE
      <4>1. conn'.subs = conn.subs /\ conn'.open = TRUE
            /\ conn' \in [open : BOOLEAN, subs : SUBSET Instruments]
        BY <1>1, <2>2, <3>1
      <4> QED BY <3>1, <4>1
    <3>2. CASE c.open = FALSE
      <4>1. conn'.subs = {} /\ conn'.open = FALSE
            /\ conn' \in [open : BOOLEAN, subs : SUBSET Instruments]
        BY <1>1, <2>2, <3>2
      <4> QED BY <4>1
    <3> QED BY <2>1, <3>1, <3>2
  <2>4. Grown(s, down', s \in conn'.subs, market'[s])
    BY <2>1, <2>2, <2>3, GrownStops
  <2> QED BY <1>2, <1>3, <2>1, <2>3, <2>4, GrownKeeps
<1>4. CASE s \notin conn.subs
  <2>1. conn' = conn /\ down' = down /\ ~(s \in conn'.subs)
    BY <1>4 DEF Broadcast
  <2>2. Grown(s, down, s \in conn.subs, market[s])
    BY NothingGrown
  <2>3. Grown(s, down', s \in conn'.subs, market'[s])
    BY <2>1, <2>2, GrownStops
  <2> QED BY <1>1, <1>2, <2>1, <2>3, GrownKeeps
<1> QED BY <1>3, <1>4

LEMMA FreezeKeeps ==
  ASSUME DeliveryInv, NEW s \in Instruments, Freeze(s) PROVE DeliveryInv'
<1> DEFINE m == market'[s]
           c == Offer(Offer(Channel, Envelope("market_reset", s)'), Envelope("status", s)')
<1>1. market' \in [Instruments -> MarketType] /\ \A x \in Instruments \ {s} : market'[x] = market[x]
  BY DEF Freeze, DeliveryInv, DeliveryTypeOK, MarketType
<1>2. m \in MarketType /\ DeliveryTypeOK
  BY <1>1 DEF DeliveryInv
<1>3. s \in conn.subs => Fed(s, c, m)
  <2> SUFFICES ASSUME s \in conn.subs PROVE Fed(s, c, m)
    OBVIOUS
  <2> HIDE DEF m
  <2>1. Fed(s, Offer(Channel, Said("market_reset", s, m)), m)
    BY <1>2, ChannelFed, OfferFeeds DEF Kinds
  <2>2. Fed(s, Offer(Offer(Channel, Said("market_reset", s, m)), Said("status", s, m)), m)
    BY <1>2, <2>1, OfferFeeds DEF Kinds
  <2> QED BY <2>2, EnvelopeSays DEF m
<1>4. Broadcast(s, c) /\ UNCHANGED <<up, client, view, fetching, answer, gaps, bounds>>
  BY DEF Freeze
<1> HIDE DEF c
<1> QED BY <1>1, <1>3, <1>4, BroadcastKeeps

LEMMA CommitKeeps ==
  ASSUME DeliveryInv, NEW s \in Instruments, Commit(s) PROVE DeliveryInv'
<1> DEFINE m == market'[s]
           c == Offer(Offer(Offer(Channel, Envelope("market_reset", s)'), Envelope("snapshot", s)'),
                      Envelope("status", s)')
<1>1. market' \in [Instruments -> MarketType] /\ \A x \in Instruments \ {s} : market'[x] = market[x]
  <2>1. market \in [Instruments -> MarketType] /\ market[s] \in MarketType /\ ~market[s].valid
        /\ market' = [market EXCEPT ![s] = [session |-> market[s].session + 1, valid |-> TRUE]]
    BY DEF Commit, DeliveryInv, DeliveryTypeOK
  <2>2. [session |-> market[s].session + 1, valid |-> TRUE] \in MarketType
    BY <2>1, DeliveryAssumption DEF MarketType
  <2> QED BY <2>1, <2>2
<1>2. m \in MarketType /\ m.valid /\ DeliveryTypeOK
  BY <1>1 DEF DeliveryInv, Commit, DeliveryTypeOK
<1>3. s \in conn.subs => Fed(s, c, m)
  <2> SUFFICES ASSUME s \in conn.subs PROVE Fed(s, c, m)
    OBVIOUS
  <2> HIDE DEF m
  <2>1. Fed(s, Offer(Channel, Said("market_reset", s, m)), m)
    BY <1>2, ChannelFed, OfferFeeds DEF Kinds
  <2>2. Fed(s, Offer(Offer(Channel, Said("market_reset", s, m)), Said("snapshot", s, m)), m)
    BY <1>2, <2>1, OfferFeeds DEF Kinds
  <2>3. Fed(s, Offer(Offer(Offer(Channel, Said("market_reset", s, m)), Said("snapshot", s, m)),
                     Said("status", s, m)), m)
    BY <1>2, <2>2, OfferFeeds DEF Kinds
  <2> QED BY <2>3, EnvelopeSays DEF m
<1>4. Broadcast(s, c) /\ UNCHANGED <<up, client, view, fetching, answer, gaps, bounds>>
  BY DEF Commit
<1> HIDE DEF c
<1> QED BY <1>1, <1>3, <1>4, BroadcastKeeps

LEMMA EmitFrameKeeps ==
  ASSUME DeliveryInv, NEW s \in Instruments, EmitFrame(s) PROVE DeliveryInv'
<1> DEFINE m == market[s]
           c == Offer(Channel, Envelope("depth_frame", s))
<1>1. market' = market /\ market \in [Instruments -> MarketType] /\ m \in MarketType /\ m.valid
      /\ DeliveryTypeOK
  BY DEF EmitFrame, DeliveryInv, DeliveryTypeOK
<1>2. s \in conn.subs => Fed(s, c, m)
  <2> SUFFICES ASSUME s \in conn.subs PROVE Fed(s, c, m)
    OBVIOUS
  <2>1. Fed(s, Offer(Channel, Said("depth_frame", s, m)), m)
    <3> HIDE DEF m
    <3>1. Fed(s, Channel, m)
      BY ChannelFed DEF m
    <3> QED BY <1>1, <3>1, OfferFeeds DEF Kinds
  <2> QED BY <2>1, EnvelopeSays
<1>3. Broadcast(s, c) /\ UNCHANGED <<up, client, view, fetching, answer, gaps, bounds>>
  BY DEF EmitFrame
<1> HIDE DEF c
<1> QED BY <1>1, <1>2, <1>3, BroadcastKeeps

(* An envelope that tells nothing: an answer, or a repetition. *)
LEMMA AppendKeeps ==
  ASSUME DeliveryInv, NEW e \in Whole, e.ask = 0, ~Fresh(e), ~Breaks(e),
         down' = Append(down, e), conn.open \/ down # <<>>,
         faults' \in 0 .. MaxFaults, faults <= faults',
         UNCHANGED <<market, conn, up, client, view, fetching, answer, gaps, switches>>
  PROVE  DeliveryInv'
<1> DEFINE sel == client.selection
<1>1. /\ DeliveryTypeOK /\ sel \in Instruments /\ market \in [Instruments -> MarketType]
      /\ conn \in [open : BOOLEAN, subs : SUBSET Instruments] /\ (~conn.open => conn.subs = {})
  BY DEF DeliveryInv, DeliveryTypeOK, ClientType, Offline
<1> HIDE DEF sel
<1>2. Grown(sel, down', sel \in conn.subs, market[sel])
  BY <1>1, NothingGrown, GrownBy
<1>3. sel = client.selection /\ conn' = conn /\ market' = market
  BY DEF sel
<1> QED BY <1>1, <1>2, <1>3, GrownKeeps

LEMMA SendHeartbeatKeeps ==
  ASSUME DeliveryInv, SendHeartbeat PROVE DeliveryInv'
<1>1. Control(0) \in Whole /\ Control(0).ask = 0 /\ ~Fresh(Control(0)) /\ ~Breaks(Control(0))
  BY DEF Control, Whole, ControlEnvelope, Fresh, Breaks
<1>2. down' = Append(down, Control(0)) /\ conn.open
  BY DEF SendHeartbeat, Reply
<1>3. faults' = faults /\ faults \in 0 .. MaxFaults /\ faults <= faults'
      /\ UNCHANGED <<market, conn, up, client, view, fetching, answer, gaps, switches>>
  BY DEF SendHeartbeat, bounds, DeliveryInv, DeliveryTypeOK
<1> QED BY <1>1, <1>2, <1>3, AppendKeeps

LEMMA RepeatEnvelopeKeeps ==
  ASSUME DeliveryInv, RepeatEnvelope PROVE DeliveryInv'
<1> DEFINE e == [Head(down) EXCEPT !.again = TRUE]
<1>1. down \in Seq(Envelopes) /\ down # <<>> /\ Head(down).kind = "snapshot"
      /\ Head(down) \in Envelopes
  BY DEF RepeatEnvelope, DeliveryInv, DeliveryTypeOK
<1>2. Head(down) \in MarketEnvelope
  BY <1>1 DEF Envelopes, ControlEnvelope, Hole, Control
<1>3. e \in Whole /\ e.ask = 0 /\ ~Fresh(e) /\ ~Breaks(e)
  BY <1>1, <1>2 DEF Whole, MarketEnvelope, Fresh, Breaks
<1>4. down' = Append(down, e) /\ faults' = faults + 1 /\ faults < MaxFaults
      /\ UNCHANGED <<market, conn, up, client, view, fetching, answer, gaps, switches>>
  BY DEF RepeatEnvelope
<1>5. faults' \in 0 .. MaxFaults /\ faults <= faults'
  BY <1>4, DeliveryAssumption DEF DeliveryInv, DeliveryTypeOK
<1> HIDE DEF e
<1> QED BY <1>1, <1>3, <1>4, <1>5, AppendKeeps

-----------------------------------------------------------------------------
(* The client's steps that receive nothing. *)

Request(s) == Message("request_snapshot", s, 0)

(* A snapshot request says nothing of the subscriptions. *)
LEMMA RequestAsksNothing ==
  ASSUME NEW q \in Seq(MessageType), NEW subs, NEW sel \in Instruments, NEW n \in Nat \ {0},
         Asked(q, subs, sel, n)
  PROVE  /\ Append(q, Request(sel)) \in Seq(MessageType)
         /\ Asked(Append(q, Request(sel)), subs, sel, n)
         /\ (\A i \in 1 .. Len(q) : q[i].kind = "request_snapshot") =>
              \A i \in 1 .. Len(Append(q, Request(sel))) :
                Append(q, Request(sel))[i].kind = "request_snapshot"
<1> DEFINE m == Request(sel)
           p == Append(q, m)
<1>1. m \in MessageType /\ m.kind = "request_snapshot" /\ m.ask = 0
  BY DEF Request, Message, MessageType
<1> HIDE DEF m
<1>2. /\ p \in Seq(MessageType) /\ Len(p) = Len(q) + 1 /\ Len(q) \in Nat /\ p[Len(q) + 1] = m
      /\ \A i \in 1 .. Len(q) : p[i] = q[i]
  BY <1>1
<1>3. \A i \in 1 .. Len(p) : i \in 1 .. Len(q) \/ i = Len(q) + 1
  BY <1>2
<1>4. \A i \in 1 .. Len(q) : i \in 1 .. Len(p)
  BY <1>2
<1> HIDE DEF p
<1>5. ASSUME NEW x \in Instruments \ {sel} PROVE Leaves(p, subs, x)
  <2>1. Leaves(q, subs, x)
    BY DEF Asked
  <2>2. x \in subs => \E i \in 1 .. Len(p) : p[i].kind = "unsubscribe" /\ p[i].symbol = x
    BY <1>2, <1>4, <2>1 DEF Leaves
  <2>3. ASSUME NEW i \in 1 .. Len(p), p[i].kind = "subscribe", p[i].symbol = x
        PROVE  \E j \in i .. Len(p) : p[j].kind = "unsubscribe" /\ p[j].symbol = x
    <3>1. i \in 1 .. Len(q) /\ p[i] = q[i]
      BY <1>1, <1>2, <1>3, <2>3
    <3>2. PICK j \in i .. Len(q) : q[j].kind = "unsubscribe" /\ q[j].symbol = x
      BY <2>1, <2>3, <3>1 DEF Leaves
    <3>3. j \in i .. Len(p) /\ p[j] = q[j]
      BY <1>2, <3>1
    <3> QED BY <3>2, <3>3
  <2> QED BY <2>2, <2>3 DEF Leaves
<1>6. \A i \in 1 .. Len(p) : p[i].ask <= n
  BY <1>1, <1>2, <1>3 DEF Asked
<1>7. ASSUME NEW i \in 1 .. Len(p), p[i].ask = n
      PROVE  p[i].symbol = sel /\ \A j \in i + 1 .. Len(p) : p[j].kind = "request_snapshot"
  <2>1. i \in 1 .. Len(q) /\ p[i] = q[i]
    BY <1>1, <1>2, <1>3, <1>7
  <2>2. q[i].symbol = sel /\ \A j \in i + 1 .. Len(q) : q[j].kind = "request_snapshot"
    BY <1>7, <2>1 DEF Asked
  <2>3. ASSUME NEW j \in i + 1 .. Len(p) PROVE p[j].kind = "request_snapshot"
    <3>1. j \in i + 1 .. Len(q) \/ j = Len(q) + 1
      BY <1>2
    <3>2. j \in i + 1 .. Len(q) => p[j] = q[j]
      BY <1>2, <2>1
    <3> QED BY <1>1, <1>2, <2>2, <3>1, <3>2
  <2> QED BY <2>1, <2>2, <2>3
<1>8. (\A i \in 1 .. Len(q) : q[i].kind = "request_snapshot") =>
        \A i \in 1 .. Len(p) : p[i].kind = "request_snapshot"
  BY <1>1, <1>2, <1>3
<1>9. Asked(p, subs, sel, n)
  BY <1>5, <1>6, <1>7 DEF Asked
<1> QED BY <1>2, <1>8, <1>9 DEF p, m

LEMMA ToldShape ==
  ASSUME NEW v \in ViewType, NEW valid \in BOOLEAN, NEW z \in 0 .. MaxMarketSessions
  PROVE  /\ Told(v, valid, z) \in ViewType
         /\ Told(v, valid, z).newest = v.newest /\ Told(v, valid, z).replay = v.replay
         /\ Told(v, valid, z).images = v.images /\ (Told(v, valid, z).stale <=> ~valid)
         /\ Told(v, valid, z).status = [valid |-> valid, session |-> z]
<1> DEFINE st == [valid |-> valid, session |-> z]
           w == [v EXCEPT !.status = st, !.stale = ~valid]
<1>1. st \in [valid : BOOLEAN, session : 0 .. MaxMarketSessions] /\ (~valid) \in BOOLEAN
  OBVIOUS
<1>2. Told(v, valid, z) = w
  BY DEF Told
<1> HIDE DEF st
<1>3. w \in ViewType
  BY <1>1 DEF ViewType
<1>4. w.newest = v.newest /\ w.replay = v.replay /\ w.images = v.images /\ w.status = st
  BY DEF ViewType
<1>5. w.stale <=> ~valid
  BY DEF ViewType
<1> HIDE DEF w
<1> QED BY <1>2, <1>3, <1>4, <1>5 DEF st

LEMMA AnnouncedShape ==
  ASSUME NEW v \in ViewType, NEW valid \in BOOLEAN
  PROVE  /\ Announced(v, valid) \in ViewType
         /\ Announced(v, valid).newest = v.newest /\ Announced(v, valid).replay = v.replay
         /\ Announced(v, valid).images = v.images
         /\ v.replay => Announced(v, valid) = v
         /\ ~v.replay => /\ Announced(v, valid).stale <=> ~valid
                         /\ Announced(v, valid).status = [valid |-> valid, session |-> 0]
<1>1. 0 \in 0 .. MaxMarketSessions
  BY DeliveryAssumption
<1>2. CASE v.replay
  <2>1. Announced(v, valid) = v
    BY <1>2 DEF Announced
  <2> QED BY <1>2, <2>1
<1>3. CASE ~v.replay
  <2>1. Announced(v, valid) = Told(v, valid, 0)
    BY <1>3 DEF Announced
  <2> QED BY <1>1, <1>3, <2>1, ToldShape
<1> QED BY <1>2, <1>3

(* The client sends one, or nothing. *)
Requests == up' = up \/ up' = Append(up, Request(client.selection))

LEMMA RequestsKeep ==
  ASSUME DeliveryInv, Requests, UNCHANGED <<market, conn, down>>,
         client'.selection = client.selection, client'.ask = client.ask, answer' = answer
  PROVE  /\ up' \in Seq(MessageType) /\ Conversation' /\ InOrder'
<1> DEFINE sel == client.selection
           n == client.ask
<1>1. up \in Seq(MessageType) /\ sel \in Instruments /\ n \in Nat \ {0}
  BY DEF DeliveryInv, DeliveryTypeOK, ClientType
<1>2. /\ Asked(up, conn.subs, sel, n)
      /\ Heard(down, Done, n) => /\ conn.subs \subseteq {sel}
                                 /\ \A i \in 1 .. Len(up) : up[i].kind = "request_snapshot"
  BY DEF DeliveryInv, Conversation
<1>3. /\ up' \in Seq(MessageType) /\ Asked(up', conn.subs, sel, n)
      /\ (\A i \in 1 .. Len(up) : up[i].kind = "request_snapshot") =>
           \A i \in 1 .. Len(up') : up'[i].kind = "request_snapshot"
  <2>1. up' = up \/ up' = Append(up, Request(sel))
    BY DEF Requests
  <2> HIDE DEF sel, n
  <2>2. /\ Append(up, Request(sel)) \in Seq(MessageType)
        /\ Asked(Append(up, Request(sel)), conn.subs, sel, n)
        /\ (\A i \in 1 .. Len(up) : up[i].kind = "request_snapshot") =>
             \A i \in 1 .. Len(Append(up, Request(sel))) :
               Append(up, Request(sel))[i].kind = "request_snapshot"
    BY <1>1, <1>2, RequestAsksNothing
  <2>3. CASE up' = up
    BY <1>1, <1>2, <2>3
  <2>4. CASE up' = Append(up, Request(sel))
    BY <2>2, <2>4
  <2> QED BY <2>1, <2>3, <2>4
<1>4. Done' = Done
  BY DEF Done
<1>5. Conversation'
  BY <1>2, <1>3, <1>4 DEF Conversation
<1>6. InOrder'
  BY <1>4 DEF InOrder, On, Here, DeliveryInv
<1> QED BY <1>3, <1>5, <1>6

(* Neither market, connection nor envelopes change, and no more is believed. *)
LEMMA SteadyKeeps ==
  ASSUME DeliveryInv, Requests, UNCHANGED <<market, conn, down, answer, gaps, faults>>,
         client' \in ClientType, view' \in ViewType, fetching' \in BOOLEAN,
         switches' \in 0 .. MaxSwitches,
         client'.selection = client.selection, client'.ask = client.ask,
         client'.missing = client.missing, client'.positioned = client.positioned,
         \/ client'.socket = client.socket
         \/ client.socket = "none" /\ client'.socket = "connecting",
         Proved' => Proved,
         client.socket = "open" => view'.newest = view.newest,
         client.socket # "open" => up' = up,
         view' = view \/ view'.stale,
         view'.replay => /\ view.replay
                         /\ client'.socket = client.socket /\ client'.running = client.running
  PROVE  DeliveryInv'
<1>1. DeliveryTypeOK /\ LossesCounted /\ Offline /\ Follows /\ Current
  BY DEF DeliveryInv
<1>2. up' \in Seq(MessageType) /\ Conversation' /\ InOrder'
  BY RequestsKeep
<1>3. DeliveryTypeOK'
  BY <1>1, <1>2 DEF DeliveryTypeOK
<1>4. LossesCounted'
  BY <1>1 DEF LossesCounted, HolesAhead
<1>5. client'.socket = "open" <=> client.socket = "open"
  OBVIOUS
<1>6. Offline'
  BY <1>1, <1>5 DEF Offline
<1>7. \A m : Ahead(m)' <=> Ahead(m)
  BY DEF Ahead, On, Here
<1>8. Follows'
  <2> SUFFICES ASSUME client.socket = "open", answer # "asked" PROVE Follows'
    BY <1>5 DEF Follows
  <2>1. client.positioned /\ view'.newest = view.newest /\ (view.stale => view'.stale)
    BY <1>1 DEF Follows
  <2>2. CASE client.missing \/ ~Proved
    BY <2>1, <2>2 DEF Follows
  <2>3. CASE \E m \in States :
               /\ Ahead(m)
               /\ IF m.valid
                  THEN view.newest = [symbol |-> client.selection, session |-> m.session]
                  ELSE answer = "settled" => view.stale
    <3>1. \E m \in States :
            /\ Ahead(m)'
            /\ IF m.valid
               THEN view'.newest = [symbol |-> client.selection, session |-> m.session]
               ELSE answer' = "settled" => view'.stale
      BY <1>7, <2>1, <2>3
    <3> QED BY <2>1, <3>1 DEF Follows
  <2>4. CASE /\ answer = "answered"
             /\ IF down = <<>> THEN ~conn.open
                ELSE Head(down).kind = "hole" \/ StateOf(Head(down))
    BY <2>1, <2>4 DEF Follows
  <2> QED BY <1>1, <2>2, <2>3, <2>4 DEF Follows
<1>9. Current'
  <2> SUFFICES ASSUME client.socket = "open", answer = "settled", ~view'.stale,
                      view'.status.session # 0
               PROVE  Current'
    BY <1>5 DEF Current
  <2>1. view' = view
    OBVIOUS
  <2>2. client.missing \/ Ahead([session |-> view.status.session, valid |-> TRUE])'
    BY <1>1, <1>7, <2>1 DEF Current
  <2> QED BY <1>1, <2>1, <2>2 DEF Current
<1> QED BY <1>2, <1>3, <1>4, <1>6, <1>8, <1>9 DEF DeliveryInv

(* The flags of the client and the page, one action at a time. *)
LEMMA FrozenShape ==
  ASSUME NEW c \in ClientType
  PROVE  /\ Frozen(c) \in ClientType
         /\ Frozen(c).awaiting /\ ~Frozen(c).snapshotReceived /\ Frozen(c).stale
         /\ Frozen(c).socket = c.socket /\ Frozen(c).running = c.running
         /\ Frozen(c).selection = c.selection /\ Frozen(c).ask = c.ask
         /\ Frozen(c).positioned = c.positioned /\ Frozen(c).missing = c.missing
BY DEF Frozen, ClientType

LEMMA ClearedShape ==
  ASSUME NEW v \in ViewType
  PROVE  /\ Cleared(v) \in ViewType
         /\ Cleared(v).images = {} /\ Cleared(v).newest = NoImage
         /\ Cleared(v).replay = v.replay /\ Cleared(v).stale = v.stale
         /\ Cleared(v).status = v.status
BY DEF Cleared, ViewType

(* The live page with nothing on it: goLive() and the switch of a symbol. *)
LEMMA LiveShape ==
  ASSUME NEW v \in ViewType
  PROVE  LET w == Announced(Cleared([v EXCEPT !.replay = FALSE]), FALSE)
         IN  w \in ViewType /\ w.images = {} /\ w.stale /\ ~w.replay
<1> DEFINE u == [v EXCEPT !.replay = FALSE]
<1>1. u \in ViewType /\ ~u.replay
  BY DEF ViewType
<1> HIDE DEF u
<1>2. Cleared(u) \in ViewType /\ Cleared(u).images = {} /\ ~Cleared(u).replay
  BY <1>1, ClearedShape
<1>3. /\ Announced(Cleared(u), FALSE) \in ViewType /\ Announced(Cleared(u), FALSE).images = {}
      /\ ~Announced(Cleared(u), FALSE).replay /\ Announced(Cleared(u), FALSE).stale
  <2> DEFINE w == Cleared(u)
  <2>1. w \in ViewType /\ w.images = {} /\ ~w.replay
    BY <1>2
  <2> HIDE DEF w
  <2>2. Announced(w, FALSE) \in ViewType /\ Announced(w, FALSE).images = w.images
        /\ Announced(w, FALSE).replay = w.replay /\ (Announced(w, FALSE).stale <=> ~FALSE)
    BY <2>1, AnnouncedShape
  <2>3. /\ Announced(w, FALSE) \in ViewType /\ Announced(w, FALSE).images = {}
        /\ ~Announced(w, FALSE).replay /\ Announced(w, FALSE).stale
    BY <2>1, <2>2
  <2> QED BY <2>3 DEF w
<1> QED BY <1>3 DEF u

LEMMA Typed ==
  ASSUME DeliveryInv
  PROVE  /\ client \in ClientType /\ view \in ViewType /\ fetching \in BOOLEAN
         /\ switches \in 0 .. MaxSwitches /\ up \in Seq(MessageType)
         /\ (view.replay => client.socket = "none" /\ ~client.running)
         /\ (client.socket # "open" => ~conn.open /\ down = <<>> /\ up = <<>>)
BY DEF DeliveryInv, DeliveryTypeOK, Offline

LEMMA GoStaleKeeps ==
  ASSUME DeliveryInv, GoStale PROVE DeliveryInv'
<1>1. /\ client \in ClientType /\ view \in ViewType /\ client.socket = "open" /\ ~view.replay
      /\ fetching \in BOOLEAN /\ switches \in 0 .. MaxSwitches
  BY Typed DEF GoStale
<1>2. /\ client' \in ClientType /\ client'.socket = client.socket
      /\ client'.running = client.running /\ client'.selection = client.selection
      /\ client'.ask = client.ask /\ client'.missing = client.missing
      /\ client'.positioned = client.positioned /\ (Proved' => Proved)
  BY <1>1 DEF GoStale, ClientType, Proved
<1>3. view' \in ViewType /\ view'.newest = view.newest /\ view'.stale /\ ~view'.replay
  BY <1>1, AnnouncedShape DEF GoStale
<1>4. Requests /\ UNCHANGED <<market, conn, down, up, fetching, switches, answer, gaps, faults>>
  BY DEF GoStale, Requests, bounds
<1> QED BY <1>1, <1>2, <1>3, <1>4, SteadyKeeps

LEMMA CooldownEndsKeeps ==
  ASSUME DeliveryInv, CooldownEnds PROVE DeliveryInv'
<1>1. /\ client \in ClientType /\ view \in ViewType
      /\ fetching \in BOOLEAN /\ switches \in 0 .. MaxSwitches
  BY Typed
<1>2. /\ client' \in ClientType /\ client'.socket = client.socket
      /\ client'.running = client.running /\ client'.selection = client.selection
      /\ client'.ask = client.ask /\ client'.missing = client.missing
      /\ client'.positioned = client.positioned /\ (Proved' => Proved)
  BY <1>1 DEF CooldownEnds, ClientType, Proved
<1>3. /\ Requests
      /\ UNCHANGED <<market, conn, down, up, view, fetching, switches, answer, gaps, faults>>
  BY DEF CooldownEnds, Requests, bounds
<1> QED BY <1>1, <1>2, <1>3, SteadyKeeps

(* An open socket takes the request. *)
LEMMA SentOpen ==
  ASSUME DeliveryInv, client.socket = "open", Send(<<Request(client.selection)>>)
  PROVE  Requests
BY Typed DEF Send, Requests, Request, Message, MessageType, ClientType

LEMMA RequestSnapshotKeeps ==
  ASSUME DeliveryInv, RequestSnapshot PROVE DeliveryInv'
<1>1. /\ client \in ClientType /\ view \in ViewType /\ client.socket = "open"
      /\ fetching \in BOOLEAN /\ switches \in 0 .. MaxSwitches
  BY Typed DEF RequestSnapshot
<1>2. /\ client' \in ClientType /\ client'.socket = client.socket
      /\ client'.running = client.running /\ client'.selection = client.selection
      /\ client'.ask = client.ask /\ client'.missing = client.missing
      /\ client'.positioned = client.positioned /\ ~Proved'
  <2>1. client' = [Frozen(client) EXCEPT !.cooldown = TRUE, !.muted = FALSE]
    BY DEF RequestSnapshot
  <2> QED BY <1>1, <2>1, FrozenShape DEF ClientType, Proved
<1>3. Requests
  BY <1>1, SentOpen DEF RequestSnapshot, Request
<1>4. UNCHANGED <<market, conn, down, view, fetching, answer, gaps, faults>>
  BY DEF RequestSnapshot
<1>5. switches' \in 0 .. MaxSwitches
  BY <1>1, DeliveryAssumption DEF RequestSnapshot, Asks
<1> QED BY <1>1, <1>2, <1>3, <1>4, <1>5, SteadyKeeps

LEMMA SelectReplayKeeps ==
  ASSUME DeliveryInv, SelectReplay PROVE DeliveryInv'
<1>1. client \in ClientType /\ view \in ViewType /\ switches \in 0 .. MaxSwitches
  BY Typed
<1>2. /\ Requests /\ fetching' \in BOOLEAN /\ Proved' = Proved
      /\ UNCHANGED <<market, conn, down, up, client, view, answer, gaps, faults>>
  BY DEF SelectReplay, Requests, Proved
<1>3. switches' \in 0 .. MaxSwitches
  BY <1>1, DeliveryAssumption DEF SelectReplay, Asks
<1> QED BY <1>1, <1>2, <1>3, SteadyKeeps

LEMMA ReconnectKeeps ==
  ASSUME DeliveryInv, Reconnect PROVE DeliveryInv'
<1>1. /\ client \in ClientType /\ view \in ViewType /\ client.socket = "none" /\ ~view.replay
      /\ fetching \in BOOLEAN /\ switches \in 0 .. MaxSwitches
  BY Typed DEF Reconnect
<1>2. /\ client' \in ClientType /\ client'.socket = "connecting"
      /\ client'.selection = client.selection
      /\ client'.ask = client.ask /\ client'.missing = client.missing
      /\ client'.positioned = client.positioned /\ (Proved' => Proved)
  BY <1>1 DEF Reconnect, ClientType, Proved
<1>3. view' \in ViewType /\ view'.stale /\ ~view'.replay
  BY <1>1, AnnouncedShape DEF Reconnect
<1>4. Requests /\ UNCHANGED <<market, conn, down, up, fetching, switches, answer, gaps, faults>>
  BY DEF Reconnect, Requests, bounds
<1> QED BY <1>1, <1>2, <1>3, <1>4, SteadyKeeps

LEMMA GoLiveKeeps ==
  ASSUME DeliveryInv, GoLive PROVE DeliveryInv'
<1>1. /\ client \in ClientType /\ view \in ViewType /\ client.socket = "none"
      /\ fetching \in BOOLEAN /\ switches \in 0 .. MaxSwitches
  BY Typed DEF GoLive
<1>2. /\ client' \in ClientType /\ client'.socket = "connecting"
      /\ client'.selection = client.selection
      /\ client'.ask = client.ask /\ client'.missing = client.missing
      /\ client'.positioned = client.positioned /\ (Proved' => Proved)
  BY <1>1 DEF GoLive, ClientType, Proved
<1>3. view' \in ViewType /\ view'.stale /\ ~view'.replay
  BY <1>1, LiveShape DEF GoLive
<1>4. Requests /\ UNCHANGED <<market, conn, down, up, fetching, switches, answer, gaps, faults>>
  BY DEF GoLive, Requests, bounds
<1> QED BY <1>1, <1>2, <1>3, <1>4, SteadyKeeps

LEMMA EmptyStream ==
  ASSUME NEW done, NEW n, NEW sel, NEW on, NEW m
  PROVE  Stream(<<>>, done, n, sel, on, m) /\ (Heard(<<>>, done, n) => done)
BY DEF Stream, Heard

LEMMA NothingAsked ==
  ASSUME NEW sel, NEW n
  PROVE  Asked(<<>>, {}, sel, n)
BY DEF Asked, Leaves

(* The losses, as numbers. *)
LEMMA LossesTyped ==
  ASSUME DeliveryInv
  PROVE  /\ gaps \in Nat /\ faults \in Nat /\ HolesAhead \in {0, 1}
         /\ gaps + (IF client.missing THEN 1 ELSE 0) + HolesAhead <= faults
         /\ (IF client.missing THEN 1 ELSE 0) \in {0, 1}
BY DEF DeliveryInv, DeliveryTypeOK, LossesCounted, HolesAhead

LEMMA LoseEnvelopeKeeps ==
  ASSUME DeliveryInv, LoseEnvelope PROVE DeliveryInv'
<1> DEFINE n == client.ask
           sel == client.selection
           p == down'
<1>1. /\ DeliveryTypeOK /\ n \in Nat \ {0} /\ sel \in Instruments /\ Done' = Done /\ On' = On
      /\ Here' = Here /\ Proved' = Proved /\ down \in Seq(Envelopes) /\ down # <<>>
      /\ Head(down).kind # "hole" /\ faults' = faults + 1 /\ faults' \in 0 .. MaxFaults
      /\ UNCHANGED <<market, conn, up, client, view, fetching, answer, gaps, switches>>
  BY DeliveryAssumption
     DEF DeliveryInv, DeliveryTypeOK, ClientType, LoseEnvelope, Done, On, Here, Proved
<1>2. /\ p \in Seq(Envelopes) /\ Len(p) = Len(down) /\ Len(down) \in Nat \ {0} /\ p[1] = Hole
      /\ \A i \in 2 .. Len(down) : p[i] = down[i]
      /\ Head(p) = Hole /\ p # <<>> /\ Head(down) = down[1]
  BY <1>1 DEF LoseEnvelope, Envelopes
<1>3. Hole.kind = "hole" /\ Hole.ask = 0 /\ ~Fresh(Hole) /\ Breaks(Hole)
  BY DEF Hole, Control, Fresh, Breaks, Kinds
<1>4. DeliveryTypeOK'
  BY <1>1, <1>2 DEF DeliveryTypeOK
<1>5. LossesCounted'
  <2>1. HolesAhead = 0 /\ HolesAhead' = 1
    BY <1>1, <1>2, <1>3 DEF HolesAhead
  <2>2. \A i \in 2 .. Len(p) : p[i].kind # "hole"
    BY <1>2 DEF DeliveryInv, LossesCounted
  <2>3. gaps + 1 + (IF client.missing THEN 1 ELSE 0) <= faults + 1
    BY <2>1, LossesTyped
  <2>4. gaps' + HolesAhead' + (IF client'.missing THEN 1 ELSE 0) <= faults'
    BY <1>1, <2>1, <2>3
  <2> QED BY <2>2, <2>4 DEF LossesCounted
<1>6. Offline'
  BY <1>1, <1>2 DEF DeliveryInv, Offline
<1> HIDE DEF p
<1>7. \A i \in 1 .. Len(p) : p[i].ask = n => i # 1 /\ i \in 1 .. Len(down) /\ down[i].ask = n
  BY <1>1, <1>2, <1>3
<1>8. Conversation'
  <2>1. Heard(p, Done, n) => Heard(down, Done, n)
    BY <1>7 DEF Heard
  <2> QED BY <1>1, <2>1 DEF DeliveryInv, Conversation, p
<1>9. InOrder'
  <2>1. Stream(down, Done, n, sel, On, Here)
    BY DEF DeliveryInv, InOrder
  <2>2. ASSUME NEW k \in 1 .. Len(p)
        PROVE  /\ p[k].ask <= n
               /\ After(p, Done, n, k) /\ Fresh(p[k]) =>
                    p[k].image.symbol = sel /\ Leads(p, Done, n, k, On, Here, Tells(p[k]))
               /\ p[k].ask = n => k < Len(p) /\ StateOf(p[k + 1])
    <3>1. CASE k = 1
      <4>1. p[k].ask <= n /\ p[k].ask # n /\ ~Fresh(p[k])
        BY <1>1, <1>2, <1>3, <3>1
      <4> QED BY <4>1
    <3>2. CASE k # 1
      <4>1. k \in 2 .. Len(down) /\ k \in 1 .. Len(down) /\ p[k] = down[k]
            /\ (k < Len(down) => k + 1 \in 2 .. Len(down))
        BY <1>2, <3>2
      <4>2. \A i \in 1 .. Len(p) : After(p, Done, n, i) => After(down, Done, n, i)
        BY <1>7 DEF After
      <4>3. \A l \in k + 1 .. Len(p) : Unbroken(p, k, l) => Unbroken(down, k, l)
        BY <1>2, <4>1 DEF Unbroken
      <4>4. Unbroken(p, k, Len(p)) => Unbroken(down, k, Len(down))
        BY <1>2, <4>1 DEF Unbroken
      <4>5. \A l \in k + 1 .. Len(p) : l \in 1 .. Len(p) /\ p[l] = down[l]
        BY <1>2, <4>1
      <4>6. \A t : Leads(down, Done, n, k, On, Here, t) => Leads(p, Done, n, k, On, Here, t)
        BY <1>2, <4>2, <4>3, <4>4, <4>5 DEF Leads
      <4> QED BY <1>2, <2>1, <4>1, <4>2, <4>6 DEF Stream
    <3> QED BY <3>1, <3>2
  <2>3. Stream(p, Done, n, sel, On, Here)
    BY <2>2 DEF Stream
  <2> QED BY <1>1, <2>3 DEF InOrder, p
<1>10. \A m : Ahead(m)'
  <2>1. \A l \in 1 .. Len(p) : ~Unbroken(p, 0, l)
    BY <1>2, <1>3 DEF Unbroken
  <2>2. Len(p) \in 1 .. Len(p) /\ 0 + 1 = 1
    BY <1>2
  <2>3. ASSUME NEW m PROVE Leads(p, TRUE, n, 0, On, Here, m)
    BY <2>1, <2>2 DEF Leads
  <2> QED BY <1>1, <2>3 DEF Ahead, p
<1>11. Follows'
  <2> SUFFICES ASSUME client.socket = "open", answer # "asked" PROVE Follows'
    BY <1>1 DEF Follows
  <2>1. client.positioned
    BY DEF DeliveryInv, Follows
  <2>2. CASE client.missing \/ ~Proved
    BY <1>1, <2>1, <2>2 DEF Follows
  <2>3. CASE \E m \in States :
               /\ Ahead(m)
               /\ IF m.valid THEN view.newest = [symbol |-> sel, session |-> m.session]
                             ELSE answer = "settled" => view.stale
    <3>1. \E m \in States :
            /\ Ahead(m)'
            /\ IF m.valid THEN view'.newest = [symbol |-> sel, session |-> m.session]
                          ELSE answer' = "settled" => view'.stale
      BY <1>1, <1>10, <2>3
    <3> QED BY <1>1, <2>1, <3>1 DEF Follows
  <2>4. CASE answer = "answered"
    BY <1>1, <1>2, <1>3, <2>1, <2>4 DEF Follows, p
  <2> QED BY <2>2, <2>3, <2>4 DEF DeliveryInv, Follows
<1>12. Current'
  BY <1>1, <1>10 DEF DeliveryInv, Current
<1> QED BY <1>4, <1>5, <1>6, <1>8, <1>9, <1>11, <1>12 DEF DeliveryInv

LEMMA ConnectionBreaksKeeps ==
  ASSUME DeliveryInv, ConnectionBreaks PROVE DeliveryInv'
<1>1. /\ DeliveryTypeOK /\ Done' = Done /\ ~On' /\ Proved' = Proved /\ client.socket = "open"
      /\ conn' = [open |-> FALSE, subs |-> {}] /\ down' = <<>>
      /\ faults' = faults + 1 /\ faults' \in 0 .. MaxFaults
      /\ UNCHANGED <<market, up, client, view, fetching, answer, gaps, switches>>
  BY DeliveryAssumption
     DEF DeliveryInv, DeliveryTypeOK, Offline, ConnectionBreaks, Done, On, Proved
<1>2. DeliveryTypeOK'
  BY <1>1 DEF DeliveryTypeOK
<1>3. LossesCounted'
  <2>1. HolesAhead' = 0 /\ 2 .. Len(down') = {}
    BY <1>1 DEF HolesAhead
  <2>2. gaps + 0 + (IF client.missing THEN 1 ELSE 0) <= faults + 1
    BY LossesTyped
  <2> QED BY <1>1, <2>1, <2>2 DEF LossesCounted
<1>4. Offline'
  BY <1>1 DEF DeliveryInv, Offline
<1>5. Conversation'
  <2>1. Asked(up, {}, client.selection, client.ask)
    BY DEF DeliveryInv, Conversation, Asked, Leaves
  <2>2. Heard(<<>>, Done, client.ask) => Heard(down, Done, client.ask)
    BY EmptyStream DEF Heard
  <2> QED BY <1>1, <2>1, <2>2 DEF DeliveryInv, Conversation
<1>6. InOrder'
  BY <1>1, EmptyStream DEF InOrder
<1>7. \A m : Ahead(m)'
  BY <1>1 DEF Ahead, Leads
<1>8. Follows'
  <2>1. ~conn'.open
    BY <1>1
  <2> QED BY <1>1, <1>7, <2>1 DEF DeliveryInv, Follows
<1>9. Current'
  BY <1>1, <1>7 DEF DeliveryInv, Current
<1> QED BY <1>2, <1>3, <1>4, <1>5, <1>6, <1>8, <1>9 DEF DeliveryInv

(* The connection is gone at both ends. *)
LEMMA DisconnectedKeeps ==
  ASSUME DeliveryInv, client' \in ClientType, view' \in ViewType, fetching' \in BOOLEAN,
         client'.socket = "none", client'.missing = client.missing,
         conn' = [open |-> FALSE, subs |-> {}], down' = <<>>, up' = <<>>,
         client'.selection = client.selection, client'.ask = client.ask,
         answer' \in {"asked", "answered", "settled"},
         view'.replay => ~client'.running, view'.replay \/ view'.stale,
         UNCHANGED <<market, gaps, faults, switches>>
  PROVE  DeliveryInv'
<1>1. DeliveryTypeOK'
  BY DEF DeliveryInv, DeliveryTypeOK
<1>2. LossesCounted'
  <2>1. HolesAhead' = 0 /\ 2 .. Len(down') = {}
    BY DEF HolesAhead
  <2>2. gaps + 0 + (IF client.missing THEN 1 ELSE 0) <= faults
    BY LossesTyped
  <2> QED BY <2>1, <2>2 DEF LossesCounted
<1>3. Offline'
  BY DEF Offline
<1>4. Conversation'
  BY NothingAsked DEF Conversation
<1>5. InOrder'
  BY EmptyStream DEF InOrder
<1>6. Follows' /\ Current'
  BY DEF Follows, Current
<1> QED BY <1>1, <1>2, <1>3, <1>4, <1>5, <1>6 DEF DeliveryInv

LEMMA HandleCloseKeeps ==
  ASSUME DeliveryInv, HandleClose PROVE DeliveryInv'
<1>1. client \in ClientType /\ view \in ViewType /\ fetching \in BOOLEAN /\ ~view.replay
  BY Typed DEF HandleClose
<1>2. /\ client' \in ClientType /\ client'.socket = "none" /\ client'.missing = client.missing
      /\ client'.selection = client.selection /\ client'.ask = client.ask
  BY <1>1 DEF HandleClose, ClientType
<1>3. conn' = [open |-> FALSE, subs |-> {}]
  <2>1. conn \in [open : BOOLEAN, subs : SUBSET Instruments] /\ conn.open = FALSE /\ conn.subs = {}
        /\ conn' = conn
    BY DEF DeliveryInv, DeliveryTypeOK, Offline, HandleClose
  <2> QED BY <2>1
<1>4. view' \in ViewType /\ ~view'.replay /\ view'.stale
  BY <1>1, AnnouncedShape DEF HandleClose
<1>5. /\ down' = <<>> /\ up' = <<>> /\ answer' \in {"asked", "answered", "settled"}
      /\ fetching' \in BOOLEAN /\ UNCHANGED <<market, gaps, faults, switches>>
  BY <1>1 DEF HandleClose, bounds, DeliveryInv, DeliveryTypeOK
<1> QED BY <1>2, <1>3, <1>4, <1>5, DisconnectedKeeps

LEMMA RecordedShape ==
  ASSUME NEW v \in ViewType
  PROVE  LET w == Shown([Cleared(v) EXCEPT !.replay = TRUE, !.stale = FALSE,
                                           !.status = [valid |-> FALSE, session |-> 0]],
                        Recorded)
         IN  w \in ViewType /\ w.replay /\ w.images = {Recorded}
<1> DEFINE st == [valid |-> FALSE, session |-> 0]
           u == [Cleared(v) EXCEPT !.replay = TRUE, !.stale = FALSE, !.status = st]
<1>1. /\ Recorded \in Image \cup {Recorded}
      /\ st \in [valid : BOOLEAN, session : 0 .. MaxMarketSessions]
  BY DeliveryAssumption
<1> HIDE DEF st
<1>2. u \in ViewType /\ u.replay /\ u.images = {}
  BY <1>1, ClearedShape DEF ViewType
<1> HIDE DEF u
<1>3. Shown(u, Recorded) \in ViewType /\ Shown(u, Recorded).replay
      /\ Shown(u, Recorded).images = {Recorded}
  BY <1>1, <1>2 DEF Shown, ViewType
<1> QED BY <1>3 DEF u, st

LEMMA LoadReplayKeeps ==
  ASSUME DeliveryInv, LoadReplay PROVE DeliveryInv'
<1>1. client \in ClientType /\ view \in ViewType
  BY Typed
<1>2. /\ client' \in ClientType /\ client'.socket = "none" /\ client'.missing = client.missing
      /\ client'.selection = client.selection /\ client'.ask = client.ask /\ ~client'.running
  BY <1>1 DEF LoadReplay, ClientType
<1>3. view' \in ViewType /\ view'.replay
  BY <1>1, RecordedShape DEF LoadReplay
<1>4. /\ down' = <<>> /\ up' = <<>> /\ answer' \in {"asked", "answered", "settled"}
      /\ fetching' \in BOOLEAN /\ UNCHANGED <<market, gaps, faults, switches>>
      /\ conn' = [open |-> FALSE, subs |-> {}]
  BY DEF LoadReplay, bounds
<1> QED BY <1>2, <1>3, <1>4, DisconnectedKeeps

(* A subscription is asked for, and not answered yet. *)
LEMMA UnansweredKeeps ==
  ASSUME DeliveryInv, client' \in ClientType, view' \in ViewType,
         down' \in Seq(Envelopes), up' \in Seq(MessageType),
         conn' \in [open : BOOLEAN, subs : SUBSET Instruments],
         switches' \in 0 .. MaxSwitches, answer' = "asked",
         \A k \in 1 .. Len(down') : down'[k].ask < client'.ask,
         Asked(up', conn'.subs, client'.selection, client'.ask),
         LossesCounted', Offline',
         UNCHANGED <<market, fetching, gaps, faults>>
  PROVE  DeliveryInv'
<1>1. DeliveryTypeOK'
  BY DEF DeliveryInv, DeliveryTypeOK
<1>2. Done' = FALSE /\ client'.ask \in Nat \ {0}
  BY DEF Done, ClientType
<1>3. \A on, m, sel : Stream(down', FALSE, client'.ask, sel, on, m)
                      /\ ~Heard(down', FALSE, client'.ask)
  BY <1>2, UnheardStream
<1>4. Conversation' /\ InOrder'
  BY <1>2, <1>3 DEF Conversation, InOrder
<1>5. Follows' /\ Current'
  BY DEF Follows, Current
<1> QED BY <1>1, <1>4, <1>5 DEF DeliveryInv

LEMMA HandleOpenKeeps ==
  ASSUME DeliveryInv, HandleOpen PROVE DeliveryInv'
<1> DEFINE m == Message("subscribe", client.selection, client.ask)
           e == Envelope("status", Default)
<1>1. /\ client \in ClientType /\ view \in ViewType /\ ~view.replay /\ switches' = switches
      /\ switches \in 0 .. MaxSwitches /\ faults' = faults
  BY Typed DEF HandleOpen, bounds
<1>2. /\ client' \in ClientType /\ client'.socket = "open" /\ ~client'.missing
      /\ client'.selection = client.selection /\ client'.ask = client.ask
  <2> DEFINE c == Frozen(client)
  <2>1. client' = [c EXCEPT !.socket = "open", !.positioned = FALSE, !.missing = FALSE,
                            !.muted = FALSE]
    BY DEF HandleOpen
  <2>2. c \in ClientType /\ c.selection = client.selection /\ c.ask = client.ask
    BY <1>1, FrozenShape
  <2> HIDE DEF c
  <2> QED BY <2>1, <2>2 DEF ClientType
<1>3. view' \in ViewType /\ ~view'.replay
  BY <1>1, AnnouncedShape DEF HandleOpen
<1>4. /\ m \in MessageType /\ m.kind = "subscribe" /\ m.symbol = client.selection
      /\ m.ask = client.ask
  BY <1>1 DEF Message, MessageType, ClientType
<1>5. e \in Envelopes /\ e.ask = 0 /\ e.kind = "status"
  <2>1. market[Default] \in MarketType
    BY DeliveryAssumption DEF DeliveryInv, DeliveryTypeOK
  <2>2. e = Said("status", Default, market[Default])
    BY EnvelopeSays
  <2> QED BY <2>1, <2>2, SaidShape, DeliveryAssumption DEF Kinds, Envelopes
<1>6. up' = <<m>> /\ down' = <<e>> /\ conn' = [open |-> TRUE, subs |-> {}] /\ answer' = "asked"
      /\ UNCHANGED <<market, fetching, gaps, faults>>
  BY DEF HandleOpen, bounds
<1> HIDE DEF m, e
<1>7. up' \in Seq(MessageType) /\ down' \in Seq(Envelopes)
      /\ conn' \in [open : BOOLEAN, subs : SUBSET Instruments]
  BY <1>4, <1>5, <1>6
<1>8. client.ask \in Nat \ {0} /\ \A k \in 1 .. Len(down') : down'[k].ask < client'.ask
  BY <1>1, <1>2, <1>5, <1>6 DEF ClientType
<1>9. Asked(up', conn'.subs, client'.selection, client'.ask)
  <2>1. \A i \in 1 .. Len(up') : up'[i] = m /\ i + 1 .. Len(up') = {}
    BY <1>6
  <2>2. m.ask <= client'.ask /\ conn'.subs = {}
    BY <1>2, <1>4, <1>6, <1>8
  <2> QED BY <1>2, <1>4, <2>1, <2>2 DEF Asked, Leaves
<1>10. LossesCounted'
  <2>1. HolesAhead' = 0 /\ 2 .. Len(down') = {} /\ ~client'.missing
    BY <1>2, <1>5, <1>6 DEF HolesAhead
  <2>2. gaps + 0 + 0 <= faults
    BY LossesTyped
  <2> QED BY <1>6, <2>1, <2>2 DEF LossesCounted
<1>11. Offline'
  BY <1>2, <1>3, <1>6 DEF Offline
<1> QED BY <1>1, <1>2, <1>3, <1>6, <1>7, <1>8, <1>9, <1>10, <1>11, UnansweredKeeps

(* The subscription moves to another symbol. *)
LEMMA AskedAgain ==
  ASSUME NEW q \in Seq(MessageType), NEW subs, NEW sel \in Instruments, NEW n \in Nat \ {0},
         Asked(q, subs, sel, n), NEW s \in Instruments \ {sel}, NEW p,
         p = q \o <<Message("unsubscribe", sel, 0), Message("subscribe", s, n + 1)>>
  PROVE  p \in Seq(MessageType) /\ Asked(p, subs, s, n + 1)
<1> DEFINE a == Message("unsubscribe", sel, 0)
           b == Message("subscribe", s, n + 1)
<1>1. /\ a \in MessageType /\ a.kind = "unsubscribe" /\ a.symbol = sel /\ a.ask = 0
      /\ b \in MessageType /\ b.kind = "subscribe" /\ b.symbol = s /\ b.ask = n + 1
  BY DEF Message, MessageType
<1> HIDE DEF a, b
<1>2. /\ p \in Seq(MessageType) /\ Len(p) = Len(q) + 2 /\ Len(q) \in Nat
      /\ p[Len(q) + 1] = a /\ p[Len(q) + 2] = b
      /\ \A i \in 1 .. Len(q) : p[i] = q[i] /\ i \in 1 .. Len(p)
  BY <1>1 DEF a, b
<1>3. \A i \in 1 .. Len(p) : i \in 1 .. Len(q) \/ i = Len(q) + 1 \/ i = Len(q) + 2
  BY <1>2
<1>4. \A i \in 1 .. Len(q) : q[i].ask \in Nat /\ q[i].ask <= n
  BY DEF Asked, MessageType
<1>5. ASSUME NEW x \in Instruments \ {s} PROVE Leaves(p, subs, x)
  <2>1. CASE x = sel
    <3>1. Len(q) + 1 \in 1 .. Len(p)
      BY <1>2
    <3>2. x \in subs => \E i \in 1 .. Len(p) : p[i].kind = "unsubscribe" /\ p[i].symbol = x
      BY <1>1, <1>2, <2>1, <3>1
    <3>3. ASSUME NEW i \in 1 .. Len(p), p[i].kind = "subscribe", p[i].symbol = x
          PROVE  \E j \in i .. Len(p) : p[j].kind = "unsubscribe" /\ p[j].symbol = x
      <4>1. i \in 1 .. Len(q)
        BY <1>1, <1>2, <1>3, <3>3
      <4>2. Len(q) + 1 \in i .. Len(p)
        BY <1>2, <4>1
      <4> QED BY <1>1, <1>2, <2>1, <4>2
    <3> QED BY <3>2, <3>3 DEF Leaves
  <2>2. CASE x # sel
    <3>1. Leaves(q, subs, x)
      BY <2>2 DEF Asked
    <3>2. x \in subs => \E i \in 1 .. Len(p) : p[i].kind = "unsubscribe" /\ p[i].symbol = x
      BY <1>2, <3>1 DEF Leaves
    <3>3. ASSUME NEW i \in 1 .. Len(p), p[i].kind = "subscribe", p[i].symbol = x
          PROVE  \E j \in i .. Len(p) : p[j].kind = "unsubscribe" /\ p[j].symbol = x
      <4>1. i \in 1 .. Len(q) /\ p[i] = q[i]
        BY <1>1, <1>2, <1>3, <3>3
      <4>2. PICK j \in i .. Len(q) : q[j].kind = "unsubscribe" /\ q[j].symbol = x
        BY <3>1, <3>3, <4>1 DEF Leaves
      <4>3. j \in i .. Len(p) /\ p[j] = q[j]
        BY <1>2, <4>1
      <4> QED BY <4>2, <4>3
    <3> QED BY <3>2, <3>3 DEF Leaves
  <2> QED BY <2>1, <2>2
<1>6. \A i \in 1 .. Len(p) : p[i].ask <= n + 1
  BY <1>1, <1>2, <1>3, <1>4
<1>7. ASSUME NEW i \in 1 .. Len(p), p[i].ask = n + 1
      PROVE  p[i].symbol = s /\ \A j \in i + 1 .. Len(p) : p[j].kind = "request_snapshot"
  <2>1. i = Len(q) + 2
    BY <1>1, <1>2, <1>3, <1>4, <1>7
  <2>2. i + 1 .. Len(p) = {}
    BY <1>2, <2>1
  <2> QED BY <1>1, <1>2, <2>1, <2>2
<1> QED BY <1>2, <1>5, <1>6, <1>7 DEF Asked

LEMMA SelectSymbolKeeps ==
  ASSUME DeliveryInv, NEW s \in Instruments, SelectSymbol(s) PROVE DeliveryInv'
<1> DEFINE n == client.ask
           sel == client.selection
<1>1. /\ client \in ClientType /\ view \in ViewType /\ switches \in 0 .. MaxSwitches
      /\ n \in Nat \ {0} /\ sel \in Instruments /\ up \in Seq(MessageType) /\ s # sel
      /\ down \in Seq(Envelopes) /\ conn \in [open : BOOLEAN, subs : SUBSET Instruments]
  BY Typed DEF SelectSymbol, ClientType, DeliveryInv, DeliveryTypeOK
<1>2. /\ client' \in ClientType /\ client'.missing = client.missing
      /\ (client'.socket = "open" <=> client.socket = "open")
      /\ client'.selection = s /\ client'.ask = n + 1
  <2> DEFINE c == Frozen(client)
             so == IF c.socket = "none" THEN "connecting" ELSE c.socket
             a == c.ask + 1
  <2>1. client' = [c EXCEPT !.selection = s, !.ask = a, !.running = TRUE, !.muted = FALSE,
                            !.socket = so]
    BY DEF SelectSymbol
  <2>2. c \in ClientType /\ c.missing = client.missing /\ c.socket = client.socket /\ c.ask = n
    BY <1>1, FrozenShape
  <2> HIDE DEF c
  <2>3. so \in {"none", "connecting", "open"} /\ (so = "open" <=> c.socket = "open")
    BY <2>2 DEF ClientType
  <2>4. a \in Nat \ {0} /\ a = n + 1
    BY <1>1, <2>2
  <2> HIDE DEF so, a
  <2>5. client' \in ClientType
    BY <2>1, <2>2, <2>3, <2>4 DEF ClientType
  <2>6. client'.socket = so /\ client'.selection = s /\ client'.ask = a /\ client'.missing = c.missing
    BY <2>1, <2>2 DEF ClientType
  <2> QED BY <2>2, <2>3, <2>4, <2>5, <2>6
<1>3. view' \in ViewType /\ ~view'.replay /\ view'.stale
  BY <1>1, LiveShape DEF SelectSymbol
<1>4. /\ answer' = "asked" /\ UNCHANGED <<market, conn, down, fetching, gaps, faults>>
      /\ switches' \in 0 .. MaxSwitches
  BY <1>1, DeliveryAssumption DEF SelectSymbol, Asks
<1>5. up' \in Seq(MessageType) /\ Asked(up', conn.subs, s, n + 1)
  <2>1. CASE client.socket = "open"
    <3>1. Asked(up, conn.subs, sel, n)
      BY DEF DeliveryInv, Conversation
    <3>2. up' = up \o <<Message("unsubscribe", sel, 0), Message("subscribe", s, n + 1)>>
      BY <1>2, <2>1 DEF SelectSymbol, Send
    <3> HIDE DEF n, sel
    <3> QED BY <1>1, <3>1, <3>2, AskedAgain
  <2>2. CASE client.socket # "open"
    <3>1. up' = <<>> /\ conn.subs = {}
      BY <2>2 DEF SelectSymbol, Send, DeliveryInv, Offline
    <3> QED BY <3>1, NothingAsked
  <2> QED BY <2>1, <2>2
<1>6. \A k \in 1 .. Len(down) : down[k].ask < n + 1
  <2>1. \A k \in 1 .. Len(down) : down[k].ask <= n /\ down[k].ask \in Nat
    BY <1>1, EnvelopeShape DEF DeliveryInv, InOrder, Stream
  <2> QED BY <1>1, <2>1
<1>7. LossesCounted'
  BY <1>2, <1>4 DEF DeliveryInv, LossesCounted, HolesAhead
<1>8. Offline'
  <2>1. client.socket # "open" => up' = up
    BY DEF SelectSymbol, Send
  <2> QED BY <1>2, <1>3, <1>4, <2>1 DEF DeliveryInv, Offline
<1> QED BY <1>1, <1>2, <1>3, <1>4, <1>5, <1>6, <1>7, <1>8, UnansweredKeeps

(* What FlattenSeq() returns for one subscription and for none. *)
LEMMA FlattenShape ==
  ASSUME NEW S, NEW n \in Nat, NEW seqs \in [1 .. n -> Seq(S)]
  PROVE  /\ FlattenSeq(seqs) \in Seq(S)
         /\ n = 0 => FlattenSeq(seqs) = <<>>
         /\ n = 1 => FlattenSeq(seqs) = seqs[1]
<1> DEFINE Solves(f, k) == \A i \in 1 .. k : f[i] = IF i = 1 THEN seqs[i] ELSE f[i - 1] \o seqs[i]
           T == {k \in 0 .. n : \E f \in [1 .. k -> Seq(S)] : Solves(f, k)}
           fl == CHOOSE f : f = [i \in 1 .. Len(seqs) |->
                                   IF i = 1 THEN seqs[i] ELSE f[i - 1] \o seqs[i]]
<1>1. seqs \in Seq(Seq(S)) /\ Len(seqs) = n
  OBVIOUS
<1>2. 0 \in T
  <2>1. 1 .. 0 = {} /\ 0 \in 0 .. n
    OBVIOUS
  <2>2. [i \in 1 .. 0 |-> <<>>] \in [1 .. 0 -> Seq(S)]
    OBVIOUS
  <2>3. Solves([i \in 1 .. 0 |-> <<>>], 0)
    BY <2>1
  <2> HIDE DEF Solves
  <2> QED BY <2>1, <2>2, <2>3
<1>3. ASSUME NEW k \in 1 .. n, k - 1 \in T PROVE k \in T
  <2>1. PICK g \in [1 .. (k - 1) -> Seq(S)] : Solves(g, k - 1)
    BY <1>3
  <2> DEFINE h == [i \in 1 .. k |-> IF i # k THEN g[i]
                                    ELSE IF k = 1 THEN seqs[k] ELSE g[k - 1] \o seqs[k]]
  <2>2. \A i \in 1 .. k : i # k => i \in 1 .. (k - 1) /\ (i # 1 => i - 1 \in 1 .. (k - 1))
    OBVIOUS
  <2>3. k # 1 => k - 1 \in 1 .. (k - 1) /\ k - 1 \in 1 .. k /\ k - 1 # k
    OBVIOUS
  <2>4. h \in [1 .. k -> Seq(S)]
    <3> SUFFICES ASSUME NEW i \in 1 .. k
                 PROVE  (IF i # k THEN g[i]
                         ELSE IF k = 1 THEN seqs[k] ELSE g[k - 1] \o seqs[k]) \in Seq(S)
      OBVIOUS
    <3>1. CASE i # k
      BY <2>2, <3>1
    <3>2. CASE i = k /\ k = 1
      BY <3>2
    <3>3. CASE i = k /\ k # 1
      <4>1. g[k - 1] \in Seq(S) /\ seqs[k] \in Seq(S)
        BY <2>3, <3>3
      <4> QED BY <3>3, <4>1
    <3> QED BY <3>1, <3>2, <3>3
  <2>5. Solves(h, k)
    <3> SUFFICES ASSUME NEW i \in 1 .. k
                 PROVE  h[i] = IF i = 1 THEN seqs[i] ELSE h[i - 1] \o seqs[i]
      OBVIOUS
    <3>1. CASE i # k
      <4>1. i \in 1 .. (k - 1) /\ h[i] = g[i]
        BY <2>2, <3>1
      <4>2. g[i] = IF i = 1 THEN seqs[i] ELSE g[i - 1] \o seqs[i]
        BY <2>1, <4>1
      <4>3. i # 1 => h[i - 1] = g[i - 1]
        BY <4>1
      <4> QED BY <4>1, <4>2, <4>3
    <3>2. CASE i = k
      BY <2>3, <3>2
    <3> QED BY <3>1, <3>2
  <2>6. k \in 0 .. n
    OBVIOUS
  <2> HIDE DEF Solves, h
  <2> QED BY <2>4, <2>5, <2>6
<1>4. n \in T
  <2>1. 0 .. n \subseteq T
    <3> HIDE DEF T
    <3> QED BY <1>2, <1>3, IntervalInduction
  <2> HIDE DEF T
  <2> QED BY <2>1
<1>5. fl = [i \in 1 .. n |-> IF i = 1 THEN seqs[i] ELSE fl[i - 1] \o seqs[i]]
  <2>1. PICK f \in [1 .. n -> Seq(S)] : Solves(f, n)
    BY <1>4
  <2>2. f = [i \in 1 .. n |-> IF i = 1 THEN seqs[i] ELSE f[i - 1] \o seqs[i]]
    BY <2>1
  <2> QED BY <1>1, <2>2
<1> HIDE DEF fl, T
<1>6. \A i \in 1 .. n : fl[i] \in Seq(S)
  <2> DEFINE U == {k \in 0 .. n : k # 0 => fl[k] \in Seq(S)}
  <2>1. 0 \in U
    OBVIOUS
  <2>2. ASSUME NEW k \in 1 .. n, k - 1 \in U PROVE k \in U
    <3>1. CASE k = 1
      <4>1. fl[1] = seqs[1] /\ seqs[1] \in Seq(S)
        BY <1>5, <3>1
      <4> QED BY <3>1, <4>1
    <3>2. CASE k # 1
      <4>1. k - 1 # 0 /\ k \in 0 .. n
        BY <3>2
      <4>2. fl[k - 1] \in Seq(S)
        BY <2>2, <4>1
      <4>3. seqs[k] \in Seq(S)
        OBVIOUS
      <4>4. fl[k] = fl[k - 1] \o seqs[k]
        BY <1>5, <3>2
      <4>5. fl[k] \in Seq(S)
        BY <4>2, <4>3, <4>4
      <4> QED BY <4>1, <4>5
    <3> QED BY <3>1, <3>2
  <2>3. 0 .. n \subseteq U
    <3> HIDE DEF U
    <3> QED BY <2>1, <2>2, IntervalInduction
  <2> QED BY <2>3
<1>7. FlattenSeq(seqs) = IF n = 0 THEN seqs ELSE fl[n]
  BY <1>1 DEF FlattenSeq, fl
<1>8. CASE n = 0
  BY <1>1, <1>7, <1>8
<1>9. CASE n # 0
  <2>1. n \in 1 .. n /\ FlattenSeq(seqs) = fl[n] /\ fl[n] \in Seq(S)
    BY <1>6, <1>7, <1>9
  <2>2. n = 1 => fl[n] = seqs[1]
    BY <1>5, <2>1
  <2> QED BY <1>9, <2>1, <2>2
<1> QED BY <1>8, <1>9

(* The subscriptions of a client, one after the other. *)
LEMMA Enumeration ==
  ASSUME NEW S, IsFiniteSet(S)
  PROVE  Cardinality(S) \in Nat /\ SetToSeq(S) \in [1 .. Cardinality(S) -> S]
<1>1. Cardinality(S) \in Nat /\ ExistsBijection(1 .. Cardinality(S), S)
  BY FS_CardinalityType
<1>2. \E f \in [1 .. Cardinality(S) -> S] : IsInjective(f)
  BY <1>1 DEF ExistsBijection, Bijection, Injection, IsInjective
<1> QED BY <1>1, <1>2 DEF SetToSeq

-----------------------------------------------------------------------------
(* Messages of the client: handleClientMessage(). *)

(* No event of the server is a hole. *)
LEMMA LossesOf ==
  ASSUME DeliveryInv, NEW events \in Seq(Whole), down' = down \o events,
         UNCHANGED <<client, gaps, faults>>
  PROVE  LossesCounted'
<1>1. \A e \in Whole : e.kind # "hole"
  BY DEF Whole, MarketEnvelope, ControlEnvelope, Kinds
<1>2. /\ down \in Seq(Envelopes) /\ Len(down) \in Nat /\ Len(events) \in Nat
      /\ Len(down') = Len(down) + Len(events)
      /\ \A i \in 1 .. Len(down) : down'[i] = down[i]
      /\ \A i \in Len(down) + 1 .. Len(down') : down'[i] \in Whole
  <2>1. down \in Seq(Envelopes) /\ Len(down) \in Nat /\ Len(events) \in Nat
    BY DEF DeliveryInv, DeliveryTypeOK
  <2>2. down \o events \in Seq(Envelopes)
    <3>1. Whole \subseteq Envelopes
      BY DEF Whole, Envelopes
    <3>2. events \in Seq(Envelopes)
      BY <3>1
    <3> QED BY <2>1, <3>2
  <2>3. \A i \in Len(down) + 1 .. Len(down) + Len(events) :
          i - Len(down) \in 1 .. Len(events) /\ (down \o events)[i] = events[i - Len(down)]
    BY <2>1
  <2>4. \A i \in Len(down) + 1 .. Len(down) + Len(events) : (down \o events)[i] \in Whole
    BY <2>3
  <2>5. \A i \in 1 .. Len(down) : (down \o events)[i] = down[i]
    BY <2>1
  <2> QED BY <2>1, <2>2, <2>4, <2>5
<1>3. \A i \in 2 .. Len(down') : down'[i].kind # "hole"
  <2> SUFFICES ASSUME NEW i \in 2 .. Len(down') PROVE down'[i].kind # "hole"
    OBVIOUS
  <2>1. CASE i <= Len(down)
    <3>1. i \in 2 .. Len(down) /\ i \in 1 .. Len(down)
      BY <1>2, <2>1
    <3> QED BY <1>2, <3>1 DEF DeliveryInv, LossesCounted
  <2>2. CASE i > Len(down)
    <3>1. i \in Len(down) + 1 .. Len(down')
      BY <1>2, <2>2
    <3> QED BY <1>1, <1>2, <3>1
  <2> QED BY <1>2, <2>1, <2>2
<1>4. HolesAhead' <= HolesAhead /\ HolesAhead \in {0, 1} /\ HolesAhead' \in {0, 1}
  <2>1. CASE down = <<>> /\ down' = <<>>
    BY <2>1 DEF HolesAhead
  <2>2. CASE down = <<>> /\ down' # <<>>
    <3>1. events = down'
      BY <1>2, <2>2
    <3>2. Head(down') \in Whole
      BY <2>2, <3>1
    <3> QED BY <1>1, <2>2, <3>2 DEF HolesAhead
  <2>3. CASE down # <<>>
    <3>1. 1 \in 1 .. Len(down) /\ Head(down) = down[1]
      BY <1>2, <2>3
    <3>2. down' # <<>> /\ Head(down') = Head(down)
      BY <1>2, <3>1
    <3>3. HolesAhead' = HolesAhead
      BY <2>3, <3>2 DEF HolesAhead
    <3>4. HolesAhead \in {0, 1}
      BY DEF HolesAhead
    <3> QED BY <3>3, <3>4
  <2> QED BY <2>1, <2>2, <2>3
<1>5. gaps' + HolesAhead' + (IF client'.missing THEN 1 ELSE 0) <= faults'
  <2> DEFINE b == IF client.missing THEN 1 ELSE 0
  <2>1. gaps \in Nat /\ faults \in Nat /\ gaps + b + HolesAhead <= faults /\ b \in {0, 1}
    BY LossesTyped
  <2>2. gaps' = gaps /\ faults' = faults /\ (IF client'.missing THEN 1 ELSE 0) = b
    OBVIOUS
  <2> HIDE DEF b
  <2>3. \A g, h, i, x, f \in Nat : g + x + h <= f /\ i <= h => g + i + x <= f
    OBVIOUS
  <2>4. HolesAhead \in Nat /\ HolesAhead' \in Nat /\ b \in Nat
    BY <1>4, <2>1
  <2>5. gaps + HolesAhead' + b <= faults
    BY <1>4, <2>1, <2>3, <2>4
  <2> QED BY <2>2, <2>5
<1> QED BY <1>3, <1>5 DEF LossesCounted

LEMMA RecoveryShape ==
  ASSUME NEW s \in Instruments, market[s] \in MarketType
  PROVE  /\ RecoveryEvents(s) \in Seq(Whole)
         /\ \A i \in 1 .. Len(RecoveryEvents(s)) : RecoveryEvents(s)[i].ask = 0
         /\ \/ /\ market[s].valid
               /\ RecoveryEvents(s) =
                    <<Said("snapshot", s, market[s]), Said("status", s, market[s])>>
            \/ ~market[s].valid /\ RecoveryEvents(s) = <<Said("status", s, market[s])>>
         /\ Said("status", s, market[s]) \in Whole
         /\ market[s].valid => Said("snapshot", s, market[s]) \in Whole
<1>1. Said("status", s, market[s]) \in Whole /\ Said("status", s, market[s]).ask = 0
  BY SaidShape DEF Whole, Kinds
<1>2. market[s].valid =>
        Said("snapshot", s, market[s]) \in Whole /\ Said("snapshot", s, market[s]).ask = 0
  BY SaidShape DEF Whole, Kinds
<1>3. RecoveryEvents(s) = IF market[s].valid
                          THEN <<Said("snapshot", s, market[s]), Said("status", s, market[s])>>
                          ELSE <<Said("status", s, market[s])>>
  BY EnvelopeSays DEF RecoveryEvents
<1> QED BY <1>1, <1>2, <1>3

(* What a snapshot request is answered with. *)
LEMMA SubscriptionsEvents ==
  ASSUME DeliveryInv
  PROVE  LET events == FlattenSeq([i \in 1 .. Cardinality(conn.subs) |->
                                     RecoveryEvents(SetToSeq(conn.subs)[i])])
         IN  /\ events \in Seq({e \in Whole : e.ask = 0})
             /\ \A s \in Instruments :
                  conn.subs \subseteq {s} =>
                    events = <<>> \/ (s \in conn.subs /\ events = RecoveryEvents(s))
<1> DEFINE Plain == {e \in Whole : e.ask = 0}
           n == Cardinality(conn.subs)
           order == SetToSeq(conn.subs)
           seqs == [i \in 1 .. n |-> RecoveryEvents(order[i])]
<1>1. conn.subs \in SUBSET Instruments /\ \A s \in Instruments : market[s] \in MarketType
  BY DEF DeliveryInv, DeliveryTypeOK
<1>2. IsFiniteSet(conn.subs)
  BY <1>1, FS_Subset, DeliveryAssumption
<1>3. n \in Nat /\ order \in [1 .. n -> conn.subs]
  BY <1>2, Enumeration
<1> HIDE DEF order
<1>4. \A s \in Instruments : RecoveryEvents(s) \in Seq(Plain)
  <2> SUFFICES ASSUME NEW s \in Instruments PROVE RecoveryEvents(s) \in Seq(Plain)
    OBVIOUS
  <2>1. /\ RecoveryEvents(s) \in Seq(Whole)
        /\ \A i \in 1 .. Len(RecoveryEvents(s)) : RecoveryEvents(s)[i].ask = 0
    BY <1>1, RecoveryShape
  <2> QED BY <2>1
<1> HIDE DEF Plain
<1>5. seqs \in [1 .. n -> Seq(Plain)]
  BY <1>1, <1>3, <1>4
<1>6. ASSUME NEW s \in Instruments, conn.subs \subseteq {s}
      PROVE  n = 0 \/ (n = 1 /\ s \in conn.subs /\ seqs[1] = RecoveryEvents(s))
  <2>1. CASE conn.subs = {}
    BY <2>1, FS_EmptySet
  <2>2. CASE conn.subs = {s}
    <3>1. n = 1
      BY <2>2, FS_Singleton
    <3>2. order[1] = s
      BY <1>3, <2>2, <3>1
    <3> QED BY <2>2, <3>1, <3>2
  <2> QED BY <1>6, <2>1, <2>2
<1> HIDE DEF seqs
<1>7. /\ FlattenSeq(seqs) \in Seq(Plain) /\ (n = 0 => FlattenSeq(seqs) = <<>>)
      /\ (n = 1 => FlattenSeq(seqs) = seqs[1])
  <2> HIDE DEF n
  <2> QED BY <1>3, <1>5, FlattenShape
<1>8. \A s \in Instruments :
        conn.subs \subseteq {s} =>
          FlattenSeq(seqs) = <<>> \/ (s \in conn.subs /\ FlattenSeq(seqs) = RecoveryEvents(s))
  BY <1>6, <1>7
<1> QED BY <1>7, <1>8 DEF seqs, order, Plain

LEMMA StatusSays ==
  ASSUME NEW s \in Instruments, NEW m \in MarketType
  PROVE  LET e == Said("status", s, m)
         IN  /\ Tells(e) = m /\ e.image.symbol = s /\ e.kind = "status" /\ e.ask = 0 /\ ~e.again
             /\ e.valid = m.valid /\ Fresh(e)
<1>1. "status" \in Kinds \ {"control"} /\ "status" \notin {"snapshot", "depth_frame"}
  BY DEF Kinds
<1> QED BY <1>1, SaidShape

LEMMA SnapshotSays ==
  ASSUME NEW s \in Instruments, NEW m \in MarketType, m.valid
  PROVE  LET e == Said("snapshot", s, m)
         IN  /\ Tells(e) = m /\ e.image.symbol = s /\ e.kind = "snapshot" /\ e.ask = 0
             /\ ~e.again /\ Fresh(e)
<1>1. "snapshot" \in Kinds \ {"control"}
  BY DEF Kinds
<1> QED BY <1>1, SaidShape

(* The server answers a message whose answer says nothing of the latest *)
(* subscription.                                                        *)
LEMMA ServedUnheard ==
  ASSUME DeliveryInv, conn.open, up # <<>>, up' = Tail(up),
         ~Heard(down, Done, client.ask),
         conn' \in [open : BOOLEAN, subs : SUBSET Instruments], conn'.open,
         \A x \in conn'.subs \ {client.selection} :
           /\ x \in conn.subs \/ (Head(up).kind = "subscribe" /\ Head(up).symbol = x)
           /\ ~(Head(up).kind = "unsubscribe" /\ Head(up).symbol = x),
         NEW events \in Seq(Whole), down' = down \o events,
         \A i \in 1 .. Len(events) : events[i].ask < client.ask,
         UNCHANGED <<market, client, view, fetching, answer, gaps, faults, switches>>
  PROVE  DeliveryInv'
<1> DEFINE n == client.ask
           sel == client.selection
<1>1. /\ client \in ClientType /\ view \in ViewType /\ switches \in 0 .. MaxSwitches
      /\ n \in Nat \ {0} /\ up \in Seq(MessageType) /\ down \in Seq(Envelopes)
      /\ client.socket = "open" /\ ~view.replay
  BY Typed DEF ClientType, DeliveryInv, DeliveryTypeOK
<1>2. events \in Seq(Envelopes) /\ Len(events) \in Nat
  <2>1. Whole \subseteq Envelopes
    BY DEF Whole, Envelopes
  <2> QED BY <2>1
<1>3. down' \in Seq(Envelopes)
  BY <1>1, <1>2
<1>4. Asked(Tail(up), conn'.subs, sel, n) /\ Tail(up) \in Seq(MessageType)
  <2>1. Asked(up, conn.subs, sel, n)
    BY DEF DeliveryInv, Conversation
  <2> HIDE DEF n, sel
  <2> QED BY <1>1, <2>1, TailAsked DEF sel
<1>5. \A k \in 1 .. Len(down') : down'[k].ask < n
  <2>1. \A k \in 1 .. Len(down) : down[k].ask <= n /\ down[k].ask \in Nat
    <3>1. \A k \in 1 .. Len(down) : down[k] \in Envelopes
      BY <1>1
    <3>2. \A k \in 1 .. Len(down) : down[k].ask <= n
      BY DEF DeliveryInv, InOrder, Stream
    <3> QED BY <3>1, <3>2, EnvelopeShape
  <2>2. \A k \in 1 .. Len(down) : down[k].ask # n
    BY DEF Heard
  <2>3. \A k \in 1 .. Len(down) : down[k].ask < n
    BY <1>1, <2>1, <2>2
  <2> SUFFICES ASSUME NEW k \in 1 .. Len(down') PROVE down'[k].ask < n
    OBVIOUS
  <2> HIDE DEF n
  <2>4. CASE k \in 1 .. Len(down)
    <3>1. down'[k] = down[k]
      BY <1>1, <1>2, <2>4
    <3> QED BY <2>3, <2>4, <3>1
  <2>5. CASE k \notin 1 .. Len(down)
    <3>1. k - Len(down) \in 1 .. Len(events) /\ down'[k] = events[k - Len(down)]
      BY <1>1, <1>2, <2>5
    <3> QED BY <3>1 DEF n
  <2> QED BY <2>4, <2>5
<1>6. answer' = "asked"
  BY DEF Heard, Done
<1>7. LossesCounted'
  BY LossesOf
<1>8. Offline'
  BY <1>1 DEF Offline
<1> QED BY <1>1, <1>3, <1>4, <1>5, <1>6, <1>7, <1>8, UnansweredKeeps

LEMMA UnsubscribeKeeps ==
  ASSUME DeliveryInv, conn.open, up # <<>>, up' = Tail(up), Head(up).kind = "unsubscribe",
         conn' = [conn EXCEPT !.subs = WithoutSubscription(Head(up).symbol)],
         Reply(<<Control(0)>>),
         UNCHANGED <<market, client, view, fetching, answer, gaps, bounds>>
  PROVE  DeliveryInv'
<1>1. /\ Control(0) \in Whole /\ Control(0).ask = 0
  BY DEF Control, Whole, ControlEnvelope
<1>2. /\ conn \in [open : BOOLEAN, subs : SUBSET Instruments] /\ client.ask \in Nat \ {0}
      /\ up \in Seq(MessageType)
  BY Typed DEF ClientType, DeliveryInv, DeliveryTypeOK
<1>3. conn' \in [open : BOOLEAN, subs : SUBSET Instruments] /\ conn'.open
      /\ conn'.subs = conn.subs \ {Head(up).symbol}
  BY <1>2 DEF WithoutSubscription
<1>4. ~Heard(down, Done, client.ask)
  <2>1. 1 \in 1 .. Len(up) /\ up[1] = Head(up)
    BY <1>2
  <2> QED BY <2>1 DEF DeliveryInv, Conversation
<1> DEFINE events == <<Control(0)>>
<1>5. events \in Seq(Whole) /\ \A i \in 1 .. Len(events) : events[i].ask < client.ask
  BY <1>1, <1>2
<1>6. down' = down \o events
      /\ UNCHANGED <<market, client, view, fetching, answer, gaps, faults, switches>>
  BY DEF Reply, bounds
<1> HIDE DEF events
<1> QED BY <1>3, <1>4, <1>5, <1>6, ServedUnheard

(* The message at the head, and what it says of the others. *)
LEMMA HeadAsked ==
  ASSUME NEW q \in Seq(MessageType), q # <<>>, NEW subs, NEW sel, NEW n, Asked(q, subs, sel, n)
  PROVE  /\ Tail(q) \in Seq(MessageType) /\ Head(q).ask <= n
         /\ Head(q).ask = n =>
              /\ Head(q).symbol = sel
              /\ \A i \in 1 .. Len(Tail(q)) : Tail(q)[i].kind = "request_snapshot"
<1> DEFINE p == Tail(q)
<1>1. /\ p \in Seq(MessageType) /\ Len(p) = Len(q) - 1 /\ Len(q) \in Nat \ {0}
      /\ \A i \in 1 .. Len(p) : p[i] = q[i + 1] /\ i + 1 \in 1 .. Len(q)
      /\ Head(q) = q[1] /\ 1 \in 1 .. Len(q)
  OBVIOUS
<1> HIDE DEF p
<1>2. Head(q).ask <= n
  BY <1>1 DEF Asked
<1>3. ASSUME Head(q).ask = n
      PROVE  Head(q).symbol = sel /\ \A i \in 1 .. Len(p) : p[i].kind = "request_snapshot"
  <2>1. q[1].symbol = sel /\ \A j \in 1 + 1 .. Len(q) : q[j].kind = "request_snapshot"
    BY <1>1, <1>3 DEF Asked
  <2>2. \A i \in 1 .. Len(p) : i + 1 \in 1 + 1 .. Len(q)
    BY <1>1
  <2> QED BY <1>1, <2>1, <2>2
<1> QED BY <1>1, <1>2, <1>3 DEF p

(* The latest subscription, once it is handled. *)
LEMMA SubscribeAsked ==
  ASSUME NEW q \in Seq(MessageType), q # <<>>, Head(q).kind = "subscribe",
         NEW subs, NEW sel, NEW n, Asked(q, subs, sel, n)
  PROVE  Asked(Tail(q), subs \cup {Head(q).symbol}, sel, n)
<1> DEFINE subs2 == subs \cup {Head(q).symbol}
<1>1. \A x \in subs2 \ {sel} :
        /\ x \in subs \/ (Head(q).kind = "subscribe" /\ Head(q).symbol = x)
        /\ ~(Head(q).kind = "unsubscribe" /\ Head(q).symbol = x)
  OBVIOUS
<1>2. Asked(Tail(q), subs2, sel, n)
  <2> HIDE DEF subs2
  <2> QED BY <1>1, TailAsked
<1> QED BY <1>2

LEMMA SubscribeKeeps ==
  ASSUME DeliveryInv, conn.open, up # <<>>, up' = Tail(up), Head(up).kind = "subscribe",
         conn' = [conn EXCEPT !.subs = @ \cup {Head(up).symbol}],
         Reply(<<Control(Head(up).ask)>> \o RecoveryEvents(Head(up).symbol)),
         UNCHANGED <<market, client, view, fetching, answer, gaps, bounds>>
  PROVE  DeliveryInv'
<1> DEFINE n == client.ask
           sel == client.selection
           y == Head(up).symbol
           a == Head(up).ask
           rest == RecoveryEvents(y)
           c == Control(a)
<1>1. /\ conn \in [open : BOOLEAN, subs : SUBSET Instruments] /\ n \in Nat \ {0}
      /\ up \in Seq(MessageType) /\ Head(up) \in MessageType /\ y \in Instruments /\ a \in Nat \ {0}
      /\ down \in Seq(Envelopes) /\ sel \in Instruments /\ market[y] \in MarketType
      /\ DeliveryTypeOK
  <2>1. up \in Seq(MessageType) /\ Head(up) \in MessageType
    BY DEF DeliveryInv, DeliveryTypeOK
  <2> QED BY <2>1 DEF ClientType, DeliveryInv, DeliveryTypeOK, MessageType
<1>2. conn' \in [open : BOOLEAN, subs : SUBSET Instruments] /\ conn'.open
      /\ conn'.subs = conn.subs \cup {y}
  BY <1>1
<1>3. ~Heard(down, Done, n)
  <2>1. 1 \in 1 .. Len(up) /\ up[1] = Head(up)
    BY <1>1
  <2> QED BY <2>1 DEF DeliveryInv, Conversation
<1>4. /\ c \in Whole /\ c.ask = a /\ c \in ControlEnvelope
  BY <1>1 DEF Control, Whole, ControlEnvelope
<1>5. /\ rest \in Seq(Whole) /\ \A i \in 1 .. Len(rest) : rest[i].ask = 0
  BY <1>1, RecoveryShape
<1>6. down' = down \o (<<c>> \o rest)
      /\ UNCHANGED <<market, client, view, fetching, answer, gaps, faults, switches>>
  BY DEF Reply, bounds
<1>7. \A x \in conn'.subs \ {sel} :
        /\ x \in conn.subs \/ (Head(up).kind = "subscribe" /\ Head(up).symbol = x)
        /\ ~(Head(up).kind = "unsubscribe" /\ Head(up).symbol = x)
  BY <1>2
<1>8. /\ Tail(up) \in Seq(MessageType) /\ Asked(Tail(up), conn'.subs, sel, n) /\ a <= n
      /\ a = n => y = sel /\ \A i \in 1 .. Len(Tail(up)) : Tail(up)[i].kind = "request_snapshot"
  <2>1. Asked(up, conn.subs, sel, n)
    BY DEF DeliveryInv, Conversation
  <2>2. Asked(Tail(up), conn.subs \cup {y}, sel, n)
    <3> HIDE DEF n, sel
    <3> QED BY <1>1, <2>1, SubscribeAsked
  <2>3. /\ Tail(up) \in Seq(MessageType) /\ Head(up).ask <= n
        /\ Head(up).ask = n =>
             /\ Head(up).symbol = sel
             /\ \A i \in 1 .. Len(Tail(up)) : Tail(up)[i].kind = "request_snapshot"
    <3> HIDE DEF n, sel
    <3> QED BY <1>1, <2>1, HeadAsked
  <2> QED BY <1>2, <2>2, <2>3
<1> HIDE DEF c, rest
<1>9. <<c>> \o rest \in Seq(Whole)
      /\ \A i \in 1 .. Len(<<c>> \o rest) : (<<c>> \o rest)[i].ask \in {0, a}
  <2>1. <<c>> \in Seq(Whole) /\ Len(<<c>>) = 1 /\ Len(rest) \in Nat
    BY <1>4, <1>5
  <2>2. <<c>> \o rest \in Seq(Whole) /\ Len(<<c>> \o rest) = 1 + Len(rest)
    BY <1>5, <2>1
  <2>3. ASSUME NEW i \in 1 .. Len(<<c>> \o rest) PROVE (<<c>> \o rest)[i].ask \in {0, a}
    <3>1. CASE i = 1
      <4>1. (<<c>> \o rest)[i] = c
        BY <1>5, <2>1, <3>1
      <4> QED BY <1>4, <4>1
    <3>2. CASE i # 1
      <4>1. i - 1 \in 1 .. Len(rest) /\ (<<c>> \o rest)[i] = rest[i - 1]
        BY <1>5, <2>1, <2>2, <3>2
      <4> QED BY <1>5, <4>1
    <3> QED BY <3>1, <3>2
  <2> QED BY <2>2, <2>3
<1>10. CASE a # n
  <2> DEFINE events == <<c>> \o rest
  <2>1. events \in Seq(Whole) /\ down' = down \o events
    BY <1>6, <1>9
  <2>2. \A i \in 1 .. Len(events) : events[i].ask < n
    <3>1. 0 < n /\ a < n
      BY <1>1, <1>8, <1>10
    <3> QED BY <1>9, <3>1
  <2> HIDE DEF events
  <2> QED BY <1>2, <1>3, <1>6, <1>7, <2>1, <2>2, ServedUnheard
<1>11. CASE a = n
  <2> DEFINE st == Said("status", sel, market[sel])
             sn == Said("snapshot", sel, market[sel])
             q == Append(down, c)
  <2>1. /\ market[sel] \in MarketType
        /\ \/ market[sel].valid /\ rest = <<sn, st>> /\ sn \in Whole
           \/ ~market[sel].valid /\ rest = <<st>>
        /\ st \in Whole
    BY <1>1, <1>8, <1>11, RecoveryShape DEF rest
  <2>2. /\ Tells(st) = market[sel] /\ st.image.symbol = sel /\ st.kind = "status" /\ st.ask = 0
        /\ ~st.again /\ st.valid = market[sel].valid /\ Fresh(st) /\ ~Breaks(st)
    <3> HIDE DEF sel
    <3> QED BY <1>1, <2>1, StatusSays DEF Breaks
  <2>3. market[sel].valid =>
        /\ Tells(sn) = market[sel] /\ sn.image.symbol = sel /\ sn.kind = "snapshot" /\ sn.ask = 0
        /\ ~sn.again /\ Fresh(sn)
    <3> HIDE DEF sel
    <3> QED BY <1>1, <2>1, SnapshotSays
  <2> HIDE DEF sn, st
  <2>4. \A k \in 1 .. Len(down) : down[k].ask < n
    <3>1. \A k \in 1 .. Len(down) : down[k].ask <= n /\ down[k].ask \in Nat
      BY <1>1, EnvelopeShape DEF DeliveryInv, InOrder, Stream
    <3>2. \A k \in 1 .. Len(down) : down[k].ask # n
      BY <1>3 DEF Heard
    <3> QED BY <1>1, <3>1, <3>2
  <2>5. Whole \subseteq Envelopes
    BY DEF Whole, Envelopes
  <2>6. q \in Seq(Envelopes)
    BY <1>1, <1>4, <2>5
  <2> HIDE DEF q
  <2>7. Stream(down', FALSE, n, sel, TRUE, market[sel]) /\ down' \in Seq(Envelopes)
    <3>1. CASE market[sel].valid
      <4>1. down' = Append(Append(q, sn), st)
        <5>1. rest = <<sn, st>>
          BY <2>1, <3>1
        <5> QED BY <1>1, <1>4, <1>6, <2>1, <2>5, <3>1, <5>1 DEF q
      <4> DEFINE p == Append(q, sn)
      <4>2. Stream(p, FALSE, n, sel, TRUE, market[sel])
        <5>1. StateOf(sn) /\ sn \in Envelopes
          BY <2>1, <2>3, <2>5, <3>1 DEF StateOf
        <5> QED BY <1>1, <1>4, <1>11, <2>3, <2>4, <3>1, <5>1, StreamStarts DEF q
      <4>3. p \in Seq(Envelopes)
        BY <2>1, <2>5, <2>6, <3>1
      <4> HIDE DEF p
      <4>4. Stream(Append(p, st), FALSE, n, sel, TRUE, market[sel])
        <5>1. st \in Envelopes
          BY <2>1, <2>5
        <5> HIDE DEF n, sel
        <5> QED BY <1>1, <2>2, <4>2, <4>3, <5>1, StreamGrows
      <4>5. Append(p, st) \in Seq(Envelopes)
        BY <2>1, <2>5, <4>3
      <4> QED BY <4>1, <4>4, <4>5 DEF p
    <3>2. CASE ~market[sel].valid
      <4>1. down' = Append(q, st)
        <5>1. rest = <<st>>
          BY <2>1, <3>2
        <5> QED BY <1>1, <1>4, <1>6, <2>1, <2>5, <5>1 DEF q
      <4>2. StateOf(st) /\ st \in Envelopes
        BY <2>1, <2>2, <2>5, <3>2 DEF StateOf
      <4>3. Stream(Append(q, st), FALSE, n, sel, TRUE, market[sel])
        BY <1>1, <1>4, <1>11, <2>2, <2>4, <4>2, StreamStarts DEF q
      <4>4. Append(q, st) \in Seq(Envelopes)
        BY <2>6, <4>2
      <4> QED BY <4>1, <4>3, <4>4
    <3> QED BY <3>1, <3>2
  <2>8. answer = "asked" /\ Done' = FALSE
    BY <1>3, <1>6 DEF Heard, Done
  <2>9. DeliveryTypeOK'
    BY <1>1, <1>2, <1>6, <1>8, <2>7 DEF DeliveryTypeOK, bounds
  <2>10. LossesCounted'
    BY <1>6, <1>9, LossesOf
  <2>11. Offline'
    BY <1>2, <1>6 DEF DeliveryInv, Offline
  <2>12. On' /\ On' = TRUE /\ Here' = market[sel]
    BY <1>2, <1>6, <1>8, <1>11 DEF On, Here
  <2>13. Conversation'
    <3>1. conn'.subs \subseteq {sel}
      <4> SUFFICES ASSUME NEW x \in conn'.subs, x # sel PROVE FALSE
        OBVIOUS
      <4>1. Leaves(Tail(up), conn'.subs, x)
        BY <1>2, <1>8 DEF Asked
      <4> QED BY <1>8, <1>11, <4>1 DEF Leaves
    <3> QED BY <1>6, <1>8, <1>11, <3>1 DEF Conversation
  <2>14. InOrder'
    BY <1>6, <2>7, <2>8, <2>12 DEF InOrder
  <2>15. Follows' /\ Current'
    BY <1>6, <2>8 DEF Follows, Current
  <2> QED BY <2>9, <2>10, <2>11, <2>13, <2>14, <2>15 DEF DeliveryInv
<1> QED BY <1>10, <1>11

LEMMA SnapshotRequestKeeps ==
  ASSUME DeliveryInv, conn.open, up # <<>>, up' = Tail(up), Head(up).kind = "request_snapshot",
         Reply(FlattenSeq([i \in 1 .. Cardinality(conn.subs) |->
                             RecoveryEvents(SetToSeq(conn.subs)[i])])),
         UNCHANGED <<market, conn, client, view, fetching, answer, gaps, bounds>>
  PROVE  DeliveryInv'
<1> DEFINE n == client.ask
           sel == client.selection
           Plain == {e \in Whole : e.ask = 0}
           events == FlattenSeq([i \in 1 .. Cardinality(conn.subs) |->
                                   RecoveryEvents(SetToSeq(conn.subs)[i])])
<1>1. /\ conn \in [open : BOOLEAN, subs : SUBSET Instruments] /\ n \in Nat \ {0}
      /\ up \in Seq(MessageType) /\ down \in Seq(Envelopes) /\ sel \in Instruments
      /\ market \in [Instruments -> MarketType] /\ faults \in 0 .. MaxFaults /\ DeliveryTypeOK
  BY DEF ClientType, DeliveryInv, DeliveryTypeOK
<1>2. events \in Seq(Plain)
      /\ (conn.subs \subseteq {sel} =>
            events = <<>> \/ (sel \in conn.subs /\ events = RecoveryEvents(sel)))
  BY <1>1, SubscriptionsEvents
<1>3. down' = down \o events
      /\ UNCHANGED <<market, conn, client, view, fetching, answer, gaps, faults, switches>>
  BY DEF Reply, bounds
<1> HIDE DEF events
<1>4. CASE ~Heard(down, Done, n)
  <2>1. events \in Seq(Whole) /\ \A i \in 1 .. Len(events) : events[i].ask < client.ask
    BY <1>1, <1>2
  <2> QED BY <1>1, <1>3, <1>4, <2>1, ServedUnheard
<1>5. CASE Heard(down, Done, n)
  <2>1. events = <<>> \/ (sel \in conn.subs /\ events = RecoveryEvents(sel))
    BY <1>2, <1>5 DEF DeliveryInv, Conversation
  <2>2. Grown(sel, down, sel \in conn.subs, market[sel])
    BY NothingGrown
  <2>3. Grown(sel, down', sel \in conn.subs, market[sel])
    <3>1. CASE events = <<>>
      <4>1. down' = down
        BY <1>1, <1>3, <3>1
      <4> QED BY <2>2, <4>1
    <3>2. CASE sel \in conn.subs /\ events = RecoveryEvents(sel)
      <4> DEFINE st == Said("status", sel, market[sel])
                 sn == Said("snapshot", sel, market[sel])
      <4>1. /\ market[sel] \in MarketType
            /\ \/ market[sel].valid /\ events = <<sn, st>> /\ sn \in Whole
               \/ ~market[sel].valid /\ events = <<st>>
            /\ st \in Whole
        BY <1>1, <3>2, RecoveryShape
      <4>2. Tells(st) = market[sel] /\ st.image.symbol = sel /\ st.ask = 0
        <5> HIDE DEF sel
        <5> QED BY <1>1, <4>1, StatusSays
      <4>3. market[sel].valid => Tells(sn) = market[sel] /\ sn.image.symbol = sel /\ sn.ask = 0
        <5> HIDE DEF sel
        <5> QED BY <1>1, <4>1, SnapshotSays
      <4>4. Whole \subseteq Envelopes
        BY DEF Whole, Envelopes
      <4> HIDE DEF sn, st, sel
      <4>5. CASE market[sel].valid
        <5>1. Grown(sel, Append(down, sn), sel \in conn.subs, market[sel])
          BY <1>1, <2>2, <3>2, <4>1, <4>3, <4>5, GrownBy
        <5>2. Grown(sel, Append(Append(down, sn), st), sel \in conn.subs, market[sel])
          BY <1>1, <3>2, <4>1, <4>2, <5>1, GrownBy
        <5>3. down' = Append(Append(down, sn), st)
          <6>1. events = <<sn, st>>
            BY <4>1, <4>5
          <6> QED BY <1>1, <1>3, <4>1, <4>4, <4>5, <6>1
        <5> QED BY <5>2, <5>3
      <4>6. CASE ~market[sel].valid
        <5>1. Grown(sel, Append(down, st), sel \in conn.subs, market[sel])
          BY <1>1, <2>2, <3>2, <4>1, <4>2, GrownBy
        <5>2. down' = Append(down, st)
          <6>1. events = <<st>>
            BY <4>1, <4>6
          <6> QED BY <1>1, <1>3, <4>1, <4>4, <6>1
        <5> QED BY <5>1, <5>2
      <4> QED BY <4>5, <4>6
    <3> QED BY <2>1, <3>1, <3>2
  <2>4. ~conn.open => conn.subs = {}
    BY DEF DeliveryInv, Offline
  <2>5. Answered
    BY DEF Answered
  <2>6. faults' \in 0 .. MaxFaults /\ faults <= faults' /\ conn' = conn /\ market' = market
    BY <1>1, <1>3
  <2>7. Grown(sel, down', sel \in conn'.subs, market'[sel])
    BY <2>3, <2>6
  <2> QED BY <1>1, <1>3, <2>4, <2>5, <2>6, <2>7, GrownKeeps
<1> QED BY <1>4, <1>5

LEMMA HandleClientMessageKeeps ==
  ASSUME DeliveryInv, HandleClientMessage PROVE DeliveryInv'
<1>1. conn.open /\ up # <<>> /\ up' = Tail(up)
      /\ UNCHANGED <<market, client, view, fetching, answer, gaps, bounds>>
  BY DEF HandleClientMessage
<1>2. CASE /\ Head(up).kind = "subscribe"
           /\ conn' = [conn EXCEPT !.subs = @ \cup {Head(up).symbol}]
           /\ Reply(<<Control(Head(up).ask)>> \o RecoveryEvents(Head(up).symbol))
  BY <1>1, <1>2, SubscribeKeeps
<1>3. CASE /\ Head(up).kind = "unsubscribe"
           /\ conn' = [conn EXCEPT !.subs = WithoutSubscription(Head(up).symbol)]
           /\ Reply(<<Control(0)>>)
  BY <1>1, <1>3, UnsubscribeKeeps
<1>4. CASE /\ Head(up).kind = "request_snapshot"
           /\ Reply(FlattenSeq([i \in 1 .. Cardinality(conn.subs) |->
                                  RecoveryEvents(SetToSeq(conn.subs)[i])]))
           /\ UNCHANGED conn
  BY <1>1, <1>4, SnapshotRequestKeeps
<1> QED BY <1>2, <1>3, <1>4 DEF HandleClientMessage

LEMMA ReceivingShape ==
  ASSUME DeliveryInv, NEW e, Receiving(e)
  PROVE  /\ down \in Seq(Envelopes) /\ down # <<>> /\ down' = Tail(down) /\ e = down[1]
         /\ e = Head(down) /\ e \in Envelopes /\ Tail(down) \in Seq(Envelopes)
         /\ client \in ClientType /\ view \in ViewType /\ client.socket = "open" /\ ~view.replay
         /\ client.ask \in Nat \ {0} /\ client.selection \in Instruments
         /\ UNCHANGED <<market, conn, fetching, faults, switches>>
<1>1. down \in Seq(Envelopes) /\ down # <<>>
  BY DEF DeliveryInv, DeliveryTypeOK, Receiving
<1>2. down[1] = Head(down) /\ Head(down) \in Envelopes /\ Tail(down) \in Seq(Envelopes)
  BY <1>1, TailShape
<1>3. /\ client \in ClientType /\ view \in ViewType
      /\ client.ask \in Nat \ {0} /\ client.selection \in Instruments
  BY DEF DeliveryInv, DeliveryTypeOK, ClientType
<1> QED BY <1>1, <1>2, <1>3, Typed DEF Receiving, bounds

(* What every receipt keeps: types, losses and the conversation. *)
LEMMA ReceivedShared ==
  ASSUME DeliveryInv, NEW e, Receiving(e), Requests,
         client' \in ClientType, view' \in ViewType, ~view'.replay,
         client'.selection = client.selection, client'.ask = client.ask,
         client'.socket = client.socket,
         answer' \in {"asked", "answered", "settled"},
         answer' # "asked" => Done \/ e.ask = client.ask,
         gaps' \in Nat,
         gaps' + (IF client'.missing THEN 1 ELSE 0)
           <= gaps + HolesAhead + (IF client.missing THEN 1 ELSE 0)
  PROVE  DeliveryTypeOK' /\ LossesCounted' /\ Offline' /\ Conversation' /\ InOrder'
<1> DEFINE n == client.ask
           sel == client.selection
<1>1. /\ down \in Seq(Envelopes) /\ down # <<>> /\ down' = Tail(down) /\ e = down[1]
      /\ Tail(down) \in Seq(Envelopes) /\ client.socket = "open"
      /\ n \in Nat \ {0} /\ sel \in Instruments
      /\ UNCHANGED <<market, conn, fetching, faults, switches>>
  BY ReceivingShape
<1>2. /\ Len(down) \in Nat \ {0} /\ Len(Tail(down)) = Len(down) - 1
      /\ \A k \in 1 .. Len(down) - 1 : Tail(down)[k] = down[k + 1]
  BY <1>1, TailShape
<1>3. /\ up' \in Seq(MessageType) /\ Asked(up', conn.subs, sel, n)
      /\ (\A i \in 1 .. Len(up) : up[i].kind = "request_snapshot") =>
           \A i \in 1 .. Len(up') : up'[i].kind = "request_snapshot"
  <2>1. up \in Seq(MessageType) /\ Asked(up, conn.subs, sel, n)
    BY DEF DeliveryInv, DeliveryTypeOK, Conversation
  <2>2. up' = up \/ up' = Append(up, Request(sel))
    BY DEF Requests
  <2> HIDE DEF sel, n
  <2>3. /\ Append(up, Request(sel)) \in Seq(MessageType)
        /\ Asked(Append(up, Request(sel)), conn.subs, sel, n)
        /\ (\A i \in 1 .. Len(up) : up[i].kind = "request_snapshot") =>
             \A i \in 1 .. Len(Append(up, Request(sel))) :
               Append(up, Request(sel))[i].kind = "request_snapshot"
    BY <1>1, <2>1, RequestAsksNothing
  <2>4. CASE up' = up
    BY <2>1, <2>4
  <2>5. CASE up' = Append(up, Request(sel))
    BY <2>3, <2>5
  <2> QED BY <2>2, <2>4, <2>5
<1>4. DeliveryTypeOK'
  BY <1>1, <1>3 DEF DeliveryInv, DeliveryTypeOK
<1>5. LossesCounted'
  <2>1. ASSUME NEW i \in 1 .. Len(down') PROVE down'[i].kind # "hole"
    <3>1. i \in 1 .. Len(down) - 1 /\ i + 1 \in 2 .. Len(down)
      BY <1>1, <1>2
    <3> QED BY <1>1, <1>2, <3>1 DEF DeliveryInv, LossesCounted
  <2>2. HolesAhead' = 0
    <3>1. down' # <<>> => 1 \in 1 .. Len(down') /\ Head(down') = down'[1]
      BY <1>1
    <3> QED BY <2>1, <3>1 DEF HolesAhead
  <2>3. \A i \in 2 .. Len(down') : down'[i].kind # "hole"
    <3>1. \A i \in 2 .. Len(down') : i \in 1 .. Len(down')
      BY <1>1
    <3> QED BY <2>1, <3>1
  <2>4. gaps' + HolesAhead' + (IF client'.missing THEN 1 ELSE 0) <= faults'
    <3> DEFINE b == IF client.missing THEN 1 ELSE 0
    <3>1. PICK c : c = IF client'.missing THEN 1 ELSE 0
      OBVIOUS
    <3>2. /\ gaps \in Nat /\ faults \in Nat /\ HolesAhead \in Nat /\ gaps + b + HolesAhead <= faults
          /\ b \in Nat
      BY LossesTyped
    <3>3. gaps' + c <= gaps + HolesAhead + b /\ c \in Nat
      BY <3>1
    <3> HIDE DEF b
    <3>4. \A g, h, i, x, f, k \in Nat : g + x + h <= f /\ i + k <= g + h + x => i + 0 + k <= f
      OBVIOUS
    <3>5. gaps' + 0 + c <= faults
      BY <3>2, <3>3, <3>4
    <3> QED BY <1>1, <2>2, <3>1, <3>5
  <2> QED BY <2>3, <2>4 DEF LossesCounted
<1>6. Offline'
  BY <1>1 DEF DeliveryInv, Offline
<1>7. Done \in BOOLEAN /\ Done' \in BOOLEAN /\ (Done' => Done \/ down[1].ask = n)
  BY <1>1 DEF Done
<1>8. 0 \in 0 .. Len(down) - 1
  BY <1>2
<1>9. Heard(down', Done', n) => Heard(down, Done, n)
  <2>1. CASE Done'
    <3>1. 1 \in 1 .. Len(down)
      BY <1>2
    <3> QED BY <1>7, <2>1, <3>1 DEF Heard
  <2>2. ASSUME NEW j \in 1 .. Len(Tail(down)), Tail(down)[j].ask = n
        PROVE  Heard(down, Done, n)
    <3>1. j + 1 \in 1 .. Len(down) /\ Tail(down)[j] = down[j + 1]
      BY <1>2
    <3> QED BY <2>2, <3>1 DEF Heard
  <2> QED BY <1>1, <2>1, <2>2 DEF Heard
<1>10. Conversation'
  BY <1>1, <1>3, <1>9 DEF DeliveryInv, Conversation
<1>11. InOrder'
  <2> PICK d \in BOOLEAN : d = Done'
    BY <1>7
  <2>1. Stream(down, Done, n, sel, On, Here)
    BY DEF DeliveryInv, InOrder
  <2>2. Stream(Tail(down), d, n, sel, On, Here)
    <3> HIDE DEF n, sel
    <3> QED BY <1>1, <1>7, <2>1, StreamOn
  <2> QED BY <1>1, <2>2 DEF InOrder, On, Here
<1> QED BY <1>4, <1>5, <1>6, <1>10, <1>11

(* What the page leads up to, behind the envelope it receives. *)
LEMMA AheadOn ==
  ASSUME DeliveryInv, NEW e, Receiving(e), ~Breaks(e), NEW m, Ahead(m),
         client'.selection = client.selection, client'.ask = client.ask
  PROVE  Ahead(m)' /\ (Fresh(e) => Tells(e) = m)
<1>1. /\ down \in Seq(Envelopes) /\ down # <<>> /\ down' = Tail(down) /\ e = Head(down)
      /\ client.ask \in Nat \ {0} /\ UNCHANGED <<market, conn>>
  BY ReceivingShape
<1>2. /\ Leads(Tail(down), TRUE, client.ask, 0, On, Here, m)
      /\ Fresh(Head(down)) => Tells(Head(down)) = m
  BY <1>1, LeadsPastHead DEF Ahead
<1> QED BY <1>1, <1>2 DEF Ahead, On, Here

(* What the head tells is what follows it tells. *)
LEMMA AheadOfHead ==
  ASSUME DeliveryInv, NEW e, Receiving(e), Fresh(e), Done,
         client'.selection = client.selection, client'.ask = client.ask
  PROVE  e.image.symbol = client.selection /\ Ahead(Tells(e))' /\ Tells(e) \in States
         /\ e.image = [symbol |-> client.selection, session |-> e.image.session]
<1>1. /\ down \in Seq(Envelopes) /\ down # <<>> /\ down' = Tail(down) /\ e = down[1]
      /\ client.ask \in Nat \ {0} /\ UNCHANGED <<market, conn>> /\ e \in Envelopes
  BY ReceivingShape
<1>2. 1 \in 1 .. Len(down) /\ 0 \in 0 .. Len(down) - 1 /\ 0 + 1 = 1
  BY <1>1, TailShape
<1>3. e.image.symbol = client.selection
      /\ Leads(down, Done, client.ask, 1, On, Here, Tells(e))
  BY <1>1, <1>2 DEF DeliveryInv, InOrder, Stream, After
<1>4. Done = TRUE /\ Done \in BOOLEAN
  BY DEF Done
<1>5. Leads(Tail(down), TRUE, client.ask, 0, On, Here, Tells(e))
  BY <1>1, <1>2, <1>3, <1>4, LeadsOn
<1>6. e \in MarketEnvelope
  BY <1>1, EnvelopeShape
<1>7. Tells(e) \in States
  BY <1>6 DEF Tells, States, MarketEnvelope, Image
<1>8. e.image = [symbol |-> client.selection, session |-> e.image.session]
  BY <1>3, <1>6 DEF MarketEnvelope, Image
<1> QED BY <1>1, <1>3, <1>5, <1>7, <1>8 DEF Ahead, On, Here

-----------------------------------------------------------------------------
(* The branches of ingest(). *)

(* With or without the cooldown, only the request and two flags change. *)
LEMMA RequestedShape ==
  ASSUME DeliveryInv, client.socket = "open", NEW c \in ClientType,
         c.selection = client.selection, RequestUnlessCooling(c)
  PROVE  /\ Requests /\ client' \in ClientType
         /\ client'.selection = c.selection /\ client'.ask = c.ask /\ client'.socket = c.socket
         /\ client'.awaiting = c.awaiting /\ client'.snapshotReceived = c.snapshotReceived
         /\ client'.positioned = c.positioned /\ client'.missing = c.missing
<1>1. CASE c.cooldown
  <2>1. client' = [c EXCEPT !.muted = TRUE] /\ up' = up
    BY <1>1 DEF RequestUnlessCooling
  <2>2. /\ client' \in ClientType
        /\ client'.selection = c.selection /\ client'.ask = c.ask /\ client'.socket = c.socket
        /\ client'.awaiting = c.awaiting /\ client'.snapshotReceived = c.snapshotReceived
        /\ client'.positioned = c.positioned /\ client'.missing = c.missing
    BY <2>1 DEF ClientType
  <2> QED BY <2>1, <2>2 DEF Requests
<1>2. CASE ~c.cooldown
  <2>1. client' = [c EXCEPT !.cooldown = TRUE] /\ Send(<<Request(client.selection)>>)
    BY <1>2 DEF RequestUnlessCooling, Request
  <2>2. /\ client' \in ClientType
        /\ client'.selection = c.selection /\ client'.ask = c.ask /\ client'.socket = c.socket
        /\ client'.awaiting = c.awaiting /\ client'.snapshotReceived = c.snapshotReceived
        /\ client'.positioned = c.positioned /\ client'.missing = c.missing
    BY <2>1 DEF ClientType
  <2>3. Requests
    BY <2>1, SentOpen
  <2> QED BY <2>2, <2>3
<1> QED BY <1>1, <1>2

LEMMA PositionedShape ==
  ASSUME client \in ClientType
  PROVE  /\ Positioned \in ClientType /\ Positioned.positioned /\ ~Positioned.missing
         /\ Positioned.selection = client.selection /\ Positioned.ask = client.ask
         /\ Positioned.socket = client.socket /\ Positioned.awaiting = client.awaiting
         /\ Positioned.snapshotReceived = client.snapshotReceived
         /\ Positioned.stale = client.stale
BY DEF Positioned, ClientType

LEMMA SkipKeeps ==
  ASSUME DeliveryInv, NEW e, Skip(e) PROVE DeliveryInv'
<1>1. /\ Receiving(e) /\ e.kind = "hole" /\ UNCHANGED <<up, view, answer, gaps>>
  BY DEF Skip
<1>2. /\ client \in ClientType /\ view \in ViewType /\ ~view.replay /\ e = Head(down)
      /\ down # <<>>
  BY <1>1, ReceivingShape
<1>3. /\ client' \in ClientType /\ client'.missing /\ client'.selection = client.selection
      /\ client'.ask = client.ask /\ client'.socket = client.socket
      /\ client'.positioned = client.positioned
  BY <1>2 DEF Skip, ClientType
<1>4. DeliveryTypeOK' /\ LossesCounted' /\ Offline' /\ Conversation' /\ InOrder'
  <2>1. Requests /\ (answer' # "asked" => Done) /\ answer' \in {"asked", "answered", "settled"}
    BY <1>1 DEF Requests, Done, DeliveryInv, DeliveryTypeOK
  <2>2. HolesAhead = 1
    BY <1>1, <1>2 DEF HolesAhead
  <2>3. gaps \in Nat /\ (IF client.missing THEN 1 ELSE 0) \in {0, 1}
    BY LossesTyped
  <2>4. gaps' + (IF client'.missing THEN 1 ELSE 0)
          <= gaps + HolesAhead + (IF client.missing THEN 1 ELSE 0)
    BY <1>1, <1>3, <2>2, <2>3
  <2>5. gaps' \in Nat /\ view' \in ViewType /\ ~view'.replay
    BY <1>1, <1>2, <2>3
  <2> QED BY <1>1, <1>3, <2>1, <2>4, <2>5, ReceivedShared
<1>5. Follows'
  BY <1>1, <1>3 DEF DeliveryInv, Follows
<1>6. Current'
  BY <1>1, <1>3 DEF DeliveryInv, Current
<1> QED BY <1>4, <1>5, <1>6 DEF DeliveryInv

(* What the page was to show goes on behind an envelope that tells nothing. *)
LEMMA FollowsOn ==
  ASSUME DeliveryInv, NEW e, Receiving(e), ~Breaks(e), ~StateOf(e),
         client'.selection = client.selection, client'.ask = client.ask,
         client'.socket = client.socket, client'.positioned = client.positioned \/ client'.positioned,
         client'.missing = client.missing \/ ~Gapped(e),
         Proved' => Proved,
         view' = view, answer' = answer
  PROVE  Follows' /\ Current'
<1>1. Follows'
  <2> SUFFICES ASSUME client.socket = "open", answer # "asked" PROVE Follows'
    BY DEF Follows
  <2>1. client.positioned /\ client'.positioned
    BY DEF DeliveryInv, Follows
  <2>2. e = Head(down) /\ down # <<>>
    BY ReceivingShape
  <2>3. CASE client.missing
    <3>1. client'.missing
      BY <2>1, <2>3 DEF Gapped
    <3> QED BY <2>1, <3>1 DEF Follows
  <2>4. CASE ~Proved
    BY <2>1, <2>4 DEF Follows
  <2>5. CASE \E m \in States :
               /\ Ahead(m)
               /\ IF m.valid
                  THEN view.newest = [symbol |-> client.selection, session |-> m.session]
                  ELSE answer = "settled" => view.stale
    <3>1. \E m \in States :
            /\ Ahead(m)'
            /\ IF m.valid
               THEN view'.newest = [symbol |-> client'.selection, session |-> m.session]
               ELSE answer' = "settled" => view'.stale
      BY <2>5, AheadOn
    <3> QED BY <2>1, <3>1 DEF Follows
  <2>6. Head(down).kind # "hole"
    BY <2>2 DEF Breaks
  <2> QED BY <2>2, <2>3, <2>4, <2>5, <2>6 DEF DeliveryInv, Follows
<1>2. Current'
  <2> SUFFICES ASSUME client.socket = "open", answer = "settled", ~view.stale,
                      view.status.session # 0
               PROVE  Current'
    BY DEF Current
  <2>1. client.positioned
    BY DEF DeliveryInv, Follows
  <2>2. view.newest = [symbol |-> client.selection, session |-> view.status.session]
    BY DEF DeliveryInv, Current
  <2>3. CASE client.missing
    <3>1. client'.missing
      BY <2>1, <2>3 DEF Gapped
    <3> QED BY <2>2, <3>1 DEF Current
  <2>4. CASE Ahead([session |-> view.status.session, valid |-> TRUE])
    <3>1. PICK m : m = [session |-> view.status.session, valid |-> TRUE]
      OBVIOUS
    <3>2. Ahead(m)'
      BY <2>4, <3>1, AheadOn
    <3> QED BY <2>2, <3>1, <3>2 DEF Current
  <2> QED BY <2>3, <2>4 DEF DeliveryInv, Current
<1> QED BY <1>1, <1>2

LEMMA IgnoreOldKeeps ==
  ASSUME DeliveryInv, NEW e, IgnoreOld(e) PROVE DeliveryInv'
<1>1. /\ Receiving(e) /\ e.again /\ UNCHANGED <<client, up, view, answer, gaps>>
  BY DEF IgnoreOld, Old
<1>2. /\ client \in ClientType /\ view \in ViewType /\ ~view.replay /\ e \in Envelopes
  BY <1>1, ReceivingShape
<1>3. ~Breaks(e) /\ ~StateOf(e)
  BY <1>1, <1>2, EnvelopeShape DEF Breaks, StateOf, Fresh
<1>4. DeliveryTypeOK' /\ LossesCounted' /\ Offline' /\ Conversation' /\ InOrder'
  <2>1. Requests /\ (answer' # "asked" => Done) /\ answer' \in {"asked", "answered", "settled"}
    BY <1>1 DEF Requests, Done, DeliveryInv, DeliveryTypeOK
  <2>2. gaps \in Nat /\ (IF client.missing THEN 1 ELSE 0) \in {0, 1} /\ HolesAhead \in {0, 1}
    BY LossesTyped
  <2>3. gaps' + (IF client'.missing THEN 1 ELSE 0)
          <= gaps + HolesAhead + (IF client.missing THEN 1 ELSE 0)
    BY <1>1, <2>2
  <2>4. gaps' \in Nat /\ view' \in ViewType /\ ~view'.replay /\ client' \in ClientType
    BY <1>1, <1>2, <2>2
  <2> QED BY <1>1, <2>1, <2>3, <2>4, ReceivedShared
<1>5. Follows' /\ Current'
  <2>1. Proved' => Proved
    BY <1>1 DEF Proved
  <2> QED BY <1>1, <1>3, <2>1, FollowsOn
<1> QED BY <1>4, <1>5 DEF DeliveryInv

LEMMA DetectGapKeeps ==
  ASSUME DeliveryInv, NEW e, DetectGap(e) PROVE DeliveryInv'
<1> DEFINE c == [Frozen(client) EXCEPT !.missing = FALSE]
<1>1. /\ Receiving(e) /\ e.kind # "hole" /\ client.positioned /\ client.missing
      /\ gaps' = gaps + 1 /\ answer' = answer /\ view' = Announced(view, FALSE)
      /\ RequestUnlessCooling(c)
  BY DEF DetectGap, Gapped
<1>2. /\ client \in ClientType /\ view \in ViewType /\ ~view.replay /\ client.socket = "open"
      /\ e = Head(down)
  BY <1>1, ReceivingShape
<1>3. /\ c \in ClientType /\ c.positioned = client.positioned /\ ~c.missing
      /\ c.selection = client.selection /\ c.ask = client.ask /\ c.socket = client.socket
      /\ c.awaiting /\ ~c.snapshotReceived
  <2> DEFINE f == Frozen(client)
  <2>1. /\ f \in ClientType /\ f.positioned = client.positioned
        /\ f.selection = client.selection /\ f.ask = client.ask /\ f.socket = client.socket
        /\ f.awaiting /\ ~f.snapshotReceived
    BY <1>2, FrozenShape
  <2>2. c = [f EXCEPT !.missing = FALSE]
    OBVIOUS
  <2> HIDE DEF f, c
  <2> QED BY <2>1, <2>2 DEF ClientType
<1> HIDE DEF c
<1>4. /\ Requests /\ client' \in ClientType
      /\ client'.selection = c.selection /\ client'.ask = c.ask /\ client'.socket = c.socket
      /\ client'.awaiting = c.awaiting /\ client'.snapshotReceived = c.snapshotReceived
      /\ client'.positioned = c.positioned /\ client'.missing = c.missing
  BY <1>1, <1>2, <1>3, RequestedShape
<1>5. view' \in ViewType /\ ~view'.replay /\ view'.stale
  BY <1>1, <1>2, AnnouncedShape
<1>6. DeliveryTypeOK' /\ LossesCounted' /\ Offline' /\ Conversation' /\ InOrder'
  <2>1. (answer' # "asked" => Done) /\ answer' \in {"asked", "answered", "settled"}
    BY <1>1 DEF Done, DeliveryInv, DeliveryTypeOK
  <2>2. gaps \in Nat /\ HolesAhead \in {0, 1}
    BY LossesTyped
  <2>3. gaps' + (IF client'.missing THEN 1 ELSE 0)
          <= gaps + HolesAhead + (IF client.missing THEN 1 ELSE 0)
    BY <1>1, <1>3, <1>4, <2>2
  <2>4. gaps' \in Nat
    BY <1>1, <2>2
  <2> QED BY <1>1, <1>3, <1>4, <1>5, <2>1, <2>3, <2>4, ReceivedShared
<1>7. Follows'
  BY <1>1, <1>3, <1>4 DEF Follows, Proved
<1>8. Current'
  BY <1>5 DEF Current
<1> QED BY <1>6, <1>7, <1>8 DEF DeliveryInv

LEMMA AcceptingShape ==
  ASSUME DeliveryInv, NEW e, NEW kind, Accepting(e, kind)
  PROVE  /\ Receiving(e) /\ e.kind = kind /\ ~e.again /\ ~Gapped(e) /\ gaps' = gaps
         /\ gaps' \in Nat
         /\ ~client'.missing =>
              gaps' + (IF client'.missing THEN 1 ELSE 0)
                <= gaps + HolesAhead + (IF client.missing THEN 1 ELSE 0)
<1>1. Receiving(e) /\ e.kind = kind /\ ~e.again /\ ~Gapped(e) /\ gaps' = gaps
  BY DEF Accepting, Old
<1>2. gaps \in Nat /\ (IF client.missing THEN 1 ELSE 0) \in {0, 1} /\ HolesAhead \in {0, 1}
  BY LossesTyped
<1>3. ASSUME ~client'.missing
      PROVE  gaps' + (IF client'.missing THEN 1 ELSE 0)
               <= gaps + HolesAhead + (IF client.missing THEN 1 ELSE 0)
  BY <1>1, <1>2, <1>3
<1> QED BY <1>1, <1>2, <1>3

LEMMA AcceptControlKeeps ==
  ASSUME DeliveryInv, NEW e, AcceptControl(e) PROVE DeliveryInv'
<1>1. /\ Accepting(e, "control") /\ client' = Positioned /\ UNCHANGED <<up, view>>
      /\ answer' = IF e.ask = client.ask THEN "answered" ELSE answer
  BY DEF AcceptControl
<1>2. /\ Receiving(e) /\ e.kind = "control" /\ ~e.again /\ ~Gapped(e) /\ gaps' = gaps
  BY <1>1, AcceptingShape
<1>3. /\ down \in Seq(Envelopes) /\ down # <<>> /\ down' = Tail(down) /\ e = down[1]
      /\ client \in ClientType /\ view \in ViewType /\ ~view.replay /\ e \in Envelopes
  BY <1>2, ReceivingShape
<1>4. /\ client' \in ClientType /\ client'.positioned /\ ~client'.missing
      /\ client'.selection = client.selection /\ client'.ask = client.ask
      /\ client'.socket = client.socket /\ client'.awaiting = client.awaiting
      /\ client'.snapshotReceived = client.snapshotReceived
  BY <1>1, <1>3, PositionedShape
<1>5. DeliveryTypeOK' /\ LossesCounted' /\ Offline' /\ Conversation' /\ InOrder'
  <2>1. Requests /\ (answer' # "asked" => Done \/ e.ask = client.ask)
        /\ answer' \in {"asked", "answered", "settled"}
    BY <1>1 DEF Requests, Done, DeliveryInv, DeliveryTypeOK
  <2>2. view' \in ViewType /\ ~view'.replay
    BY <1>1, <1>3
  <2> QED BY <1>1, <1>2, <1>4, <2>1, <2>2, AcceptingShape, ReceivedShared
<1>6. CASE e.ask # client.ask
  <2>1. ~Breaks(e) /\ ~StateOf(e)
    BY <1>2 DEF Breaks, StateOf
  <2>2. (Proved' => Proved) /\ view' = view /\ answer' = answer
    BY <1>1, <1>4, <1>6 DEF Proved
  <2>3. Follows' /\ Current'
    BY <1>2, <1>4, <2>1, <2>2, FollowsOn
  <2> QED BY <1>5, <2>3 DEF DeliveryInv
<1>7. CASE e.ask = client.ask
  <2>1. answer' = "answered"
    BY <1>1, <1>7
  <2>2. 1 \in 1 .. Len(down)
    BY <1>3
  <2>3. 1 < Len(down) /\ StateOf(down[2])
    <3>1. 1 + 1 = 2
      OBVIOUS
    <3> QED BY <1>3, <1>7, <2>2, <3>1 DEF DeliveryInv, InOrder, Stream
  <2>4. down' # <<>> /\ Head(down') = down[2]
    BY <1>3, <2>3
  <2>5. Follows'
    BY <1>4, <2>1, <2>3, <2>4 DEF Follows
  <2>6. Current'
    BY <2>1 DEF Current
  <2> QED BY <1>5, <2>5, <2>6 DEF DeliveryInv
<1> QED BY <1>6, <1>7

LEMMA AcceptResetKeeps ==
  ASSUME DeliveryInv, NEW e, AcceptReset(e) PROVE DeliveryInv'
<1>1. /\ Accepting(e, "market_reset") /\ client' = Frozen(Positioned)
      /\ view' = Restarted(view, e.image.session) /\ UNCHANGED <<up, answer>>
  BY DEF AcceptReset
<1>2. /\ Receiving(e) /\ e.kind = "market_reset" /\ ~e.again /\ ~Gapped(e) /\ gaps' = gaps
  BY <1>1, AcceptingShape
<1>3. /\ client \in ClientType /\ view \in ViewType /\ ~view.replay /\ e \in Envelopes
  BY <1>2, ReceivingShape
<1>4. /\ client' \in ClientType /\ client'.positioned /\ ~client'.missing
      /\ client'.selection = client.selection /\ client'.ask = client.ask
      /\ client'.socket = client.socket /\ client'.awaiting /\ ~client'.snapshotReceived
  BY <1>1, <1>3, PositionedShape, FrozenShape
<1>5. view' \in ViewType /\ ~view'.replay /\ view'.stale
  <2>1. Fresh(e)
    BY <1>2 DEF Fresh, Kinds
  <2>2. e.image.session \in 0 .. MaxMarketSessions
    BY <1>3, <2>1, EnvelopeShape, DeliveryAssumption DEF MarketEnvelope, Image
  <2>3. Cleared(view) \in ViewType /\ ~Cleared(view).replay
    BY <1>3, ClearedShape
  <2> PICK v \in ViewType : v = Cleared(view)
    BY <2>3
  <2>4. view' = Told(v, FALSE, e.image.session) /\ ~v.replay
    BY <1>1, <2>3 DEF Restarted
  <2>5. /\ Told(v, FALSE, e.image.session) \in ViewType
        /\ Told(v, FALSE, e.image.session).replay = v.replay
        /\ (Told(v, FALSE, e.image.session).stale <=> ~FALSE)
    BY <2>2, ToldShape
  <2> QED BY <2>4, <2>5
<1>6. DeliveryTypeOK' /\ LossesCounted' /\ Offline' /\ Conversation' /\ InOrder'
  <2>1. Requests /\ (answer' # "asked" => Done) /\ answer' \in {"asked", "answered", "settled"}
    BY <1>1 DEF Requests, Done, DeliveryInv, DeliveryTypeOK
  <2> QED BY <1>1, <1>2, <1>4, <1>5, <2>1, AcceptingShape, ReceivedShared
<1>7. Follows'
  BY <1>4 DEF Follows, Proved
<1>8. Current'
  BY <1>5 DEF Current
<1> QED BY <1>6, <1>7, <1>8 DEF DeliveryInv

LEMMA ShownShape ==
  ASSUME NEW v \in ViewType, ~v.replay, NEW image \in Image
  PROVE  /\ Shown(v, image) \in ViewType /\ ~Shown(v, image).replay
         /\ Shown(v, image).images = v.images \cup {image} /\ Shown(v, image).newest = image
         /\ Shown(v, image).status = v.status
         /\ ~Shown(v, image).stale => ~v.stale /\ v.status.valid
BY DEF Shown, ViewType

(* An image of the market is shown: a snapshot, or a frame when not frozen. *)
LEMMA ShownKeeps ==
  ASSUME DeliveryInv, NEW e, Receiving(e), Fresh(e), ~Breaks(e), e.valid, ~Gapped(e),
         client'.selection = client.selection, client'.ask = client.ask,
         client'.socket = client.socket, client'.positioned, answer' = answer,
         NEW v \in ViewType, ~v.replay,
         v = view \/ v.status.session = 0,
         view' = Shown(v, e.image)
  PROVE  view' \in ViewType /\ ~view'.replay /\ Follows' /\ Current'
<1>1. client \in ClientType /\ view \in ViewType /\ e \in Envelopes
  BY ReceivingShape
<1>2. e.image \in Image
  BY <1>1, EnvelopeShape DEF MarketEnvelope
<1>3. /\ view' \in ViewType /\ ~view'.replay /\ view'.newest = e.image
      /\ view'.status = v.status /\ (~view'.stale => ~v.stale /\ v.status.valid)
  BY <1>2, ShownShape
<1>4. Follows'
  <2> SUFFICES ASSUME Done PROVE Follows'
    BY DEF Follows, Done
  <2>1. /\ Ahead(Tells(e))' /\ Tells(e) \in States
        /\ e.image = [symbol |-> client.selection, session |-> e.image.session]
    BY AheadOfHead
  <2>2. Tells(e).session = e.image.session /\ Tells(e).valid = e.valid
    BY DEF Tells
  <2>3. \E m \in States :
          /\ Ahead(m)'
          /\ IF m.valid
             THEN view'.newest = [symbol |-> client'.selection, session |-> m.session]
             ELSE answer' = "settled" => view'.stale
    BY <1>3, <2>1, <2>2
  <2> QED BY <2>3 DEF Follows
<1>5. Current'
  <2> SUFFICES ASSUME client.socket = "open", answer = "settled", ~view'.stale,
                      view'.status.session # 0
               PROVE  Current'
    BY DEF Current
  <2>1. v = view /\ ~view.stale /\ view.status.session # 0 /\ view'.status = view.status
    BY <1>3
  <2>2. client.positioned /\ Done
    BY DEF DeliveryInv, Follows, Done
  <2>3. ~client.missing
    BY <2>2 DEF Gapped
  <2>4. PICK m : m = [session |-> view.status.session, valid |-> TRUE]
    OBVIOUS
  <2>5. Ahead(m)
    BY <2>1, <2>3, <2>4 DEF DeliveryInv, Current
  <2>6. Ahead(m)' /\ Tells(e) = m
    BY <2>5, AheadOn
  <2>7. e.image.session = view.status.session
    BY <2>4, <2>6 DEF Tells
  <2>8. e.image = [symbol |-> client.selection, session |-> e.image.session]
    BY <2>2, AheadOfHead
  <2> QED BY <1>3, <2>1, <2>4, <2>6, <2>7, <2>8 DEF Current
<1> QED BY <1>3, <1>4, <1>5

LEMMA DataShape ==
  ASSUME NEW e \in Envelopes, e.kind \in {"snapshot", "depth_frame"}, ~e.again
  PROVE  Fresh(e) /\ ~Breaks(e) /\ e.valid
<1>1. Fresh(e)
  BY DEF Fresh, Kinds
<1> QED BY <1>1, EnvelopeShape DEF MarketEnvelope, Breaks

LEMMA AcceptSnapshotKeeps ==
  ASSUME DeliveryInv, NEW e, AcceptSnapshot(e) PROVE DeliveryInv'
<1> DEFINE st == client.stale /\ client.awaiting
           v == IF client.stale /\ ~client.awaiting THEN Announced(view, TRUE) ELSE view
<1>1. /\ Accepting(e, "snapshot") /\ view' = Shown(v, e.image) /\ UNCHANGED <<up, answer>>
  BY DEF AcceptSnapshot
<1>2. /\ Receiving(e) /\ e.kind = "snapshot" /\ ~e.again /\ ~Gapped(e) /\ gaps' = gaps
  BY <1>1, AcceptingShape
<1>3. /\ client \in ClientType /\ view \in ViewType /\ ~view.replay /\ e \in Envelopes
  BY <1>2, ReceivingShape
<1>4. /\ client' \in ClientType /\ client'.positioned /\ ~client'.missing
      /\ client'.selection = client.selection /\ client'.ask = client.ask
      /\ client'.socket = client.socket
  <2> DEFINE p == Positioned
  <2>1. client' = [p EXCEPT !.snapshotReceived = TRUE, !.stale = @ /\ client.awaiting]
    BY DEF AcceptSnapshot
  <2>2. /\ p \in ClientType /\ p.positioned /\ ~p.missing
        /\ p.selection = client.selection /\ p.ask = client.ask /\ p.socket = client.socket
    BY <1>3, PositionedShape
  <2> HIDE DEF p
  <2> QED BY <1>3, <2>1, <2>2 DEF ClientType
<1>5. v \in ViewType /\ ~v.replay /\ (v = view \/ v.status.session = 0)
  <2>1. CASE client.stale /\ ~client.awaiting
    <3>1. v = Announced(view, TRUE)
      BY <2>1
    <3> PICK w : w = Announced(view, TRUE)
      OBVIOUS
    <3>2. w \in ViewType /\ w.replay = view.replay /\ w.status = [valid |-> TRUE, session |-> 0]
      BY <1>3, AnnouncedShape
    <3>3. w.status.session = 0
      <4> DEFINE r == [valid |-> TRUE, session |-> 0]
      <4>1. r.session = 0
        OBVIOUS
      <4>2. w.status = r
        BY <3>2
      <4> HIDE DEF r
      <4> QED BY <4>1, <4>2
    <3>4. ~w.replay
      BY <1>3, <3>2
    <3> HIDE DEF v
    <3>5. v = w
      BY <3>1
    <3> QED BY <3>2, <3>3, <3>4, <3>5
  <2>2. CASE ~(client.stale /\ ~client.awaiting)
    BY <1>3, <2>2
  <2> QED BY <2>1, <2>2
<1>6. Fresh(e) /\ ~Breaks(e) /\ e.valid
  BY <1>2, <1>3, DataShape
<1> HIDE DEF v
<1>7. view' \in ViewType /\ ~view'.replay /\ Follows' /\ Current'
  BY <1>1, <1>2, <1>4, <1>5, <1>6, ShownKeeps
<1>8. DeliveryTypeOK' /\ LossesCounted' /\ Offline' /\ Conversation' /\ InOrder'
  <2>1. Requests /\ (answer' # "asked" => Done) /\ answer' \in {"asked", "answered", "settled"}
    BY <1>1 DEF Requests, Done, DeliveryInv, DeliveryTypeOK
  <2> QED BY <1>1, <1>2, <1>4, <1>7, <2>1, AcceptingShape, ReceivedShared
<1> QED BY <1>7, <1>8 DEF DeliveryInv

LEMMA AcceptFrameKeeps ==
  ASSUME DeliveryInv, NEW e, AcceptFrame(e) PROVE DeliveryInv'
<1> DEFINE v == IF client.stale THEN Announced(view, TRUE) ELSE view
<1>1. /\ Accepting(e, "depth_frame") /\ UNCHANGED <<up, answer>>
      /\ view' = IF client.awaiting THEN view ELSE Shown(v, e.image)
  BY DEF AcceptFrame
<1>2. /\ Receiving(e) /\ e.kind = "depth_frame" /\ ~e.again /\ ~Gapped(e) /\ gaps' = gaps
  BY <1>1, AcceptingShape
<1>3. /\ client \in ClientType /\ view \in ViewType /\ ~view.replay /\ e \in Envelopes
  BY <1>2, ReceivingShape
<1>4. /\ client' \in ClientType /\ client'.positioned /\ ~client'.missing
      /\ client'.selection = client.selection /\ client'.ask = client.ask
      /\ client'.socket = client.socket /\ client'.awaiting = client.awaiting
      /\ client'.snapshotReceived = client.snapshotReceived
  <2> DEFINE p == Positioned
  <2>1. client' = [p EXCEPT !.stale = @ /\ client.awaiting]
    BY DEF AcceptFrame
  <2>2. /\ p \in ClientType /\ p.positioned /\ ~p.missing
        /\ p.selection = client.selection /\ p.ask = client.ask /\ p.socket = client.socket
        /\ p.awaiting = client.awaiting /\ p.snapshotReceived = client.snapshotReceived
    BY <1>3, PositionedShape
  <2> HIDE DEF p
  <2> QED BY <1>3, <2>1, <2>2 DEF ClientType
<1>5. v \in ViewType /\ ~v.replay /\ (v = view \/ v.status.session = 0)
  <2>1. CASE client.stale
    <3>1. v = Announced(view, TRUE)
      BY <2>1
    <3> PICK w : w = Announced(view, TRUE)
      OBVIOUS
    <3>2. w \in ViewType /\ w.replay = view.replay /\ w.status = [valid |-> TRUE, session |-> 0]
      BY <1>3, AnnouncedShape
    <3>3. w.status.session = 0
      <4> DEFINE r == [valid |-> TRUE, session |-> 0]
      <4>1. r.session = 0
        OBVIOUS
      <4>2. w.status = r
        BY <3>2
      <4> HIDE DEF r
      <4> QED BY <4>1, <4>2
    <3>4. ~w.replay
      BY <1>3, <3>2
    <3> HIDE DEF v
    <3>5. v = w
      BY <3>1
    <3> QED BY <3>2, <3>3, <3>4, <3>5
  <2>2. CASE ~client.stale
    BY <1>3, <2>2
  <2> QED BY <2>1, <2>2
<1>6. Fresh(e) /\ ~Breaks(e) /\ e.valid
  BY <1>2, <1>3, DataShape
<1> HIDE DEF v
<1>7. view' \in ViewType /\ ~view'.replay /\ Follows' /\ Current'
  <2>1. CASE ~client.awaiting
    BY <1>1, <1>2, <1>4, <1>5, <1>6, <2>1, ShownKeeps
  <2>2. CASE client.awaiting
    <3>1. view' = view /\ answer' = answer /\ (Proved' => Proved)
      BY <1>1, <1>4, <2>2 DEF Proved
    <3>2. ~StateOf(e)
      BY <1>2 DEF StateOf
    <3>3. Follows' /\ Current'
      BY <1>2, <1>4, <1>6, <3>1, <3>2, FollowsOn
    <3> QED BY <1>3, <3>1, <3>3
  <2> QED BY <2>1, <2>2
<1>8. DeliveryTypeOK' /\ LossesCounted' /\ Offline' /\ Conversation' /\ InOrder'
  <2>1. Requests /\ (answer' # "asked" => Done) /\ answer' \in {"asked", "answered", "settled"}
    BY <1>1 DEF Requests, Done, DeliveryInv, DeliveryTypeOK
  <2> QED BY <1>1, <1>2, <1>4, <1>7, <2>1, AcceptingShape, ReceivedShared
<1> QED BY <1>7, <1>8 DEF DeliveryInv

LEMMA DoubtedStatusKeeps ==
  ASSUME DeliveryInv, NEW e, Accepting(e, "status"), ~Proven(e),
         RequestUnlessCooling([Positioned EXCEPT !.stale = TRUE]),
         UNCHANGED <<view, answer>>
  PROVE  DeliveryInv'
<1> DEFINE c == [Positioned EXCEPT !.stale = TRUE]
<1>1. /\ Receiving(e) /\ e.kind = "status" /\ ~e.again /\ ~Gapped(e) /\ gaps' = gaps
  BY AcceptingShape
<1>2. /\ client \in ClientType /\ view \in ViewType /\ ~view.replay /\ client.socket = "open"
      /\ ~Proved
  BY <1>1, ReceivingShape DEF Proven, Proved
<1>3. /\ c \in ClientType /\ c.positioned /\ ~c.missing
      /\ c.selection = client.selection /\ c.ask = client.ask /\ c.socket = client.socket
      /\ c.awaiting = client.awaiting /\ c.snapshotReceived = client.snapshotReceived
  <2> DEFINE p == Positioned
  <2>1. /\ p \in ClientType /\ p.positioned /\ ~p.missing
        /\ p.selection = client.selection /\ p.ask = client.ask /\ p.socket = client.socket
        /\ p.awaiting = client.awaiting /\ p.snapshotReceived = client.snapshotReceived
    BY <1>2, PositionedShape
  <2>2. c = [p EXCEPT !.stale = TRUE]
    OBVIOUS
  <2> HIDE DEF p, c
  <2> QED BY <2>1, <2>2 DEF ClientType
<1>4. RequestUnlessCooling(c)
  OBVIOUS
<1> HIDE DEF c
<1>5. /\ Requests /\ client' \in ClientType
      /\ client'.selection = c.selection /\ client'.ask = c.ask /\ client'.socket = c.socket
      /\ client'.awaiting = c.awaiting /\ client'.snapshotReceived = c.snapshotReceived
      /\ client'.positioned = c.positioned /\ client'.missing = c.missing
  BY <1>2, <1>3, <1>4, RequestedShape
<1>6. ~Proved' /\ client'.positioned /\ ~client'.missing
  BY <1>2, <1>3, <1>5 DEF Proved
<1>7. DeliveryTypeOK' /\ LossesCounted' /\ Offline' /\ Conversation' /\ InOrder'
  <2>1. (answer' # "asked" => Done) /\ answer' \in {"asked", "answered", "settled"}
    BY DEF Done, DeliveryInv, DeliveryTypeOK
  <2>2. view' \in ViewType /\ ~view'.replay
    BY <1>2
  <2> QED BY <1>1, <1>3, <1>5, <1>6, <2>1, <2>2, AcceptingShape, ReceivedShared
<1>8. Follows'
  BY <1>6 DEF Follows
<1>9. Current'
  <2> SUFFICES ASSUME client.socket = "open", answer = "settled", ~view.stale,
                      view.status.session # 0
               PROVE  Current'
    BY <1>3, <1>5 DEF Current
  <2>1. client.positioned
    BY DEF DeliveryInv, Follows
  <2>2. ~client.missing
    BY <1>1, <2>1 DEF Gapped
  <2>3. PICK m : m = [session |-> view.status.session, valid |-> TRUE]
    OBVIOUS
  <2>4. Ahead(m) /\ view.newest = [symbol |-> client.selection, session |-> view.status.session]
    BY <2>2, <2>3 DEF DeliveryInv, Current
  <2>5. ~Breaks(e)
    BY <1>1 DEF Breaks
  <2>6. Ahead(m)'
    BY <1>1, <1>3, <1>5, <2>4, <2>5, AheadOn
  <2> QED BY <1>3, <1>5, <2>3, <2>4, <2>6 DEF Current
<1> QED BY <1>7, <1>8, <1>9 DEF DeliveryInv

LEMMA TrustedStatusKeeps ==
  ASSUME DeliveryInv, NEW e, Accepting(e, "status"), e.valid => Proven(e),
         client' = [Positioned EXCEPT !.stale = ~e.valid, !.awaiting = ~e.valid,
                                      !.muted = @ /\ ~e.valid],
         view' = Told(view, e.valid, e.image.session),
         answer' = IF answer = "asked" THEN "asked" ELSE "settled",
         UNCHANGED up
  PROVE  DeliveryInv'
<1>1. /\ Receiving(e) /\ e.kind = "status" /\ ~e.again /\ ~Gapped(e) /\ gaps' = gaps
  BY AcceptingShape
<1>2. /\ client \in ClientType /\ view \in ViewType /\ ~view.replay /\ client.socket = "open"
      /\ e \in Envelopes /\ e = Head(down) /\ down # <<>>
  BY <1>1, ReceivingShape
<1>3. Fresh(e) /\ ~Breaks(e)
  BY <1>1 DEF Fresh, Kinds, Breaks
<1>4. e.valid \in BOOLEAN /\ e.image \in Image /\ e.image.session \in 0 .. MaxMarketSessions
      /\ e.image.session \in 1 .. MaxMarketSessions
  <2>1. e.valid \in BOOLEAN /\ e.image \in Image
    BY <1>2, <1>3, EnvelopeShape DEF MarketEnvelope
  <2>2. e.image.session \in 1 .. MaxMarketSessions
    BY <2>1 DEF Image
  <2> QED BY <2>1, <2>2, DeliveryAssumption
<1>5. /\ client' \in ClientType /\ client'.positioned /\ ~client'.missing
      /\ client'.selection = client.selection /\ client'.ask = client.ask
      /\ client'.socket = client.socket
  <2> DEFINE p == Positioned
  <2>1. client' = [p EXCEPT !.stale = ~e.valid, !.awaiting = ~e.valid, !.muted = @ /\ ~e.valid]
    OBVIOUS
  <2>2. /\ p \in ClientType /\ p.positioned /\ ~p.missing
        /\ p.selection = client.selection /\ p.ask = client.ask /\ p.socket = client.socket
    BY <1>2, PositionedShape
  <2> HIDE DEF p
  <2> QED BY <2>1, <2>2 DEF ClientType
<1>6. /\ view' \in ViewType /\ ~view'.replay /\ view'.newest = view.newest
      /\ (view'.stale <=> ~e.valid)
      /\ view'.status = [valid |-> e.valid, session |-> e.image.session]
  BY <1>2, <1>4, ToldShape
<1>7. DeliveryTypeOK' /\ LossesCounted' /\ Offline' /\ Conversation' /\ InOrder'
  <2>1. Requests /\ (answer' # "asked" => Done) /\ answer' \in {"asked", "answered", "settled"}
    BY DEF Requests, Done
  <2> QED BY <1>1, <1>5, <1>6, <2>1, AcceptingShape, ReceivedShared
<1>8. ASSUME Done PROVE Follows' /\ Current'
  <2>1. /\ Ahead(Tells(e))' /\ Tells(e) \in States
        /\ e.image = [symbol |-> client.selection, session |-> e.image.session]
    BY <1>1, <1>3, <1>5, <1>8, AheadOfHead
  <2>2. Tells(e) = [session |-> e.image.session, valid |-> e.valid]
    BY DEF Tells
  <2>3. client.positioned /\ ~client.missing
    BY <1>1, <1>2, <1>8 DEF DeliveryInv, Follows, Gapped, Done
  <2>4. e.valid => view.newest = [symbol |-> client.selection, session |-> e.image.session]
    <3> SUFFICES ASSUME e.valid
                 PROVE  view.newest = [symbol |-> client.selection, session |-> e.image.session]
      OBVIOUS
    <3>1. Proved
      BY DEF Proven, Proved
    <3>2. ~(Head(down).kind = "hole" \/ StateOf(Head(down)))
      BY <1>1, <1>2 DEF StateOf
    <3>3. PICK m \in States :
            /\ Ahead(m)
            /\ IF m.valid
               THEN view.newest = [symbol |-> client.selection, session |-> m.session]
               ELSE answer = "settled" => view.stale
      BY <1>2, <1>8, <2>3, <3>1, <3>2 DEF DeliveryInv, Follows, Done
    <3>4. Tells(e) = m
      BY <1>1, <1>3, <1>5, <3>3, AheadOn
    <3>5. m.valid /\ m.session = e.image.session
      BY <2>2, <3>4
    <3> QED BY <3>3, <3>5
  <2>5. Follows'
    <3>1. Tells(e).session = e.image.session /\ (Tells(e).valid <=> e.valid)
      BY <2>2
    <3>2. \E m \in States :
            /\ Ahead(m)'
            /\ IF m.valid
               THEN view'.newest = [symbol |-> client'.selection, session |-> m.session]
               ELSE answer' = "settled" => view'.stale
      BY <1>5, <1>6, <2>1, <2>4, <3>1
    <3> QED BY <1>5, <3>2 DEF Follows
  <2>6. Current'
    <3> SUFFICES ASSUME e.valid PROVE Current'
      BY <1>6 DEF Current
    <3>1. view'.status.session = e.image.session
      <4> DEFINE r == [valid |-> e.valid, session |-> e.image.session]
      <4>1. r.session = e.image.session
        OBVIOUS
      <4>2. view'.status = r
        BY <1>6
      <4> HIDE DEF r
      <4> QED BY <4>1, <4>2
    <3>2. PICK m : m = [session |-> e.image.session, valid |-> TRUE]
      OBVIOUS
    <3>3. Tells(e) = m
      BY <1>4, <2>2, <3>2
    <3>4. Ahead(m)'
      BY <2>1, <3>3
    <3> QED BY <1>5, <1>6, <2>4, <3>1, <3>2, <3>4 DEF Current
  <2> QED BY <2>5, <2>6
<1>9. ASSUME ~Done PROVE Follows' /\ Current'
  BY <1>9 DEF Done, Follows, Current
<1> QED BY <1>7, <1>8, <1>9 DEF DeliveryInv

LEMMA AcceptStatusKeeps ==
  ASSUME DeliveryInv, NEW e, AcceptStatus(e) PROVE DeliveryInv'
<1>1. Accepting(e, "status")
  BY DEF AcceptStatus
<1>2. CASE /\ e.valid /\ ~Proven(e)
           /\ RequestUnlessCooling([Positioned EXCEPT !.stale = TRUE])
           /\ UNCHANGED <<view, answer>>
  BY <1>1, <1>2, DoubtedStatusKeeps
<1>3. CASE /\ e.valid => Proven(e)
           /\ client' = [Positioned EXCEPT !.stale = ~e.valid, !.awaiting = ~e.valid,
                                           !.muted = @ /\ ~e.valid]
           /\ view' = Told(view, e.valid, e.image.session)
           /\ answer' = IF answer = "asked" THEN "asked" ELSE "settled"
           /\ UNCHANGED up
  BY <1>1, <1>3, TrustedStatusKeeps
<1> QED BY <1>2, <1>3 DEF AcceptStatus

-----------------------------------------------------------------------------

(* Before the first connection nothing is in flight. *)
LEMMA DeliveryStarts == DeliveryInit => DeliveryInv
<1> SUFFICES ASSUME DeliveryInit PROVE DeliveryInv
  OBVIOUS
<1>1. DeliveryTypeOK
  <2>1. market \in [Instruments -> MarketType]
    BY DeliveryAssumption DEF DeliveryInit, MarketType
  <2>2. conn \in [open : BOOLEAN, subs : SUBSET Instruments]
    BY DEF DeliveryInit
  <2>3. client \in ClientType
    BY DeliveryAssumption DEF DeliveryInit, ClientType
  <2>4. view \in ViewType
    BY DeliveryAssumption DEF DeliveryInit, ViewType
  <2>5. down \in Seq(Envelopes) /\ up \in Seq(MessageType)
    BY DEF DeliveryInit
  <2>6. 0 \in 0 .. MaxFaults /\ 0 \in 0 .. MaxSwitches
    BY DeliveryAssumption
  <2> QED BY <2>1, <2>2, <2>3, <2>4, <2>5, <2>6 DEF DeliveryInit, DeliveryTypeOK
<1>2. LossesCounted
  BY DEF DeliveryInit, LossesCounted, HolesAhead
<1>3. Offline
  BY DEF DeliveryInit, Offline
<1>4. Conversation
  <2>1. up = <<>> /\ conn.subs = {} /\ down = <<>>
    BY DEF DeliveryInit
  <2> QED BY <2>1, NothingAsked DEF Conversation
<1>5. InOrder
  <2>1. down = <<>>
    BY DEF DeliveryInit
  <2> QED BY <2>1, EmptyStream DEF InOrder
<1>6. Follows /\ Current
  BY DEF DeliveryInit, Follows, Current
<1> QED BY <1>1, <1>2, <1>3, <1>4, <1>5, <1>6 DEF DeliveryInv

LEMMA ReceiveKeeps ==
  ASSUME DeliveryInv, Receive PROVE DeliveryInv'
<1>1. PICK e : \/ Skip(e) \/ IgnoreOld(e) \/ DetectGap(e) \/ AcceptControl(e) \/ AcceptReset(e)
               \/ AcceptSnapshot(e) \/ AcceptFrame(e) \/ AcceptStatus(e)
  BY DEF Receive
<1> QED BY <1>1, SkipKeeps, IgnoreOldKeeps, DetectGapKeeps, AcceptControlKeeps, AcceptResetKeeps,
           AcceptSnapshotKeeps, AcceptFrameKeeps, AcceptStatusKeeps

LEMMA StutterKeeps ==
  ASSUME DeliveryInv, UNCHANGED deliveryVars PROVE DeliveryInv'
BY DEF DeliveryInv, deliveryVars, bounds, DeliveryTypeOK, LossesCounted, HolesAhead, Offline,
       Conversation, InOrder, Follows, Current, Done, Here, On, Proved, Ahead

LEMMA DeliveryStep ==
  DeliveryInv /\ [DeliveryNext]_deliveryVars => DeliveryInv'
<1> SUFFICES ASSUME DeliveryInv, [DeliveryNext]_deliveryVars PROVE DeliveryInv'
  OBVIOUS
<1>1. CASE UNCHANGED deliveryVars
  BY <1>1, StutterKeeps
<1>2. ASSUME NEW s \in Instruments, Freeze(s) \/ Commit(s) \/ EmitFrame(s) \/ SelectSymbol(s)
      PROVE  DeliveryInv'
  BY <1>2, FreezeKeeps, CommitKeeps, EmitFrameKeeps, SelectSymbolKeeps
<1>3. CASE SendHeartbeat \/ HandleClientMessage
  BY <1>3, SendHeartbeatKeeps, HandleClientMessageKeeps
<1>4. CASE HandleOpen \/ ConnectionBreaks \/ HandleClose \/ Reconnect
  BY <1>4, HandleOpenKeeps, ConnectionBreaksKeeps, HandleCloseKeeps, ReconnectKeeps
<1>5. CASE LoseEnvelope \/ RepeatEnvelope \/ Receive \/ GoStale \/ CooldownEnds
  BY <1>5, LoseEnvelopeKeeps, RepeatEnvelopeKeeps, ReceiveKeeps, GoStaleKeeps, CooldownEndsKeeps
<1>6. CASE RequestSnapshot \/ SelectReplay \/ LoadReplay \/ GoLive
  BY <1>6, RequestSnapshotKeeps, SelectReplayKeeps, LoadReplayKeeps, GoLiveKeeps
<1> QED BY <1>1, <1>2, <1>3, <1>4, <1>5, <1>6 DEF DeliveryNext

(* The invariant of the delivery: whatever the server sends, withholds or  *)
(* resets and the client misses, asks or switches, what is in flight fits  *)
(* what the page shows (httpServer.ts onGatewayEvent() and                 *)
(* handleClientMessage(), marketDataClient.ts ingest()).                   *)
THEOREM DeliveryInvariant == DeliverySpec => []DeliveryInv
BY DeliveryStarts, DeliveryStep, PTL DEF DeliverySpec

(* The client counts no gap that no fault caused: frames withheld by       *)
(* back-pressure take no delivery position (httpServer.ts send()), so that *)
(* they leave none open.                                                   *)
THEOREM GapsAreReal == DeliverySpec => []NoFalseGap
<1>1. DeliveryInv => NoFalseGap
  <2> SUFFICES ASSUME DeliveryInv PROVE NoFalseGap
    OBVIOUS
  <2>1. /\ gaps \in Nat /\ faults \in Nat /\ HolesAhead \in {0, 1}
        /\ gaps + (IF client.missing THEN 1 ELSE 0) + HolesAhead <= faults
        /\ (IF client.missing THEN 1 ELSE 0) \in {0, 1}
    BY LossesTyped
  <2> QED BY <2>1 DEF NoFalseGap
<1> QED BY <1>1, DeliveryInvariant, PTL

(* What is shown for the first time is an envelope of the stream. *)
LEMMA ImageAdded ==
  ASSUME DeliveryInv, NEW e, Receiving(e), Fresh(e), ~view'.replay,
         view'.images = view.images \cup {e.image},
         client'.selection = client.selection, client'.ask = client.ask, answer' = answer
  PROVE  NoLateImages
<1>1. e \in Envelopes
  BY ReceivingShape
<1>2. e.image \in Image
  BY <1>1, EnvelopeShape DEF MarketEnvelope
<1>3. e.image # Recorded
  <2>1. e.image.session # 0
    BY <1>2 DEF Image
  <2> QED BY <2>1 DEF Recorded
<1>4. answer' # "asked" => e.image.symbol = client'.selection
  BY AheadOfHead DEF Done
<1> QED BY <1>3, <1>4 DEF NoLateImages

LEMMA NothingAdded ==
  ASSUME view'.images \subseteq view.images PROVE NoLateImages
BY DEF NoLateImages

LEMMA SnapshotAdds ==
  ASSUME DeliveryInv, NEW e, AcceptSnapshot(e) PROVE NoLateImages
<1> DEFINE v == IF client.stale /\ ~client.awaiting THEN Announced(view, TRUE) ELSE view
<1>1. /\ Accepting(e, "snapshot") /\ view' = Shown(v, e.image) /\ answer' = answer
  BY DEF AcceptSnapshot
<1>2. Receiving(e) /\ e.kind = "snapshot" /\ ~e.again
  BY <1>1, AcceptingShape
<1>3. client \in ClientType /\ view \in ViewType /\ ~view.replay /\ e \in Envelopes
  BY <1>2, ReceivingShape
<1>4. client'.selection = client.selection /\ client'.ask = client.ask
  <2>1. client' = [Positioned EXCEPT !.snapshotReceived = TRUE, !.stale = @ /\ client.awaiting]
    BY DEF AcceptSnapshot
  <2> QED BY <1>3, <2>1, PositionedShape DEF ClientType
<1>5. v \in ViewType /\ ~v.replay /\ v.images = view.images
  BY <1>3, AnnouncedShape
<1>6. Fresh(e) /\ e.image \in Image
  BY <1>2, <1>3, DataShape, EnvelopeShape DEF MarketEnvelope
<1> HIDE DEF v
<1>7. ~view'.replay /\ view'.images = view.images \cup {e.image}
  BY <1>1, <1>5, <1>6, ShownShape
<1> QED BY <1>1, <1>2, <1>4, <1>6, <1>7, ImageAdded

LEMMA FrameAdds ==
  ASSUME DeliveryInv, NEW e, AcceptFrame(e) PROVE NoLateImages
<1> DEFINE v == IF client.stale THEN Announced(view, TRUE) ELSE view
<1>1. /\ Accepting(e, "depth_frame") /\ answer' = answer
      /\ view' = IF client.awaiting THEN view ELSE Shown(v, e.image)
  BY DEF AcceptFrame
<1>2. Receiving(e) /\ e.kind = "depth_frame" /\ ~e.again
  BY <1>1, AcceptingShape
<1>3. client \in ClientType /\ view \in ViewType /\ ~view.replay /\ e \in Envelopes
  BY <1>2, ReceivingShape
<1>4. client'.selection = client.selection /\ client'.ask = client.ask
  <2>1. client' = [Positioned EXCEPT !.stale = @ /\ client.awaiting]
    BY DEF AcceptFrame
  <2> QED BY <1>3, <2>1, PositionedShape DEF ClientType
<1>5. v \in ViewType /\ ~v.replay /\ v.images = view.images
  BY <1>3, AnnouncedShape
<1>6. Fresh(e) /\ e.image \in Image
  BY <1>2, <1>3, DataShape, EnvelopeShape DEF MarketEnvelope
<1> HIDE DEF v
<1>7. CASE client.awaiting
  BY <1>1, <1>7, NothingAdded
<1>8. CASE ~client.awaiting
  <2>1. ~view'.replay /\ view'.images = view.images \cup {e.image}
    BY <1>1, <1>5, <1>6, <1>8, ShownShape
  <2> QED BY <1>1, <1>2, <1>4, <1>6, <2>1, ImageAdded
<1> QED BY <1>7, <1>8

LEMMA ReceiveAdds ==
  ASSUME DeliveryInv, Receive PROVE NoLateImages
<1>1. view \in ViewType
  BY Typed
<1>2. PICK e : \/ Skip(e) \/ IgnoreOld(e) \/ DetectGap(e) \/ AcceptControl(e) \/ AcceptReset(e)
               \/ AcceptSnapshot(e) \/ AcceptFrame(e) \/ AcceptStatus(e)
  BY DEF Receive
<1>3. CASE Skip(e) \/ IgnoreOld(e) \/ AcceptControl(e)
  <2>1. view' = view
    BY <1>3 DEF Skip, IgnoreOld, AcceptControl
  <2> QED BY <2>1, NothingAdded
<1>4. CASE DetectGap(e)
  <2>1. view' = Announced(view, FALSE)
    BY <1>4 DEF DetectGap
  <2>2. view'.images = view.images
    BY <1>1, <2>1, AnnouncedShape
  <2> QED BY <2>2, NothingAdded
<1>5. CASE AcceptReset(e)
  <2>1. view' = Told(Cleared(view), FALSE, e.image.session)
    BY <1>5 DEF AcceptReset, Restarted
  <2>2. Cleared(view) \in ViewType /\ Cleared(view).images = {}
    BY <1>1, ClearedShape
  <2>3. view'.images = {}
    BY <2>1, <2>2 DEF Told, ViewType
  <2> QED BY <2>3, NothingAdded
<1>6. CASE AcceptStatus(e)
  <2>1. view' = view \/ view' = Told(view, e.valid, e.image.session)
    BY <1>6 DEF AcceptStatus
  <2>2. view'.images = view.images
    BY <1>1, <2>1 DEF Told, ViewType
  <2> QED BY <2>2, NothingAdded
<1> QED BY <1>2, <1>3, <1>4, <1>5, <1>6, SnapshotAdds, FrameAdds

LEMMA StepAdds ==
  ASSUME DeliveryInv, DeliveryNext PROVE NoLateImages
<1>1. view \in ViewType
  BY Typed
<1>2. ASSUME NEW s \in Instruments, Freeze(s) \/ Commit(s) \/ EmitFrame(s)
      PROVE  NoLateImages
  <2>1. view' = view
    BY <1>2 DEF Freeze, Commit, EmitFrame
  <2> QED BY <2>1, NothingAdded
<1>3. CASE \/ SendHeartbeat \/ HandleClientMessage \/ ConnectionBreaks \/ LoseEnvelope
           \/ RepeatEnvelope \/ CooldownEnds \/ RequestSnapshot \/ SelectReplay
  <2>1. view' = view
    BY <1>3 DEF SendHeartbeat, HandleClientMessage, ConnectionBreaks, LoseEnvelope,
                RepeatEnvelope, CooldownEnds, RequestSnapshot, SelectReplay
  <2> QED BY <2>1, NothingAdded
<1>4. CASE HandleOpen \/ HandleClose \/ Reconnect \/ GoStale
  <2>1. view' = Announced(view, FALSE)
    BY <1>4 DEF HandleOpen, HandleClose, Reconnect, GoStale
  <2>2. view'.images = view.images
    BY <1>1, <2>1, AnnouncedShape
  <2> QED BY <2>2, NothingAdded
<1>5. ASSUME NEW s \in Instruments, SelectSymbol(s) \/ GoLive PROVE NoLateImages
  <2>1. view'.images = {}
    BY <1>1, <1>5, LiveShape DEF SelectSymbol, GoLive
  <2> QED BY <2>1, NothingAdded
<1>6. CASE GoLive
  BY <1>5, <1>6, DeliveryAssumption
<1>7. CASE LoadReplay
  <2>1. view'.replay /\ view'.images = {Recorded}
    BY <1>1, <1>7, RecordedShape DEF LoadReplay
  <2> QED BY <2>1 DEF NoLateImages
<1> QED BY <1>2, <1>3, <1>4, <1>5, <1>6, <1>7, ReceiveAdds DEF DeliveryNext

(* Once the server has answered the latest subscription, no image of       *)
(* another market and no recording reaches the live page, and what it      *)
(* shows as live is of the selected market and of the session the server   *)
(* proved last (marketDataClient.ts ingest(), useMarketData.ts ingest()).  *)
THEOREM PageKeepsToItsMarket == DeliverySpec => ShowsTheSelectedMarket
<1>2. DeliveryInv /\ DeliveryInv' /\ [DeliveryNext]_deliveryVars
        => [NoLateImages /\ LiveIsProven']_deliveryVars
  <2> SUFFICES ASSUME DeliveryInv, DeliveryInv', DeliveryNext
               PROVE  NoLateImages /\ LiveIsProven'
    OBVIOUS
  <2>1. NoLateImages
    BY StepAdds
  <2>2. LiveIsProven'
    BY DEF DeliveryInv, Offline, Current, LiveIsProven, Live
  <2> QED BY <2>1, <2>2
<1> QED BY <1>2, DeliveryInvariant, PTL DEF DeliverySpec, ShowsTheSelectedMarket
=============================================================================
