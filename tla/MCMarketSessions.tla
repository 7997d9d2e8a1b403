-------------------------- MODULE MCMarketSessions --------------------------
(* MarketSessions with model values: three symbols for two sessions, so    *)
(* that the manager meets its capacity and a client its limit.  Then the   *)
(* laws of the service the sockets belong to: those of the accounts, over  *)
(* every state a few requests reach and every short timed use of a session *)
(* and of the login form; and those of the REST surface, over every server,*)
(* route and set of facts its steps ask for, and over short timed uses of  *)
(* a limiter.                                                              *)
EXTENDS MarketSessions, SequencesExt, FiniteSetsExt

LOCAL Names == {"admin", "ann"}
LOCAL Long == {"p1", "p2"}
LOCAL Ttl == 2
LOCAL MaxFailed == 2
LOCAL Lockout == 2

Acc == INSTANCE Accounts WITH
  ValidNames <- Names, Passwords <- Long, ShortPassword <- "short",
  AdminName <- "admin", AdminPassword <- "p1", ValidFlags <- {"f", "g"},
  Ttl <- Ttl, MaxFailedAttempts <- MaxFailed, LockoutMs <- Lockout
(* The same with a bootstrap password too short for the store. *)
AccShort == INSTANCE Accounts WITH
  ValidNames <- Names, Passwords <- Long, ShortPassword <- "short",
  AdminName <- "admin", AdminPassword <- "short", ValidFlags <- {"f", "g"},
  Ttl <- Ttl, MaxFailedAttempts <- MaxFailed, LockoutMs <- Lockout

LOCAL Bodies ==
  {<<[name |-> "f", value |-> v, isBoolean |-> b], [name |-> n, value |-> TRUE, isBoolean |-> TRUE]>> :
     v \in BOOLEAN, b \in BOOLEAN, n \in {"g", "no-flag"}}

(* What the account routes answer to a state, all at time 0. *)
LOCAL Answers(a) ==
  LET t == a.issued
  IN  {Acc!Login(a, n, p, 0) : n \in Names, p \in {"p1", "p2"}}
      \cup {Acc!Logout(a, t)}
      \cup {Acc!PutWorkspace(a, t, o, "w", 0) : o \in BOOLEAN}
      \cup {Acc!PostUser(a, t, n, p, "viewer", 0) : n \in {"ann", "x"}, p \in {"p1", "short"}}
      \cup {Acc!RemoveUser(a, t, n, 0) : n \in Names}
LOCAL Partial(a) ==
  {Acc!PatchFlags(a, a.issued, body, 0) : body \in Bodies}
  \cup {Acc!PatchUser(a, a.issued, n, d, p, 0) :
          n \in Names, d \in {{}, {TRUE}}, p \in {{}, {"p2"}, {"short"}}}

LOCAL Successors(a) ==
  {r.to : r \in Answers(a) \cup Partial(a)}
  \cup (IF a.saveDue THEN {Acc!SaveTimerFires(a)} ELSE {})
  \cup {Acc!Boot(a.file), Acc!WriteNow(a)}

LOCAL Few(a) == a.issued <= 2
LOCAL reach[n \in 0 .. 4] ==
  IF n = 0 THEN {Acc!Boot({})}
  ELSE LET before == reach[n - 1]
       IN  before \cup {b \in UNION {Successors(a) : a \in before} : Few(b)}
LOCAL Reachable == reach[4]

(* Every account, workspace and flag in memory is on disk or about to be:  *)
(* no handler forgets its save (auth/userStore.ts:235).                    *)
ASSUME ChangesAreScheduled ==
  \A a \in Reachable : a.saveDue \/ a.file = {a.data}

(* The one change that schedules none: an account promoted at startup      *)
(* under a bootstrap password the store refuses (auth/userStore.ts:147).   *)
ASSUME ShortBootstrapIsNotSaved ==
  LET viewer == [role |-> "viewer", password |-> "p2", disabled |-> FALSE]
      image == [users |-> [n \in {"admin"} |-> viewer], workspaces |-> <<>>, flags |-> <<>>]
      booted == AccShort!Boot({image})
  IN  /\ AccShort!ActiveAdmins(booted) = {"admin"}
      /\ booted.data.users["admin"].password = "p2"
      /\ ~booted.saveDue /\ booted.data # image

(* A refused account request leaves the store as it was: only the routes   *)
(* of Partial apply what precedes the part they refuse                     *)
(* (httpServer.ts:366, :405).                                              *)
ASSUME RefusalsChangeNothing ==
  /\ \A a \in Reachable : \A r \in Answers(a) : r.status >= 400 => r.to.data = a.data
  /\ \E a \in Reachable : \E r \in Partial(a) : r.status = 400 /\ r.to.data # a.data

(* Whatever the requests did before, the next start has an administrator   *)
(* who may sign in (auth/userStore.ts:138).                                *)
ASSUME BootHasAnAdministrator ==
  \A a \in Reachable :
    LET booted == Acc!Boot(a.file)
    IN  \E n \in Acc!ActiveAdmins(booted) : \E p \in Long :
          Acc!Login(booted, n, p, 0).status = 200

(* A workspace belongs to an account: none outlives its own, so a name     *)
(* used again starts without one (auth/userStore.ts:199).                  *)
ASSUME WorkspacesHaveOwners ==
  \A a \in Reachable : DOMAIN a.data.workspaces \subseteq DOMAIN a.data.users

-----------------------------------------------------------------------------
(* Timed uses: a sequence of steps, each after a wait of 0 .. 2. *)
LOCAL Uses(S, n) == UNION {[1 .. k -> S] : k \in 0 .. n}
LOCAL TimeOf(run, i) == SumFunction([j \in 1 .. i |-> run[j].wait])

(* Reference: a session is alive at its next use when it was not ended and *)
(* every use of it, the login included, came within Ttl of the one before  *)
(* (auth/authService.ts:159).                                              *)
ASSUME SessionsSlide ==
  \A run \in Uses([wait : 0 .. 2, end : BOOLEAN], 4) :
    LET step(s, i) ==
          IF run[i].end THEN Acc!Logout(s, 1).to ELSE Acc!Validated(s, 1, TimeOf(run, i))
        opened == Acc!CreateSession(Acc!Boot({}), "admin", 0)
        after == FoldLeftDomain(step, opened, run)
        unbroken == \A i \in DOMAIN run : ~run[i].end /\ run[i].wait < Ttl
    IN  Acc!Live(after, 1, TimeOf(run, Len(run)) + 1) =
          (unbroken /\ Ttl > 1)

(* Reference: the service is locked for Lockout after every MaxFailed-th   *)
(* failure in a row, counting no attempt made while it is locked, and a    *)
(* success starts the count anew (auth/authService.ts:94).                 *)
LOCAL Heard(run) ==
  LET heard[i \in 0 .. Len(run)] ==
        IF i = 0 THEN [streak |-> 0, until |-> 0]
        ELSE LET prior == heard[i - 1]
                 now == TimeOf(run, i)
                 streak == prior.streak + 1
             IN  CASE prior.until > now -> prior
                   [] prior.until <= now /\ run[i].good -> [streak |-> 0, until |-> 0]
                   [] prior.until <= now /\ ~run[i].good ->
                        [streak |-> streak, until |-> IF streak % MaxFailed = 0
                                                      THEN now + Lockout ELSE prior.until]
  IN  heard[Len(run)]
ASSUME LockoutFollowsTheFailures ==
  \A run \in Uses([wait : 0 .. 2, good : BOOLEAN], 4) :
    LET step(s, i) ==
          Acc!Login(s, "admin", IF run[i].good THEN "p1" ELSE "p2", TimeOf(run, i)).to
        after == FoldLeftDomain(step, Acc!Boot({}), run)
        now == TimeOf(run, Len(run))
    IN  Acc!Locked(after, now) = (Heard(run).until > now)

-----------------------------------------------------------------------------
Http == INSTANCE HttpRoutes

LOCAL Facts(server, r) ==
  LET steps == Http!Steps(server, r)
  IN  {steps[i].fact : i \in DOMAIN steps} \ {"none"}
LOCAL GateFacts(server, r) ==
  LET steps == Http!BeforeMeasuring(server, r)
  IN  {steps[i].fact : i \in DOMAIN steps} \ {"none"}

(* A request that is refused changed nothing a user has: at most it slid   *)
(* its session, was counted, or made the catalog look again.               *)
ASSUME RefusedRequestsChangeNothing ==
  \A server \in Http!Servers, r \in Http!Routes :
    \A facts \in SUBSET Facts(server, r) :
      LET answer == Http!Handle(server, r, facts)
      IN  answer.status >= 400 =>
            ToSet(answer.done) \subseteq {"slideSession", "measure", "refreshCatalog"}

(* The answer to a request the middleware refuses says nothing of what the *)
(* request asked for: it is the same whatever the handler would have found *)
(* (httpServer.ts:283, before every route).                                *)
ASSUME GatesComeFirst ==
  \A server \in Http!Servers, r \in Http!Routes :
    LET gates == GateFacts(server, r)
    IN  \A facts \in SUBSET Facts(server, r) :
          ~(gates \subseteq facts) =>
            Http!Handle(server, r, facts) = Http!Handle(server, r, facts \cap gates)

(* What reading can change: the walls' pending transitions, a checkpoint,  *)
(* the catalog, and nothing else.                                          *)
LOCAL Reads == Http!Routes \ Http!Writes
ASSUME ReadsChangeThreeThings ==
  UNION {ToSet(Http!Handle({}, r, Facts({}, r)).done) : r \in Reads}
    = {"measure", "takeWallChanges", "advanceCheckpoint", "refreshCatalog"}

(* With auth required every request needs a session: the liveness probe,   *)
(* which a comment calls open (httpServer.ts:284), and the page with the   *)
(* login form, which the comment on the option does not list (:110).       *)
ASSUME ProbesAndPageNeedASession ==
  LET server == {"auth", "authRequired"}
      strangers(r) == Facts(server, r) \ {"loggedIn"}
  IN  \A r \in {"GET /health/live", "GET /health/ready", "GET /health", "GET page"} :
        Http!Handle(server, r, strangers(r)).status = 401

(* A request is measured exactly when the middleware let it through: what  *)
(* the limiter or enforcement turns away is in no metric (:499).           *)
ASSUME MeasuredIsLetThrough ==
  \A server \in Http!Servers, r \in Http!Routes :
    \A facts \in SUBSET Facts(server, r) :
      Contains(Http!Handle(server, r, facts).done, "measure")
        <=> GateFacts(server, r) \subseteq facts

-----------------------------------------------------------------------------
LOCAL Window == 3
LOCAL Limit == 2
LOCAL Runs(n) == UNION {[1 .. k -> 0 .. 3] : k \in 1 .. n}
LOCAL At(waits, i) == SumFunction([j \in 1 .. i |-> waits[j]])
LOCAL Record(waits, i) ==
  LET count(record, j) == Http!Counted(record, At(waits, j), Window)
  IN  FoldLeftDomain(count, {}, SubSeq(waits, 1, i))

(* Reference: a request opens a window unless the last one is still open;  *)
(* of those of a window the first Limit are admitted, so any Window units  *)
(* of time see at most twice that (httpServer.ts:1646).                    *)
LOCAL Opener(waits, i) ==
  LET opener[j \in 1 .. i] ==
        IF j = 1 THEN 1
        ELSE IF At(waits, j) >= At(waits, opener[j - 1]) + Window THEN j ELSE opener[j - 1]
  IN  opener[i]
ASSUME LimiterCountsWindows ==
  \A waits \in Runs(6) :
    LET admitted == {i \in DOMAIN waits : Http!Admitted(Record(waits, i), Limit)}
        within(i) == {j \in admitted : j <= i /\ At(waits, j) > At(waits, i) - Window}
    IN  \A i \in DOMAIN waits :
          /\ (i \in admitted) = (i - Opener(waits, i) < Limit)
          /\ Cardinality(within(i)) <= 2 * Limit

-----------------------------------------------------------------------------
LOCAL Values == {Http!Value(k, n) : k \in Http!ValueKinds, n \in {0, 3, 50}}

(* An empty parameter is not a missing one: for a number it is 0, so a     *)
(* limit becomes the least allowed, and for a time it is missing (:1592).  *)
ASSUME EmptyIsTheMinimum ==
  \A v \in Values :
    LET parsed == Http!ParseBoundedInteger(v, 20, 1, 30)
    IN  /\ parsed \in 1 .. 30
        /\ v.kind = "empty" => parsed = 1 /\ Http!OptionalTimestamp(v) = {}
        /\ v.kind = "absent" => parsed = 20

(* What the budget counts against what the query has: a range has at most  *)
(* one bucket more than withinHistoryBudget() reckons, and may have it.    *)
LOCAL Buckets(from, to, resolution) == {t \div resolution : t \in from .. to}
ASSUME BudgetMissesOneBucket ==
  LET counted(from, to) == (to - from) \div 3 + 1
  IN  /\ \A from \in 0 .. 6 : \A to \in from .. 9 :
           /\ Cardinality(Buckets(from, to, 3)) <= counted(from, to) + 1
           /\ Http!WithinHistoryBudget(from, to, 3, 9, counted(from, to))
           /\ ~Http!WithinHistoryBudget(from, to, 3, 9, counted(from, to) - 1)
      /\ Cardinality(Buckets(2, 3, 3)) = counted(2, 3) + 1
=============================================================================
