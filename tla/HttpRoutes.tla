----------------------------- MODULE HttpRoutes -----------------------------
(***************************************************************************)
(* The REST surface of server/httpServer.ts: which middleware and which    *)
(* steps of which handler a request meets, and in what order.  What is     *)
(* true of a request and of the service when it is handled is a set of     *)
(* facts; a step either refuses the request with a status, unless its fact *)
(* holds, or does something.  The account routes are in Accounts, payloads *)
(* are left out.                                                           *)
(***************************************************************************)
EXTENDS Integers, SequencesExt

(* A server: the optional parts createMarketHttpServer() is given.         *)
Options == {"auth", "authRequired", "users", "adminToken", "rawReplay"}
Servers == {s \in SUBSET Options : "authRequired" \in s => "auth" \in s}

Check(fact, status) == [fact |-> fact, status |-> status, effect |-> "none"]
Do(effect) == [fact |-> "none", status |-> 0, effect |-> effect]

-----------------------------------------------------------------------------
(* The handlers, grouped as in the source.  A handler that ends without a  *)
(* refusal answers 200, 201 or 204; the table gives its steps only.        *)

Symbol == Check("symbolSupported", 404)
Active == Check("symbolActive", 409)

ProbeRoutes ==
  [r \in {"GET /health/live", "GET /health", "GET /markets", "GET /observability/alerts",
          "GET /observability/incidents", "GET metrics"} |-> <<>>]
  @@ "GET /health/ready" :> <<Check("everySessionReady", 503)>>

MarketRoutes ==
  "GET /snapshot" :> <<Symbol, Active, Check("bookValid", 503)>>
  @@ "GET /history" :>
       <<Symbol, Active, Check("rangeOrdered", 400), Check("withinBudget", 413),
         Check("storeWithinLimit", 413)>>
  @@ "GET /settings" :> <<>>
  @@ "PUT /settings" :>
       <<Check("bodyIsObject", 400), Check("valuesFinite", 400), Do("updateSettings")>>

AlertRoutes ==
  "GET /alerts/rules" :> <<>>
  @@ "POST /alerts/rules" :>
       <<Check("bodyIsObject", 400), Check("ruleShaped", 400), Do("createRule")>>
  \* updateRule() looks the rule up, then throws a TypeError at a bad shape
  @@ "PATCH /alerts/rules/:id" :>
       <<Check("ruleExists", 404), Check("ruleShaped", 400), Do("updateRule")>>
  @@ "DELETE /alerts/rules/:id" :> <<Check("ruleExists", 404), Do("deleteRule")>>
  @@ "GET /alerts/events" :> <<>>
  @@ "GET /signals/performance" :> <<>>
  \* the frame it builds takes the wall changes pending for the next tick
  @@ "GET /insights" :> <<Symbol, Check("symbolActive", 409), Do("takeWallChanges")>>

ReplayRoutes ==
  "POST /replay/session" :>
    <<Check("rangeOrdered", 400), Check("withinBudget", 413),
      Check("storeWithinLimit", 413), Do("createReplay")>>
  @@ "GET /replay/session/:id" :> <<Check("replayAlive", 404)>>

Raw == Check("rawReplay", 503)
RawAlive == Check("rawSessionAlive", 404)

CaptureRoutes ==
  "GET /replay/raw/captures" :> <<Raw, Do("refreshCatalog")>>
  @@ "POST /replay/raw/captures/:id/verify" :>
       \* refreshed for a capture the catalog lacks, and again by verify()
       <<Check("verifyNotLimited", 429), Raw, Do("refreshCatalog"),
         Check("captureKnown", 404), Check("captureStillThere", 500),
         Check("captureComplete", 500), Check("withinVerifyLimit", 413),
         Check("captureReplayable", 422)>>

RawSessionRoutes ==
  "POST /replay/raw/session" :>
    <<Raw, Check("rangeOrdered", 400), Check("captureNamed", 400), Do("refreshCatalog"),
      Check("captureCovers", 404), Check("rangeShaped", 400), Check("withinMaxRange", 413),
      Do("createRawSession")>>
  @@ "GET /replay/raw/session/:id" :> <<Raw, RawAlive>>
  @@ "PATCH /replay/raw/session/:id" :>
       <<Raw, Check("actionShaped", 400), RawAlive, Check("actionAllowed", 500),
         Do("controlRawSession")>>
  @@ "GET /replay/raw/session/:id/frames" :>
       <<Raw, RawAlive, Check("sourceUnchanged", 500), Do("advanceCheckpoint")>>
  @@ "DELETE /replay/raw/session/:id" :> <<Raw, RawAlive, Do("deleteRawSession")>>

(* What no handler takes: under /api, and a path of the built page, which  *)
(* mountStaticApplication() serves when there is a build.                  *)
OtherRoutes == "GET /missing" :> <<Check("routeExists", 404)>>
               @@ "GET page" :> <<Check("pageBuilt", 404)>>

Handlers == ProbeRoutes @@ MarketRoutes @@ AlertRoutes @@ ReplayRoutes
            @@ CaptureRoutes @@ RawSessionRoutes @@ OtherRoutes
Routes == DOMAIN Handlers
Writes == {"PUT /settings", "POST /alerts/rules", "PATCH /alerts/rules/:id",
           "DELETE /alerts/rules/:id", "POST /replay/session", "POST /replay/raw/session",
           "PATCH /replay/raw/session/:id", "DELETE /replay/raw/session/:id"}

-----------------------------------------------------------------------------
(* The middleware before them, in the order it is installed.  A refusal by *)
(* cors or by the body parser is an Error like any other: 500.             *)

Observed == {"GET /observability/alerts", "GET /observability/incidents", "GET metrics"}
UnderApi(r) == r \notin {"GET metrics", "GET page"}

(* Enforcement is installed without a path: it meets every request, and    *)
(* what it compares with /health and /auth/ is the whole path, which for   *)
(* the routes it means starts with /api/v1.                                *)
OpenToAll(r) == FALSE

Admission(r) ==
  <<Check("originAllowed", 500), Check("bodyParses", 500)>>
  \o (IF UnderApi(r) THEN <<Check("notLimited", 429)>> ELSE <<>>)
Enforcement(server, r) ==
  IF "authRequired" \in server /\ ~OpenToAll(r)
  THEN <<Do("slideSession"), Check("loggedIn", 401)>> ELSE <<>>
AdminTokenGate(server, r) ==
  IF "adminToken" \in server /\ r \in Observed THEN <<Check("adminToken", 401)>> ELSE <<>>

BeforeMeasuring(server, r) ==
  Admission(r) \o Enforcement(server, r) \o AdminTokenGate(server, r)

Steps(server, r) == BeforeMeasuring(server, r) \o <<Do("measure")>> \o Handlers[r]

(* One request: the status it is answered with (200 stands for 200, 201    *)
(* and 204) and what was done, in order.                                   *)
Handle(server, r, facts) ==
  LET step(seen, s) ==
        IF seen.status # 200 THEN seen
        ELSE IF s.effect # "none" THEN [seen EXCEPT !.done = Append(@, s.effect)]
        ELSE IF s.fact \in facts THEN seen
        ELSE [seen EXCEPT !.status = s.status]
  IN  FoldLeft(step, [status |-> 200, done |-> <<>>], Steps(server, r))

(* The upgrade handler: the status written to the socket, 101 to go on. *)
Upgrade(server, facts) ==
  LET step(status, s) == IF status # 101 \/ s.fact \in facts THEN status ELSE s.status
      checks == <<Check("serving", 503), Check("wsPath", 404), Check("originAllowed", 403)>>
                \o (IF "authRequired" \in server THEN <<Check("loggedIn", 401)>> ELSE <<>>)
  IN  FoldLeft(step, 101, checks)

-----------------------------------------------------------------------------
(* createRateLimiter(): one client's record, {} before its first request.  *)

NewWindow(now, window) == {[count |-> 1, resetAt |-> now + window]}

Counted(record, now, window) ==
  IF \A r \in record : r.resetAt <= now THEN NewWindow(now, window)
  ELSE {[r EXCEPT !.count = @ + 1] : r \in record}

Admitted(record, limit) == \A r \in record : r.count = 1 \/ r.count <= limit

-----------------------------------------------------------------------------
(* Query and body values: [kind |-> ..., n |-> ...] of a kind below; n is  *)
(* what a number, a numeric string or a date stands for.                   *)

ValueKinds == {"absent", "null", "empty", "number", "numeric", "date", "text"}
Value(kind, n) == [kind |-> kind, n |-> n]

(* JavaScript's Number(value): null and "" are 0; {} is NaN. *)
Number(v) == CASE v.kind \in {"number", "numeric"} -> {v.n}
               [] v.kind \in {"null", "empty"} -> {0}
               [] v.kind \in {"absent", "text", "date"} -> {}

Or(parsed, fallback) == IF parsed = {} THEN fallback ELSE CHOOSE n \in parsed : TRUE

ParsedTimestamp(v) == IF v.kind \in {"number", "numeric", "date"} THEN {v.n} ELSE {}
ParseTimestamp(v, fallback) == Or(ParsedTimestamp(v), fallback)
OptionalTimestamp(v) == ParsedTimestamp(v)
OptionalFinite(v) == Number(v)

Clamped(n, minimum, maximum) == Max({minimum, Min({maximum, n})})
ParseBoundedInteger(v, fallback, minimum, maximum) ==
  IF Number(v) = {} THEN fallback
  ELSE Clamped(CHOOSE n \in Number(v) : TRUE, minimum, maximum)

WithinHistoryBudget(from, to, resolution, maxRange, maxPoints) ==
  /\ 0 <= from /\ from <= to
  /\ to - from <= maxRange
  /\ (to - from) \div Max({1, resolution}) + 1 <= maxPoints
=============================================================================
