-------------------------------- MODULE Alerts --------------------------------
(***************************************************************************)
(* One market's walls and the alert rules: server/insights/insightEngine.ts*)
(* finds liquidity walls in the depth frames, the one-second cadence of    *)
(* insightsRuntime.ts publishes a frame and evaluates the rules of         *)
(* alerts/alertEngine.ts, REST clients read snapshots and edit the rules,  *)
(* and index.ts saves the rules to a file that the next process loads.     *)
(*                                                                         *)
(* Time is counted in ticks of the cadence.  Whether a trend, volume or    *)
(* velocity rule's threshold is passed at a tick is an input; a wall rule  *)
(* reads the wall transitions of the frame.                                *)
(***************************************************************************)
EXTENDS Integers, FiniteSets, Sequences, SequencesExt

CONSTANTS
  Levels,         \* book levels that can carry a wall
  RuleIds,        \* what randomId() returns, each once
  MinCooldown, MaxCooldown,  \* limits of cooldownMs, in ticks
  Inputs,         \* bodies of POST /api/v1/alerts/rules
  Patches,        \* bodies of PATCH: functions of some of a rule's fields
  MaxPending,     \* bound: transitions waiting for a frame
  MaxChanges,     \* bound: rule changes
  MaxFaults       \* bound: failed saves and restarts

RuleKinds == {"liquidity_wall", "trend_score", "volume_delta", "trade_velocity"}
WallStates == {"appeared", "disappeared"}

ASSUME AlertsAssumption ==
  /\ MinCooldown \in Nat \ {0} /\ MaxCooldown \in Nat /\ MinCooldown <= MaxCooldown
  /\ IsFiniteSet(Levels)
  /\ Inputs \subseteq
       [kind : RuleKinds, wallState : WallStates, cooldown : Int, enabled : BOOLEAN]
  /\ \A patch \in Patches : \A f \in DOMAIN patch :
       \/ f = "wallState" /\ patch[f] \in WallStates
       \/ f = "cooldown" /\ patch[f] \in Int
       \/ f = "enabled" /\ patch[f] \in BOOLEAN
  /\ {MaxPending, MaxChanges, MaxFaults} \subseteq Nat

VARIABLES
  wallState,      \* each level: none, candidate or confirmed
  pending,        \* pendingWallTransitions
  sawInput,
  framed,         \* the last tick published a frame
  rules,          \* the rules by id
  age,            \* ticks since a rule's last trigger, up to MaxCooldown
  timer,          \* the debounce timer of saveAlertRules()
  saves,          \* saves in progress: mkdir, then writing
  disk,           \* the rules file
  used,           \* identifiers given out
  changes, faults,
  heard,          \* history: the walls according to the frames published
  taken,          \* history: a REST snapshot took transitions
  recent,         \* history: the rules that alerted at the last ticks
  damaged         \* history: a save failed, or overlapped another

insight == <<wallState, pending, sawInput, framed, heard, taken>>
evaluation == <<age, recent>>
file == <<timer, saves, disk, damaged>>
alertsVars == <<insight, rules, evaluation, file, used, changes, faults>>

-----------------------------------------------------------------------------
(* Rules and their file. *)

NoRules == [r \in {} |-> {}]
Clamped(ticks) == IF ticks < MinCooldown THEN MinCooldown
                  ELSE IF ticks > MaxCooldown THEN MaxCooldown ELSE ticks

RuleOf(input) == [input EXCEPT !.cooldown = Clamped(input.cooldown)]

UnclampedPatch(rule, patch) ==  \* mutant: PATCH stores the cooldown as given
  [f \in DOMAIN rule |-> IF f \in DOMAIN patch THEN patch[f] ELSE rule[f]]

(* The fields of updateRule(); the kind never changes. *)
Patched(rule, patch) ==
  [f \in DOMAIN rule |->
     IF f \notin DOMAIN patch THEN rule[f]
     ELSE IF f = "cooldown" THEN Clamped(patch[f]) ELSE patch[f]]

Readable(contents) == [readable |-> TRUE, rules |-> contents]
Unreadable == [readable |-> FALSE, rules |-> NoRules]

(* loadAlertRules() and restoreRules(): anything unreadable is no rules. *)
Restored(contents) == IF contents.readable THEN contents.rules ELSE NoRules

-----------------------------------------------------------------------------
(* Walls. *)

Transition(kind, level) == [kind |-> kind, level |-> level]
TransitionsOf(kind, levels) ==
  SetToSeq({Transition(kind, l) : l \in levels})

Told(walls, transitions) ==
  FoldLeft(LAMBDA w, t : IF t.kind = "appeared" THEN w \union {t.level}
                         ELSE w \ {t.level}, walls, transitions)

Silence == [i \in 1 .. MinCooldown |-> {}]

Confirmed == {l \in Levels : wallState[l] = "confirmed"}

AlertsInit ==
  /\ wallState = [l \in Levels |-> "none"] /\ pending = <<>>
  /\ sawInput = FALSE /\ framed = FALSE
  /\ rules = NoRules /\ age = [r \in RuleIds |-> MaxCooldown]
  /\ timer = FALSE /\ saves = <<>> /\ disk = Unreadable
  /\ used = {} /\ changes = 0 /\ faults = 0
  /\ heard = {} /\ taken = FALSE /\ recent = Silence /\ damaged = FALSE

(* Mutant: a candidate that never was a wall is reported gone. *)
DisappearedCandidates(qualifying) == {l \in Levels \ qualifying : wallState[l] # "none"}
Disappeared(qualifying) == Confirmed \ qualifying

(* updateWalls(): a level qualifies by quantity and notional; a candidate  *)
(* that has qualified for wallConfirmMs ("mature") is confirmed.           *)
UpdateWalls(qualifying, mature) ==
  LET appeared == {l \in qualifying \intersect mature : wallState[l] = "candidate"}
  IN /\ wallState' = [l \in Levels |->
           IF l \notin qualifying THEN "none"
           ELSE IF wallState[l] = "none" THEN "candidate"
           ELSE IF l \in appeared THEN "confirmed" ELSE wallState[l]]
     /\ pending' = pending \o TransitionsOf("appeared", appeared)
                           \o TransitionsOf("disappeared", Disappeared(qualifying))

(* handleDepth(): a book whose median quantity is zero changes no wall. *)
HandleDepth ==
  /\ Len(pending) < MaxPending
  /\ \/ \E qualifying \in SUBSET Levels : \E mature \in SUBSET qualifying :
          UpdateWalls(qualifying, mature)
     \/ UNCHANGED <<wallState, pending>>
  /\ sawInput' = TRUE
  /\ UNCHANGED <<framed, heard, taken, rules, evaluation, file, used, changes, faults>>

(* GET /api/v1/insights: snapshotFrame() builds a frame outside the cadence, *)
(* and building a frame empties the pending transitions.                     *)
RestSnapshot ==
  /\ sawInput' = TRUE /\ pending' = <<>>
  /\ taken' = (taken \/ pending # <<>>)
  /\ UNCHANGED <<wallState, framed, heard, rules, evaluation, file, used, changes,
                 faults>>

-----------------------------------------------------------------------------
(* The cadence. *)

(* maybePublish(): no frame before any input, nor within publishIntervalMs  *)
(* of the last one (a tick that comes a little early).                      *)
MayPublish(frame) == IF frame THEN sawInput ELSE ~sawInput \/ framed

(* assessRule(): whether a rule's condition holds. *)
Triggers(r, passed, transitions) ==
  /\ rules[r].enabled
  /\ IF rules[r].kind = "liquidity_wall"
     THEN \E i \in DOMAIN transitions : transitions[i].kind = rules[r].wallState
     ELSE r \in passed

CooledDown(r) == age[r] >= rules[r].cooldown

NextAge(raised) ==
  [r \in RuleIds |-> IF r \in raised THEN 1
                     ELSE IF age[r] < MaxCooldown THEN age[r] + 1 ELSE MaxCooldown]

BuildFrame(frame) ==
  /\ heard' = IF frame THEN Told(heard, pending) ELSE heard
  /\ pending' = IF frame THEN <<>> ELSE pending

(* tick(): a frame perhaps, then evaluate() of every rule on its transitions. *)
Tick ==
  \E frame \in {f \in BOOLEAN : MayPublish(f)} :
  \E passed \in SUBSET {r \in DOMAIN rules : rules[r].kind # "liquidity_wall"} :
    LET raised == {r \in DOMAIN rules :
                     /\ Triggers(r, passed, IF frame THEN pending ELSE <<>>)
                     /\ CooledDown(r)}
    IN /\ BuildFrame(frame) /\ framed' = frame
       /\ age' = NextAge(raised)
       /\ recent' = SubSeq(<<raised>> \o recent, 1, MinCooldown)
       /\ UNCHANGED <<wallState, sawInput, taken, rules, file, used, changes, faults>>

-----------------------------------------------------------------------------
(* Rule management over REST. *)

Change == changes < MaxChanges /\ changes' = changes + 1

ArmFirstTimer == timer' = (timer \/ saves = <<>>)  \* mutant: no timer during a save
(* onRulesChanged: the debounce timer starts again. *)
SaveAlertRules == timer' = TRUE

CreateRule(r, input) ==
  /\ Change /\ r \notin used
  /\ used' = used \union {r}
  /\ rules' = [q \in DOMAIN rules \union {r} |-> IF q = r THEN RuleOf(input) ELSE rules[q]]
  /\ SaveAlertRules
  /\ UNCHANGED <<insight, evaluation, saves, disk, damaged, faults>>

(* The list handed to a save holds the rule objects themselves: until it is *)
(* turned into text, an update shows in it.                                 *)
UpdateRule(r, patch) ==
  /\ Change /\ r \in DOMAIN rules
  /\ rules' = [rules EXCEPT ![r] = Patched(@, patch)]
  /\ saves' = [i \in DOMAIN saves |->
       IF saves[i].stage = "mkdir" /\ r \in DOMAIN saves[i].rules
       THEN [saves[i] EXCEPT !.rules[r] = Patched(@, patch)] ELSE saves[i]]
  /\ SaveAlertRules
  /\ UNCHANGED <<insight, evaluation, disk, damaged, used, faults>>

DeleteRule(r) ==
  /\ Change /\ r \in DOMAIN rules
  /\ rules' = [q \in DOMAIN rules \ {r} |-> rules[q]]
  /\ SaveAlertRules
  /\ UNCHANGED <<insight, evaluation, saves, disk, damaged, used, faults>>

-----------------------------------------------------------------------------
(* The rules file.  Saves are not serialised: one that takes longer than    *)
(* the debounce runs beside the next.                                       *)

SaveFires ==
  /\ timer /\ timer' = FALSE
  /\ saves' = [i \in 1 .. Len(saves) + 1 |->
       IF i <= Len(saves) THEN [saves[i] EXCEPT !.alone = FALSE]
       ELSE [stage |-> "mkdir", rules |-> rules, alone |-> saves = <<>>]]
  /\ UNCHANGED <<insight, rules, evaluation, disk, damaged, used, changes, faults>>

(* mkdir() done: the list becomes text and writeFile() empties the file. *)
WriteBegins(i) ==
  /\ i \in DOMAIN saves /\ saves[i].stage = "mkdir"
  /\ saves' = [saves EXCEPT ![i].stage = "writing"]
  /\ disk' = Unreadable
  /\ UNCHANGED <<insight, rules, evaluation, timer, damaged, used, changes, faults>>

(* Of two writes to the same file the shorter text may end in the longer's. *)
WriteEnds(i) ==
  /\ i \in DOMAIN saves /\ saves[i].stage = "writing"
  /\ \/ disk' = Readable(saves[i].rules)
     \/ ~saves[i].alone /\ disk' = Unreadable
  /\ damaged' = ~saves[i].alone
  /\ saves' = RemoveAt(saves, i)
  /\ UNCHANGED <<insight, rules, evaluation, timer, used, changes, faults>>

SaveFails(i) ==
  /\ faults < MaxFaults /\ faults' = faults + 1
  /\ i \in DOMAIN saves
  /\ saves' = RemoveAt(saves, i) /\ damaged' = TRUE
  /\ UNCHANGED <<insight, rules, evaluation, timer, disk, used, changes>>

(* The process ends, by a crash or by shutdown() (the timer is unref'd and *)
(* nobody waits for a save), and the next one loads the file.              *)
Restart ==
  /\ faults < MaxFaults /\ faults' = faults + 1
  /\ rules' = Restored(disk)
  /\ age' = [r \in RuleIds |-> MaxCooldown] /\ recent' = Silence
  /\ timer' = FALSE /\ saves' = <<>> /\ damaged' = FALSE
  /\ wallState' = [l \in Levels |-> "none"] /\ pending' = <<>>
  /\ sawInput' = FALSE /\ framed' = FALSE /\ heard' = {} /\ taken' = FALSE
  /\ UNCHANGED <<disk, used, changes>>

AlertsNext ==
  \/ HandleDepth \/ RestSnapshot \/ Tick
  \/ \E r \in RuleIds : \E input \in Inputs : CreateRule(r, input)
  \/ \E r \in RuleIds : \E patch \in Patches : UpdateRule(r, patch)
  \/ \E r \in RuleIds : DeleteRule(r)
  \/ SaveFires \/ Restart
  \/ \E i \in DOMAIN saves : WriteBegins(i)
  \/ \E i \in DOMAIN saves : WriteEnds(i)
  \/ \E i \in DOMAIN saves : SaveFails(i)

AlertsSpec == AlertsInit /\ [][AlertsNext]_alertsVars

-----------------------------------------------------------------------------
(* "Wall transitions since the previous published frame (alert input)"     *)
(* (insightEngine.ts): whatever the order of depth frames and ticks, what  *)
(* the frames have told the rules, with what the next one will, is exactly *)
(* the confirmed walls, and every transition is news: no rule hears of a   *)
(* wall twice, or that one is gone that never was.  A REST snapshot that   *)
(* took transitions ends this.                                             *)
AlertsKnowTheWalls ==
  ~taken =>
    /\ Told(heard, pending) = Confirmed
    /\ \A i \in DOMAIN pending :
         pending[i].kind = "appeared" <=>
           pending[i].level \notin Told(heard, SubSeq(pending, 1, i - 1))

(* "Tidak ada alert berulang tanpa cooldown" (docs/phase-5/exit-report.md):*)
(* a process never alerts twice on a rule within the shortest cooldown,    *)
(* however the rule is edited, disabled or enabled in between.             *)
AlertsAreSpaced ==
  \A i, j \in DOMAIN recent : i # j => recent[i] \intersect recent[j] = {}

(* Once the timer and the save it started are done, a restart would bring  *)
(* back exactly the rules in force, deletions and updates included, unless *)
(* that save failed or ran beside another.                                 *)
RulesFileFollows == ~timer /\ saves = <<>> /\ ~damaged => Restored(disk) = rules
=============================================================================
