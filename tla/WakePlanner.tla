----------------------------- MODULE WakePlanner ----------------------------
(***************************************************************************)
(* Auto-coordinate of one project (workspace/view/auto_coordinate.rs):     *)
(* finished turns and questions of the project's sessions wake its         *)
(* coordinator, in batches and not too often; the user can ask for a run.  *)
(*                                                                         *)
(* There is one timer, which is never cancelled or moved; when it fires it *)
(* attempts what is outstanding by then.  Instants are kept as the time    *)
(* since them, which is not counted past the interval it is compared with, *)
(* and the timer as the time it has left.                                  *)
(***************************************************************************)
EXTENDS Integers

CONSTANTS
  Sessions,
  NoUpdate, Never,                  \* no update; no instant
  BatchWindow, MinWake, RetryDelay  \* BATCH_WINDOW, MIN_WAKE_INTERVAL, RETRY_INTERVAL

VARIABLES
  pending,    \* the update that waits for each session, or NoUpdate
  first,      \* time since first_pending_at
  last,       \* time since last_wake_at
  timer,      \* time until the timer fires, or Never: timer_scheduled is false
  requested,  \* run_requested
  agent,      \* the coordinator's agent; none: the project has no coordinator tab
  choice,     \* auto_coordinate of the coordinator tab
  default,    \* coordinator_auto_default_on
  tactics,    \* some tactic is enabled
  since       \* history: time since the coordinator was last woken, for any reason

planner == <<pending, first, last>>

switches == <<agent, choice, default, tactics>>

vars == <<planner, timer, requested, switches, since>>

Updates == {"finished", "waiting"}

\* deferred: a restored coordinator that waits to be shown.
Agents == {"none", "deferred", "busy", "ready"}

ASSUME WakeAssumption ==
  /\ BatchWindow \in Nat /\ MinWake \in Nat /\ RetryDelay \in Nat
  /\ BatchWindow <= RetryDelay
  /\ NoUpdate \notin Updates /\ Never \notin Nat

Nothing == [s \in Sessions |-> NoUpdate]

HasPending == \E s \in Sessions : pending[s] # NoUpdate

Outstanding == requested \/ HasPending

MaxOf(a, b) == IF a > b THEN a ELSE b

\* Mutant: the batch window alone decides.
DueInBatch(f, l) == MaxOf(BatchWindow - f, 0)

\* due_at, for updates that have waited f, as the time left until then.
DueIn(f, l) == MaxOf(MaxOf(BatchWindow - f, 0), IF l = Never THEN 0 ELSE MinWake - l)

\* auto_coordinate_enabled
Enabled == agent # "none" /\ (choice = "on" \/ (choice = "unset" /\ default))

\* schedule_auto_coordinate_timer, with one that has left to run: one at a time.
Schedule(left, delay) == timer' = IF left = Never THEN delay ELSE left

-----------------------------------------------------------------------------
(* attempt_auto_coordinate_wakeup.  left: the timer as the attempt finds it, Never *)
(* when it is the timer that attempts.                                            *)

\* drop_pending
Drop == pending' = Nothing /\ first' = Never /\ requested' = FALSE

\* The coordinator is closed, auto-coordinate is off, or there is nothing to wake it for.
DropAll(left) == Drop /\ timer' = left /\ UNCHANGED <<last, since, agent>>

NotDue == first # Never /\ DueIn(first, last) > 0

\* Mutant: a wakeup that is held is not tried again.
HoldQuietly(left, asked) ==
  /\ first' = IF HasPending THEN BatchWindow ELSE Never
  /\ requested' = (requested \/ asked)
  /\ agent' = IF agent = "deferred" THEN "busy" ELSE agent
  /\ timer' = left
  /\ UNCHANGED <<pending, last, since>>

\* hold_auto_coordinate_wakeup: the updates that were taken are put back and stay due.
\* A coordinator that was not started is started first.
Hold(left, asked) ==
  /\ first' = IF HasPending THEN BatchWindow ELSE Never
  /\ requested' = (requested \/ asked)
  /\ agent' = IF agent = "deferred" THEN "busy" ELSE agent
  /\ Schedule(left, RetryDelay)
  /\ UNCHANGED <<pending, last, since>>

\* The text is accepted: mark_woken.
Wake(left) ==
  /\ agent = "ready"
  /\ Drop /\ last' = 0 /\ since' = 0
  /\ timer' = left
  /\ UNCHANGED agent

Attempt(left, asked) ==
  \/ /\ (~asked /\ ~Enabled) \/ agent = "none" \/ ~tactics
     /\ DropAll(left)
  \/ /\ asked \/ Enabled
     /\ agent # "none" /\ tactics
     /\ \/ ~asked /\ NotDue /\ Schedule(left, DueIn(first, last))
           /\ UNCHANGED <<planner, requested, since, agent>>
        \/ (asked \/ ~NotDue) /\ (Hold(left, asked) \/ Wake(left))

TimerFires ==
  /\ timer = 0
  /\ \/ Outstanding /\ Attempt(Never, requested)
     \/ ~Outstanding /\ timer' = Never /\ UNCHANGED <<planner, requested, since, agent>>
  /\ UNCHANGED <<choice, default, tactics>>

\* run_coordinator_now
RunNow == Attempt(timer, TRUE) /\ UNCHANGED <<choice, default, tactics>>

-----------------------------------------------------------------------------

\* note_session_for_auto_coordinate: record, then schedule_auto_coordinate_attempt.
Note(s, u) ==
  /\ Enabled
  /\ pending' = [pending EXCEPT ![s] = u]
  /\ first' = IF first = Never THEN 0 ELSE first
  /\ Schedule(timer, DueIn(first', last))
  /\ UNCHANGED <<last, requested, switches, since>>

\* set_auto_coordinate
SwitchOn ==
  /\ agent # "none" /\ choice' = "on"
  /\ \/ ~Enabled /\ Attempt(timer, TRUE)
     \/ Enabled /\ choice # "on" /\ UNCHANGED <<planner, timer, requested, since, agent>>
  /\ UNCHANGED <<default, tactics>>

SwitchOff ==
  /\ agent # "none" /\ choice # "off" /\ choice' = "off"
  /\ Drop
  /\ UNCHANGED <<last, timer, agent, default, tactics, since>>

\* Settings and tabs change without a word to the planner; the next attempt finds out.
SetDefault == default' = ~default /\ UNCHANGED <<planner, timer, requested, agent, choice, tactics, since>>

SetTactics == tactics' = ~tactics /\ UNCHANGED <<planner, timer, requested, agent, choice, default, since>>

CloseCoordinator ==
  /\ agent # "none" /\ agent' = "none" /\ choice' = "unset"
  /\ UNCHANGED <<planner, timer, requested, default, tactics, since>>

AgentChanges ==
  /\ \/ agent = "none" /\ agent' = "deferred"
     \/ agent = "deferred" /\ agent' = "busy"
     \/ agent \in {"busy", "ready"} /\ agent' \in {"busy", "ready"} \ {agent}
  /\ UNCHANGED <<planner, timer, requested, choice, default, tactics, since>>

\* One unit of time; a timer that is due fires first.
Older(age, limit) == IF age = Never \/ age >= limit THEN age ELSE age + 1

Clock ==
  /\ timer # 0
  /\ first' = Older(first, BatchWindow) /\ last' = Older(last, MinWake) /\ since' = Older(since, MinWake)
  /\ timer' = IF timer = Never THEN Never ELSE timer - 1
  /\ UNCHANGED <<pending, requested, switches>>

Init ==
  /\ pending = Nothing /\ first = Never /\ last = Never /\ timer = Never /\ requested = FALSE
  /\ agent \in {"none", "deferred"} /\ choice \in {"unset", "on", "off"}
  /\ default \in BOOLEAN /\ tactics = TRUE /\ since = Never

Next ==
  \/ TimerFires \/ RunNow \/ SwitchOn \/ SwitchOff
  \/ SetDefault \/ SetTactics \/ CloseCoordinator \/ AgentChanges \/ Clock
  \/ \E s \in Sessions, u \in Updates : Note(s, u)

Spec == Init /\ [][Next]_vars

Woken == timer = 0 /\ since' = 0 /\ TimerFires

\* Timers fire and time passes.  A ready coordinator may refuse a text, but not always.
Fairness == WF_vars(Clock) /\ WF_vars(TimerFires) /\ SF_vars(Woken)

-----------------------------------------------------------------------------
(* Properties *)

TypeOK ==
  /\ pending \in [Sessions -> Updates \cup {NoUpdate}]
  /\ first \in 0..BatchWindow \cup {Never}
  /\ last \in 0..MinWake \cup {Never} /\ since \in 0..MinWake \cup {Never}
  /\ timer \in Nat \cup {Never}
  /\ requested \in BOOLEAN
  /\ agent \in Agents /\ choice \in {"unset", "on", "off"} /\ default \in BOOLEAN /\ tactics \in BOOLEAN

\* What is outstanding has a timer, although none is ever moved: updates that were held,
\* recorded late or put back, and a run the user asked for, are tried when they are
\* due or within the retry interval, whatever else the timer was started for.
OutstandingOnTime ==
  /\ Outstanding => timer # Never
  /\ HasPending => first # Never /\ timer <= MaxOf(DueIn(first, last), RetryDelay)

\* MIN_WAKE_INTERVAL: a wakeup nobody asked for keeps its distance from every wakeup
\* before it, asked for or not.
WakesSpaced ==
  [][(timer = 0 /\ timer' # 0 /\ HasPending /\ ~HasPending' /\ ~requested /\ Enabled /\ tactics)
       => since = Never \/ since = MinWake]_vars

\* Nothing outstanding is forgotten: once the coordinator stays ready it is woken, or
\* auto-coordinate is switched off.
WokenEventually == <>[](agent = "ready" /\ tactics) => (Outstanding ~> ~Outstanding)

\* RETRY_INTERVAL: "How soon a wakeup that is due but held (coordinator busy, user
\* typing) is tried again": a run that was asked for and held.
RunRetriedSoon == requested => timer <= RetryDelay
=============================================================================
