---------------------------- MODULE AutoContinue ----------------------------
(***************************************************************************)
(* Auto-continue of one pane: when its agent stops at a usage limit, type  *)
(* one "Continue" after the reset (cli_agent_sessions/auto_continue.rs and *)
(* terminal/view/auto_continue.rs).                                        *)
(*                                                                         *)
(* AutoContinueModel subscribes to the sessions model: its actions are the *)
(* session's actions followed, before anything else happens, by the        *)
(* reaction to the events they emitted.  Armed continues live in the pane, *)
(* in the settings (so that they survive a restart) and in timers of the   *)
(* view that are never cancelled.  A clock tick is one minute: the slack   *)
(* after a reset, the retry delay and the longest single timer wait.       *)
(***************************************************************************)
EXTENDS AgentSessions

CONSTANTS
  NoPane, NoArm, NoTime,
  MaxAttempts,                       \* MAX_DELIVERY_ATTEMPTS
  MaxTime, MaxStops, MaxRestarts, MaxGen     \* bounds of the model

VARIABLES
  pane,       \* PaneAutoContinue of the view, or NoPane
  timers,     \* timers of the view, each for one Armed event
  store,      \* auto_continue_armed_sessions: ID -> persisted arm or NoTime
  overrides,  \* auto_continue_session_overrides: ID -> choice, where there is one
  default,    \* auto_continue_on_limit_reset
  usage,      \* what the usage model knows of the provider's plan
  writable,   \* the agent is the foreground command of the pane
  now,        \* wall clock, in minutes
  stops,      \* history: limit stops so far, and the session of each
  dismissed,  \* history: stops whose pending continue the user typed over, until
              \* the user asked for it again by a switch
  sent,       \* history: every Continue typed
  restarts    \* app restarts so far

settings == <<store, overrides, default>>

world == <<usage, writable, now, restarts>>

vars == <<sessionVars, pane, timers, settings, world, stops, dismissed, sent>>

Slack == 1   \* AUTO_CONTINUE_RESET_SLACK_SECS
Retry == 1   \* AUTO_CONTINUE_RETRY_SECS
Chunk == 1   \* MAX_AUTO_CONTINUE_TIMER_CHUNK

\* exhaustion of the plan: no plan data, not exhausted (near: at 99 percent, with a
\* known reset), exhausted until reset, or exhausted with no known reset.
Usages == {[kind |-> k, reset |-> 0] : k \in {"none", "free", "unknown"}}
            \cup [kind : {"near", "full"}, reset : Resets]

\* stop is history: which limit stop this arm answers.
Arms == [at : Nat, id : Ids, gen : Nat, tries : Nat, restored : BOOLEAN, stop : Nat]

Panes == [enabled : BOOLEAN, pending : Nat, pendingId : Ids \cup {NoId}, armed : Arms \cup {NoArm},
          gen : Nat, key : Ids \cup {NoId}]

NewPane == [enabled |-> FALSE, pending |-> 0, pendingId |-> NoId, armed |-> NoArm, gen |-> 0,
            key |-> NoId]

\* wake: when the current chunk of the wait ends.
TimerRecords == [at : Nat, gen : Nat, wake : Nat]

Saved == [at : Nat, stop : Nat]

Sendings == [stop : Nat, into : Ids, at : Nat, due : Nat, dismissed : BOOLEAN, wanted : BOOLEAN]

ASSUME AutoContinueAssumption ==
  /\ NoPane \notin Panes /\ NoArm \notin Arms /\ NoTime \notin Saved
  /\ MaxAttempts \in Nat /\ MaxTime \in Nat /\ MaxStops \in Nat /\ MaxRestarts \in Nat /\ MaxGen \in Nat

MaxOf(a, b) == IF a > b THEN a ELSE b

MinOf(a, b) == IF a < b THEN a ELSE b

-----------------------------------------------------------------------------
(* What the model decides from *)

\* auto_continue_availability of a local session.
Eligible(s) == s # NoSession /\ s.rich /\ s.id # NoId /\ s.plugin

EffectiveIn(ov, def, id) == IF ov[id] = "unset" THEN def ELSE ov[id] = "on"

\* reset_for_limit_stop: the later of what the message states and what usage
\* shows; 0 when neither is known.
ResetFor(u, stated) == MaxOf(IF u.kind \in {"near", "full"} THEN u.reset ELSE 0, stated)

-----------------------------------------------------------------------------
(* State changes of the pane, as operators on b: its pane, timers and store,   *)
(* and the number of limit stops counted so far.                              *)

Here == [pane |-> pane, timers |-> timers, store |-> store, stops |-> stops]

\* Armed: the view schedules a timer.
WithTimer(b, arm) ==
  [b EXCEPT !.timers = @ \cup {[at |-> arm.at, gen |-> arm.gen,
                                wake |-> MinOf(MaxOf(arm.at, now), now + Chunk)]}]

Save(b, key, saved) == IF key = NoId THEN b ELSE [b EXCEPT !.store[key] = saved]

\* Mutant: a moved arm is not announced to the view.
ArmQuietly(b, arm) ==
  Save([b EXCEPT !.pane.gen = arm.gen, !.pane.armed = arm, !.pane.pending = 0, !.pane.pendingId = NoId],
       b.pane.key, [at |-> arm.at, stop |-> arm.stop])

\* Mutant: an arm lives in memory only.
ArmUnsaved(b, arm) ==
  WithTimer([b EXCEPT !.pane.gen = arm.gen, !.pane.armed = arm, !.pane.pending = 0, !.pane.pendingId = NoId],
            arm)

\* Install an arm under a new generation, persist it and announce it.
Arm(b, arm) ==
  WithTimer(Save([b EXCEPT !.pane.gen = arm.gen, !.pane.armed = arm, !.pane.pending = 0,
                           !.pane.pendingId = NoId],
                 b.pane.key, [at |-> arm.at, stop |-> arm.stop]), arm)

\* disarm: the generation advances in any case; the persisted arm is dropped with
\* a pending one.
Disarm(b) ==
  IF b.pane = NoPane THEN b
  ELSE LET d == [b EXCEPT !.pane.gen = @ + 1, !.pane.pending = 0, !.pane.pendingId = NoId,
                          !.pane.armed = NoArm]
       IN  IF b.pane.pending # 0 \/ b.pane.armed # NoArm THEN Save(d, b.pane.key, NoTime) ELSE d

\* retry_pending_usage_confirmation with a reset (0: unknown).
Confirm(b, reset) ==
  IF b.pane.pending = 0 \/ reset <= now THEN b
  ELSE Arm(b, [at |-> reset + Slack, id |-> b.pane.pendingId, gen |-> b.pane.gen + 1, tries |-> 0,
               restored |-> FALSE, stop |-> b.pane.pending])

\* on_agent_session_stopped for the limit stop of session s.
Stopped(b, u, s) ==
  IF b.pane = NoPane THEN b
  ELSE IF ~b.pane.enabled \/ b.pane.armed # NoArm THEN b
  ELSE Confirm([b EXCEPT !.pane.pending = Len(b.stops), !.pane.pendingId = s.id], ResetFor(u, s.stop.reset))

\* restore_arm from a persisted fire time; nothing is written back.
RestoreArm(b, s) ==
  LET saved == b.store[s.id]
      arm == [at |-> MaxOf(saved.at, now), id |-> s.id, gen |-> b.pane.gen + 1, tries |-> 0,
              restored |-> TRUE, stop |-> saved.stop]
  IN  IF saved = NoTime \/ b.pane.armed # NoArm THEN b
      ELSE WithTimer([b EXCEPT !.pane.gen = arm.gen, !.pane.armed = arm], arm)

\* restore_pane_state of session s under the given settings.
Restore(b, ov, def, u, s) ==
  IF ~Eligible(s) THEN b
  ELSE IF ~EffectiveIn(ov, def, s.id) THEN b
  ELSE LET p == IF b.pane = NoPane THEN NewPane ELSE b.pane
           on == [b EXCEPT !.pane = [p EXCEPT !.key = s.id, !.enabled = TRUE]]
           r == RestoreArm(on, s)
       IN  IF r.pane.armed # p.armed THEN r
           ELSE IF ~p.enabled /\ s.status = "done" /\ s.stop.limit THEN Stopped(r, u, s) ELSE r

\* disable: turned off by the footer or by the settings.
Disable(b) ==
  LET d == IF b.pane.enabled THEN Disarm(b) ELSE b
  IN  Save([d EXCEPT !.pane.enabled = FALSE], b.pane.key, NoTime)

\* Mutant: a setting that is switched off reaches no pane.
SyncOnlyEnables(b, ov, def, u, s) ==
  LET on == IF b.pane = NoPane THEN FALSE ELSE b.pane.enabled
      wanted == IF s = NoSession THEN on ELSE IF s.id = NoId THEN def ELSE EffectiveIn(ov, def, s.id)
  IN  IF wanted /\ ~on THEN Restore(b, ov, def, u, s) ELSE b

\* sync_all_panes_with_settings.
Sync(b, ov, def, u, s) ==
  LET on == IF b.pane = NoPane THEN FALSE ELSE b.pane.enabled
      wanted == IF s = NoSession THEN on ELSE IF s.id = NoId THEN def ELSE EffectiveIn(ov, def, s.id)
  IN  IF wanted /\ ~on THEN Restore(b, ov, def, u, s)
      ELSE IF ~wanted /\ on THEN Disable(b) ELSE b

-----------------------------------------------------------------------------
(* Reactions to the events of the sessions model *)

\* arm_if_exhausted.
ArmIfExhausted(b, u, s) ==
  IF ~Eligible(s) THEN Disarm(b)
  ELSE Stopped(IF b.pane = NoPane THEN Restore(b, overrides, default, u, s) ELSE b, u, s)

LimitStop(s) == s # NoSession /\ s.status = "done" /\ s.stop.limit

\* on_sessions_event.
React(b, u, s, ev) ==
  CASE ev = "status" -> IF LimitStop(s) THEN ArmIfExhausted(b, u, s)
                        ELSE Disarm(b)
    [] ev = "started" -> Restore([b EXCEPT !.pane = NoPane], overrides, default, u, s)
    [] ev = "ended" -> [b EXCEPT !.pane = NoPane]
    [] ev = "updated" -> Restore(b, overrides, default, u, s)

\* History: a reported limit stop is counted.
Counted(b, s, events) ==
  IF LimitStop(s) /\ \E k \in DOMAIN events : events[k] = "status"
  THEN [b EXCEPT !.stops = Append(@, s.id)] ELSE b

\* Events are handled in the order in which they were emitted, after the update
\* of the session.
Reactions(b, u, s, events) ==
  LET after[k \in 0..Len(events)] ==
        IF k = 0 THEN Counted(b, s, events) ELSE React(after[k - 1], u, s, events[k])
  IN  after[Len(events)]

\* A changed setting is announced after them.
Commit(b, ov, def, u, s) ==
  LET c == IF <<b.store, ov, def>> # settings THEN Sync(b, ov, def, u, s) ELSE b
  IN  /\ pane' = c.pane /\ timers' = c.timers /\ store' = c.store /\ stops' = c.stops
      /\ Len(c.stops) <= MaxStops /\ (c.pane # NoPane => c.pane.gen <= MaxGen)
      /\ overrides' = ov /\ default' = def

Settle(b, u) == Commit(b, overrides, default, u, sess')

-----------------------------------------------------------------------------
(* Actions *)

history == <<dismissed, sent>>

\* The reaction to an update of the session.
Reacts ==
  /\ Settle(Reactions(Here, usage, sess', emitted'), usage)
  /\ UNCHANGED <<world, history>>

SessionActs == SessionStep /\ Reacts

\* The session is left alone.
Quiet == emitted' = <<>> /\ UNCHANGED <<provider, sess, titles, settling, idles, rollout, guess>>

\* Mutant: a moved reset keeps the generation of the timer that was set for the old one.
RetryPendingSameGeneration(b, u, s) ==
  IF b.pane = NoPane \/ s = NoSession THEN b
  ELSE IF ~b.pane.enabled THEN b
  ELSE IF ~Eligible(s) THEN Disarm(b)
  ELSE IF b.pane.armed = NoArm THEN Confirm(b, ResetFor(u, 0))
  ELSE IF u.kind = "full" /\ u.reset > now /\ b.pane.armed.at # u.reset + Slack
       THEN Arm(b, [b.pane.armed EXCEPT !.at = u.reset + Slack])
  ELSE b

\* retry_pending_usage_confirmations: a usage snapshot arrives.
RetryPending(b, u, s) ==
  IF b.pane = NoPane \/ s = NoSession THEN b
  ELSE IF ~b.pane.enabled THEN b
  ELSE IF ~Eligible(s) THEN Disarm(b)
  ELSE IF b.pane.armed = NoArm THEN Confirm(b, ResetFor(u, 0))
  ELSE IF u.kind = "full" /\ u.reset > now /\ b.pane.armed.at # u.reset + Slack   \* reconcile_reset
       THEN Arm(b, [b.pane.armed EXCEPT !.at = u.reset + Slack, !.gen = b.pane.gen + 1])
  ELSE b

UsageScan(u) ==
  /\ IF LimitScanned THEN ScanRollouts
     ELSE Quiet
  /\ usage' = u
  /\ Settle(Reactions(RetryPending(Here, u, sess'), u, sess', emitted'), u)
  /\ UNCHANGED <<writable, now, restarts, history>>

Pending == IF pane = NoPane THEN FALSE ELSE pane.pending # 0 \/ pane.armed # NoArm

\* The stop whose pending continue is for the session in the pane, as a set.
PendingStop ==
  IF ~Pending \/ sess = NoSession THEN {}
  ELSE IF pane.armed # NoArm
       THEN IF pane.armed.id = sess.id THEN {pane.armed.stop} ELSE {}
       ELSE IF pane.pendingId = sess.id THEN {pane.pending} ELSE {}

\* Mutant: a stop that still waits for its reset time is overlooked.
UserInputMissesPending ==
  /\ Quiet
  /\ Settle(IF Pending /\ pane.armed # NoArm THEN Disarm(Here) ELSE Here, usage)
  /\ dismissed' = dismissed \cup PendingStop
  /\ UNCHANGED <<world, sent>>

\* cancel_auto_continue_on_user_input: keys, pastes, composer edits.
UserInput ==
  /\ Quiet
  /\ Settle(IF Pending THEN Disarm(Here) ELSE Here, usage)
  /\ dismissed' = dismissed \cup PendingStop
  /\ UNCHANGED <<world, sent>>

\* set_persisted_override: only what differs from the default is kept.
Chosen(id, on) ==
  [overrides EXCEPT ![id] = IF on = default THEN "unset" ELSE IF on THEN "on" ELSE "off"]

Reconsiders == dismissed' = {}

\* toggle: the footer's switch and the command palette.
Toggle ==
  /\ Quiet /\ sess # NoSession
  /\ IF (IF pane = NoPane THEN FALSE ELSE pane.enabled)
     THEN Commit(Disable(Here), IF sess.id = NoId THEN overrides ELSE Chosen(sess.id, FALSE),
                 default, usage, sess)
     ELSE /\ Eligible(sess)
          /\ LET p == IF pane = NoPane THEN NewPane ELSE pane
                 on == [Here EXCEPT !.pane = [p EXCEPT !.key = sess.id, !.enabled = TRUE]]
             IN  Commit(IF LimitStop(sess) THEN Stopped(on, usage, sess) ELSE on,
                        Chosen(sess.id, TRUE), default, usage, sess)
  /\ Reconsiders
  /\ UNCHANGED <<world, sent>>

SetDefault ==
  /\ Quiet
  /\ Commit(Here, overrides, ~default, usage, sess)
  /\ Reconsiders
  /\ UNCHANGED <<world, sent>>

-----------------------------------------------------------------------------
(* The timer of the view *)

ArmedFor(gen) == IF pane = NoPane THEN FALSE ELSE pane.armed # NoArm /\ pane.enabled /\ pane.armed.gen = gen

Without(tm) == [Here EXCEPT !.timers = @ \ {tm}]

\* A wait longer than the chunk looks again, and goes on while its arm stands.
TimerChunk(tm) ==
  /\ tm \in timers /\ tm.wake <= now /\ now < tm.at
  /\ Quiet
  /\ Settle(IF ArmedFor(tm.gen)
            THEN [Without(tm) EXCEPT !.timers = @ \cup {[tm EXCEPT !.wake = MinOf(tm.at, now + Chunk)]}]
            ELSE Without(tm), usage)
  /\ UNCHANGED <<world, history>>

\* Mutant: whatever session is stopped in the pane will do.
SessionMatchesAny(arm) == sess.status = "done" \/ (arm.restored /\ ~sess.observed)

\* The arm's session is in the pane and stopped, or restored and untouched.
SessionMatches(arm) ==
  /\ sess.id = arm.id
  /\ sess.status = "done" \/ (arm.restored /\ ~sess.observed)

Due(tm) == tm \in timers /\ tm.wake <= now /\ tm.at <= now

\* Nothing to do, or no longer allowed.
TimerRefused(tm) ==
  /\ Due(tm) /\ Quiet
  /\ IF ~Eligible(sess) THEN Settle(Disarm(Without(tm)), usage)
     ELSE IF ~ArmedFor(tm.gen) THEN Settle(Without(tm), usage)
     ELSE ~SessionMatches(pane.armed) /\ Settle(Disarm(Without(tm)), usage)
  /\ UNCHANGED <<world, history>>

MayFire(tm) ==
  Due(tm) /\ Eligible(sess) /\ ArmedFor(tm.gen) /\ SessionMatches(pane.armed)

\* record_delivery_failure: try again in a minute, a bounded number of times.  A
\* submission that cannot start after the arm was claimed ends in the same state.
TimerFails(tm) ==
  /\ MayFire(tm) /\ ~writable /\ Quiet
  /\ LET b == Without(tm)
         arm == pane.armed
     IN  Settle(IF arm.tries >= MaxAttempts THEN Save([b EXCEPT !.pane.armed = NoArm], b.pane.key, NoTime)
                ELSE Arm(b, [arm EXCEPT !.tries = @ + 1, !.gen = pane.gen + 1, !.at = now + Retry]), usage)
  /\ UNCHANGED <<world, history>>

StillExhausted == usage.kind = "unknown" \/ (usage.kind = "full" /\ usage.reset + Slack > now)

\* prepare_due_fire: the window has not reset.
TimerRearms(tm) ==
  /\ MayFire(tm) /\ writable /\ StillExhausted /\ Quiet
  /\ Settle(Arm(Without(tm), [pane.armed EXCEPT !.gen = pane.gen + 1,
                 !.at = IF usage.kind = "full" THEN usage.reset + Slack ELSE now + Retry]), usage)
  /\ UNCHANGED <<world, history>>

\* Mutant: the persisted arm is left behind.
FiredKeepsSaved(b) == [b EXCEPT !.pane.armed = NoArm]

\* The arm is consumed before anything is typed.
Fired(b) == Save([b EXCEPT !.pane.armed = NoArm], b.pane.key, NoTime)

\* ... and Continue is typed; submitting it marks the turn as started.
TimerSends(tm) ==
  /\ MayFire(tm) /\ writable /\ ~StillExhausted
  /\ ClinchSubmit
  /\ Settle(Reactions(Fired(Without(tm)), usage, sess', emitted'), usage)
  /\ sent' = Append(sent, [stop |-> pane.armed.stop, into |-> sess.id, at |-> now, due |-> pane.armed.at,
                           dismissed |-> pane.armed.stop \in dismissed,
                           wanted |-> EffectiveIn(overrides, default, sess.id)])
  /\ UNCHANGED <<world, dismissed>>

-----------------------------------------------------------------------------
(* The world *)

WritableChanges ==
  /\ Quiet /\ writable' = ~writable
  /\ UNCHANGED <<pane, timers, settings, usage, now, restarts, stops, history>>

Clock ==
  /\ now < MaxTime /\ now' = now + 1 /\ Quiet
  /\ UNCHANGED <<pane, timers, settings, usage, writable, restarts, stops, history>>

\* The app ends and starts again (or the pane is closed and restored).
Restart ==
  /\ restarts < MaxRestarts /\ restarts' = restarts + 1
  /\ sess' = NoSession /\ titles' = NoTitles /\ settling' = {} /\ emitted' = <<>> /\ guess' = "none"
  /\ pane' = NoPane /\ timers' = {} /\ usage' = [kind |-> "none", reset |-> 0]
  /\ UNCHANGED <<provider, idles, rollout, settings, writable, now, stops, history>>

Init ==
  /\ SessionInit
  /\ pane = NoPane /\ timers = {}
  /\ store = [id \in Ids |-> NoTime] /\ overrides = [id \in Ids |-> "unset"] /\ default = TRUE
  /\ usage = [kind |-> "none", reset |-> 0] /\ writable = TRUE /\ now = 0
  /\ stops = <<>> /\ dismissed = {} /\ sent = <<>> /\ restarts = 0

TimerStep(tm) ==
  TimerChunk(tm) \/ TimerRefused(tm) \/ TimerFails(tm) \/ TimerRearms(tm) \/ TimerSends(tm)

Next ==
  \/ SessionActs
  \/ \E u \in Usages : UsageScan(u)
  \/ UserInput \/ Toggle \/ SetDefault
  \/ \E tm \in timers : TimerStep(tm)
  \/ WritableChanges \/ Clock \/ Restart

Spec == Init /\ [][Next]_vars

-----------------------------------------------------------------------------
(* Properties *)

\* Every variable has its type.
TypeOK ==
  /\ SessionTypeOK
  /\ pane \in Panes \cup {NoPane} /\ timers \in SUBSET TimerRecords
  /\ store \in [Ids -> Saved \cup {NoTime}]
  /\ overrides \in [Ids -> {"unset", "on", "off"}] /\ default \in BOOLEAN
  /\ usage \in Usages /\ writable \in BOOLEAN /\ now \in Nat /\ restarts \in Nat
  /\ stops \in Seq(Ids) /\ dismissed \in SUBSET Nat
  /\ sent \in Seq(Sendings)

\* At most one Continue answers a limit stop, across retries, re-arms, settings
\* changes and restarts that restore a persisted arm.
OneContinuePerStop ==
  \A k, l \in DOMAIN sent : sent[k].stop = sent[l].stop => k = l

\* An arm is never forgotten: some timer of the view carries its generation and is
\* due no later than the arm.
ArmHasTimer ==
  Pending /\ pane.armed # NoArm => \E tm \in timers : tm.gen = pane.armed.gen /\ tm.at <= pane.armed.at

\* A restart cannot lose an arm: it is persisted under the session that it answers.
ArmIsPersisted ==
  Pending /\ pane.armed # NoArm /\ pane.key = pane.armed.id =>
    store[pane.key] # NoTime /\ store[pane.key].stop = pane.armed.stop

\* Once the user typed over a pending continue, that stop is never continued, not
\* even after the session was left and resumed.
TakeoverIsFinal == \A k \in DOMAIN sent : ~sent[k].dismissed

\* Continue is typed only into the session that hit the limit.
ContinueOnlyForItsSession == \A k \in DOMAIN sent : stops[sent[k].stop] = sent[k].into

\* Continue is typed only while it is switched on for that session.
OffMeansOff == \A k \in DOMAIN sent : sent[k].wanted

\* As the comments state it: a stale timer can never match a later arm, so nothing
\* is typed before the arm's own fire time.
NeverEarly == \A k \in DOMAIN sent : sent[k].at >= sent[k].due
=============================================================================
