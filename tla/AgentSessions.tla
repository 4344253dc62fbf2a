---------------------------- MODULE AgentSessions ----------------------------
(***************************************************************************)
(* The CLI agent session of one terminal view, as CLIAgentSessionsModel    *)
(* keeps it (terminal/cli_agent_sessions/mod.rs).                          *)
(*                                                                         *)
(* The status of an agent's turn is pieced together from sources that are  *)
(* not synchronised with each other: hook events of the provider's plugin  *)
(* (any of which may be missing or late), the glyph in the terminal title, *)
(* the user's interrupt key, Clinch's own submissions and, for Codex, the  *)
(* limit stops recorded in its rollout.  Every action is one update of the *)
(* model; emitted lists the events its subscribers see, in order.          *)
(***************************************************************************)
EXTENDS Naturals, Sequences

CONSTANTS
  Ids,          \* provider session IDs
  Subagents,    \* subagent IDs
  Resets,       \* reset times a limit message may state
  Providers,    \* agents to consider: "claude", "codex"
  NoSession, NoId,
  MaxIdle       \* BOUND: title idle periods

VARIABLES
  provider,   \* the agent of this view; another agent's session is another behaviour
  sess,       \* the session of the view, or NoSession
  titles,     \* what the titles of this session have shown
  settling,   \* idle periods whose settle_idle_title timer is outstanding
  idles,      \* idle periods so far; each gets a number (its Instant)
  rollout,    \* Codex: sessions whose rollout records a limit stop of their turn
  emitted,    \* events emitted by the last update
  guess       \* history: an interrupt guess that no later report has settled

sessionVars == <<provider, sess, titles, settling, idles, rollout, emitted, guess>>

NoStop == [limit |-> FALSE, reset |-> 0]

\* stop_reason; reset 0: the limit message states none.
Stops == [limit : BOOLEAN, reset : Resets \cup {0}]

\* Claude states the limit in its Stop hook; Codex runs no hook for it.
HookStops ==
  {NoStop} \cup
  (IF provider = "claude" THEN {[limit |-> TRUE, reset |-> r] : r \in Resets \cup {0}} ELSE {})

Statuses == {"working", "done", "blocked"}   \* InProgress, Success, Blocked

Sessions ==
  [id : Ids \cup {NoId}, status : Statuses, stop : Stops,
   rich : BOOLEAN,          \* received_rich_notification
   plugin : BOOLEAN,        \* plugin_version is at least the minimum
   listener : BOOLEAN, loaded : BOOLEAN,    \* prompt history was requested
   observed : BOOLEAN,      \* has_observed_turn_activity
   turn : BOOLEAN,          \* turn_started_at is known
   interrupted : BOOLEAN,   \* turn_interrupted_by_user
   subs : SUBSET Subagents, deferred : BOOLEAN]

\* title_reports_status, blocked_idle_title_seen, idle_title_since (0: none).
Titles == [reports : BOOLEAN, blockedIdle : BOOLEAN, since : 0..MaxIdle]

NoTitles == [reports |-> FALSE, blockedIdle |-> FALSE, since |-> 0]

EventNames == {"started", "ended", "status", "updated"}

Guesses == {"none", "fresh", "reported"}

ASSUME SessionAssumption ==
  /\ NoSession \notin Sessions /\ NoId \notin Ids
  /\ Resets \subseteq Nat \ {0} /\ MaxIdle \in Nat
  /\ Providers \subseteq {"claude", "codex"}

ActivelyWorking(s) == s.observed /\ s.status = "working"

-----------------------------------------------------------------------------
(* Sessions come and go *)

Fresh(id) ==
  [id |-> id, status |-> "working", stop |-> NoStop, rich |-> FALSE, plugin |-> FALSE,
   listener |-> FALSE, loaded |-> FALSE, observed |-> FALSE, turn |-> FALSE,
   interrupted |-> FALSE, subs |-> {}, deferred |-> FALSE]

\* reset_identity_scoped_state.
Reset(s) ==
  [s EXCEPT !.loaded = FALSE, !.observed = FALSE, !.subs = {}, !.deferred = FALSE, !.stop = NoStop]

\* start_prompt_history_load.
Load(s) == IF s.id # NoId THEN [s EXCEPT !.loaded = TRUE] ELSE s

LoadEvents(s) == IF s.id # NoId /\ ~s.loaded THEN <<"updated">> ELSE <<>>

\* seed_session_identity.
Seeded(s, id) == IF s.id = id THEN s ELSE [Reset(s) EXCEPT !.id = id]

\* handle_long_running_command_cli_agent_detection, with the identity that the
\* command line names, if any.
Detect(id) ==
  /\ sess = NoSession
  /\ sess' = Load(Fresh(id))
  /\ emitted' = <<"started">> \o LoadEvents(Fresh(id))
  /\ titles' = NoTitles /\ guess' = "none"
  /\ UNCHANGED <<provider, settling, idles, rollout>>

\* seed_resumed_session: a restored pane knows its session before any event.
Seed(id) ==
  /\ LET base == IF sess = NoSession THEN Fresh(id) ELSE Seeded(sess, id)
     IN  /\ sess' = Load(base)
         /\ emitted' = (IF sess = NoSession THEN <<"started">> ELSE <<>>) \o LoadEvents(base)
         /\ guess' = IF sess = NoSession THEN "none" ELSE guess
  /\ titles' = IF sess = NoSession THEN NoTitles ELSE titles
  /\ UNCHANGED <<provider, settling, idles, rollout>>

\* reconcile_registry_session: a registry entry renames a Codex session whose
\* live owner was checked, and only names an unnamed Claude session.
Reconcile(id) ==
  /\ sess # NoSession /\ sess.id # id
  /\ provider = "codex" \/ sess.id = NoId
  /\ LET base == Seeded(sess, id)
     IN  /\ sess' = Load(base)
         /\ emitted' = LoadEvents(base) \o (IF provider = "codex" THEN <<"updated">> ELSE <<>>)
  /\ UNCHANGED <<provider, titles, settling, idles, rollout, guess>>

\* remove_session: the agent's command ended, or the pane detached.
Exit ==
  /\ sess # NoSession
  /\ sess' = NoSession /\ emitted' = <<"ended">>
  /\ titles' = NoTitles /\ guess' = "none"
  /\ UNCHANGED <<provider, settling, idles, rollout>>

\* finish_prompt_history_load, poll_prompt_history, a bookmark.
HistoryUpdated ==
  /\ sess # NoSession /\ sess.id # NoId
  /\ emitted' = <<"updated">>
  /\ UNCHANGED <<provider, sess, titles, settling, idles, rollout, guess>>

-----------------------------------------------------------------------------
(* Listener events *)

\* register_cli_agent_listener_from_event: the first event of a session without a
\* listener creates or upgrades the session and may change its identity.
Registered(id, plugin) ==
  IF sess = NoSession
  THEN [Fresh(id) EXCEPT !.listener = TRUE, !.plugin = plugin]
  ELSE IF sess.listener THEN sess
  ELSE LET base == IF id # NoId /\ id # sess.id
                   THEN [Reset(sess) EXCEPT !.status = "working", !.id = id] ELSE sess
       IN  [base EXCEPT !.listener = TRUE, !.plugin = plugin]

Registers == sess # NoSession => ~sess.listener

\* The session as update_from_event finds it, after any registration.
Heard(id, plugin) ==
  LET s == Registered(id, plugin)
      t == IF Registers THEN Load(s) ELSE s
  IN  [t EXCEPT !.rich = TRUE, !.id = IF @ = NoId THEN id ELSE @]

RegistrationEvents(id, plugin) ==
  IF ~Registers THEN <<>>
  ELSE (IF sess = NoSession THEN <<"started">> ELSE <<>>) \o LoadEvents(Registered(id, plugin))

\* Events of another session, nested in this one, are ignored.
Hears(id) == ~Registers => sess.id \in {id, NoId}

\* A plugin event whose handler leaves session s; changed: it reports a status.
\* updated: the event type also emits SessionUpdated.  load: it requests history.
Event(id, plugin, s, changed, updated, load) ==
  /\ Hears(id)
  /\ sess' = IF load THEN Load(s) ELSE s
  /\ emitted' = RegistrationEvents(id, plugin) \o (IF changed THEN <<"status">> ELSE <<>>)
                  \o (IF updated THEN <<"updated">> ELSE <<>>)
                  \o (IF load THEN LoadEvents(s) ELSE <<>>)
  /\ LET t == IF sess = NoSession THEN NoTitles ELSE titles
     IN  titles' = IF changed
                   THEN [t EXCEPT !.since = 0,
                           !.blockedIdle = IF s.status = "blocked" THEN FALSE ELSE @]
                   ELSE t
  /\ UNCHANGED <<provider, settling, idles>>

NewStatus(s, st) == [s EXCEPT !.status = st, !.interrupted = FALSE]

Active(s) == [s EXCEPT !.observed = TRUE, !.stop = NoStop, !.deferred = FALSE]

PromptSubmit(id, plugin) ==
  \E updated \in BOOLEAN :   \* not for a prompt injected by the harness
    /\ Event(id, plugin, [NewStatus(Active(Heard(id, plugin)), "working") EXCEPT !.turn = TRUE],
             TRUE, updated, TRUE)
    /\ rollout' = rollout \ {sess'.id} /\ guess' = "none"

\* A completing tool proves that a turn runs.
ToolRestores(s) == s.status = "blocked" \/ s.interrupted

ToolComplete(id, plugin) ==
  LET s == Heard(id, plugin)
  IN  /\ IF ToolRestores(s)
         THEN Event(id, plugin, NewStatus(Active(s), "working"), TRUE, TRUE, FALSE) /\ guess' = "none"
         ELSE Event(id, plugin, s, FALSE, TRUE, FALSE) /\ guess' = IF Registers THEN "none" ELSE guess
      /\ UNCHANGED rollout

SubagentStart(id, plugin, a) ==
  LET s == [Heard(id, plugin) EXCEPT !.subs = @ \cup {a}, !.observed = TRUE, !.stop = NoStop]
  IN  /\ IF s.status = "working"
         THEN Event(id, plugin, s, FALSE, TRUE, FALSE)
         ELSE Event(id, plugin, NewStatus(s, "working"), TRUE, TRUE, FALSE)
      /\ guess' = IF s.status = "working" /\ ~Registers THEN guess ELSE "none"
      /\ UNCHANGED rollout

\* Mutant: the deferral outlives the subagent that was to end it.
SubagentStopKeepsDeferral(id, plugin, a) ==
  LET h == Heard(id, plugin)
      s == [h EXCEPT !.subs = @ \ {a}, !.observed = TRUE, !.interrupted = FALSE]
      last == s.subs = {} /\ s.deferred
  IN  /\ a \in h.subs
      /\ IF last THEN Event(id, plugin, NewStatus(s, "done"), TRUE, TRUE, FALSE)
                 ELSE Event(id, plugin, s, FALSE, TRUE, FALSE)
      /\ guess' = IF last THEN "none" ELSE IF guess = "fresh" THEN "reported" ELSE guess
      /\ UNCHANGED rollout

\* The last subagent of a turn that has already stopped completes it.
SubagentStop(id, plugin, a) ==
  LET h == Heard(id, plugin)
      s == [h EXCEPT !.subs = @ \ {a}, !.observed = TRUE, !.interrupted = FALSE]
      last == s.subs = {} /\ s.deferred
  IN  /\ a \in h.subs
      /\ IF last
         THEN Event(id, plugin, [NewStatus(s, "done") EXCEPT !.deferred = FALSE], TRUE, TRUE, FALSE)
         ELSE Event(id, plugin, s, FALSE, TRUE, FALSE)
      /\ guess' = IF last THEN "none" ELSE IF guess = "fresh" THEN "reported" ELSE guess
      /\ UNCHANGED rollout

\* Mutant: a Stop completes the turn although subagents still run.
StopIgnoresSubagents(id, plugin, why) ==
  LET s == [Heard(id, plugin) EXCEPT !.observed = TRUE, !.stop = why, !.deferred = FALSE]
  IN  /\ Event(id, plugin, NewStatus(s, "done"), TRUE, FALSE, FALSE)
      /\ guess' = "none" /\ UNCHANGED rollout

\* Stop and StopFailure; the turn is not over while subagents run.
Stop(id, plugin, why) ==
  LET h == Heard(id, plugin)
      waits == h.subs # {}
      s == [h EXCEPT !.observed = TRUE, !.stop = why, !.deferred = waits, !.interrupted = FALSE]
  IN  /\ IF waits /\ h.status = "working"
         THEN Event(id, plugin, s, FALSE, FALSE, FALSE)
         ELSE Event(id, plugin, [s EXCEPT !.status = IF waits THEN "working" ELSE "done"],
                    TRUE, FALSE, FALSE)
      /\ guess' = "none" /\ UNCHANGED rollout

\* Mutant: a question leaves the stop reason of the last turn in place.
AttentionKeepsStop(id, plugin) ==
  /\ Event(id, plugin,
           [NewStatus(Heard(id, plugin), "blocked") EXCEPT !.observed = TRUE, !.deferred = FALSE],
           TRUE, FALSE, FALSE)
  /\ guess' = "none" /\ UNCHANGED rollout

\* PermissionRequest and QuestionAsked.
Attention(id, plugin) ==
  /\ Event(id, plugin, NewStatus(Active(Heard(id, plugin)), "blocked"), TRUE, FALSE, FALSE)
  /\ guess' = "none" /\ UNCHANGED rollout

PermissionReplied(id, plugin) ==
  LET s == Heard(id, plugin)
  IN  /\ s.status = "blocked"
      /\ Event(id, plugin, NewStatus(Active(s), "working"), TRUE, FALSE, FALSE)
      /\ guess' = "none" /\ UNCHANGED rollout

\* The agent waits at its prompt: a fallback for a missing Stop.
IdlePrompt(id, plugin) ==
  LET s == Heard(id, plugin)
  IN  /\ ActivelyWorking(s)
      /\ IF s.subs # {}
         THEN Event(id, plugin, [s EXCEPT !.deferred = TRUE, !.interrupted = FALSE], FALSE, FALSE, FALSE)
         ELSE Event(id, plugin, [NewStatus(s, "done") EXCEPT !.deferred = FALSE, !.stop = NoStop],
                    TRUE, FALSE, FALSE)
      /\ guess' = "none" /\ UNCHANGED rollout

\* SessionStart: nothing of an earlier run is left over.
SessionStart(id, plugin) ==
  /\ Event(id, plugin,
           [Heard(id, plugin) EXCEPT !.plugin = plugin, !.subs = {}, !.deferred = FALSE, !.stop = NoStop],
           FALSE, TRUE, TRUE)
  /\ guess' = IF Registers THEN "none" ELSE guess
  /\ UNCHANGED rollout

\* register_cli_agent_listener_without_session_start_event: the listener of a
\* session that is running already; a Claude plugin counts as current.
RegisterListener ==
  /\ sess # NoSession /\ ~sess.listener
  /\ sess' = Load(Registered(NoId, provider = "claude"))
  /\ emitted' = LoadEvents(sess)
  /\ UNCHANGED <<provider, titles, settling, idles, rollout, guess>>

\* Codex's OSC 9 notification, once a listener exists and no plugin spoke.
Osc9Stop ==
  /\ provider = "codex" /\ sess # NoSession /\ sess.listener /\ ~sess.rich
  /\ sess' = NewStatus(Active(sess), "done")
  /\ emitted' = <<"status">> /\ guess' = "none"
  /\ titles' = [titles EXCEPT !.since = 0]
  /\ UNCHANGED <<provider, settling, idles, rollout>>

\* An event that its handler skips (an unknown type, a reply when nothing is
\* asked, an unknown subagent) still registers and proves the plugin.
IgnoredEvent(id, plugin) ==
  /\ \E updated \in BOOLEAN : Event(id, plugin, Heard(id, plugin), FALSE, updated, FALSE)
  /\ guess' = IF Registers THEN "none" ELSE guess
  /\ UNCHANGED rollout

-----------------------------------------------------------------------------
(* Everything else that moves a session *)

\* mark_project_cli_agent_turn_started_from_clinch_submission.
Submitted(s) ==
  [s EXCEPT !.observed = TRUE, !.interrupted = FALSE, !.status = "working", !.stop = NoStop,
            !.turn = TRUE]

ClinchSubmit ==
  /\ sess # NoSession /\ ~ActivelyWorking(sess)
  /\ sess' = Submitted(sess)
  /\ rollout' = rollout \ {sess.id}
  /\ emitted' = <<"status">> /\ guess' = "none"
  /\ UNCHANGED <<provider, titles, settling, idles>>

\* Mutant: the guess is not remembered as one.
InterruptedForgets(s) == [s EXCEPT !.status = "done", !.stop = NoStop]

\* mark_project_cli_agent_turn_interrupted_from_user_input: a lone Esc or Ctrl-C.
\* No hook reports an aborted turn, so this is a guess.
Interrupted(s) == [s EXCEPT !.status = "done", !.interrupted = TRUE, !.stop = NoStop]

Interrupt ==
  /\ sess # NoSession /\ sess.status \in {"working", "blocked"}
  /\ sess' = Interrupted(sess)
  /\ emitted' = <<"updated">> /\ guess' = "fresh"
  /\ UNCHANGED <<provider, titles, settling, idles, rollout>>

\* update_from_terminal_title with a working glyph.
WorkingTitle ==
  /\ sess # NoSession
  /\ LET answered == sess.status = "blocked" /\ titles.blockedIdle
     IN  /\ sess' = IF answered THEN [sess EXCEPT !.status = "working", !.observed = TRUE, !.stop = NoStop]
                    ELSE sess
         /\ emitted' = IF answered THEN <<"status">> ELSE <<>>
  /\ titles' = [reports |-> TRUE, blockedIdle |-> FALSE, since |-> 0]
  /\ UNCHANGED <<provider, settling, idles, rollout, guess>>

\* ... and with an idle glyph, which starts the wait of settle_idle_title.
IdleTitle ==
  /\ sess # NoSession
  /\ LET waits == ActivelyWorking(sess) /\ titles.reports /\ titles.since = 0
     IN  /\ waits => idles < MaxIdle
         /\ idles' = IF waits THEN idles + 1 ELSE idles
         /\ settling' = IF waits THEN settling \cup {idles + 1} ELSE settling
         /\ titles' = [titles EXCEPT !.since = IF waits THEN idles + 1 ELSE @,
                                     !.blockedIdle = sess.status = "blocked"]
  /\ emitted' = <<>>
  /\ UNCHANGED <<provider, sess, rollout, guess>>

\* settle_idle_title: five minutes after the title went idle.
Settled(s) == [s EXCEPT !.subs = {}, !.deferred = FALSE, !.status = "done"]

SettleIdle(k) ==
  /\ k \in settling /\ settling' = settling \ {k}
  /\ LET current == titles.since = k
         ends == current /\ sess # NoSession /\ ActivelyWorking(sess)
     IN  /\ titles' = IF current THEN [titles EXCEPT !.since = 0] ELSE titles
         /\ sess' = IF ends THEN Settled(sess) ELSE sess
         /\ emitted' = IF ends THEN <<"status">> ELSE <<>>
  /\ UNCHANGED <<provider, idles, rollout, guess>>

\* Codex's turn ends at its limit; only its rollout says so.
CodexHitsLimit ==
  /\ provider = "codex" /\ sess # NoSession /\ sess.id # NoId /\ sess.turn
  /\ sess.status = "working" /\ sess.id \notin rollout
  /\ rollout' = rollout \cup {sess.id} /\ emitted' = <<>>
  /\ UNCHANGED <<provider, sess, titles, settling, idles, guess>>

\* apply_codex_usage_limit_stops: the stop belongs to the turn in flight.
LimitScanned ==
  /\ provider = "codex" /\ sess # NoSession
  /\ sess.id \in rollout /\ sess.rich /\ sess.status = "working" /\ sess.subs = {} /\ sess.turn

LimitStopped(s) ==
  [s EXCEPT !.status = "done", !.interrupted = FALSE, !.stop = [limit |-> TRUE, reset |-> 0],
            !.deferred = FALSE]

ScanRollouts ==
  /\ LimitScanned
  /\ sess' = LimitStopped(sess) /\ emitted' = <<"status">> /\ guess' = "none"
  /\ UNCHANGED <<provider, titles, settling, idles, rollout>>

-----------------------------------------------------------------------------

SessionInit ==
  /\ provider \in Providers /\ sess = NoSession /\ titles = NoTitles
  /\ settling = {} /\ idles = 0 /\ rollout = {}
  /\ emitted = <<>> /\ guess = "none"

PluginEvent(id, plugin) ==
  \/ PromptSubmit(id, plugin) \/ ToolComplete(id, plugin)
  \/ \E a \in Subagents : SubagentStart(id, plugin, a) \/ SubagentStop(id, plugin, a)
  \/ \E why \in HookStops : Stop(id, plugin, why)
  \/ Attention(id, plugin) \/ PermissionReplied(id, plugin)
  \/ IdlePrompt(id, plugin) \/ SessionStart(id, plugin) \/ IgnoredEvent(id, plugin)

\* Everything but the usage scan, which AutoContinue extends.
SessionStep ==
  \/ \E id \in Ids \cup {NoId} : Detect(id)
  \/ \E id \in Ids : Seed(id) \/ Reconcile(id)
  \/ \E id \in Ids, plugin \in BOOLEAN : PluginEvent(id, plugin)
  \/ RegisterListener \/ Osc9Stop \/ ClinchSubmit \/ Interrupt
  \/ WorkingTitle \/ IdleTitle \/ (\E k \in settling : SettleIdle(k))
  \/ CodexHitsLimit \/ HistoryUpdated \/ Exit

SessionNext == SessionStep \/ ScanRollouts

SessionSpec == SessionInit /\ [][SessionNext]_sessionVars

-----------------------------------------------------------------------------
(* Properties *)

\* Every variable has its type.
SessionTypeOK ==
  /\ provider \in Providers /\ sess \in Sessions \cup {NoSession}
  /\ titles \in Titles /\ idles \in 0..MaxIdle /\ settling \in SUBSET (1..MaxIdle)
  /\ rollout \in SUBSET Ids
  /\ emitted \in Seq(EventNames) /\ guess \in Guesses

\* A completion that waits for subagents always has one left that will deliver it:
\* nothing else would end the turn, and the session would refuse sends.
DeferralHasOwner == sess # NoSession /\ sess.deferred => sess.subs # {}

\* A stop reason is visible only while the turn it ended is over, or waits for
\* its subagents: what arms auto-continue is never left over from another turn.
StopMeansStopped ==
  sess # NoSession /\ sess.stop.limit => sess.status = "done" \/ (sess.deferred /\ sess.status = "working")

\* A turn is not reported complete while a subagent of it runs, unless the user
\* interrupted it.
DoneMeansQuiet ==
  sess # NoSession /\ sess.status = "done" /\ sess.subs # {} => guess # "none"

\* An interrupt guess is undone by the next completing tool, as long as no
\* subagent reported in between.
FreshGuessRecovers == guess = "fresh" => ToolRestores(sess)

\* As the comment of the interrupt handler states it: if the guess was wrong, the
\* next ToolComplete event restores InProgress.
GuessRecovers == guess # "none" => ToolRestores(sess)
=============================================================================
