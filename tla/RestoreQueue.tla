---------------------------- MODULE RestoreQueue ----------------------------
(***************************************************************************)
(* Restoring the agents of the previous run (cli_agent_sessions/restore.rs *)
(* with the restore command of writeable_pty/pty_controller.rs).           *)
(*                                                                         *)
(* Every restored tab holds back the command that resumes its agent.  The  *)
(* queue releases a few at a time, watches them start by polling, flags    *)
(* the tabs that need the user, and tells the agents that the restart cut  *)
(* off mid-turn to continue.  Which panes those are is recorded on disk,   *)
(* periodically and at quit.  Timers are modelled by stages that pass one  *)
(* after the other; the ticks of the queue come as they may in between.    *)
(***************************************************************************)
EXTENDS Integers, FiniteSets

CONSTANTS
  Tabs,                     \* restored tabs, in tab order: a set of numbers
  Keys, NoKey, NoEntry, Unwritten,
  MaxStarts,                \* CONCURRENT_STARTS
  MaxRestarts, MaxFaults    \* bounds of the model

VARIABLES
  tab,       \* the view and the PTY controller of each tab
  entry,     \* RestoreEntry of each tab, or NoEntry
  ticks,     \* timers that will call tick
  file,      \* panes in the interrupted-turns file
  stale,     \* a start would refuse the file: older than a day, or dated in the future
  recorded,  \* last_recorded_panes, or Unwritten
  key,       \* conversation that each tab resumes; NoKey: it has no seeded session
  owed,      \* history: panes that were cut off mid-turn, until the restored agent was told
             \* to continue, went on by itself or was taken over by the user
  sent,      \* history: Continue prompts sent to each tab in this run
  clean,     \* history: no run has ended without writing its record yet
  restarts, faults

history == <<owed, sent, clean>>

vars == <<tab, entry, ticks, file, stale, recorded, key, history, restarts, faults>>

\* held: waits for its release.  released: waits for the shell.  parked: waits for the
\* line editor.  written: typed, no preexec yet.  stalled: no preexec within the
\* timeout; the shell may still run it.
Commands == {"none", "held", "released", "parked", "written", "stalled"}

\* loading: in the foreground, but neither a notification nor a composer yet.
Agents == {"none", "loading", "ready", "working"}

TabRecords ==
  [open : BOOLEAN, boot : {"no", "known", "unknown"}, editor : BOOLEAN, cmd : Commands, agent : Agents,
   keyOk : BOOLEAN,                      \* the session still has the entry's key
   typed : BOOLEAN,                      \* agent_restore_has_user_input
   stalled : BOOLEAN,                    \* agent_command_stalled
   stash : BOOLEAN,                      \* stalled_restore_command
   settle : BOOLEAN,                     \* the timer between the Ctrl-C of a retry and its command
   start : {"none", "first", "retry"},   \* deferred_agent_start
   managed : BOOLEAN]                    \* background_agent_restore

Attention == {"duplicate", "didNotStart", "stopped", "paused", "timedOut", "couldNotStart", "continueFailed"}

States == {"queued", "starting", "restored", "closed"} \cup Attention

\* slow: START_TIMEOUT has passed since the start.  wait: how long the agent has been
\* back (restored_at), when it has a turn to continue.
Waits == {"unset", "fresh", "settled", "timedOut"}

Entries == [st : States, cancel : BOOLEAN, retrying : BOOLEAN, pending : BOOLEAN, slow : BOOLEAN,
            wait : Waits]

ASSUME RestoreAssumption ==
  /\ Tabs \subseteq Nat /\ IsFiniteSet(Tabs)
  /\ NoKey \notin Keys /\ NoEntry \notin Entries /\ (\A panes \in SUBSET Tabs : Unwritten # panes)
  /\ MaxStarts \in Nat \ {0} /\ MaxRestarts \in Nat /\ MaxFaults \in Nat

-----------------------------------------------------------------------------
(* The restore command of a tab, as operators on its record w *)

\* write_restore_command, through write_command_as: parked while the line editor is off.
Write(w) ==
  IF w.editor THEN [w EXCEPT !.cmd = "written", !.editor = FALSE] ELSE [w EXCEPT !.cmd = "parked"]

\* run_pending_restore_command: the command is dropped when the session is unknown.
RunPending(w) == IF w.boot = "known" THEN Write(w) ELSE [w EXCEPT !.cmd = "none"]

\* start_deferred_restore_command
Release(w) ==
  CASE w.cmd # "held" -> w
    [] w.cmd = "held" /\ w.boot # "no" -> RunPending(w)
    [] OTHER -> [w EXCEPT !.cmd = "released"]

\* retry_stalled_restore_command: Ctrl-C, which discards a line the shell has not run.
Retry(w) ==
  IF ~w.stash THEN w
  ELSE [w EXCEPT !.stash = FALSE, !.settle = TRUE, !.cmd = IF @ = "stalled" THEN "none" ELSE @]

\* release_deferred_agent, when there is a start to take.
Started(w) ==
  LET taken == [w EXCEPT !.start = "none"]
  IN  IF w.start = "first" THEN Release(taken) ELSE Retry(taken)

\* Mutant: focus starts an agent that waits for the queue.
StartAnyDeferred(w) == IF w.start = "none" THEN w ELSE Started(w)

\* start_deferred_agent: focus and local control do not bypass the queue.
StartDeferred(w) == IF w.managed \/ w.start = "none" THEN w ELSE Started(w)

Waiting(w) == w.cmd \in {"held", "released", "parked"}

\* Mutant: a command that waits for the line editor is not cancelled.
CancelBoot(w) == IF w.cmd \in {"held", "released"} THEN [w EXCEPT !.cmd = "none"] ELSE w

\* cancel_pending_restore_command
Cancel(w) == IF Waiting(w) THEN [w EXCEPT !.cmd = "none"] ELSE w

\* agent_restore_is_ready
Ready(w) == w.agent \in {"ready", "working"}

\* agent_is_mid_turn
MidTurn(t) == tab[t].open /\ tab[t].agent = "working"

-----------------------------------------------------------------------------
(* Launch: every window restores its tabs, which enqueue their agents.  R: the   *)
(* tabs that come back; panes: what the previous run recorded.                   *)

NewTab(open, managed) ==
  [open |-> open, boot |-> "no", editor |-> FALSE, cmd |-> IF open THEN "held" ELSE "none",
   agent |-> "none", keyOk |-> TRUE, typed |-> FALSE, stalled |-> FALSE, stash |-> FALSE,
   settle |-> FALSE, start |-> IF open THEN "first" ELSE "none", managed |-> managed]

\* Mutant: a second tab with the same conversation is queued as well.
NeverDuplicate(k, R, t) == FALSE

\* Another tab was enqueued for the same conversation.
Duplicate(k, R, t) == \E u \in R : u < t /\ k[u] = k[t]

\* enqueue
NewEntry(k, R, panes, t) ==
  [st |-> IF Duplicate(k, R, t) THEN "duplicate" ELSE "queued", cancel |-> TRUE, retrying |-> FALSE,
   pending |-> t \in panes, slow |-> FALSE, wait |-> "unset"]

\* Only a tab with a seeded session is enqueued; the others wait for focus.
Enqueued(k, R) == {t \in R : k[t] # NoKey}

Launched(k, R, panes) ==
  [tab   |-> [t \in Tabs |-> NewTab(t \in R, t \in Enqueued(k, R))],
   entry |-> [t \in Tabs |-> IF t \in Enqueued(k, R) THEN NewEntry(k, R, panes, t) ELSE NoEntry],
   ticks |-> IF Enqueued(k, R) # {} THEN 1 ELSE 0]

Managed == {t \in Tabs : entry[t] # NoEntry}

\* read_interrupted_turns
Read(disk, old) == IF old THEN {} ELSE disk

Init ==
  /\ key \in [Tabs -> Keys \cup {NoKey}]
  /\ file \in SUBSET Tabs /\ stale \in BOOLEAN
  /\ LET l == Launched(key, Tabs, Read(file, stale))
     IN  tab = l.tab /\ entry = l.entry /\ ticks = l.ticks
  /\ recorded = Unwritten
  /\ owed = {t \in Read(file, stale) : key[t] # NoKey} /\ sent = [t \in Tabs |-> 0] /\ clean = TRUE
  /\ restarts = 0 /\ faults = 0

-----------------------------------------------------------------------------
(* tick *)

\* What continue_turn reads of a tab.  free, refused: the agent is available and its
\* composer empty, and the view accepts the text, or does not.
Readings(w) ==
  CASE w.agent = "ready"   -> {"free", "refused", "draft", "other"}
    [] w.agent = "working" -> {"working"}
    [] w.agent = "loading" -> {"working", "other"}
    [] OTHER -> {"other"}

\* Mutant: input of the user does not end the wait.
ContinueStepUnaware(seen, typed, wait) ==
  IF seen = "draft" \/ (seen = "working" /\ wait = "timedOut") THEN "finished"
  ELSE IF seen \in {"free", "refused"} /\ wait \in {"settled", "timedOut"} THEN "send"
  ELSE IF wait = "timedOut" THEN "giveUp" ELSE "wait"

\* continue_step
ContinueStep(seen, typed, wait) ==
  IF typed \/ seen = "draft" \/ (seen = "working" /\ wait = "timedOut") THEN "finished"
  ELSE IF seen \in {"free", "refused"} /\ wait \in {"settled", "timedOut"} THEN "send"
  ELSE IF wait = "timedOut" THEN "giveUp" ELSE "wait"

\* Mutant: a start that its shell never began keeps its slot until the timeout.
VerdictPatient(e, w) ==
  CASE Ready(w) -> "restored"
    [] ~Ready(w) /\ ~w.keyOk -> "stopped"
    [] ~Ready(w) /\ w.keyOk ->
         IF w.typed /\ e.cancel /\ Waiting(w) THEN "paused" ELSE IF e.slow THEN "timedOut" ELSE "starting"

\* What the first loop makes of a starting entry.
Verdict(e, w) ==
  CASE Ready(w) -> "restored"
    [] ~Ready(w) /\ w.stalled -> "didNotStart"
    [] ~Ready(w) /\ ~w.stalled /\ ~w.keyOk -> "stopped"
    [] ~Ready(w) /\ ~w.stalled /\ w.keyOk ->
         IF w.typed /\ e.cancel /\ Waiting(w) THEN "paused" ELSE IF e.slow THEN "timedOut" ELSE "starting"

\* The state after the first loop's checks of entry e of tab w, before continue_turn.
Checked(e, w) ==
  CASE ~w.open -> "closed"
    [] w.open /\ e.st \in Attention \ {"continueFailed"} /\ Ready(w) -> "restored"
    [] w.open /\ e.st = "starting" -> Verdict(e, w)
    [] OTHER -> e.st

\* A start that the checks flag is cancelled, if its command has not reached the shell.
CheckCancels(e, w) == e.st = "starting" /\ e.cancel /\ Checked(e, w) \in Attention

CheckedTab(e, w) == IF CheckCancels(e, w) THEN Cancel(w) ELSE w

Continues(e, w) == Checked(e, w) = "restored" /\ e.pending

\* continue_turn, where the first loop calls it.
Step(e, w, seen) ==
  IF Continues(e, w) THEN ContinueStep(seen, w.typed, IF e.wait = "unset" THEN "fresh" ELSE e.wait)
  ELSE "none"

\* The closure that cancels is used up by the first attempt, and dropped when the agent is back.
KeepsCancel(e, w) ==
  /\ e.st = "starting" => Checked(e, w) = "starting" /\ ~w.typed
  /\ Checked(e, w) # "restored"

\* The first loop for entry e of tab w.
CheckedEntry(e, w, seen) ==
  LET step == Step(e, w, seen)
      done == step \in {"finished", "giveUp"} \/ (step = "send" /\ seen = "free")
  IN  [e EXCEPT !.st = IF step = "giveUp" THEN "continueFailed" ELSE Checked(e, w),
                !.cancel = @ /\ KeepsCancel(e, w),
                !.pending = @ /\ w.open /\ ~done,
                !.wait = IF Continues(e, w) /\ @ = "unset" THEN "fresh" ELSE @]

\* The second loop, on the entries es and the tabs ws of the first.
Available(es) == MaxStarts - Cardinality({t \in Managed : es[t].st = "starting"})

\* The user typed into the tab, or it has another session by now.
Paused(e, w) == (~e.retrying /\ w.typed) \/ ~w.keyOk

WillStart(es, ws, t) == es[t].st = "queued" /\ ~Paused(es[t], ws[t]) /\ ws[t].start # "none"

\* Whatever was running comes back first, then in tab order.
Before(es, t, u) ==
  IF es[t].pending = es[u].pending THEN t < u ELSE es[t].pending

\* The loop gets to entry t with a start still available.
Reached(es, ws, t) ==
  /\ es[t].st = "queued"
  /\ Cardinality({u \in Managed : WillStart(es, ws, u) /\ Before(es, u, t)}) < Available(es)

StartedEntry(es, ws, t) ==
  CASE ~Reached(es, ws, t) -> es[t]
    [] Reached(es, ws, t) /\ Paused(es[t], ws[t]) -> [es[t] EXCEPT !.st = "paused", !.cancel = FALSE]
    [] Reached(es, ws, t) /\ WillStart(es, ws, t) -> [es[t] EXCEPT !.st = "starting", !.slow = FALSE]
    [] OTHER -> [es[t] EXCEPT !.st = "couldNotStart"]

StartedTab(es, ws, t) ==
  CASE ~Reached(es, ws, t) -> ws[t]
    [] Reached(es, ws, t) /\ Paused(es[t], ws[t]) -> IF es[t].cancel THEN Cancel(ws[t]) ELSE ws[t]
    [] Reached(es, ws, t) /\ WillStart(es, ws, t) -> Started(ws[t])
    [] OTHER -> ws[t]

\* The queue still has something to do, or a tab that needs the user.
Unfinished(es) ==
  \E t \in Managed : es[t].st \in {"queued", "starting"} \cup Attention \/ (es[t].st = "restored" /\ es[t].pending)

Seen == {f \in [Managed -> {"free", "refused", "draft", "other", "working"}] :
           \A t \in Managed : IF Continues(entry[t], tab[t]) THEN f[t] \in Readings(tab[t]) ELSE f[t] = "other"}

\* tick.  When all is restored it goes on for the five seconds of the final notice.
Tick ==
  /\ ticks > 0
  /\ \E seen \in Seen :
       LET es   == [t \in Tabs |-> IF t \in Managed THEN CheckedEntry(entry[t], tab[t], seen[t]) ELSE NoEntry]
           ws   == [t \in Tabs |-> IF t \in Managed THEN CheckedTab(entry[t], tab[t]) ELSE tab[t]]
           told == {t \in Managed : Step(entry[t], tab[t], seen[t]) = "send" /\ seen[t] = "free"}
       IN  /\ entry' = [t \in Tabs |-> IF t \in Managed THEN StartedEntry(es, ws, t) ELSE NoEntry]
           /\ tab' = [t \in Tabs |-> IF t \in Managed THEN StartedTab(es, ws, t) ELSE tab[t]]
           /\ sent' = [t \in Tabs |-> IF t \in told THEN sent[t] + 1 ELSE sent[t]]
           /\ owed' = owed \ {t \in Managed : Step(entry[t], tab[t], seen[t]) \in {"finished", "giveUp"}
                                              \/ t \in told}
           /\ \E notice \in BOOLEAN :
                ticks' = ticks - 1 + (IF Unfinished(entry') \/ notice THEN 1 ELSE 0)
  /\ UNCHANGED <<file, stale, recorded, key, clean, restarts, faults>>

\* Mutant: each retry starts a chain of ticks.
RetryTickAlways == 1

\* A tick is scheduled unless one is under way (ticking).
RetryTick == IF ticks > 0 THEN 0 ELSE 1

\* retry_stalled: the user asks to try again what the shells never started.
RetryStalled ==
  LET again == {t \in Managed : entry[t].st = "didNotStart" /\ tab[t].open}
  IN  /\ again # {}
      /\ tab' = [t \in Tabs |-> IF t \in again THEN [tab[t] EXCEPT !.stalled = FALSE, !.start = "retry"]
                               ELSE tab[t]]
      /\ entry' = [t \in Tabs |-> IF t \in again
                                  THEN [entry[t] EXCEPT !.st = "queued", !.slow = FALSE, !.retrying = TRUE]
                                  ELSE entry[t]]
      /\ ticks' = ticks + RetryTick
      /\ UNCHANGED <<file, stale, recorded, key, history, restarts, faults>>

-----------------------------------------------------------------------------
(* The tab, its shell and its agent *)

OnlyTab == UNCHANGED <<entry, ticks, file, stale, recorded, key, history, restarts, faults>>

\* mark_as_visible
Focus(t) ==
  /\ tab[t].open /\ tab[t].start # "none"
  /\ tab' = [tab EXCEPT ![t] = StartDeferred(@)]
  /\ OnlyTab

\* shell_bootstrapped: runs a command that was released.
Bootstrapped(t) ==
  /\ tab[t].open /\ tab[t].boot = "no"
  /\ \E b \in {"known", "unknown"} :
       LET w == [tab[t] EXCEPT !.boot = b]
       IN  tab' = [tab EXCEPT ![t] = IF w.cmd = "released" THEN RunPending(w) ELSE w]
  /\ OnlyTab

\* The shell shows a prompt: the line editor takes the next queued write.  A line that
\* it had not run by then is gone.
EditorOpens(t) ==
  /\ tab[t].open /\ tab[t].boot # "no" /\ ~tab[t].editor /\ tab[t].agent = "none" /\ tab[t].cmd # "written"
  /\ LET w == [tab[t] EXCEPT !.editor = TRUE, !.cmd = IF @ = "stalled" THEN "none" ELSE @]
     IN  tab' = [tab EXCEPT ![t] = IF w.cmd = "parked" THEN Write(w) ELSE w]
  /\ OnlyTab

\* The shell runs the command: in time, or after the start was given up.
Preexec(t) ==
  /\ tab[t].open /\ tab[t].cmd \in {"written", "stalled"}
  /\ tab' = [tab EXCEPT ![t].cmd = "none", ![t].agent = "loading"]
  /\ OnlyTab

\* abort_command_start_if_unexecuted, after COMMAND_PREEXEC_TIMEOUT.
DidNotStart(t) ==
  /\ tab[t].open /\ tab[t].cmd = "written"
  /\ tab' = [tab EXCEPT ![t].cmd = "stalled", ![t].stash = TRUE, ![t].stalled = TRUE]
  /\ OnlyTab

\* RESTORE_RETRY_SETTLE after the Ctrl-C.
RetrySettled(t) ==
  /\ tab[t].open /\ tab[t].settle
  /\ tab' = [tab EXCEPT ![t] = Write([tab[t] EXCEPT !.settle = FALSE])]
  /\ OnlyTab

\* The agent shows its composer, starts a turn, or ends one.
AgentChanges(t) ==
  /\ tab[t].open /\ tab[t].agent # "none"
  /\ \E a \in {"ready", "working"} : a # tab[t].agent /\ tab' = [tab EXCEPT ![t].agent = a]
  /\ OnlyTab

AgentExits(t) ==
  /\ tab[t].open /\ tab[t].agent # "none"
  /\ tab' = [tab EXCEPT ![t].agent = "none", ![t].keyOk = FALSE]
  /\ OnlyTab

\* The tab gets another session: a forked resume.
SessionChanges(t) ==
  /\ tab[t].open /\ tab[t].agent # "none" /\ tab[t].keyOk
  /\ tab' = [tab EXCEPT ![t].keyOk = FALSE]
  /\ OnlyTab

\* The user types; a command of theirs clears the queued writes.
UserTypes(t) ==
  /\ tab[t].open /\ ~tab[t].typed
  /\ \E c \in {tab[t].cmd, IF tab[t].cmd = "parked" THEN "none" ELSE tab[t].cmd} :
       tab' = [tab EXCEPT ![t].typed = TRUE, ![t].cmd = c]
  /\ OnlyTab

CloseTab(t) ==
  /\ tab[t].open
  /\ tab' = [tab EXCEPT ![t] = [NewTab(FALSE, tab[t].managed) EXCEPT !.boot = "known"]]
  /\ owed' = owed \ {t}
  /\ UNCHANGED <<entry, ticks, file, stale, recorded, key, sent, clean, restarts, faults>>

\* Time passes for one entry: its start timeout, or the wait to continue it.
Elapse(t) ==
  /\ t \in Managed
  /\ \/ entry[t].st = "starting" /\ ~entry[t].slow /\ entry' = [entry EXCEPT ![t].slow = TRUE]
     \/ entry[t].wait = "fresh" /\ entry[t].pending /\ entry' = [entry EXCEPT ![t].wait = "settled"]
     \/ entry[t].wait = "settled" /\ entry[t].pending /\ entry' = [entry EXCEPT ![t].wait = "timedOut"]
  /\ UNCHANGED <<tab, ticks, file, stale, recorded, key, history, restarts, faults>>

-----------------------------------------------------------------------------
(* The record of interrupted turns, and restarts *)

Pending == {t \in Managed : entry[t].pending}

\* Mutant: the record forgets the agents that still wait for their continue.
InterruptedWorking == {t \in Tabs : MidTurn(t)}

\* The panes a restart right now would cut off.
Interrupted == {t \in Tabs : MidTurn(t)} \cup Pending

\* record_interrupted_turns(false), every RECORD_INTERVAL: writes, and so dates the
\* record, only when the panes changed.  A failed write is only logged.
Record ==
  /\ recorded # Interrupted
  /\ recorded' = Interrupted
  /\ \/ file' = Interrupted /\ stale' = FALSE /\ UNCHANGED faults
     \/ faults < MaxFaults /\ faults' = faults + 1 /\ UNCHANGED <<file, stale>>
  /\ UNCHANGED <<tab, entry, ticks, key, history, restarts>>

\* A day passes since the record was written, or the clock is set.
ClockMoves ==
  /\ stale' = ~stale
  /\ UNCHANGED <<tab, entry, ticks, file, recorded, key, history, restarts, faults>>

\* The app starts again: with R of its tabs, a set that session restore decides, and the
\* record that the last run left on disk, which is refused when it is old.  saved: that
\* run wrote it when it ended.
Relaunch(R, disk, saved, old) ==
  /\ restarts < MaxRestarts /\ restarts' = restarts + 1
  /\ LET l == Launched(key, R, Read(disk, old))
     IN  tab' = l.tab /\ entry' = l.entry /\ ticks' = l.ticks
  /\ file' = disk /\ stale' = old /\ recorded' = Unwritten
  /\ sent' = [t \in Tabs |-> 0] /\ clean' = (clean /\ saved)
  /\ owed' = IF old THEN {}
              ELSE {t \in R : key[t] # NoKey /\ (t \in owed \/ (saved /\ MidTurn(t)))}
  /\ UNCHANGED key

Open == {t \in Tabs : tab[t].open}

\* The quit records first; that a write failed is only logged.
Quit ==
  \E R \in SUBSET Open, old \in BOOLEAN :
    \/ Relaunch(R, Interrupted, TRUE, old) /\ UNCHANGED faults
    \/ faults < MaxFaults /\ faults' = faults + 1 /\ Relaunch(R, file, FALSE, old)

Crash == \E R \in SUBSET Open, old \in BOOLEAN : Relaunch(R, file, FALSE, old) /\ UNCHANGED faults

TabNext(t) ==
  \/ Focus(t) \/ Bootstrapped(t) \/ EditorOpens(t) \/ Preexec(t) \/ DidNotStart(t) \/ RetrySettled(t)
  \/ AgentChanges(t) \/ AgentExits(t) \/ SessionChanges(t) \/ UserTypes(t) \/ CloseTab(t) \/ Elapse(t)

Next == Tick \/ RetryStalled \/ Record \/ ClockMoves \/ Quit \/ Crash \/ \E t \in Tabs : TabNext(t)

Spec == Init /\ [][Next]_vars

-----------------------------------------------------------------------------
(* Properties *)

TypeOK ==
  /\ tab \in [Tabs -> TabRecords]
  /\ entry \in [Tabs -> Entries \cup {NoEntry}]
  /\ ticks \in Nat
  /\ file \in SUBSET Tabs /\ stale \in BOOLEAN /\ (recorded = Unwritten \/ recorded \in SUBSET Tabs)
  /\ key \in [Tabs -> Keys \cup {NoKey}]
  /\ owed \in SUBSET Tabs /\ sent \in [Tabs -> Nat] /\ clean \in BOOLEAN
  /\ restarts \in 0..MaxRestarts /\ faults \in 0..MaxFaults

\* CONCURRENT_STARTS: the restore commands that are on their way to becoming an
\* agent, and that the queue still counts on, are never more than the limit, whatever
\* the user focuses, closes or retries.
UnderWay(t) ==
  /\ entry[t].st \in {"queued", "starting"} /\ ~tab[t].stash
  /\ tab[t].cmd \in {"released", "parked", "written"} \/ tab[t].settle \/ tab[t].agent = "loading"

StartsBounded == Cardinality({t \in Managed : UnderWay(t)}) <= MaxStarts

\* A second writer of the same conversation is never started automatically (enqueue):
\* of two tabs with one key, one has not left its held command.
OneWriterPerConversation ==
  \A t, u \in Managed :
    (t # u /\ key[t] = key[u] /\ tab[t].open /\ tab[u].open)
      => "held" \in {tab[t].cmd, tab[u].cmd} \/ "none" \in {tab[t].agent, tab[u].agent}

\* A tab that the queue flagged, and that the user has not retried, never gets a
\* command typed later: what was waiting for the shell or the prompt was cancelled.
FlaggedNeverTypes ==
  \A t \in Managed :
    entry[t].st \in Attention \ {"duplicate"} /\ ~entry[t].retrying /\ tab[t].open => ~Waiting(tab[t])

\* The polling never dies and never doubles: as long as a tab is queued, starting,
\* flagged or waiting to continue there is exactly one timer for the next tick.
OneTickChain == ticks <= 1 /\ (Unfinished(entry) => ticks = 1)

\* The turn of an agent that was cut off, and that a start found in a record it accepts,
\* is not forgotten until it was continued, given up on, taken over by the user, or a
\* later start refuses the record ("unless that record has gone stale",
\* read_interrupted_turns), over any number of quits and crashes.  (A write of the
\* record that failed can lose it.)
CutTurnsKept == faults = 0 => \A t \in owed : t \in Managed /\ entry[t].pending /\ t \in file

\* "including restored ones still waiting for their continue, so a second restart can't
\* lose them" (record_interrupted_turns): after a crash and a start at once the tabs
\* that come back still have their turns to continue, if what they wait for was recorded.
\* Fails when the panes did not change for a day, so that the record was not dated again.
CrashKeepsTurns ==
  [][(Crash /\ recorded = Interrupted /\ stale' = stale /\ faults = 0) =>
       \A t \in owed : tab'[t].open => entry'[t].pending]_vars

\* A Continue is sent once, only to an agent that was cut off and only while the user
\* has not typed.  (After a crash, or a quit that could not write its record, the one on
\* disk may be older than the turn's end, and a quit writes what is still pending into
\* the next record.)
ContinueOnlyCut ==
  [][\A t \in Tabs : sent'[t] > sent[t] =>
       sent[t] = 0 /\ Ready(tab[t]) /\ ~tab[t].typed /\ (t \in owed \/ ~clean)]_vars

\* No slot is wasted: a tick that leaves a tab queued leaves every slot taken, and by
\* starts that can still succeed: a shell that never runs its command, an agent that is
\* gone, a closed tab or a start that takes too long holds up nobody behind it.
Hopeless(t) ==
  entry[t].st = "starting" /\ (~tab[t].open \/ tab[t].stalled \/ Ready(tab[t]) \/ ~tab[t].keyOk \/ entry[t].slow)

SlotsNotWasted ==
  [][(/\ \E t \in Managed' : entry'[t].st = "queued"
      /\ \/ Cardinality({t \in Managed' : entry'[t].st = "starting"}) < MaxStarts
         \/ \E t \in Managed' : entry'[t].st = "starting" /\ t \in Managed /\ Hopeless(t)) => ~Tick]_vars

\* retry_stalled_restore_command's comment: "nothing is running, because the command
\* never began": no agent runs in the tab when the Ctrl-C of a retry is sent.
RetryFindsIdleShell ==
  [][\A t \in Tabs : tab'[t].settle /\ ~tab[t].settle => tab[t].agent = "none"]_vars

-----------------------------------------------------------------------------
(* The parts of the inductive invariant *)

\* A command that stalled was either stashed for a retry or is being retried.
TabsSound ==
  \A t \in Tabs :
    /\ tab[t].managed <=> t \in Managed
    /\ ~tab[t].open => tab[t].cmd = "none" /\ tab[t].agent = "none" /\ ~tab[t].settle
    /\ tab[t].stash => tab[t].cmd \in {"stalled", "none"} /\ ~tab[t].settle
    /\ tab[t].settle => tab[t].cmd = "none"
    /\ tab[t].stalled => tab[t].stash
    /\ tab[t].start = "retry" => tab[t].stash /\ ~tab[t].stalled

\* Until its first retry a tab holds its command until the queue starts it, and has none
\* left once its cancel was used up; a second writer of a conversation stays held.
EntriesSound ==
  \A t \in Managed :
    /\ entry[t].st = "closed" => ~tab[t].open
    /\ entry[t].st = "restored" => ~entry[t].cancel
    /\ tab[t].open /\ entry[t].st = "duplicate" => tab[t].cmd = "held" /\ tab[t].agent = "none"
    /\ tab[t].open /\ entry[t].st = "didNotStart" => tab[t].stash
    /\ tab[t].open /\ entry[t].retrying /\ entry[t].st = "queued" => tab[t].stash /\ tab[t].start = "retry"
    /\ tab[t].open /\ ~entry[t].retrying =>
         /\ ~tab[t].settle /\ tab[t].start # "retry"
         /\ tab[t].agent # "none" => tab[t].cmd = "none"
         /\ ~entry[t].cancel \/ entry[t].st \in Attention \ {"duplicate"} => ~Waiting(tab[t])
         /\ entry[t].st = "queued" => tab[t].start = "first" /\ tab[t].cmd = "held" /\ tab[t].agent = "none"

StartInv == TypeOK /\ TabsSound /\ EntriesSound

\* Of the tabs with one conversation only the first can be more than a duplicate.
SecondsHeld ==
  \A t, u \in Managed : t < u /\ key[t] = key[u] => entry[u].st \in {"duplicate", "closed"}

Starting == {t \in Managed : entry[t].st = "starting"}

StartsCounted == Cardinality(Starting) <= MaxStarts

\* A turn that is still to be continued was cut off, and its agent was not told yet.
TurnsInv ==
  /\ owed \subseteq Open
  /\ \A t \in Managed : entry[t].pending =>
       sent[t] = 0 /\ (tab[t].open /\ clean => t \in owed)
=============================================================================
