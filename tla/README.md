# Verification of Clinch's agent coordination

Clinch is a macOS terminal for CLI coding agents (Claude Code, Codex), forked from Warp. This
directory holds TLA+ models of the parts of Clinch that decide *when something may be typed into
an agent's terminal* and *what Clinch may say about it afterwards*. They are the parts in which
threads, processes, timers, provider hooks and a human at the keyboard meet, and in which a mistake
is visible to the user: a message sent twice, a receipt that lies, text typed over a draft.

The rest of the repository is mostly inherited from Warp (terminal emulation, editor, UI framework,
cloud client) and is not modelled.

## Inventory

| Component | State | Operations | Interacts with | What is hard |
|---|---|---|---|---|
| Durable delivery (`local_control/delivery`) | SQLite journal shared by all app processes; one worker thread and channel per local-control instance | send, cancel, inspect, list, dispatch, complete, maintain, shut down | hops to the UI thread; terminal views; the journal of other instances | crashes between claim and write, stale copies of rows, retries, replacement of the instance |
| Submission (`terminal/view/use_agent_footer`) | epochs of input, composer, `coordination_send_pending`, a timer per submission | readiness, insert text, delayed Enter, interrupt | delivery, keyboard, hooks, remote writers | somebody types between the text and its Enter |
| CLI agent sessions (`terminal/cli_agent_sessions/mod.rs`) | per view: identity, status, subagents, deferred completion, stop reason, title observations | one update per hook event, title, interrupt, submission, registry entry | emits events to auto-continue, notifications, footer | unsynchronised and lossy sources of status |
| Auto-continue (`auto_continue.rs`) | per pane: switch, pending stop, arm, generation; persisted arms and overrides; view timers | arm, confirm, restore, fire, retry, disarm, toggle | subscribes to sessions, usage and settings | timers that are never cancelled, arms that survive restarts, identities that change |
| Observation log, inbox (`local_control/observation`) | bounded capture queue, gap flag and baseline per instance; SQLite log with floors, reader checkpoints and batches shared by all processes | observe, append, prune, page of events, inbox batch, acknowledge | the UI thread captures, callers of local control read | overflow, pruning under a reader, inserts that fail, two readers of one inbox |
| Restore queue (`cli_agent_sessions/restore.rs`, `writeable_pty/pty_controller.rs`) | entry per restored tab, held restore command, chain of ticks, file of interrupted turns | enqueue, tick, retry, continue, record, focus | shells, agents, pane groups, the next run of the app | few starts at a time, timeouts against late shells, a second restart |
| Auto-coordinate (`workspace/view/auto_coordinate.rs`) | pending updates, last wake-up, one timer | record, request, attempt, hold, wake | sessions, coordinator tab | one timer for several deadlines, debounce against minimum gap |
| Writer leases (`remote_control/workspace_adapter.rs`, `gateway.rs`, `pairing.rs`) | leases, size pins, connected sessions, a task per WebSocket, connection slots | connect, greet, acquire, resize, pin, release, disconnect, sweep, revoke | gateway tasks, UI thread, desktop input | sockets that die at any step, devices that return, stopping under traffic |
| Remote service (`remote_control/mod.rs`, `tailscale.rs`) | switch, generation, gateway, clean-up, Tailscale set-up | enable, disable, retry, set up, recheck | settings, cleanup thread, Tailscale | asynchronous results that come late |
| Pairing (`remote_control/pairing.rs`) | invitations, claims, devices | invite, claim, approve, authenticate | gateway | expiry; each operation runs under one mutex |
| Updater, resume capture, project windows, undo close | files, UI collections | - | - | I/O, no protocol state |

## Modules

| Module | Contents |
|---|---|
| `Receipt` | abstract specification: what a caller is promised about one request |
| `Delivery` | journal, workers, UI thread and world; its properties and the refinement to `Receipt` |
| `DeliveryProofs` | TLAPS proofs about `Delivery`: its types, its invariants and the refinement of `Receipt` |
| `AgentSessions` | the session of one terminal view |
| `SessionProofs` | TLAPS proofs about `AgentSessions` |
| `AutoContinue` | extends `AgentSessions` with the subscriber that types "Continue" |
| `AutoContinueProofs` | TLAPS proofs about `AutoContinue`; it uses those about `AgentSessions` |
| `Observation` | capture queue, worker, log and inbox |
| `ObservationProofs` | TLAPS proofs about `Observation` |
| `RestoreQueue` | the restored tabs, their commands and the queue that releases them |
| `RestoreProofs` | TLAPS proofs about `RestoreQueue` |
| `WakePlanner` | the wake-ups of one project's coordinator |
| `WakeProofs` | TLAPS proofs about `WakePlanner` |
| `WriterLeases` | sockets, sessions, leases and pins of the phones |
| `RemoteService` | the switch of the service and its Tailscale set-up |
| `LeaseProofs`, `ServiceProofs` | TLAPS proofs about `WriterLeases` and `RemoteService` |
| `MC...` | instances for TLC. Several have a variable `scenario`, chosen in the initial state: a part of the operations with bounds of its own, so that one run asks a question of several small systems rather than of one that is too large |

Definitions that begin with a comment `Mutant:` are wrong on purpose. Each stands for a plausible
mistake in the code next to which it is written, and shows which property would notice it.

### Delivery

`journal` maps a request ID to its row; SQL statements and `BEGIN IMMEDIATE` transactions are
atomic, everything between two of them is not. `worker[i].pc` is the position of the delivery thread
between two such points: waiting for the admission hop (`admit`), before the insert, before the
probe, claim, send or settle step of `dispatch_pending`. `todo` holds the *copies* of the rows that
the pass read, because the code acts on those copies (`Transition` is a compare-and-set against
them). `term` holds what `local_control_agent_readiness` reads. `flight` holds the delayed Enters,
`finished` the completions in the worker's channel, `pty` the history of what reached a terminal. A guard
remembers as history how long `pty` was when its message was admitted (`mark`).

What a user types reaches an agent on two ways. `HumanInput` is `write_user_bytes_to_pty`, which moves both
epochs. `PlainInput` is the plain `write_to_pty`, which moves none: keystrokes of another pane that is
synchronized with this one (`view.rs:9783`) and text that the app routes to the agent (`view.rs:24220`).
Other plain writes carry nothing a user drafts (focus reports, wheel reports of the prompt seek, clipboard
replies) or find no agent running (shell commands) and are left out.

One action is one atomic section of the code together with everything it calls: a command taken
from the channel includes the `maintain` that precedes it, a hop includes the start of a deferred
tab, shutdown settles every row of the instance. A restarted app is another element of `Procs` that
shares the journal; a local-control instance that is switched off and on is another element of
`Instances`. Completions and commands form sets, so any order of arrival is covered.

Data is abstracted: an agent ID is a terminal and a conversation, a prompt is its request ID, the
composer is empty, the human's or ours, time is in ticks. A revision is what the code hashes into
one. What the code calls working, blocked, idle or unknown may change at any time.

### AgentSessions

`sess` is the entry of the sessions model, `titles` and `settling` the title observations and their
five-minute timers, `emitted` the events that the last update sent to subscribers. Every hook event,
title and call is an action; all may come in any order, be lost or be late. `rollout` is the external
file in which Codex records limit stops. `guess` is history: whether an interrupt guess is unsettled.

### AutoContinue

An action of the session is followed within the same step by the reaction of the subscriber, since
events of a model are delivered before anything else runs on the UI thread; a changed setting is
delivered after them (`Commit`). The operators `Arm`, `Disarm`, `Confirm`, `Restore`, `Sync` are
functions of a record `b` with the pane, its timers, the persisted arms and the count of stops, so
that a reaction of several calls is a composition. `timers` are those of the view and survive the
pane state. Stops are numbered so that properties can say which stop a Continue answers.

### Observation

`svc[i]` is the service of instance `i`: its queue, its gap flag, the baseline `previous` and the
position of its worker. `Observe` puts a snapshot into the queue or, when it is full, raises the flag
and loses the snapshot. The worker takes one command at a time. Each SQL statement is a step: the
insert of an event, the deletion of old rows together with the floors it raises (one transaction),
the read of a floor and the read of a page (two statements). `log` and `lost` are histories of what
was recorded and of what was lost; `answers` compares what a page disclosed with what had been lost
before it was asked for. An inbox batch is handed out, kept for ten minutes and acknowledged once;
`consumed` is the history of the records that acknowledged batches showed.

Abstracted: the scope filter of a page, the contents of transcripts (a number of records), the state
of agents in checkpoints, the cap of 1000 acknowledged batches, floors that are deleted after 90 days
(`FloorLife` lies outside the time bound); counting the batches and storing one is one step.

### RestoreQueue

`tab` joins the view and the PTY controller of a tab; `cmd` is where its restore command is, from
`held` to `written` or `stalled`. `entry` is the `RestoreEntry` of the queue. `Tick` is the whole of
`tick`: verdicts on the running starts, continue prompts, new starts in tab order, the record of
interrupted turns. `ticks` counts the timers that will call it, so that a second chain of ticks
is visible. Timeouts are stages (`slow`, `wait`) that pass one after the other, at any moment.
`Quit` and `Crash` begin the next run with the file that was last written; `owed` is the history of
the turns that a restart cut off.

The record is dated when it is written. `ClockMoves` makes it too old, or of a date to come, at any moment, also
between two runs (`old` in `Relaunch`); `Read` then refuses it as `read_interrupted_turns` does. A write may
fail (`MaxFaults`), which is only logged: a failed `Record` still sets `last_recorded_panes`, so it is not repeated,
and a failed write at `Quit` leaves the older record to the next run. `CutTurnsKept` is claimed while no write failed;
`ContinueOnlyCut` says "was cut off" while every run wrote its record at its end (`clean`).

Abstracted: `continue_sessions_after_restart` (on; switched off, a start behaves as if it refused the record). A
closed tab is one whose view was dropped. The state `couldNotStart` cannot be reached in the code as it
is; it is kept for the reader.

### WakePlanner

Instants are kept as the time since them, up to the interval they are compared with, and the timer as
the time it has left; so the model has no clock bound and the constants are the code's intervals
in any proportion. `Attempt` is `attempt_auto_coordinate_wakeup`: wake, hold, or drop what nobody wants. `since` is
history: the time since the coordinator was last woken for any reason. The status label is left out.

### WriterLeases and RemoteService

`sock[s]` is the position of the task of a WebSocket between two calls that leave it: the claim of its
slot (pairing mutex), `session_connected`, the greeting, each message, `session_disconnected`,
`release_session`. All calls to the adapter run on the UI thread and are atomic there. A lease
holds the seconds left of its TTL; `sweeps` the delayed sweeps. `Stop` empties the adapter while the tasks run on until
`Shutdown`. `ungreeted` and `strays` are histories that name two exceptions (see Findings and Remarks).
Panes are always found: they do not close, move to another window or make way for a temporary pane (for a target that
does not resolve, `preempt_writer_for_desktop_input` and the other releases drop lease and pin but have no terminal whose
width they could restore); calls queued before a shutdown run before it; a retry is `Stop` followed by
`Shutdown`; the inactivity limit of a device is part of `paired`; a sweep that is due runs before
time passes.

In `RemoteService` a task is a set-up, its verification or a recheck timer, each with the generation
that began it, or its report to the UI thread, which outlives the runtime. Tailscale is external: it
is missing, not ready or fine, and remembers one route. Disabling a service that runs starts a thread for the
clean-up, or cannot (`lost`): `stop_runtime` discards that error, and `cleanup_in_progress` stays set.

## Runs

| Run | Instance | Shows |
|---|---|---|
| `delivery_full` | 1 process, instance, request; a restored tab; all of `Next` but storage errors and plain input | `ReceiptHonest`, `HumanPreempts` |
| `delivery_shared` | *queue*: 3 requests, 2 senders, 1 terminal, limit 2 per target; *replace*: 2 instances in 1 process, 1 request each, 1 storage error, the keyboard, plain input while an Enter is due | `TargetFIFO`, `OneQueuePerTarget`, `SubmittedAlone` |
| `delivery_crash` | 2 processes with a crash, 1 request, retention inside the time bound, fairness | `WrittenOnce`, `ReplayOnlyAfterRetention`, `ReceiptPromise` (refinement), `PendingResolves` (liveness) |
| `sessions` | either provider, 2 IDs, 2 subagents, 2 idle periods | `DeferralHasOwner`, `StopMeansStopped`, `DoneMeansQuiet`, `FreshGuessRecovers` |
| `continue` | *timers*: 1 ID, resets and retries; *restart*: 2 IDs, exits, resumes, a restart; *switch*: Codex, limit stops with the usage scan, switches, late identity | `ArmHasTimer`, `NeverEarly`, `TakeoverIsFinal`, `OneContinuePerStop`, `ArmIsPersisted`, `ContinueOnlyForItsSession`, `OffMeansOff` |
| `continue_stale` | Claude, sessions that end and start, 2 stops | **violated**: `NeverEarly` |
| `observation` | *log*: 2 instances, a queue of 2, 2 rows, pages of 1, 1 failed insert; *inbox*: 1 reader, 1 conversation of 2 records, 2 batches, both instances asked | `LossDisclosed`, `ReplayOrGap`, `SkippedOnlyMidPage`, `CheckpointCovered`, `AckAdvances` |
| `observation_race` | as `observation` | **violated**: `NothingSkipped` |
| `restore` | 2 tabs, 1 start at a time; *starts*: equal, different or missing conversations; *turns*: 1 restart by quit or crash, 1 failed write, a record that ages | `StartsBounded`, `OneWriterPerConversation`, `FlaggedNeverTypes`, `OneTickChain`, `CutTurnsKept`, `ContinueOnlyCut`, `SlotsNotWasted` |
| `wake` | 2 sessions, batch window 1, retry 2, minimum interval 5, fairness | `OutstandingOnTime`, `WakesSpaced`, `WokenEventually` (liveness) |
| `remote` | 2 phones with 2 and 1 sessions, 1 pane; *desktop*, *accounts*, *service* | `ControlAsOne`, `GoneHolderLetsGo`, `LeaseKept`, `ReadyIsCurrent`, `StuckOnlyWhenLost` |
| `remote_zombie` | as `remote` | **violated**: `BlocksOnlyWithSocket` |

The type invariant of each module (`TypeOK`, `SessionTypeOK`, `ServiceTypeOK`) holds in these
instances as well; all of them are proved.

### Bounds

Two processes or two instances are enough for every race over a row: a row has one owner, and only
a second party can recover, cancel or retain it. Two requests show a message next to another
(`delivery_shared`); three requests with a limit of two reach the limit. One terminal suffices because nothing couples
two terminals but the order of the worker's loop. The clock runs long enough for a message to expire
and a receipt to be forgotten (`Retention` 1, `MaxTime` 3 in `delivery_crash`). `MaxHuman`, `MaxPlain`, `MaxConv`,
`MaxFaults`, `MaxIdle`, `MaxStops`, `MaxRestarts` and `MaxGen` count events of which a second or third
adds no new kind of state: one input between any two steps, one replaced conversation, one storage
error, two idle periods (one stale), two stops (one answered, one new), one restart. Plain input appears in
`delivery_shared` only, between a text and its Enter; at other times it only changes the composer, as human input
does too. The proofs have it at any time.

A message that would expire after the end of time is refused (`Insert`), so that every pending
message can expire. A dispatch pass takes less than the retention of seven days
(`PassesAreShort`); without that the row of a copy could be deleted and its request ID reused.

In `observation` a queue of two overflows with the third snapshot, two rows are pruned by the third
event and a page of one is continued by a cursor, so that loss, pruning and paging all happen under
a reader; a second instance is the other process that prunes. In `restore` one slot and two tabs make
one wait for the other, and two tabs are what a duplicate needs. In `wake` the minimum interval is longer than
retry and batch window together, the case in which the three deadlines differ. In `remote` the grace window is one tick,
sweeps come after three; a device with two sessions returns while its first socket is still leaving,
the other phone competes. `MaxGeneration` 5 admits two restarts of the service with results of both on
their way.

Deadlock checking is off where the system may really stop: after every process has ended or the last
worker stopped (`Delivery`), when the bounded inputs of a scenario are used up (`continue`,
`observation`, `restore`, `remote`).

### Fairness

`delivery_crash` assumes that a running worker thread keeps running, that a completion or Shutdown in
its channel is eventually taken (strong fairness: the channel is FIFO, so it is overtaken finitely
often), that timers of a live UI thread fire, and that the clock advances. It does not assume that
an agent ever becomes ready, that any process survives or that a crashed one is started again: the
property only speaks of behaviours in which some worker runs for ever, and the expiry of a message
does the rest.

`wake` assumes that the clock advances and that a due timer fires (weak fairness), and strong fairness
of waking: a ready coordinator may refuse the text, but not at every attempt. Without that no retry
could help, and `WokenEventually` only speaks of a coordinator that stays ready. `SlotsNotWasted` states the progress of `restore` as a step property instead: a tick leaves no
slot free while an eligible tab waits.

## Findings

1. **A stale timer can match a later arm** (`continue_stale`). Ending or starting a session removes the
   pane state and its generation counter while the timers of the view go on
   (`auto_continue.rs:1102`), so that generations repeat.
2. **A page can skip events in silence** (`observation_race`). `Store::events` reads the floor
   (`store.rs:160`) and then the rows (`store.rs:192`). When another process prunes in between,
   events that the page should have held are gone, the floor it compared was the old one, and the
   cursor it returns lies behind them. `SkippedOnlyMidPage` shows that this is the only way: what a
   page leaves out without a gap was deleted between its two reads.
3. **A socket that dies while it is greeted leaves a connected session behind** (`remote_zombie`). The
   early returns at `gateway.rs:432`-`465` call `release_session` but not `session_disconnected`; the
   adapter counts the session as connected until the service stops, so a lease it took over neither
   expires nor lets another device in. `GoneHolderLetsGo` shows that every other end of a
   socket lets go.

### Remarks

Other disagreements met while modelling, which no run repeats. The formulas named are in the modules;
as an `INVARIANT` or `PROPERTY` of the corresponding instance each gives the trace described.

- `HumanInputCancelsPending` (`Delivery`, instance of `delivery_full`): a message for a tab that is still to be started
  carries `LAZY_START_GUARD`, and the probe skips the comparison of guards for it (`delivery/mod.rs:335`): input
  typed between admission and delivery does not cancel it, contrary to
  `specs/clinch-agent-coordination/CLI.md:178`. The comment there only says why the block is not compared.
  `HumanPreempts` shows that this is the only exception for input that moves the epochs.
- `DraftsNotCombined` (`Delivery`, instance of `delivery_shared`): `PlainInput` moves no epoch,
  so the Enter of a message submits what was typed in a synchronized pane since the text
  (`specs/clinch-agent-coordination/PRODUCT.md:139` excludes it). `SubmittedAlone` shows that such input is all
  that can come between a text and its Enter.
- `CrashKeepsTurns` (`RestoreQueue`, action property of `TurnNext` with `ClockMoves` at any time): the record of
  interrupted turns is dated when its set of panes last changed (`restore.rs:203`) and refused after a day
  (`agent_resume.rs:1055`), so a crash can lose turns that were recorded all the time, contrary to
  `restore.rs:190`. A quit dates it anew. `CutTurnsKept` shows that nothing else loses a turn that an accepted
  record named.
- `NeverStuck` (`RemoteService`): `stop_runtime` discards the result of creating the clean-up thread
  (`remote_control/mod.rs:704`-`708`). If that fails, the service, switched on again, shows "Starting" and `retry`
  returns at once until the app restarts, contrary to `specs/clinch-remote-control/PRODUCT.md:94`.
  `StuckOnlyWhenLost` shows that this is the only way.
- `GuessRecovers` (`AgentSessions`): Esc marks the turn done; a subagent that then stops clears
  `turn_interrupted_by_user` (`cli_agent_sessions/mod.rs:491`) without restoring the status, and no
  later `ToolComplete` does, contrary to the comment at line 1015. `FreshGuessRecovers` shows that
  without such a report the guess is always undone.
- `ContinueOnlyForItsSession` with registry renames (`AutoContinue`, actions `Reconcile` with two IDs):
  a rename re-keys the pane but keeps its pending stop (`auto_continue.rs:771`), so the next usage
  snapshot persists the arm of the old session under the new one.
- `RetryFindsIdleShell` (`RestoreQueue`): "nothing is running, because the command never began"
  (`pty_controller.rs:641`) need not hold when the shell began the command between the timeout and the
  retry; the Ctrl-C then goes to the agent. Retried entries have no cancel closure.
- `RunRetriedSoon` (`WakePlanner`): a requested run that finds the coordinator busy while a timer of
  the updates is running waits for that timer, not for `RETRY_INTERVAL` (`auto_coordinate.rs:49`).
- `RouteRemoved` (`RemoteService`): when the service is disabled while a set-up is about to run
  `tailscale serve`, the set-up may add the route after the clean-up removed it
  (`specs/clinch-remote-control/TECH.md:119` says that Disable removes it).
- A message that is on its way to the UI thread when the service stops may be granted a lease that
  no sweep ends (`strays`); the pane keeps the phone's width until desktop input or the next
  client's snapshot.
- `TakeoverIsFinal` speaks of input to a pane whose stop is live. Input typed while the arm exists
  only in the settings (after a restart, before the session is recognised) does not cancel it; the
  code does not claim that it would.

## Proofs

TLAPS checks eight modules; every theorem holds for all values of the constants that satisfy the named
assumptions.

**`DeliveryProofs`** proves `TypeCorrect`: `Spec => []TypeOK`, from `HomesAssumption` (every instance
and terminal has a process), `SentinelAssumption` (the "none" values are not elements of the sets they
extend) and `NumbersAssumption` (bounds are naturals). `TypeOK` is inductive. Lemmas
give the type of each operator on rows, workers and terminals (`TransitionType`, `MaintainedType`,
`PassType`, `AdvanceType`, `TerminalUpdates`), then one lemma per group of actions has one step per
action. The one conjunct that is not plain membership, that a worker in `admit` or `insert` has an
operation, is what makes the insert step well defined.

Its second part proves every safety property of `Delivery` and that it implements `Receipt`, from the
same assumptions. `ReceiptHonest` and `WrittenOnce` speak of rows and of what reached a terminal, while
the code decides on copies, timers and results that are on their way. The inductive invariant `IInv`
(`JournalAgrees`) says how these agree:

- a live worker's copies are of its own rows, which are still there, and the row that it is about to
  send is claimed and unwritten (`SnapshotsSound`; that a row outlives the pass which copied it rests on
  `PassesAreShort`),
- a result in a live worker's channel closes a claim that is still open, once (`CompletionsSound`),
- a delayed Enter belongs to one written message without Enter, whose claim is open as long as its
  worker lives (`FlightsSound`),
- rows have distinct sequence numbers below the next one and history mentions no others (`JournalSound`,
  `HistorySound`).

A step of a worker is first reduced to what it does to each row: `RowMove` lists the legal moves (a lapse, a
refusal, a recovery, a claim, a failure, a completion, a stop), `TakeMoves`, `AdmissionMoves`, `DispatchMoves` and
`FaultMoves` show that the actions make no others, and `WorkerInv` that such moves keep `IInv`. Sending, Enter and its
completion write history as well and have an argument of their own (`SendInv`, `EnterInv`, `CompletedInv`). The
refinement `JournalImplementsReceipt` reads each move as one step of `Receipt!Next` for its request, or a
stutter.

The properties about order need facts that `IInv` does not have, each beside it:

- `TargetFIFO` by `OrderInv`: whatever can still be written to a terminal is newer than all texts written
  (`TextsOlder`). That needs dispatch to look only at the oldest message of a target (`QueuesSound`), and
  that an instance serves its process once and a conversation never returns (`BridgesSound`,
  `AddressesSound`): otherwise a second queue could overtake.
- `OneQueuePerTarget` by `QueueInv`: the journal is finite, so that the count of the insert transaction means
  something.
- `SubmittedAlone` by `AloneInv`: until its epoch moves, only plain input follows, in the terminal of a timer,
  the text that the timer submits.
- `ReplayOnlyAfterRetention` by `RetentionInv`: a text is in the journal, or older than the retention.
- `HumanPreempts` by `PreemptInv` beside `AloneInv`: every message, from its admission over its row to the copies of
  it, carries a guard with this meaning: while the user's epoch is the guard's, no human input came after the
  guard was taken (`GuardSound`). So a text that passes the comparison has no human input between its admission and
  itself, and a timer whose epoch still holds has none between its text and its Enter.

**`SessionProofs`** proves the four safety invariants of `AgentSessions` and its types, from
`SessionAssumption` (sentinels, positive reset times, the two providers). `DoneMeansQuiet`
is not inductive by itself: the first event of a session without a listener registers the session
anew and settles the guess, which would leave a done session with subagents and no guess. The
strengthening `SessionInv` adds that

- subagents are known only to a session that has heard a plugin event (`rich`),
- such a session has a listener, so the event that registers a session finds no subagents,
- a fresh interrupt guess leaves `turn_interrupted_by_user` set,
- such a session is named, and only such a session is stopped by a limit (used by `AutoContinueProofs`).

Each event handler has a lemma that it takes a session in order to a session in order; the theorems
`SessionTypeCorrect`, `DeferralOwned`, `StopReasonsCurrent`, `CompletionsQuiet` and
`FreshGuessesRecover` then follow from `SessionInvariant`.

**`AutoContinueProofs`** proves the types and all seven invariants of `AutoContinue`, for any sessions, subagents,
reset times and attempts, from `SessionAssumption` and `AutoContinueAssumption` (the "none" values are not elements of what
they extend, bounds are naturals). Session and pane change in one step, so the step of the session is first
reduced to what the subscriber can tell of it (`SessionMove`: what the emitted events say of the session before
and after, and that a session which gets another name announces it before anything else; `SessionSteps` shows
that every update is such a move). The reactions are a recursive function over the emitted events; an update
emits at most five, so `ReactionsFew` unfolds it and no induction is needed. The invariant is `Sound`:

- `Kept`: a pane has state for a session with a plugin only, and an arm has the pane's generation,
- `HasTimer`: an arm has a timer of its generation that is due no later,
- `Early`: no timer is of a generation to come, and none of the current one is due before the arm,
- `OwnedPane`, `OwnedStore`, `OwnedStop`: what is pending, armed or persisted is about an *open* stop of the session it
  would be typed into, one that was neither answered nor taken over; a pane that is switched on has the session's
  own key; the stop the session rests at is the last one, and if it was taken over the pane is still switched on and
  will not pick it up again.

Each operator on the pane has a lemma that it keeps `Sound` (`ArmSound`, `DisarmSound`, `RestoreSound`, `FiredSound`,
...), each event one for its reaction, each action one for its step; `NextKeeps` puts them together. The
types and `ArmHasTimer` hold in every behaviour. The others are false in some behaviours, as the findings show, and their
theorems say which behaviours those are:

- `NeverEarly` under `PaneFindsNoTimers`: a pane's state begins only when no timer of an earlier one is left. This
  is where the trace of `continue_stale` goes wrong: a session may end and leave its timers behind
  (`EarlyInv`), only the next one must not open under them.
- `OneContinuePerStop`, `TakeoverIsFinal`, `ContinueOnlyForItsSession`, `OffMeansOff` and `ArmIsPersisted` under
  `RenamesAtRest`: while a pane is switched on, its session is given another name only when nothing is pending or armed, and
  one for which auto-continue is available and on. This excludes the renames of the remark about registry renames
  above; a rename at rest re-keys the pane like any other (`RenameSound`).

With both as action constraints TLC still reaches sessions renamed under an enabled pane, and a Continue typed after
a restart.

**`WakeProofs`** proves the types, `OutstandingOnTime` and `WakesSpaced` of `WakePlanner`, for any
sessions and any intervals of which the batch window is not longer than the retry
(`WakeAssumption`). `OutstandingOnTime` is not inductive: a timer that outlives what it was started
for is found running by a later update. The strengthening `IInv` adds that the history `since` agrees
with `last` (`Linked`), that something outstanding has a timer (`TimerRuns`), that pending updates have
a `first` (`Anchored`), and that a timer is never longer than the retry delay or the rest of the minimum
interval (`TimerShort`). `DueInBounds` bounds `due_at`; `AttemptInv` covers the attempt that the timer and
a requested run share; `NextInv` has one step per action.

**`LeaseProofs`** proves the types and the three properties of `WriterLeases`, for any devices, sessions,
panes and grace window, from `LeaseAssumption` (every session has a device, the "none" values are not
elements of what they extend, numbers are naturals). `ControlAsOne` is inductive beside the types.
`GoneHolderLetsGo` is not; the strengthening `LeaseInv` adds that a socket that has told the adapter it
goes is not connected (`LeavingIsOut`: so the sweep scheduled next will find its leases lapsed), that
whatever is leased while the service is not on was leased after its stop (`LateLeasesStray`: so
a shutdown may drop the sweeps), and, for the action property `LeaseKept`, that a socket which is served is
known to the adapter (`ServedIsConnected`, from `OffHasNoSockets` at a start). Three shapes of step
cover most of the twenty-odd actions and have lemmas of their own: letting go of some panes
(`LetsGoKeeps`), granting one (`GrantKeeps`), and a socket that moves on (`SocketMoves`).

**`ServiceProofs`** proves `ReadyIsCurrent` and `StuckOnlyWhenLost` of `RemoteService` for any number of restarts
(`ServiceAssumption`: the bounds are naturals). The strengthening `ServiceInv` adds that a gateway
carries the current generation (`GatewayCurrent`), that a task of the current generation has its
gateway beside it (`TasksKnown`), that a service nobody wants is off or failed (`OffIsOff`),
that a clean-up always has a next step or was lost (`CleanupUnderWay`), and that a start with a gateway
waits for more than a recheck (`StartingHasSetup`), since a recheck that finds the service
starting ends without a trace. `StartedInv` covers the four ways to start.

**`RestoreProofs`** proves the types and all seven properties of `RestoreQueue`, for any tabs, limit of
starts, restarts and failed writes, from `RestoreAssumption` (finitely many tabs, in an order; a positive
limit; the "none" values are not elements of what they extend). Everything rests on `StartInv`
(`RestoreSound`): what a tab's record says of itself (`TabsSound`: a command that stalled is stashed or is being
retried, a closed tab has neither command nor agent) and of its entry (`EntriesSound`: until its first retry a
tab holds its command until the queue starts it, and none is left once its cancel was used up).
`FlaggedNeverTypes` is part of it. `OneTickChain` is inductive beside it. The others need:

- `OneWriterPerConversation`: of the tabs with one conversation only the first is ever more than a
  duplicate (`SecondsHeld`).
- `CutTurnsKept` and `ContinueOnlyCut`, which both allow for records that are refused or could not be written: what is still to be continued was cut off and not told yet
  (`TurnsInv`). The proof showed that `clean` has to remember every crash, and every quit that could not write: after one, the next *quit*
  writes what is then pending into the record of the next run, so a stale turn may outlive it. Runs with
  one restart cannot tell the difference.
- `StartsBounded`: entries that are `starting` are counted (`StartsCounted`); `UnderWay` implies `starting`. A
  tick starts those of which fewer than the free slots come before. `FirstAtMost` and `FirstAtLeast` are the two
  halves of the counting argument, for any strict total order on a finite set; `OrderFacts` shows that
  "interrupted first, then in tab order" is one. The second half gives `SlotsNotWasted`.

The proofs follow the two loops of `tick`: `EntryChecked` and `TabChecked` for the first, the four outcomes of
`SecondLoop` for the second, `TickOf` for both.

**`ObservationProofs`** proves the types and all five properties of `Observation`, for any instances, agents,
readers, conversations and limits, from `ObservationAssumption` (finitely many agents, 0 among the values, the
"none" values not elements of what they extend, positive sizes of queue and pages, other bounds naturals).
Every proof rests on `ObsInv`: the types, what a worker holds between two statements (`WorkersSound`), and that the
table of events is finite, so that its largest number means something. A step changes one worker (`Moves`); the
`...Facts` lemmas say once what each action does to it, and `Steps` lists the actions. The properties need, each
beside `ObsInv`:

- `CheckpointCovered` by `InboxInv`: a batch, handed out or still being drafted, shows exactly the records between the
  checkpoint it was read after and the one it leads to (`BatchSound`). Since `ack` compares the checkpoint with
  that of the batch, a batch that was overtaken by another reader of the same inbox cannot be added. The same invariant
  gives the action property `AckAdvances`. Its proof showed that the comparison comes after the expiry: a checkpoint
  whose 90 days end in the very call of `ack` is deleted first, and a batch that was read without one may then replace
  it by an older position. `AckAdvances` therefore speaks of checkpoints that are alive (`LiveCkpts`).
- `LossDisclosed` by `LossInv`: while the gap flag is down, every loss is in the log or among the events the worker
  is about to insert (`Told`); every loss from before a request that is being answered is there as well; and an
  event that is being pruned after was inserted (`HeadInserted`), so that what leaves the list is in the log.
- `ReplayOrGap` by `LossInv` and `ReplayInv`: the log, and the events not yet inserted in any order, add up to the
  snapshot of the command at hand (`LogAddsUp`), and the last snapshot in the queue is the workspace unless
  one was lost (`LastIsCurrent`).
- `SkippedOnlyMidPage` by `PageInv`: every event is in the table or at most the floor of its instance
  (`FloorsSound`), a reader has one request for a page at a time (`OneAsk`), and behind the position
  that a worker compared with the floor every event is in the table or was cut since (`PagesSound`). A page has no
  holes (`PageDown`): its limit takes a first part of the rows, whatever their number. This theorem assumes
  `FloorsLast`, that time stays within `FloorLife`: `prune` deletes a floor 90 days after it was last raised
  (`store.rs:132`), and after that a cursor as old as that would be accepted again.

Only model-checked: liveness (`PendingResolves`, `WokenEventually`), which is out of reach of the prover.

## Not modelled

- Pairing up to the session: invitations, claims, approvals and challenges are single operations
  under one mutex whose content is cryptography and expiry; the ticker that shows them polls.
- WebSocket framing, HTTP authentication, discovery files: stateless per request.
- The delayed Enter of an automatic Continue (`use_agent_footer/mod.rs:2056`) is part of the step that
  sends its text.
- The updater, undo close, project windows, sections and tasks: file I/O and UI collections without
  concurrency.
- Terminal emulation, editor, UI framework, settings pages, search, cloud client: inherited from
  Warp, by far the largest part of the repository, and without protocol state of Clinch.

## Plan

1. (done) `Receipt`, `Delivery`, `AgentSessions`, `AutoContinue`; types of `Delivery`, invariants of
   `AgentSessions` proved.
2. (done) `Observation`, `RestoreQueue`, `WakePlanner`, `WriterLeases`, `RemoteService`; invariants of
   `WakePlanner`, `WriterLeases` and `RemoteService` proved.
3. (done) Invariants of `Delivery` and its refinement of `Receipt`, invariants and action properties of
   `RestoreQueue` proved.
4. (done) Invariants and `AckAdvances` of `Observation` proved.
5. (done) Invariants of `AutoContinue` proved.
6. The submission strategies of `write_cli_agent_text_then_submit`, whose delayed Enter does not
   revalidate the terminal.
