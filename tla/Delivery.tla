------------------------------ MODULE Delivery ------------------------------
(***************************************************************************)
(* Durable, ordered delivery of agent messages (local_control/delivery).   *)
(*                                                                         *)
(* Every app instance runs one delivery worker thread.  All workers share  *)
(* one SQLite journal; each SQL statement (or BEGIN IMMEDIATE transaction) *)
(* is atomic.  A worker reaches its terminals only through hops to the UI  *)
(* thread, and everything else - the keyboard, provider hooks, panes that  *)
(* close, the local-control setting, other instances, the clock, a crash - *)
(* may act between two of its steps.                                       *)
(***************************************************************************)
EXTENDS Naturals, Sequences, FiniteSets

CONSTANTS
  Procs,        \* app processes; a restarted app is another element
  Instances,    \* local-control instances, one delivery worker each
  Terms,        \* terminal views, each with one CLI agent
  Requests,     \* request IDs chosen by callers
  Senders,      \* sender UUIDs
  InstHome,     \* [Instances -> Procs]
  TermHome,     \* [Terms -> Procs]
  Deferred,     \* restored tabs whose agent has not been started
  Managed,      \* restored tabs whose start belongs to the restore queue
  NoInst, NoRow, NoOp,
  Expiry,       \* expires_in of every message, in clock ticks
  Retention,    \* RETENTION_SECONDS, in clock ticks
  MaxPending, MaxPerTarget, MaxReceipts,   \* limits of the journal
  MaxTime, MaxHuman, MaxPlain, MaxConv, MaxFaults    \* bounds of the model

VARIABLES
  journal,   \* request ID -> its row in the messages table, or NoRow
  nextSeq,   \* AUTOINCREMENT sequence of the next insert
  now,       \* wall clock
  proc,      \* process -> "up", "quitting" (UI models dropped) or "dead"
  bridge,    \* process -> its current local-control instance, or NoInst
  worker,    \* instance -> state of its delivery thread
  shut,      \* instances whose DeliveryService was dropped (Shutdown is queued)
  finished,  \* instance -> Finished commands in its channel
  term,      \* terminal -> what readiness reads
  flight,    \* terminal -> submissions waiting for their delayed Enter
  pty,       \* history: terminal -> what was written to it, in order
  faults     \* storage errors so far

vars == <<journal, nextSeq, now, proc, bridge, worker, shut, finished, term, flight, pty, faults>>

ui == <<term, flight, pty>>

-----------------------------------------------------------------------------
(* Values *)

PendingStates == {"queued", "dispatching"}

SettledStates == {"submitted", "delivery_unknown", "failed", "cancelled", "expired"}

\* local_control_queue_guard, or LAZY_START_GUARD (the code keeps no epoch in a lazy
\* guard).  mark is history: how much had been written to the terminal by then.
Guards == [lazy : BOOLEAN, uepoch : Nat, block : Nat, mark : Nat]

\* AgentSendParams plus the guard; term and conv are what an agent ID binds.
Ops == [req : Requests, term : Terms, conv : Nat, sender : Senders, queue : BOOLEAN,
        guard : Guards]

\* Message: one row of the journal.
Row == [req : Requests, term : Terms, conv : Nat, sender : Senders, queue : BOOLEAN,
        guard : Guards, seq : Nat, inst : Instances,
        state : PendingStates \cup SettledStates,
        created : Nat, updated : Nat, expires : Nat]

Status == {"idle", "working", "blocked", "unknown"}

Reasons == {"none", "not_started", "starting", "status_unavailable", "submission_pending",
            "agent_not_writable", "interactive_attention_required", "human_input_or_draft",
            "working", "remote_writer"}

Revisions == [conv : Nat, status : Status, epoch : Nat, reason : Reasons]

Terminal == [open : BOOLEAN, phase : {"deferred", "starting", "up", "down"}, conv : Nat,
             block : Nat, status : Status, uepoch : Nat, epoch : Nat, unacked : BOOLEAN,
             composer : {"empty", "human", "ours"}, writer : BOOLEAN,
             pending : BOOLEAN]   \* coordination_send_pending

\* What the delayed Enter captured when the text was inserted.
Flights == [req : Requests, seq : Nat, inst : Instances, conv : Nat, epoch : Nat, block : Nat]

\* lazy and mark are those of the message's guard.  "human" is input that moves the
\* input epochs, "plain" is input that goes past them.
Events == [kind : {"text", "enter", "human", "plain"}, seq : Nat, req : Requests \cup {NoOp},
           at : Nat, lazy : BOOLEAN, mark : Nat]

\* off: no request has started the thread yet.  admit: before the admission hop.
\* insert: admitted, before the insert.  probe, refuse, claim, send, fail, lose:
\* positions of dispatch_pending for the first message of todo.
Pcs == {"off", "idle", "admit", "insert", "probe", "refuse", "claim", "send", "fail", "lose",
        "stopped"}

NoRevision == [conv |-> 0, status |-> "idle", epoch |-> 0, reason |-> "none"]

Workers == [pc : Pcs, op : Ops \cup {NoOp}, todo : SUBSET Row, again : BOOLEAN, rev : Revisions,
            since : Nat]   \* when dispatch_pending read the journal

Resting(pc) == [pc |-> pc, op |-> NoOp, todo |-> {}, again |-> FALSE, rev |-> NoRevision,
                since |-> 0]

ASSUME HomesAssumption == InstHome \in [Instances -> Procs] /\ TermHome \in [Terms -> Procs]

ASSUME SentinelAssumption ==
  NoInst \notin Instances /\ NoRow \notin Row /\ NoOp \notin Requests

ASSUME NumbersAssumption ==
  /\ Expiry \in Nat /\ Retention \in Nat
  /\ MaxPending \in Nat /\ MaxPerTarget \in Nat /\ MaxReceipts \in Nat
  /\ MaxTime \in Nat /\ MaxHuman \in Nat /\ MaxPlain \in Nat /\ MaxConv \in Nat /\ MaxFaults \in Nat

-----------------------------------------------------------------------------
(* The journal *)

Present(r) == journal[r] # NoRow

PendingIn(j, r) == j[r] # NoRow /\ j[r].state \in PendingStates

SameTarget(a, b) == a.term = b.term /\ a.conv = b.conv

\* Compare-and-set on request ID and state; the row body is rewritten from the
\* caller's copy of the message.
CasHits(j, m) == j[m.req] # NoRow /\ j[m.req].state = m.state

Transition(j, m, s) ==
  IF CasHits(j, m)
  THEN [j EXCEPT ![m.req] = [m EXCEPT !.state = s, !.updated = now, !.seq = j[m.req].seq]]
  ELSE j

OwnerAlive(m) == proc[InstHome[m.inst]] # "dead"

\* Mutant: recovery requeues an interrupted dispatch.
MaintainedStateReplay(m) ==
  IF ~OwnerAlive(m) THEN "queued"
  ELSE IF m.state = "queued" /\ m.expires <= now THEN "expired" ELSE m.state

\* maintain: what becomes of one row.
MaintainedState(m) ==
  IF ~OwnerAlive(m)
  THEN IF m.state = "dispatching" THEN "delivery_unknown" ELSE "cancelled"
  ELSE IF m.state = "queued" /\ m.expires <= now THEN "expired" ELSE m.state

\* Mutant: settled receipts are not retained.
MaintainedRowForgets(m) ==
  IF m = NoRow THEN NoRow
  ELSE IF m.state \in PendingStates
       THEN IF MaintainedState(m) = m.state THEN m
            ELSE [m EXCEPT !.state = MaintainedState(m), !.updated = now]
       ELSE NoRow

MaintainedRow(m) ==
  IF m = NoRow THEN NoRow
  ELSE IF m.state \in PendingStates
       THEN IF MaintainedState(m) = m.state THEN m
            ELSE [m EXCEPT !.state = MaintainedState(m), !.updated = now]
       ELSE IF m.updated + Retention < now THEN NoRow ELSE m

Maintained == [r \in Requests |-> MaintainedRow(journal[r])]

OwnPending(j, i) == {r \in Requests : PendingIn(j, r) /\ j[r].inst = i}

TargetPending(j, i, op) == {r \in OwnPending(j, i) : SameTarget(j[r], op)}

\* Mutant: any sender may join a target's queue.
InsertableAnySender(op, i) ==
  /\ ~Present(op.req)
  /\ Cardinality(OwnPending(journal, i)) < MaxPending
  /\ Cardinality(TargetPending(journal, i, op)) < MaxPerTarget
  /\ op.queue \/ TargetPending(journal, i, op) = {}
  /\ Cardinality({r \in Requests : Present(r)}) < MaxReceipts

\* insert_inner: the checks of the insert transaction, in order.
Insertable(op, i) ==
  /\ ~Present(op.req)
  /\ Cardinality(OwnPending(journal, i)) < MaxPending
  /\ Cardinality(TargetPending(journal, i, op)) < MaxPerTarget
  /\ \A r \in TargetPending(journal, i, op) : journal[r].sender = op.sender
  /\ op.queue \/ TargetPending(journal, i, op) = {}
  /\ Cardinality({r \in Requests : Present(r)}) < MaxReceipts

NewRow(op, i) ==
  [req |-> op.req, term |-> op.term, conv |-> op.conv, sender |-> op.sender, queue |-> op.queue,
   guard |-> op.guard, seq |-> nextSeq, inst |-> i, state |-> "queued",
   created |-> now, updated |-> now, expires |-> now + Expiry]

-----------------------------------------------------------------------------
(* The terminal view *)

\* local_control_agent_readiness: the first reason that blocks a submission.
\* blocked stands for Blocked and for a rate-limited turn, which every caller
\* treats alike; unacked for keystrokes that have not settled.
Reason(s) ==
  IF s.phase = "deferred" THEN "not_started"
  ELSE IF s.phase = "starting" THEN "starting"
  ELSE IF s.status = "unknown" THEN "status_unavailable"
  ELSE IF s.pending THEN "submission_pending"
  ELSE IF s.phase = "down" THEN "agent_not_writable"
  ELSE IF s.status = "blocked" THEN "interactive_attention_required"
  ELSE IF s.composer # "empty" \/ s.unacked THEN "human_input_or_draft"
  ELSE IF s.status = "working" THEN "working"
  ELSE IF s.writer THEN "remote_writer" ELSE "none"

Revision(s) ==
  [conv |-> s.conv, status |-> s.status, epoch |-> s.epoch, reason |-> Reason(s)]

WaitReasons == {"working", "not_started", "starting", "human_input_or_draft",
                "status_unavailable", "submission_pending", "interactive_attention_required"}

LazyReasons == {"not_started", "starting"}

\* start_deferred_agent: the restore queue keeps the tabs it manages.
Started(t) ==
  IF term[t].phase = "deferred" /\ t \notin Managed
  THEN [term[t] EXCEPT !.phase = "starting"] ELSE term[t]

\* check_bridge and agents::resolve: an agent ID names one conversation of one
\* terminal of the current instance.
Resolves(i, m) ==
  /\ proc[InstHome[i]] = "up" /\ bridge[InstHome[i]] = i
  /\ TermHome[m.term] = InstHome[i] /\ term[m.term].open /\ term[m.term].conv = m.conv

\* Mutant: the guard compares the foreground block only.
GuardHoldsBlockOnly(m, s) == m.guard.lazy \/ m.guard.block = s.block

GuardHolds(m, s) == m.guard.lazy \/ (m.guard.uepoch = s.uepoch /\ m.guard.block = s.block)

\* probe: the decision for message m of instance i.
Verdict(i, m) ==
  IF ~Resolves(i, m) THEN "cancel"
  ELSE LET s == Started(m.term)
           reason == Reason(s)
       IN  IF ~GuardHolds(m, s) THEN "cancel"
           ELSE IF reason = "none" THEN "ready"
           ELSE IF m.queue /\ reason \in WaitReasons THEN "wait" ELSE "cancel"

\* The side effect of a hop that resolved its target.
StartTarget(i, m) ==
  term' = IF Resolves(i, m) THEN [term EXCEPT ![m.term] = Started(m.term)] ELSE term

-----------------------------------------------------------------------------
(* The worker thread *)

Alive(i) == proc[InstHome[i]] # "dead"

\* A request starts the thread of the current instance.
Reachable(i) ==
  /\ Alive(i)
  /\ worker[i].pc = "idle" \/ (worker[i].pc = "off" /\ bridge[InstHome[i]] = i)

\* Mutant: the newest message of a target goes first.
HeadsNewest(j, i) ==
  {j[r] : r \in {h \in OwnPending(j, i) :
                   \A o \in OwnPending(j, i) : SameTarget(j[o], j[h]) =>
                     j[o].state = "queued" /\ j[h].seq >= j[o].seq}}

\* dispatch_pending looks at the oldest pending message of each target only.
Heads(j, i) ==
  {j[r] : r \in {h \in OwnPending(j, i) :
                   /\ j[h].state = "queued"
                   /\ \A o \in OwnPending(j, i) : SameTarget(j[o], j[h]) => j[h].seq <= j[o].seq}}

\* Start dispatch_pending on journal j; again: run_worker repeats it after a send.
Pass(j, i, again) ==
  IF Heads(j, i) = {} THEN Resting("idle")
  ELSE [Resting("probe") EXCEPT !.todo = Heads(j, i), !.again = again, !.since = now]

\* The loop goes through its messages by sequence.
First(i, m) == m \in worker[i].todo /\ \A o \in worker[i].todo : m.seq <= o.seq

\* Continue dispatch_pending after the message at hand, on journal j.
Advance(j, i, m) ==
  LET rest == worker[i].todo \ {m}
  IN  IF rest # {} THEN [Resting("probe") EXCEPT !.todo = rest, !.again = worker[i].again,
                                                !.since = worker[i].since]
      ELSE IF worker[i].again THEN Pass(j, i, FALSE) ELSE Resting("idle")

\* An error ends dispatch_pending; run_worker still makes its own call.
Abort(i) == IF worker[i].again THEN Pass(journal, i, FALSE) ELSE Resting("idle")

GoTo(i, w) == worker' = [worker EXCEPT ![i] = w]

AtPc(i, pc) == Alive(i) /\ worker[i].pc = pc

\* The 250 ms tick, or an inspect or list request.
Poll(i) ==
  /\ Reachable(i)
  /\ journal' = Maintained
  /\ GoTo(i, Pass(Maintained, i, FALSE))
  /\ UNCHANGED <<nextSeq, now, proc, bridge, shut, finished, ui, faults>>

TakeCancel(i, r) ==
  /\ Reachable(i)
  /\ LET j == IF PendingIn(Maintained, r) /\ Maintained[r].state = "queued"
              THEN Transition(Maintained, Maintained[r], "cancelled") ELSE Maintained
     IN  journal' = j /\ GoTo(i, Pass(j, i, FALSE))
  /\ UNCHANGED <<nextSeq, now, proc, bridge, shut, finished, ui, faults>>

\* A send whose request ID is already in the journal returns the saved receipt,
\* or an error for other content; only a new one goes on to the admission hop.
TakeSend(i, op) ==
  /\ Reachable(i)
  /\ journal' = Maintained
  /\ GoTo(i, IF Maintained[op.req] # NoRow THEN Pass(Maintained, i, FALSE)
             ELSE [Resting("admit") EXCEPT !.op = op])
  /\ UNCHANGED <<nextSeq, now, proc, bridge, shut, finished, ui, faults>>

\* The admission hop accepts: the agent is ready, or queueing may wait for it,
\* and the caller's revision is the current one.
Admit(i) ==
  /\ AtPc(i, "admit")
  /\ LET op == worker[i].op
         s == term[op.term]
         reason == Reason(s)
         lazy == reason \in LazyReasons
     IN  /\ Resolves(i, op)
         /\ \/ reason = "none"
            \/ op.queue /\ (lazy \/ reason \in {"working", "status_unavailable"})
         /\ StartTarget(i, op)
         /\ GoTo(i, [worker[i] EXCEPT !.pc = "insert",
                       !.op.guard = [lazy |-> lazy, uepoch |-> s.uepoch, block |-> s.block,
                                     mark |-> Len(pty[op.term])]])
  /\ UNCHANGED <<journal, nextSeq, now, proc, bridge, shut, finished, flight, pty, faults>>

\* The admission hop refuses: target gone, a blocking reason, or a revision that
\* is no longer current.  A deferred agent is started all the same.
AdmitRefused(i) ==
  /\ AtPc(i, "admit")
  /\ StartTarget(i, worker[i].op)
  /\ GoTo(i, Pass(journal, i, FALSE))
  /\ UNCHANGED <<journal, nextSeq, now, proc, bridge, shut, finished, flight, pty, faults>>

\* BOUND: a message that would outlive MaxTime counts as refused.
Insert(i) ==
  /\ AtPc(i, "insert")
  /\ LET op == worker[i].op
         ok == Insertable(op, i) /\ now + Expiry <= MaxTime
         j == IF ok THEN [journal EXCEPT ![op.req] = NewRow(op, i)] ELSE journal
     IN  /\ journal' = j
         /\ nextSeq' = IF ok THEN nextSeq + 1 ELSE nextSeq
         /\ GoTo(i, Pass(j, i, ok))
  /\ UNCHANGED <<now, proc, bridge, shut, finished, ui, faults>>

\* First hop of dispatch_pending for the message at hand.
ProbeStep(i, m) ==
  /\ AtPc(i, "probe") /\ First(i, m)
  /\ LET j == Transition(journal, m, "expired")
         s == Started(m.term)
         v == Verdict(i, m)
     IN  \/ /\ m.expires <= now
            /\ journal' = j /\ GoTo(i, Advance(j, i, m)) /\ UNCHANGED term
         \/ /\ m.expires > now /\ UNCHANGED journal
            /\ StartTarget(i, m)
            /\ GoTo(i, CASE v = "ready" -> [worker[i] EXCEPT !.pc = "claim",
                                              !.rev = Revision(s)]
                         [] v = "wait" -> Advance(journal, i, m)
                         [] v = "cancel" -> [worker[i] EXCEPT !.pc = "refuse"])
  /\ UNCHANGED <<nextSeq, now, proc, bridge, shut, finished, flight, pty, faults>>

RefuseStep(i, m) ==
  /\ AtPc(i, "refuse") /\ First(i, m)
  /\ LET j == Transition(journal, m, "cancelled")
     IN  journal' = j /\ GoTo(i, Advance(j, i, m))
  /\ UNCHANGED <<nextSeq, now, proc, bridge, shut, finished, ui, faults>>

\* Mutant: the claim is not written to the journal.
ClaimStepNotDurable(i, m) ==
  /\ AtPc(i, "claim") /\ First(i, m)
  /\ GoTo(i, [worker[i] EXCEPT !.pc = "send"])
  /\ UNCHANGED <<journal, nextSeq, now, proc, bridge, shut, finished, ui, faults>>

\* The durable claim; a message cancelled or expired meanwhile is skipped.
ClaimStep(i, m) ==
  /\ AtPc(i, "claim") /\ First(i, m)
  /\ journal' = Transition(journal, m, "dispatching")
  /\ GoTo(i, IF CasHits(journal, m) THEN [worker[i] EXCEPT !.pc = "send"]
             ELSE Advance(journal, i, m))
  /\ UNCHANGED <<nextSeq, now, proc, bridge, shut, finished, ui, faults>>

TextEvent(m) ==
  [kind |-> "text", seq |-> m.seq, req |-> m.req, at |-> now, lazy |-> m.guard.lazy,
   mark |-> m.guard.mark]

\* The second hop finds the target still ready at the probed revision.
CanSend(i, m) ==
  /\ Verdict(i, m) = "ready"
  /\ Revision(term[m.term]) = worker[i].rev

\* Second hop: insert the text and leave Enter to a timer, or return false, or
\* find the UI models dropped.
SendStep(i, m) ==
  /\ AtPc(i, "send") /\ First(i, m)
  /\ LET t == m.term
     IN  \/ /\ CanSend(i, m)
            /\ flight' = [flight EXCEPT ![t] = @ \cup
                 {[req |-> m.req, seq |-> m.seq, inst |-> i, conv |-> term[t].conv,
                   epoch |-> term[t].epoch, block |-> term[t].block]}]
            /\ term' = [term EXCEPT ![t].pending = TRUE]
            /\ pty' = [pty EXCEPT ![t] = Append(@, TextEvent(m))]
            /\ GoTo(i, Advance(journal, i, m))
         \/ /\ ~CanSend(i, m) /\ proc[InstHome[i]] = "up"
            /\ StartTarget(i, m)
            /\ GoTo(i, [worker[i] EXCEPT !.pc = "fail"])
            /\ UNCHANGED <<flight, pty>>
         \/ /\ proc[InstHome[i]] = "quitting"
            /\ GoTo(i, [worker[i] EXCEPT !.pc = "lose"])
            /\ UNCHANGED ui
  /\ UNCHANGED <<journal, nextSeq, now, proc, bridge, shut, finished, faults>>

\* Record that nothing was inserted (fail) or that nobody knows (lose), from
\* whatever state the row has by now.
SettleStep(i, m) ==
  /\ worker[i].pc \in {"fail", "lose"} /\ Alive(i) /\ First(i, m)
  /\ LET row == journal[m.req]
         s == IF worker[i].pc = "fail" THEN "failed" ELSE "delivery_unknown"
         j == IF row = NoRow THEN journal ELSE Transition(journal, row, s)
     IN  /\ journal' = j
         /\ GoTo(i, IF row = NoRow THEN Abort(i) ELSE Advance(j, i, m))
  /\ UNCHANGED <<nextSeq, now, proc, bridge, shut, finished, ui, faults>>

\* Mutant: the completion is taken as a success.
TakeFinishedTrusting(i, f) ==
  /\ AtPc(i, "idle") /\ f \in finished[i]
  /\ finished' = [finished EXCEPT ![i] = @ \ {f}]
  /\ LET row == Maintained[f.req]
         j == IF row # NoRow /\ row.state = "dispatching"
              THEN Transition(Maintained, row, "submitted") ELSE Maintained
     IN  journal' = j /\ GoTo(i, Pass(j, i, FALSE))
  /\ UNCHANGED <<nextSeq, now, proc, bridge, shut, ui, faults>>

\* Mutant: only a successful completion is recorded.
TakeFinishedSuccessOnly(i, f) ==
  /\ AtPc(i, "idle") /\ f \in finished[i]
  /\ finished' = [finished EXCEPT ![i] = @ \ {f}]
  /\ LET row == Maintained[f.req]
         j == IF row # NoRow /\ row.state = "dispatching" /\ f.ok
              THEN Transition(Maintained, row, "submitted") ELSE Maintained
     IN  journal' = j /\ GoTo(i, Pass(j, i, FALSE))
  /\ UNCHANGED <<nextSeq, now, proc, bridge, shut, ui, faults>>

\* Finished(id, submitted) closes a message that is still dispatching.
TakeFinished(i, f) ==
  /\ AtPc(i, "idle") /\ f \in finished[i]
  /\ finished' = [finished EXCEPT ![i] = @ \ {f}]
  /\ LET row == Maintained[f.req]
         j == IF row # NoRow /\ row.state = "dispatching"
              THEN Transition(Maintained, row, IF f.ok THEN "submitted" ELSE "delivery_unknown")
              ELSE Maintained
     IN  journal' = j /\ GoTo(i, Pass(j, i, FALSE))
  /\ UNCHANGED <<nextSeq, now, proc, bridge, shut, ui, faults>>

\* Shutdown: the worker leaves nothing runnable behind and ends.
Abandoned(i) ==
  [r \in Requests |->
     IF r \in OwnPending(journal, i)
     THEN [journal[r] EXCEPT !.state = IF @ = "dispatching" THEN "delivery_unknown" ELSE "cancelled",
                             !.updated = now]
     ELSE journal[r]]

TakeShutdown(i) ==
  /\ AtPc(i, "idle") /\ i \in shut
  /\ journal' = Abandoned(i)
  /\ GoTo(i, Resting("stopped"))
  /\ finished' = [finished EXCEPT ![i] = {}]
  /\ UNCHANGED <<nextSeq, now, proc, bridge, shut, ui, faults>>

-----------------------------------------------------------------------------
(* Storage errors: the step's journal statement fails and has no effect. *)

Faulty == faults < MaxFaults /\ faults' = faults + 1

\* Inside handle or dispatch_pending an error abandons the pass.
JournalError(i) ==
  /\ Faulty /\ Alive(i)
  /\ worker[i].pc \in {"insert", "probe", "refuse", "claim", "fail", "lose"}
  /\ GoTo(i, IF worker[i].pc = "insert" THEN Pass(journal, i, FALSE) ELSE Abort(i))
  /\ UNCHANGED <<journal, nextSeq, now, proc, bridge, shut, finished, ui>>

\* A completion that cannot be persisted is only logged.
FinishedError(i, f) ==
  /\ Faulty /\ AtPc(i, "idle") /\ f \in finished[i]
  /\ finished' = [finished EXCEPT ![i] = @ \ {f}]
  /\ journal' = Maintained
  /\ GoTo(i, Pass(Maintained, i, FALSE))
  /\ UNCHANGED <<nextSeq, now, proc, bridge, shut, ui>>

ShutdownError(i) ==
  /\ Faulty /\ AtPc(i, "idle") /\ i \in shut
  /\ GoTo(i, Resting("stopped"))
  /\ finished' = [finished EXCEPT ![i] = {}]
  /\ UNCHANGED <<journal, nextSeq, now, proc, bridge, shut, ui>>

-----------------------------------------------------------------------------
(* The UI thread and the world around it *)

UiUp(t) == proc[TermHome[t]] = "up" /\ term[t].open

\* A completion reaches the worker that dispatched the message, if it still runs.
Completed(done, ok) ==
  finished' = [i \in Instances |->
    IF worker[i].pc = "stopped" THEN finished[i]
    ELSE finished[i] \cup {[req |-> f.req, ok |-> ok] : f \in {g \in done : g.inst = i}}]

\* Mutant: input typed after the insertion is not noticed.
EnterValidNoEpoch(t, f) ==
  LET s == term[t]
  IN  /\ s.conv = f.conv /\ s.block = f.block
      /\ bridge[TermHome[t]] # NoInst /\ ~s.writer
      /\ s.phase = "up" /\ s.status \notin {"working", "blocked"}

\* The rechecks before Enter.  The setting is on exactly while a bridge runs.
EnterValid(t, f) ==
  LET s == term[t]
  IN  /\ s.epoch = f.epoch /\ s.conv = f.conv /\ s.block = f.block
      /\ bridge[TermHome[t]] # NoInst /\ ~s.writer
      /\ s.phase = "up" /\ s.status \notin {"working", "blocked"}

\* The timer of local_control_send_agent_text.  Text without Enter stays in the
\* composer; until then the screen need not show it yet.
EnterFires(t, f) ==
  /\ UiUp(t) /\ f \in flight[t]
  /\ LET ok == EnterValid(t, f)
     IN  /\ \E st \in IF ok THEN {term[t].status, "working"} ELSE {term[t].status} :
              term' = [term EXCEPT ![t].pending = FALSE, ![t].unacked = TRUE,
                                   ![t].epoch = @ + 1, ![t].status = st,
                                   ![t].composer = IF ok THEN "empty" ELSE "ours"]
         /\ pty' = IF ok THEN [pty EXCEPT ![t] =
                                 Append(@, [kind |-> "enter", seq |-> f.seq, req |-> f.req, at |-> now,
                                            lazy |-> FALSE, mark |-> 0])]
                   ELSE pty
         /\ Completed({f}, ok)
  /\ flight' = [flight EXCEPT ![t] = @ \ {f}]
  /\ UNCHANGED <<journal, nextSeq, now, proc, bridge, worker, shut, faults>>

OnlyTerm == UNCHANGED <<journal, nextSeq, now, proc, bridge, worker, shut, finished, flight, faults>>

Typed(kind) == [kind |-> kind, seq |-> 0, req |-> NoOp, at |-> now, lazy |-> FALSE, mark |-> 0]

\* write_user_bytes_to_pty: this pane's own keystrokes and mouse reports, and a
\* remote viewer's bytes.
HumanInput(t) ==
  /\ UiUp(t) /\ term[t].uepoch < MaxHuman
  /\ \E c \in {"empty", "human"} :
       term' = [term EXCEPT ![t].uepoch = @ + 1, ![t].epoch = @ + 1, ![t].unacked = TRUE,
                            ![t].composer = c]
  /\ pty' = [pty EXCEPT ![t] = Append(@, Typed("human"))]
  /\ OnlyTerm

PlainIn(t) == {k \in DOMAIN pty[t] : pty[t][k].kind = "plain"}

\* A user's input that takes the plain write_to_pty: what is typed in another pane
\* of the synchronized ones, and text routed to the agent.  No epoch moves.
PlainInput(t) ==
  /\ UiUp(t) /\ term[t].phase = "up" /\ Cardinality(PlainIn(t)) < MaxPlain
  /\ \E c \in {"empty", "human"} : term' = [term EXCEPT ![t].composer = c]
  /\ pty' = [pty EXCEPT ![t] = Append(@, Typed("plain"))]
  /\ OnlyTerm

\* local_control_interrupt_agent: Escape to the working turn.
Interrupt(t) ==
  /\ UiUp(t) /\ term[t].uepoch < MaxHuman
  /\ Reason(term[t]) = "working" /\ ~term[t].writer
  /\ term' = [term EXCEPT ![t].uepoch = @ + 1, ![t].epoch = @ + 1, ![t].status = "idle"]
  /\ pty' = [pty EXCEPT ![t] = Append(@, Typed("human"))]
  /\ OnlyTerm

SetTerm(t, s) == term' = [term EXCEPT ![t] = s] /\ UNCHANGED pty /\ OnlyTerm

\* A prompt-submit or session-start hook acknowledges what was typed or submitted.
\* BOUND: one that would only advance an epoch nobody compares is left out.
PromptAck(t) ==
  /\ UiUp(t)
  /\ term[t].unacked \/ \E f \in flight[t] : f.epoch = term[t].epoch
  /\ \E st \in {term[t].status, "working"} :
       SetTerm(t, [term[t] EXCEPT !.unacked = FALSE, !.epoch = @ + 1, !.status = st])

\* Five quiet seconds and a composer seen empty.
InputSettles(t) ==
  /\ UiUp(t) /\ term[t].unacked /\ term[t].composer = "empty"
  /\ SetTerm(t, [term[t] EXCEPT !.unacked = FALSE])

\* The provider reports or shows another status.
StatusChange(t, st) ==
  /\ UiUp(t) /\ term[t].phase = "up" /\ term[t].status # st
  /\ SetTerm(t, [term[t] EXCEPT !.status = st])

\* The conversation ends or another one takes the terminal.
ReplaceSession(t) ==
  /\ UiUp(t) /\ term[t].phase = "up" /\ term[t].conv < MaxConv
  /\ SetTerm(t, [term[t] EXCEPT !.conv = @ + 1, !.block = @ + 1, !.status = "idle",
                                !.composer = "empty"])

\* The tab is shown, or the restore queue gets to it.
ReleaseDeferred(t) ==
  /\ UiUp(t) /\ term[t].phase = "deferred"
  /\ SetTerm(t, [term[t] EXCEPT !.phase = "starting"])

\* The launched agent owns the terminal, or the start grace passes without it.
Launch(t) ==
  /\ UiUp(t) /\ term[t].phase = "starting"
  /\ \/ SetTerm(t, [term[t] EXCEPT !.phase = "up", !.block = @ + 1])
     \/ SetTerm(t, [term[t] EXCEPT !.phase = "down"])

\* A remote device acquires or releases the writer lease.
ToggleWriter(t) == UiUp(t) /\ SetTerm(t, [term[t] EXCEPT !.writer = ~@])

\* A closed pane drops its timer; dropping the completion reports false.
ClosePane(t) ==
  /\ UiUp(t)
  /\ term' = [term EXCEPT ![t].open = FALSE]
  /\ flight' = [flight EXCEPT ![t] = {}]
  /\ Completed(flight[t], FALSE)
  /\ UNCHANGED <<journal, nextSeq, now, proc, bridge, worker, shut, pty, faults>>

\* Local control is switched off: the bridge forgets its instance and drops the
\* delivery service, whose worker still has to reach its Shutdown command.
StopControl(p) ==
  /\ proc[p] = "up" /\ bridge[p] # NoInst
  /\ shut' = shut \cup {bridge[p]}
  /\ bridge' = [bridge EXCEPT ![p] = NoInst]
  /\ UNCHANGED <<journal, nextSeq, now, proc, worker, finished, ui, faults>>

StartControl(p, i) ==
  /\ proc[p] = "up" /\ bridge[p] = NoInst /\ InstHome[i] = p /\ i \notin shut
  /\ bridge' = [bridge EXCEPT ![p] = i]
  /\ UNCHANGED <<journal, nextSeq, now, proc, worker, shut, finished, ui, faults>>

\* The app quits: UI models are dropped (so hops fail) before the threads end.
Quit(p) ==
  /\ proc[p] = "up"
  /\ proc' = [proc EXCEPT ![p] = "quitting"]
  /\ shut' = shut \cup ({bridge[p]} \ {NoInst})
  /\ flight' = [t \in Terms |-> IF TermHome[t] = p THEN {} ELSE flight[t]]
  /\ Completed(UNION {flight[t] : t \in {u \in Terms : TermHome[u] = p}}, FALSE)
  /\ UNCHANGED <<journal, nextSeq, now, bridge, worker, term, pty, faults>>

\* The process ends, at any point.
Crash(p) ==
  /\ proc[p] # "dead"
  /\ proc' = [proc EXCEPT ![p] = "dead"]
  /\ UNCHANGED <<journal, nextSeq, now, bridge, worker, shut, finished, ui, faults>>

\* A dispatch pass takes less than the retention of the journal (seven days).
PassesAreShort ==
  \A i \in Instances : Alive(i) /\ worker[i].todo # {} => now < worker[i].since + Retention

Clock ==
  /\ now < MaxTime /\ PassesAreShort
  /\ now' = now + 1
  /\ UNCHANGED <<journal, nextSeq, proc, bridge, worker, shut, finished, ui, faults>>

-----------------------------------------------------------------------------

Init ==
  /\ journal = [r \in Requests |-> NoRow]
  /\ nextSeq = 1
  /\ now = 0
  /\ proc = [p \in Procs |-> "up"]
  /\ bridge = [p \in Procs |-> NoInst]
  /\ worker = [i \in Instances |-> Resting("off")]
  /\ shut = {}
  /\ finished = [i \in Instances |-> {}]
  /\ term = [t \in Terms |->
       [open |-> TRUE, phase |-> IF t \in Deferred THEN "deferred" ELSE "up", conv |-> 0,
        block |-> 0, status |-> "idle", uepoch |-> 0, epoch |-> 0, unacked |-> FALSE,
        composer |-> "empty", writer |-> FALSE, pending |-> FALSE]]
  /\ flight = [t \in Terms |-> {}]
  /\ pty = [t \in Terms |-> <<>>]
  /\ faults = 0

NoGuard == [lazy |-> FALSE, uepoch |-> 0, block |-> 0, mark |-> 0]

\* What a caller may ask for, addressing the conversation an agent list shows.
Sends == {[req |-> r, term |-> t, conv |-> term[t].conv, sender |-> s, queue |-> q, guard |-> NoGuard] :
            r \in Requests, t \in Terms, s \in Senders, q \in BOOLEAN}

WorkerStep(i) ==
  \/ Poll(i)
  \/ \E r \in Requests : TakeCancel(i, r)
  \/ \E op \in Sends : TakeSend(i, op)
  \/ Admit(i) \/ AdmitRefused(i) \/ Insert(i)
  \/ \E m \in worker[i].todo :
       ProbeStep(i, m) \/ RefuseStep(i, m) \/ ClaimStep(i, m) \/ SendStep(i, m) \/ SettleStep(i, m)
  \/ \E f \in finished[i] : TakeFinished(i, f)
  \/ TakeShutdown(i)

FaultStep(i) ==
  \/ JournalError(i)
  \/ \E f \in finished[i] : FinishedError(i, f)
  \/ ShutdownError(i)

TermStep(t) ==
  \/ (\E f \in flight[t] : EnterFires(t, f)) \/ HumanInput(t) \/ PlainInput(t) \/ Interrupt(t)
  \/ PromptAck(t) \/ InputSettles(t)
  \/ (\E st \in Status : StatusChange(t, st)) \/ ReplaceSession(t) \/ ReleaseDeferred(t) \/ Launch(t)
  \/ ToggleWriter(t) \/ ClosePane(t)

ProcStep(p) ==
  \/ StopControl(p) \/ (\E i \in Instances : StartControl(p, i)) \/ Quit(p) \/ Crash(p)

Next ==
  \/ \E i \in Instances : WorkerStep(i) \/ FaultStep(i)
  \/ \E t \in Terms : TermStep(t)
  \/ \E p \in Procs : ProcStep(p)
  \/ Clock

Spec == Init /\ [][Next]_vars

-----------------------------------------------------------------------------
(* Properties *)

IsText(t, k) == pty[t][k].kind = "text"

IsEnter(t, k) == pty[t][k].kind = "enter"

\* The text (the Enter) of the row with this sequence number reached a terminal.
Wrote(seq) == \E t \in Terms : \E k \in DOMAIN pty[t] : IsText(t, k) /\ pty[t][k].seq = seq

Entered(seq) == \E t \in Terms : \E k \in DOMAIN pty[t] : IsEnter(t, k) /\ pty[t][k].seq = seq

Completions == [req : Requests, ok : BOOLEAN]

\* Every variable has its type.
TypeOK ==
  /\ journal \in [Requests -> Row \cup {NoRow}]
  /\ nextSeq \in Nat /\ now \in Nat /\ faults \in Nat
  /\ proc \in [Procs -> {"up", "quitting", "dead"}]
  /\ bridge \in [Procs -> Instances \cup {NoInst}]
  /\ worker \in [Instances -> Workers]
  /\ \A i \in Instances : worker[i].pc \in {"admit", "insert"} => worker[i].op \in Ops
  /\ shut \in SUBSET Instances
  /\ finished \in [Instances -> SUBSET Completions]
  /\ term \in [Terms -> Terminal]
  /\ flight \in [Terms -> SUBSET Flights]
  /\ pty \in [Terms -> Seq(Events)]

\* No receipt lies: one that says queued, cancelled, expired or failed belongs to
\* a message of which no byte was written, one that says submitted to a message
\* whose Enter was written.  (claim before the PTY write, "an explicit false means
\* no insertion was initiated", Finished only after the timer.)
ReceiptHonest ==
  \A r \in Requests : Present(r) =>
    /\ journal[r].state \in {"queued", "cancelled", "expired", "failed"} => ~Wrote(journal[r].seq)
    /\ journal[r].state = "submitted" => Entered(journal[r].seq)

\* A row's text and its Enter reach a terminal at most once, whatever crashes,
\* restarts, retries, late completions and storage errors intervene.
WrittenOnce ==
  \A t, u \in Terms : \A k \in DOMAIN pty[t], l \in DOMAIN pty[u] :
    /\ pty[t][k].kind = pty[u][l].kind /\ (IsText(t, k) \/ IsEnter(t, k))
    /\ pty[t][k].seq = pty[u][l].seq
    => t = u /\ k = l

\* The same request ID is written twice only when its first receipt outlived the
\* retention of the journal (an exact retry inside it returns the saved receipt).
ReplayOnlyAfterRetention ==
  \A t, u \in Terms : \A k \in DOMAIN pty[t], l \in DOMAIN pty[u] :
    IsText(t, k) /\ IsText(u, l) /\ pty[t][k].req = pty[u][l].req /\ pty[t][k].seq < pty[u][l].seq
    => pty[t][k].at + Retention < pty[u][l].at

\* From position j on, only input that moves no epoch was written to t.
PlainAfter(t, j) == \A n \in DOMAIN pty[t] : j < n => pty[t][n].kind = "plain"

\* Enter submits the message whose text was inserted before it, and no second one with
\* it: between a text and its Enter nothing automated and nothing that moves the input
\* epoch was written to that terminal.  (The rechecks before Enter.)
SubmittedAlone ==
  \A t \in Terms : \A k \in DOMAIN pty[t] : IsEnter(t, k) =>
    \E j \in DOMAIN pty[t] :
      /\ j < k /\ IsText(t, j) /\ pty[t][j].seq = pty[t][k].seq
      /\ \A n \in DOMAIN pty[t] : j < n /\ n < k => pty[t][n].kind = "plain"

\* As the product text states it: a human draft is never combined with an automated
\* prompt, so between a text and its Enter nothing at all is written.
DraftsNotCombined ==
  \A t \in Terms : \A j, k, n \in DOMAIN pty[t] :
    /\ IsText(t, j) /\ IsEnter(t, k) /\ pty[t][j].seq = pty[t][k].seq
    /\ pty[t][n].kind \in {"human", "plain"}
    => n < j \/ k < n

\* Messages reach a terminal in the order in which the journal accepted them.
TargetFIFO ==
  \A t \in Terms : \A k, l \in DOMAIN pty[t] :
    IsText(t, k) /\ IsText(t, l) /\ k < l => pty[t][k].seq < pty[t][l].seq

\* Input that moves the epochs, once a message was admitted, comes after all that is ever
\* written of it: the message is cancelled, or its text stays without Enter.  A message
\* admitted while its agent was still to be started is held to that from its text on.
HumanPreempts ==
  \A t \in Terms : \A k, l, h \in DOMAIN pty[t] :
    /\ IsText(t, k) /\ (IsText(t, l) \/ IsEnter(t, l)) /\ pty[t][l].seq = pty[t][k].seq
    /\ pty[t][h].kind = "human"
    /\ (IF pty[t][k].lazy THEN k ELSE pty[t][k].mark) < h
    => l < h

\* As the documentation states it: human input cancels every message that waits,
\* whatever its agent was doing when it was admitted.
HumanInputCancelsPending ==
  \A t \in Terms : \A k, h \in DOMAIN pty[t] :
    IsText(t, k) /\ pty[t][h].kind = "human" /\ pty[t][k].mark < h => k < h

\* The pending messages of a target have one sender, stay within the limit, and
\* at most one of them is claimed.
OneQueuePerTarget ==
  \A i \in Instances : \A r \in OwnPending(journal, i) :
    LET q == TargetPending(journal, i, journal[r])
    IN  /\ Cardinality(q) <= MaxPerTarget
        /\ \A o \in q : journal[o].sender = journal[r].sender
        /\ Cardinality({o \in q : journal[o].state = "dispatching"}) <= 1

\* Refinement: every request's receipt behaves as module Receipt promises.
ReceiptView ==
  [r \in Requests |->
     IF Present(r)
     THEN [state |-> journal[r].state, text |-> Wrote(journal[r].seq),
           entered |-> Entered(journal[r].seq)]
     ELSE [state |-> "none", text |-> FALSE, entered |-> FALSE]]

R == INSTANCE Receipt WITH receipt <- ReceiptView

ReceiptPromise == R!Spec

-----------------------------------------------------------------------------
(* The inductive invariant behind ReceiptHonest and WrittenOnce *)

\* Request IDs and sequence numbers identify rows; no row is from the future.
JournalSound ==
  /\ nextSeq > 0
  /\ \A r \in Requests : Present(r) =>
       /\ journal[r].req = r /\ journal[r].seq < nextSeq /\ journal[r].updated <= now
       /\ \A q \in Requests : Present(q) /\ journal[q].seq = journal[r].seq => q = r

\* History mentions only sequence numbers that were handed out; Enter follows a text.
HistorySound ==
  \A t \in Terms : \A k \in DOMAIN pty[t] :
    /\ pty[t][k].seq < nextSeq
    /\ IsEnter(t, k) => Wrote(pty[t][k].seq)

Holding == {"send", "fail", "lose"}

\* What no transition rewrites.
SameMessage(a, b) ==
  /\ a.req = b.req /\ a.seq = b.seq /\ a.inst = b.inst /\ SameTarget(a, b)
  /\ a.sender = b.sender /\ a.guard = b.guard

\* A live worker's copies are copies of its own rows, which are still there; the
\* row it claimed is dispatching and unwritten.
SnapshotsSound ==
  \A i \in Instances : Alive(i) =>
    \A m \in worker[i].todo :
      /\ worker[i].since <= now /\ now <= worker[i].since + Retention
      /\ m.inst = i /\ m.state = "queued" /\ m.seq < nextSeq
      /\ Present(m.req) /\ SameMessage(journal[m.req], m)
      /\ journal[m.req].state \in SettledStates => worker[i].since <= journal[m.req].updated
      /\ \A o \in worker[i].todo : o.req = m.req => o = m
      /\ worker[i].pc \in Holding /\ First(i, m) =>
           journal[m.req].state = "dispatching" /\ ~Wrote(m.seq)

\* A completion in a live worker's channel closes a claim that is still open.
CompletionsSound ==
  \A i \in Instances : Alive(i) =>
    /\ worker[i].pc = "stopped" => finished[i] = {}
    /\ \A c \in finished[i] :
         /\ Present(c.req) /\ journal[c.req].inst = i /\ journal[c.req].state = "dispatching"
         /\ Wrote(journal[c.req].seq)
         /\ c.ok => Entered(journal[c.req].seq)
         /\ \A d \in finished[i] : d.req = c.req => d = c

\* A timer belongs to one written, unsubmitted message whose claim is open.
FlightsSound ==
  \A t \in Terms : \A f \in flight[t] :
    /\ Wrote(f.seq) /\ ~Entered(f.seq)
    /\ InstHome[f.inst] = TermHome[t]
    /\ \A u \in Terms : \A g \in flight[u] : g.seq = f.seq => u = t /\ g = f
    /\ Alive(f.inst) /\ worker[f.inst].pc # "stopped" =>
         /\ Present(f.req) /\ journal[f.req].seq = f.seq /\ journal[f.req].inst = f.inst
         /\ journal[f.req].state = "dispatching"
         /\ \A c \in finished[f.inst] : c.req # f.req

IInv ==
  /\ TypeOK /\ JournalSound /\ HistorySound /\ SnapshotsSound /\ CompletionsSound
  /\ FlightsSound /\ ReceiptHonest /\ WrittenOnce

-----------------------------------------------------------------------------
(* The inductive invariants of the properties about order, each beside IInv *)

\* An instance serves its process once; before that it has no rows.
BridgesSound ==
  /\ \A p \in Procs : bridge[p] # NoInst => InstHome[bridge[p]] = p
  /\ \A i \in Instances :
       IF worker[i].pc = "off" THEN \A r \in Requests : Present(r) => journal[r].inst # i
       ELSE i \in shut \/ bridge[InstHome[i]] = i

\* A message addresses a conversation that its terminal has or had.
AddressesSound ==
  /\ \A r \in Requests : Present(r) => journal[r].conv <= term[journal[r].term].conv
  /\ \A i \in Instances :
       worker[i].pc \in {"admit", "insert"} => worker[i].op.conv <= term[worker[i].op.term].conv

\* No pending message of instance i is ahead of m in the queue of its target.
Oldest(i, m) == \A r \in OwnPending(journal, i) : SameTarget(journal[r], m) => m.seq <= journal[r].seq

\* Only the oldest message of a target is looked at or claimed.
QueuesSound ==
  \A i \in Instances :
    /\ \A r \in OwnPending(journal, i) : journal[r].state = "dispatching" => Oldest(i, journal[r])
    /\ Alive(i) => \A m \in worker[i].todo : Oldest(i, m)

\* What can still be written to a terminal is newer than all that was.
TextsOlder ==
  \A t \in Terms : \A k \in DOMAIN pty[t] : \A r \in Requests :
    /\ IsText(t, k) /\ Present(r) /\ journal[r].state \in PendingStates /\ ~Wrote(journal[r].seq)
    /\ journal[r].term = t /\ journal[r].conv = term[t].conv /\ journal[r].inst = bridge[TermHome[t]]
    => pty[t][k].seq < journal[r].seq

OrderInv == BridgesSound /\ AddressesSound /\ QueuesSound /\ TextsOlder /\ TargetFIFO

\* The journal is finite, whatever the request IDs are.
QueueInv == IsFiniteSet({r \in Requests : Present(r)}) /\ QueuesSound /\ OneQueuePerTarget

\* A terminal has one timer at a time; until its epoch moves, the text that the timer
\* will submit is there, with only plain input after it.
FlightsFresh ==
  \A t \in Terms : \A f \in flight[t] :
    /\ term[t].pending /\ f.epoch <= term[t].epoch
    /\ \A g \in flight[t] : g = f
    /\ f.epoch = term[t].epoch =>
         \E j \in DOMAIN pty[t] : IsText(t, j) /\ pty[t][j].seq = f.seq /\ PlainAfter(t, j)

AloneInv == FlightsFresh /\ SubmittedAlone

\* While a guard holds, no human input came after it was taken.
GuardSound(t, g) ==
  /\ g.uepoch <= term[t].uepoch
  /\ g.uepoch = term[t].uepoch => \A h \in DOMAIN pty[t] : pty[t][h].kind = "human" => h <= g.mark

\* Every message from its admission on carries such a guard.
GuardsSound ==
  /\ \A r \in Requests : Present(r) => GuardSound(journal[r].term, journal[r].guard)
  /\ \A i \in Instances :
       /\ worker[i].pc = "insert" => GuardSound(worker[i].op.term, worker[i].op.guard)
       /\ \A m \in worker[i].todo : GuardSound(m.term, m.guard)

PreemptInv == GuardsSound /\ HumanPreempts

\* A text outlives its receipt only by the retention.
TextsRetained ==
  \A t \in Terms : \A k \in DOMAIN pty[t] : IsText(t, k) =>
    LET e == pty[t][k] IN
    /\ e.req \in Requests /\ e.at <= now
    /\ Present(e.req) =>
         /\ e.seq <= journal[e.req].seq
         /\ e.seq = journal[e.req].seq /\ journal[e.req].state \in SettledStates => e.at <= journal[e.req].updated
         /\ e.seq # journal[e.req].seq => e.at + Retention < now
    /\ ~Present(e.req) => e.at + Retention < now

RetentionInv == TextsRetained /\ ReplayOnlyAfterRetention

-----------------------------------------------------------------------------
(* Liveness *)

Running(i) == Alive(i) /\ worker[i].pc \notin {"off", "stopped"}

\* A live worker thread keeps running; its channel is FIFO, so a completion or a
\* Shutdown command is taken after finitely many others; timers fire while the UI
\* thread runs; the clock advances.
Fairness ==
  /\ \A i \in Instances :
       /\ WF_vars(Running(i) /\ WorkerStep(i))
       /\ SF_vars(\E f \in finished[i] : TakeFinished(i, f))
       /\ SF_vars(TakeShutdown(i))
  /\ \A t \in Terms : WF_vars(\E f \in flight[t] : EnterFires(t, f))
  /\ WF_vars(Clock)

FairSpec == Spec /\ Fairness

\* While some delivery worker keeps running, no message stays pending: it is
\* submitted, refused, expired, or declared unknown, even if its own app died.
PendingResolves ==
  <>[](\E i \in Instances : Running(i))
  => \A r \in Requests : PendingIn(journal, r) ~> ~PendingIn(journal, r)
=============================================================================
