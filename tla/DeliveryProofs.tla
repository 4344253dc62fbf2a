--------------------------- MODULE DeliveryProofs ---------------------------
(***************************************************************************)
(* Proofs about Delivery, for every set of processes, instances,           *)
(* terminals, requests and senders and every value of the limits: the      *)
(* types of its state, then the promises of the journal: receipts are      *)
(* honest, nothing is written twice, the journal implements Receipt, and   *)
(* what that adds up to for queues and terminals.                          *)
(*                                                                         *)
(* For the promises a step of a worker is first reduced to what it does to *)
(* each row of the journal (RowMove); the invariants are shown from that.  *)
(***************************************************************************)
EXTENDS Delivery, FiniteSetTheorems, TLAPS

Journals == [Requests -> Row \cup {NoRow}]

States == PendingStates \cup SettledStates

-----------------------------------------------------------------------------
(* Types of the operators *)

\* Rewriting a row's state keeps it a row.
LEMMA RowUpdate ==
  ASSUME NEW m \in Row, NEW s \in States, NEW n \in Nat
  PROVE  [m EXCEPT !.state = s, !.updated = n] \in Row
BY DEF Row, States

LEMMA TransitionType ==
  ASSUME now \in Nat, NEW j \in Journals, NEW m \in Row, NEW s \in States
  PROVE  Transition(j, m, s) \in Journals
<1>1. CASE CasHits(j, m)
  <2>1. m.req \in Requests /\ j[m.req] \in Row
    BY <1>1, SentinelAssumption DEF CasHits, Journals, Row
  <2>2. j[m.req].seq \in Nat
    BY <2>1 DEF Row
  <2>3. [m EXCEPT !.state = s, !.updated = now, !.seq = j[m.req].seq] \in Row
    BY <2>2 DEF Row, States
  <2> QED BY <1>1, <2>1, <2>3 DEF Transition, Journals
<1>2. CASE ~CasHits(j, m)
  BY <1>2 DEF Transition
<1> QED BY <1>1, <1>2

LEMMA MaintainedType ==
  ASSUME TypeOK
  PROVE  Maintained \in Journals
<1> SUFFICES ASSUME NEW r \in Requests
             PROVE  MaintainedRow(journal[r]) \in Row \cup {NoRow}
  BY DEF Maintained, Journals
<1>1. CASE journal[r] = NoRow
  BY <1>1 DEF MaintainedRow
<1>2. CASE journal[r] # NoRow
  <2>1. journal[r] \in Row /\ now \in Nat
    BY <1>2 DEF TypeOK
  <2>2. MaintainedState(journal[r]) \in States
    BY <2>1 DEF MaintainedState, States, PendingStates, SettledStates, Row
  <2>3. [journal[r] EXCEPT !.state = MaintainedState(journal[r]), !.updated = now] \in Row
    BY <2>1, <2>2, RowUpdate
  <2> QED BY <1>2, <2>1, <2>3 DEF MaintainedRow
<1> QED BY <1>1, <1>2

LEMMA RestingType ==
  ASSUME NEW pc \in Pcs
  PROVE  Resting(pc) \in Workers
BY DEF Resting, Workers, NoRevision, Revisions, Status, Reasons

LEMMA HeadsType ==
  ASSUME NEW j \in Journals, NEW i \in Instances
  PROVE  Heads(j, i) \in SUBSET Row
BY DEF Heads, OwnPending, PendingIn, Journals

LEMMA PassType ==
  ASSUME now \in Nat, NEW j \in Journals, NEW i \in Instances, NEW again \in BOOLEAN
  PROVE  Pass(j, i, again) \in Workers
<1>1. Resting("idle") \in Workers /\ Resting("probe") \in Workers
  BY RestingType DEF Pcs
<1>2. Heads(j, i) \in SUBSET Row
  BY HeadsType
<1> QED BY <1>1, <1>2 DEF Pass, Workers

LEMMA AdvanceType ==
  ASSUME TypeOK, NEW j \in Journals, NEW i \in Instances, NEW m \in Row
  PROVE  Advance(j, i, m) \in Workers
<1>1. worker[i] \in Workers /\ now \in Nat
  BY DEF TypeOK
<1>2. Resting("idle") \in Workers /\ Resting("probe") \in Workers /\ Pass(j, i, FALSE) \in Workers
  BY <1>1, RestingType, PassType DEF Pcs
<1>3. worker[i].todo \ {m} \in SUBSET Row /\ worker[i].again \in BOOLEAN /\ worker[i].since \in Nat
  BY <1>1 DEF Workers
<1>4. [Resting("probe") EXCEPT !.todo = worker[i].todo \ {m}, !.again = worker[i].again,
                              !.since = worker[i].since] \in Workers
  BY <1>2, <1>3 DEF Workers
<1> QED BY <1>1, <1>2, <1>4 DEF Advance

LEMMA TerminalTypes ==
  ASSUME TypeOK, NEW t \in Terms
  PROVE  /\ Started(t) \in Terminal
         /\ Revision(Started(t)) \in Revisions
         /\ Revision(term[t]) \in Revisions
<1>1. term[t] \in Terminal
  BY DEF TypeOK
<1>2. Started(t) \in Terminal
  BY <1>1 DEF Started, Terminal
<1>3. ASSUME NEW s \in Terminal PROVE Reason(s) \in Reasons
  BY DEF Reason, Reasons
<1>4. ASSUME NEW s \in Terminal PROVE Revision(s) \in Revisions
  BY <1>3 DEF Revision, Revisions, Terminal
<1> QED BY <1>1, <1>2, <1>4

\* Every update of a terminal that an action performs keeps it well formed.
LEMMA TerminalUpdates ==
  ASSUME NEW s \in Terminal, NEW st \in Status, NEW c \in {"empty", "human", "ours"}
  PROVE  /\ [s EXCEPT !.pending = TRUE] \in Terminal
         /\ [s EXCEPT !.pending = FALSE, !.unacked = TRUE, !.epoch = @ + 1, !.status = st,
                      !.composer = c] \in Terminal
         /\ [s EXCEPT !.uepoch = @ + 1, !.epoch = @ + 1, !.unacked = TRUE, !.composer = c]
              \in Terminal
         /\ [s EXCEPT !.uepoch = @ + 1, !.epoch = @ + 1, !.status = st] \in Terminal
         /\ [s EXCEPT !.unacked = FALSE, !.epoch = @ + 1, !.status = st] \in Terminal
         /\ [s EXCEPT !.status = st] \in Terminal
         /\ [s EXCEPT !.conv = @ + 1, !.block = @ + 1, !.status = st, !.composer = c] \in Terminal
         /\ [s EXCEPT !.phase = "up", !.block = @ + 1] \in Terminal
         /\ [s EXCEPT !.phase = "down"] \in Terminal
<1>1. /\ s.epoch + 1 \in Nat /\ s.uepoch + 1 \in Nat
      /\ s.conv + 1 \in Nat /\ s.block + 1 \in Nat
  BY DEF Terminal
<1>2. [s EXCEPT !.pending = TRUE] \in Terminal
  BY DEF Terminal
<1>3. [s EXCEPT !.pending = FALSE, !.unacked = TRUE, !.epoch = @ + 1, !.status = st,
                !.composer = c] \in Terminal
  BY <1>1 DEF Terminal
<1>4. [s EXCEPT !.uepoch = @ + 1, !.epoch = @ + 1, !.unacked = TRUE, !.composer = c] \in Terminal
  BY <1>1 DEF Terminal
<1>5. [s EXCEPT !.uepoch = @ + 1, !.epoch = @ + 1, !.status = st] \in Terminal
  BY <1>1 DEF Terminal
<1>6. [s EXCEPT !.unacked = FALSE, !.epoch = @ + 1, !.status = st] \in Terminal
  BY <1>1 DEF Terminal
<1>7. [s EXCEPT !.status = st] \in Terminal
  BY DEF Terminal
<1>8. [s EXCEPT !.conv = @ + 1, !.block = @ + 1, !.status = st, !.composer = c] \in Terminal
  BY <1>1 DEF Terminal
<1>9. [s EXCEPT !.phase = "up", !.block = @ + 1] \in Terminal
  BY <1>1 DEF Terminal
<1>10. [s EXCEPT !.phase = "down"] \in Terminal
  BY DEF Terminal
<1> QED BY <1>2, <1>3, <1>4, <1>5, <1>6, <1>7, <1>8, <1>9, <1>10
-----------------------------------------------------------------------------
(* Type correctness *)

\* A worker is well typed when its record is and an admission has its message.
WorkerOK(w) == w \in Workers /\ (w.pc \in {"admit", "insert"} => w.op \in Ops)

LEMMA PassOK ==
  ASSUME now \in Nat, NEW j \in Journals, NEW i \in Instances, NEW again \in BOOLEAN
  PROVE  WorkerOK(Pass(j, i, again))
<1>1. Pass(j, i, again) \in Workers
  BY PassType
<1>2. Pass(j, i, again).pc \in {"idle", "probe"}
  BY DEF Pass, Resting
<1> QED BY <1>1, <1>2 DEF WorkerOK

LEMMA AdvanceOK ==
  ASSUME TypeOK, NEW j \in Journals, NEW i \in Instances, NEW m \in Row
  PROVE  WorkerOK(Advance(j, i, m))
<1>1. Advance(j, i, m) \in Workers
  BY AdvanceType
<1>2. Advance(j, i, m).pc \in {"idle", "probe"}
  BY DEF Advance, Pass, Resting
<1> QED BY <1>1, <1>2 DEF WorkerOK

LEMMA RestingOK ==
  ASSUME NEW pc \in {"off", "idle", "stopped"}
  PROVE  WorkerOK(Resting(pc))
<1>1. Resting(pc) \in Workers
  BY RestingType DEF Pcs
<1> QED BY <1>1 DEF WorkerOK, Resting

LEMMA PcOK ==
  ASSUME TypeOK, NEW i \in Instances, NEW pc \in {"refuse", "send", "fail", "lose"}
  PROVE  WorkerOK([worker[i] EXCEPT !.pc = pc])
<1>1. worker[i] \in Workers
  BY DEF TypeOK
<1> QED BY <1>1 DEF WorkerOK, Workers, Pcs

\* A step that rewrites the journal and one worker, and leaves the terminals alone.
LEMMA JournalStepType ==
  ASSUME TypeOK, NEW i \in Instances, NEW j \in Journals, NEW w, WorkerOK(w),
         journal' = j, GoTo(i, w), nextSeq' \in Nat, faults' \in Nat,
         finished' \in [Instances -> SUBSET Completions], shut' = shut,
         UNCHANGED <<now, proc, bridge, ui>>
  PROVE  TypeOK'
BY DEF TypeOK, Journals, GoTo, ui, WorkerOK

\* A hop that rewrites one worker and the terminals.
LEMMA HopStepType ==
  ASSUME TypeOK, NEW i \in Instances, NEW w, WorkerOK(w), GoTo(i, w),
         term' \in [Terms -> Terminal], flight' \in [Terms -> SUBSET Flights],
         pty' \in [Terms -> Seq(Events)],
         UNCHANGED <<journal, nextSeq, now, proc, bridge, shut, finished, faults>>
  PROVE  TypeOK'
BY DEF TypeOK, GoTo, WorkerOK

LEMMA SnapshotType ==
  ASSUME TypeOK, NEW i \in Instances, NEW m \in worker[i].todo
  PROVE  m \in Row /\ m.req \in Requests /\ m.term \in Terms /\ m.inst \in Instances
BY DEF TypeOK, Workers, Row

LEMMA StartTargetType ==
  ASSUME TypeOK, NEW i \in Instances, NEW m, m.term \in Terms, StartTarget(i, m)
  PROVE  term' \in [Terms -> Terminal]
BY TerminalTypes DEF StartTarget, TypeOK

LEMMA SettledNames ==
  {"cancelled", "expired", "dispatching", "submitted", "delivery_unknown", "failed"} \subseteq States
BY DEF States, PendingStates, SettledStates

\* Taking a command keeps every variable in its type.
LEMMA TakeType ==
  ASSUME TypeOK, NEW i \in Instances,
         \/ Poll(i)
         \/ \E r \in Requests : TakeCancel(i, r)
         \/ \E op \in Sends : TakeSend(i, op)
         \/ \E f \in finished[i] : TakeFinished(i, f)
         \/ TakeShutdown(i)
  PROVE  TypeOK'
<1>0. /\ journal \in Journals /\ now \in Nat /\ nextSeq \in Nat /\ faults \in Nat
      /\ worker[i] \in Workers /\ finished \in [Instances -> SUBSET Completions]
  BY DEF TypeOK, Journals
<1>m. Maintained \in Journals /\ WorkerOK(Pass(Maintained, i, FALSE))
  BY <1>0, MaintainedType, PassOK
<1>1. CASE Poll(i)
  BY <1>0, <1>1, <1>m, JournalStepType DEF Poll
<1>2. ASSUME NEW r \in Requests, TakeCancel(i, r) PROVE TypeOK'
  <2> DEFINE j == IF PendingIn(Maintained, r) /\ Maintained[r].state = "queued"
                  THEN Transition(Maintained, Maintained[r], "cancelled") ELSE Maintained
  <2>1. j \in Journals
    <3>1. CASE PendingIn(Maintained, r) /\ Maintained[r].state = "queued"
      <4>1. Maintained[r] \in Row
        BY <3>1, <1>m DEF PendingIn, Journals
      <4> QED BY <3>1, <4>1, <1>0, <1>m, SettledNames, TransitionType
    <3> QED BY <3>1, <1>m
  <2>2. WorkerOK(Pass(j, i, FALSE))
    BY <1>0, <2>1, PassOK
  <2>3. journal' = j /\ GoTo(i, Pass(j, i, FALSE))
    BY <1>2 DEF TakeCancel
  <2> HIDE DEF j
  <2> QED BY <1>0, <1>2, <2>1, <2>2, <2>3, JournalStepType DEF TakeCancel
<1>3. ASSUME NEW op \in Sends, TakeSend(i, op) PROVE TypeOK'
  <2>1. op \in Ops
    <3>1. PICK r \in Requests, t \in Terms, s \in Senders, q \in BOOLEAN :
            op = [req |-> r, term |-> t, conv |-> term[t].conv, sender |-> s, queue |-> q,
                  guard |-> NoGuard]
      BY DEF Sends
    <3>2. term[t].conv \in Nat /\ NoGuard \in Guards
      BY DEF TypeOK, Terminal, NoGuard, Guards
    <3> QED BY <3>1, <3>2 DEF Ops
  <2>2. WorkerOK([Resting("admit") EXCEPT !.op = op])
    <3>1. Resting("admit") \in Workers
      BY RestingType DEF Pcs
    <3> QED BY <2>1, <3>1 DEF Workers, WorkerOK
  <2> QED BY <1>0, <1>3, <1>m, <2>2, JournalStepType DEF TakeSend
<1>4. ASSUME NEW f \in finished[i], TakeFinished(i, f) PROVE TypeOK'
  <2> DEFINE row == Maintained[f.req]
             j == IF row # NoRow /\ row.state = "dispatching"
                  THEN Transition(Maintained, row, IF f.ok THEN "submitted" ELSE "delivery_unknown")
                  ELSE Maintained
  <2>1. f.req \in Requests
    BY <1>0 DEF Completions
  <2>2. j \in Journals
    <3>1. CASE row # NoRow
      <4>1. row \in Row
        BY <3>1, <2>1, <1>m DEF Journals
      <4> QED BY <4>1, <1>0, <1>m, SettledNames, TransitionType
    <3> QED BY <3>1, <1>m
  <2>3. WorkerOK(Pass(j, i, FALSE))
    BY <1>0, <2>2, PassOK
  <2>4. journal' = j /\ GoTo(i, Pass(j, i, FALSE))
    BY <1>4 DEF TakeFinished
  <2>5. finished' \in [Instances -> SUBSET Completions]
    BY <1>0, <1>4 DEF TakeFinished
  <2> HIDE DEF j, row
  <2> QED BY <1>0, <1>4, <2>2, <2>3, <2>4, <2>5, JournalStepType DEF TakeFinished
<1>5. CASE TakeShutdown(i)
  <2>1. Abandoned(i) \in Journals
    <3> SUFFICES ASSUME NEW r \in OwnPending(journal, i)
                 PROVE  [journal[r] EXCEPT !.state = IF @ = "dispatching" THEN "delivery_unknown"
                                                     ELSE "cancelled", !.updated = now] \in Row
      BY <1>0 DEF Abandoned, Journals
    <3>1. journal[r] \in Row
      BY <1>0 DEF OwnPending, PendingIn, Journals
    <3> QED BY <1>0, <3>1 DEF Row, SettledStates
  <2>2. WorkerOK(Resting("stopped"))
    BY RestingOK
  <2> QED BY <1>0, <1>5, <2>1, <2>2, JournalStepType DEF TakeShutdown
<1> QED BY <1>1, <1>2, <1>3, <1>4, <1>5

LEMMA NewRowType ==
  ASSUME NEW op \in Ops, NEW i \in Instances, now \in Nat, nextSeq \in Nat
  PROVE  NewRow(op, i) \in Row
<1>1. now + Expiry \in Nat
  BY NumbersAssumption
<1>2. "queued" \in PendingStates \cup SettledStates
  BY DEF PendingStates
<1> QED BY <1>1, <1>2 DEF NewRow, Row, Ops

\* Admitting and inserting a message keep every variable in its type.
LEMMA AdmissionType ==
  ASSUME TypeOK, NEW i \in Instances, Admit(i) \/ AdmitRefused(i) \/ Insert(i)
  PROVE  TypeOK'
<1> DEFINE op == worker[i].op
<1>0. /\ journal \in Journals /\ now \in Nat /\ nextSeq \in Nat /\ faults \in Nat
      /\ worker[i] \in Workers /\ finished \in [Instances -> SUBSET Completions]
      /\ flight \in [Terms -> SUBSET Flights] /\ pty \in [Terms -> Seq(Events)]
  BY DEF TypeOK, Journals
<1>1. op \in Ops /\ op.term \in Terms /\ op.req \in Requests
  <2>1. worker[i].pc \in {"admit", "insert"}
    BY DEF Admit, AdmitRefused, Insert, AtPc
  <2> QED BY <2>1 DEF TypeOK, Ops
<1>2. CASE Admit(i)
  <2> DEFINE g == [lazy |-> Reason(term[op.term]) \in LazyReasons,
                   uepoch |-> term[op.term].uepoch, block |-> term[op.term].block,
                   mark |-> Len(pty[op.term])]
  <2>0. Len(pty[op.term]) \in Nat
    BY <1>0, <1>1
  <2>1. g \in Guards
    BY <1>1, <2>0 DEF Guards, TypeOK, Terminal
  <2>2. WorkerOK([worker[i] EXCEPT !.pc = "insert", !.op.guard = g])
    <3>1. [op EXCEPT !.guard = g] \in Ops
      BY <1>1, <2>1 DEF Ops
    <3> QED BY <1>0, <3>1 DEF WorkerOK, Workers, Pcs
  <2>3. term' \in [Terms -> Terminal]
    BY <1>1, <1>2, StartTargetType DEF Admit
  <2>4. GoTo(i, [worker[i] EXCEPT !.pc = "insert", !.op.guard = g])
    BY <1>2 DEF Admit
  <2> HIDE DEF g
  <2> QED BY <1>0, <1>2, <2>2, <2>3, <2>4, HopStepType DEF Admit
<1>3. CASE AdmitRefused(i)
  <2>1. term' \in [Terms -> Terminal]
    BY <1>1, <1>3, StartTargetType DEF AdmitRefused
  <2>2. WorkerOK(Pass(journal, i, FALSE))
    BY <1>0, PassOK
  <2> QED BY <1>0, <1>3, <2>1, <2>2, HopStepType DEF AdmitRefused
<1>4. CASE Insert(i)
  <2> DEFINE ok == Insertable(op, i) /\ now + Expiry <= MaxTime
             j == IF ok THEN [journal EXCEPT ![op.req] = NewRow(op, i)] ELSE journal
  <2>1. NewRow(op, i) \in Row
    BY <1>0, <1>1, NewRowType
  <2>2. j \in Journals
    BY <1>0, <1>1, <2>1 DEF Journals
  <2>3. ok \in BOOLEAN
    BY DEF Insertable
  <2>4. WorkerOK(Pass(j, i, ok))
    BY <1>0, <2>2, <2>3, PassOK
  <2>5. journal' = j /\ GoTo(i, Pass(j, i, ok)) /\ nextSeq' \in Nat
    BY <1>0, <1>4 DEF Insert
  <2> HIDE DEF j, ok
  <2> QED BY <1>0, <1>4, <2>2, <2>4, <2>5, JournalStepType DEF Insert
<1> QED BY <1>2, <1>3, <1>4

\* The steps of dispatch_pending keep every variable in its type.
LEMMA DispatchType ==
  ASSUME TypeOK, NEW i \in Instances, NEW m \in worker[i].todo,
         ProbeStep(i, m) \/ RefuseStep(i, m) \/ ClaimStep(i, m) \/ SendStep(i, m) \/ SettleStep(i, m)
  PROVE  TypeOK'
<1> DEFINE t == m.term
<1>0. /\ journal \in Journals /\ now \in Nat /\ nextSeq \in Nat /\ faults \in Nat
      /\ worker[i] \in Workers /\ finished \in [Instances -> SUBSET Completions]
      /\ flight \in [Terms -> SUBSET Flights] /\ pty \in [Terms -> Seq(Events)]
      /\ term \in [Terms -> Terminal]
  BY DEF TypeOK, Journals
<1>m. m \in Row /\ m.req \in Requests /\ t \in Terms /\ m.seq \in Nat /\ m.guard \in Guards
  BY SnapshotType DEF Row, TypeOK, Workers
<1>a. \A j \in Journals : WorkerOK(Advance(j, i, m))
  BY <1>m, AdvanceOK
<1>b. \A s \in States : Transition(journal, m, s) \in Journals
  BY <1>0, <1>m, TransitionType
<1>1. CASE ProbeStep(i, m)
  <2>1. CASE m.expires <= now
    <3>1. Transition(journal, m, "expired") \in Journals
      BY <1>b, SettledNames
    <3>2. journal' = Transition(journal, m, "expired")
          /\ GoTo(i, Advance(Transition(journal, m, "expired"), i, m)) /\ UNCHANGED term
      <4>1. m.expires \in Nat
        BY <1>m DEF Row
      <4>2. ~(m.expires > now)
        BY <1>0, <2>1, <4>1
      <4> QED BY <1>1, <2>1, <4>2 DEF ProbeStep
    <3> QED BY <1>0, <1>1, <1>a, <3>1, <3>2, JournalStepType DEF ProbeStep, ui
  <2>2. CASE ~(m.expires <= now)
    <3>1. term' \in [Terms -> Terminal]
      BY <1>1, <1>m, <2>2, StartTargetType DEF ProbeStep
    <3>2. WorkerOK([worker[i] EXCEPT !.pc = "claim", !.rev = Revision(Started(m.term))])
      <4>1. Revision(Started(m.term)) \in Revisions
        BY <1>m, TerminalTypes
      <4> QED BY <1>0, <4>1 DEF WorkerOK, Workers, Pcs
    <3>3. WorkerOK([worker[i] EXCEPT !.pc = "refuse"])
      BY PcOK
    <3>4. Verdict(i, m) \in {"ready", "wait", "cancel"}
      BY DEF Verdict
    <3>5. PICK w : WorkerOK(w) /\ GoTo(i, w)
      <4>1. CASE Verdict(i, m) = "ready"
        BY <1>1, <2>2, <3>2, <4>1 DEF ProbeStep
      <4>2. CASE Verdict(i, m) = "wait"
        BY <1>0, <1>1, <1>a, <2>2, <4>2 DEF ProbeStep
      <4>3. CASE Verdict(i, m) = "cancel"
        BY <1>1, <2>2, <3>3, <4>3 DEF ProbeStep
      <4> QED BY <3>4, <4>1, <4>2, <4>3
    <3>6. UNCHANGED <<journal, nextSeq, now, proc, bridge, shut, finished, flight, pty, faults>>
      BY <1>1, <2>2 DEF ProbeStep
    <3> QED BY <1>0, <3>1, <3>5, <3>6, HopStepType
  <2> QED BY <2>1, <2>2
<1>2. CASE RefuseStep(i, m)
  BY <1>0, <1>2, <1>a, <1>b, SettledNames, JournalStepType DEF RefuseStep
<1>3. CASE ClaimStep(i, m)
  <2>1. WorkerOK([worker[i] EXCEPT !.pc = "send"])
    BY PcOK
  <2> QED BY <1>0, <1>3, <1>a, <1>b, <2>1, SettledNames, JournalStepType DEF ClaimStep
<1>4. CASE SendStep(i, m)
  <2>1. CASE CanSend(i, m)
    <3> DEFINE f == [req |-> m.req, seq |-> m.seq, inst |-> i, conv |-> term[t].conv,
                     epoch |-> term[t].epoch, block |-> term[t].block]
    <3>1. f \in Flights
      BY <1>0, <1>m DEF Flights, Terminal
    <3>2. TextEvent(m) \in Events
      BY <1>0, <1>m DEF TextEvent, Events, Guards
    <3>3. [term EXCEPT ![t].pending = TRUE] \in [Terms -> Terminal]
      <4>1. [term[t] EXCEPT !.pending = TRUE] \in Terminal
        BY <1>0, <1>m, TerminalUpdates DEF Status
      <4> QED BY <1>0, <4>1
    <3>4. [flight EXCEPT ![t] = @ \cup {f}] \in [Terms -> SUBSET Flights]
      BY <1>0, <3>1
    <3>5. [pty EXCEPT ![t] = Append(@, TextEvent(m))] \in [Terms -> Seq(Events)]
      <4>1. Append(pty[t], TextEvent(m)) \in Seq(Events)
        BY <1>0, <1>m, <3>2
      <4> QED BY <1>0, <4>1
    <3>6. proc[InstHome[i]] = "up"
      BY <2>1 DEF CanSend, Verdict, Resolves
    <3> QED BY <1>0, <1>4, <1>a, <2>1, <3>3, <3>4, <3>5, <3>6, HopStepType DEF SendStep
  <2>2. CASE ~CanSend(i, m) /\ proc[InstHome[i]] = "up"
    <3>1. term' \in [Terms -> Terminal]
      BY <1>4, <1>m, <2>2, StartTargetType DEF SendStep
    <3>2. WorkerOK([worker[i] EXCEPT !.pc = "fail"])
      BY PcOK
    <3> QED BY <1>0, <1>4, <2>2, <3>1, <3>2, HopStepType DEF SendStep
  <2>3. CASE proc[InstHome[i]] = "quitting"
    <3>1. WorkerOK([worker[i] EXCEPT !.pc = "lose"])
      BY PcOK
    <3>2. ~CanSend(i, m)
      BY <2>3 DEF CanSend, Verdict, Resolves
    <3> QED BY <1>0, <1>4, <2>3, <3>1, <3>2, HopStepType DEF SendStep, ui
  <2> QED BY <1>4, <2>1, <2>2, <2>3 DEF SendStep
<1>5. CASE SettleStep(i, m)
  <2> DEFINE row == journal[m.req]
             s == IF worker[i].pc = "fail" THEN "failed" ELSE "delivery_unknown"
             j == IF row = NoRow THEN journal ELSE Transition(journal, row, s)
  <2>1. j \in Journals
    <3>1. CASE row # NoRow
      <4>1. row \in Row /\ s \in States
        BY <3>1, <1>0, <1>m, SettledNames DEF Journals
      <4> QED BY <4>1, <1>0, TransitionType
    <3> QED BY <3>1, <1>0
  <2>2. WorkerOK(Abort(i))
    BY <1>0, PassOK, RestingOK DEF Abort
  <2>3. journal' = j /\ GoTo(i, IF row = NoRow THEN Abort(i) ELSE Advance(j, i, m))
    BY <1>5 DEF SettleStep
  <2> HIDE DEF j, row, s
  <2> QED BY <1>0, <1>5, <1>a, <2>1, <2>2, <2>3, JournalStepType DEF SettleStep
<1> QED BY <1>1, <1>2, <1>3, <1>4, <1>5
\* Storage errors keep every variable in its type.
LEMMA FaultType ==
  ASSUME TypeOK, NEW i \in Instances, FaultStep(i)
  PROVE  TypeOK'
<1>0. /\ journal \in Journals /\ now \in Nat /\ nextSeq \in Nat /\ faults \in Nat
      /\ finished \in [Instances -> SUBSET Completions]
  BY DEF TypeOK, Journals
<1>1. Maintained \in Journals /\ WorkerOK(Pass(Maintained, i, FALSE))
      /\ WorkerOK(Pass(journal, i, FALSE))
      /\ WorkerOK(Resting("idle")) /\ WorkerOK(Resting("stopped"))
  BY <1>0, MaintainedType, PassOK, RestingOK
<1>f. ASSUME Faulty PROVE faults' \in Nat
  BY <1>0, <1>f DEF Faulty
<1>2. CASE JournalError(i)
  <2>1. PICK w : WorkerOK(w) /\ GoTo(i, w)
    BY <1>1, <1>2 DEF JournalError, Abort
  <2>2. /\ journal' = journal /\ nextSeq' \in Nat /\ faults' \in Nat /\ shut' = shut
        /\ finished' \in [Instances -> SUBSET Completions] /\ UNCHANGED <<now, proc, bridge, ui>>
    BY <1>0, <1>2, <1>f DEF JournalError
  <2> QED BY <1>0, <2>1, <2>2, JournalStepType
<1>3. ASSUME NEW f \in finished[i], FinishedError(i, f) PROVE TypeOK'
  <2>1. GoTo(i, Pass(Maintained, i, FALSE)) /\ journal' = Maintained
    BY <1>3 DEF FinishedError
  <2>2. /\ nextSeq' \in Nat /\ faults' \in Nat /\ shut' = shut
        /\ finished' \in [Instances -> SUBSET Completions] /\ UNCHANGED <<now, proc, bridge, ui>>
    BY <1>0, <1>3, <1>f DEF FinishedError
  <2> QED BY <1>1, <2>1, <2>2, JournalStepType
<1>4. CASE ShutdownError(i)
  BY <1>0, <1>1, <1>4, JournalStepType DEF ShutdownError, Faulty
<1> QED BY <1>2, <1>3, <1>4 DEF FaultStep

LEMMA CompletedType ==
  ASSUME TypeOK, NEW done \in SUBSET Flights, NEW ok \in BOOLEAN, Completed(done, ok)
  PROVE  finished' \in [Instances -> SUBSET Completions]
<1>1. \A f \in done : [req |-> f.req, ok |-> ok] \in Completions
  BY DEF Flights, Completions
<1>2. finished \in [Instances -> SUBSET Completions]
  BY DEF TypeOK
<1> QED BY <1>1, <1>2 DEF Completed

LEMMA SetTermType ==
  ASSUME TypeOK, NEW t \in Terms, NEW s \in Terminal, SetTerm(t, s)
  PROVE  TypeOK'
BY DEF TypeOK, SetTerm, OnlyTerm

LEMMA AppendType ==
  ASSUME TypeOK, NEW t \in Terms, NEW e \in Events
  PROVE  [pty EXCEPT ![t] = Append(@, e)] \in [Terms -> Seq(Events)]
<1>1. Append(pty[t], e) \in Seq(Events)
  BY DEF TypeOK
<1> QED BY <1>1 DEF TypeOK

\* The steps of a terminal view keep every variable in its type.
LEMMA TermStepType ==
  ASSUME TypeOK, NEW t \in Terms, TermStep(t)
  PROVE  TypeOK'
<1>0. /\ term[t] \in Terminal /\ now \in Nat
      /\ flight \in [Terms -> SUBSET Flights] /\ pty \in [Terms -> Seq(Events)]
      /\ term \in [Terms -> Terminal]
  BY DEF TypeOK
<1>h. Typed("human") \in Events /\ Typed("plain") \in Events
  BY <1>0 DEF Typed, Events
<1>1. ASSUME NEW f \in flight[t], EnterFires(t, f) PROVE TypeOK'
  <2> DEFINE e == [kind |-> "enter", seq |-> f.seq, req |-> f.req, at |-> now, lazy |-> FALSE,
                   mark |-> 0]
  <2>1. f \in Flights /\ e \in Events
    BY <1>0 DEF Flights, Events
  <2>2. pty' \in [Terms -> Seq(Events)]
    BY <1>0, <1>1, <2>1, AppendType DEF EnterFires
  <2>3. EnterValid(t, f) \in BOOLEAN
    BY DEF EnterValid
  <2>4. finished' \in [Instances -> SUBSET Completions]
    BY <1>1, <2>1, <2>3, CompletedType DEF EnterFires
  <2>5. PICK st : /\ st \in {term[t].status, "working"}
                  /\ term' = [term EXCEPT ![t].pending = FALSE, ![t].unacked = TRUE,
                       ![t].epoch = @ + 1, ![t].status = st,
                       ![t].composer = IF EnterValid(t, f) THEN "empty" ELSE "ours"]
    BY <1>1 DEF EnterFires
  <2>6. term' \in [Terms -> Terminal]
    <3>1. st \in Status
      BY <1>0, <2>5 DEF Terminal, Status
    <3>2. [term[t] EXCEPT !.pending = FALSE, !.unacked = TRUE, !.epoch = @ + 1, !.status = st,
             !.composer = IF EnterValid(t, f) THEN "empty" ELSE "ours"] \in Terminal
      BY <1>0, <3>1, TerminalUpdates
    <3> QED BY <1>0, <2>5, <3>2
  <2>7. flight' \in [Terms -> SUBSET Flights]
    BY <1>0, <1>1 DEF EnterFires
  <2> QED BY <1>1, <2>2, <2>4, <2>6, <2>7 DEF EnterFires, TypeOK
<1>2. CASE HumanInput(t)
  <2>1. pty' \in [Terms -> Seq(Events)]
    BY <1>2, <1>h, AppendType DEF HumanInput
  <2>2. PICK c \in {"empty", "human"} :
          term' = [term EXCEPT ![t].uepoch = @ + 1, ![t].epoch = @ + 1, ![t].unacked = TRUE,
                               ![t].composer = c]
    BY <1>2 DEF HumanInput
  <2>3. [term[t] EXCEPT !.uepoch = @ + 1, !.epoch = @ + 1, !.unacked = TRUE, !.composer = c] \in Terminal
    BY <1>0, TerminalUpdates DEF Status
  <2> QED BY <1>0, <1>2, <2>1, <2>2, <2>3 DEF HumanInput, TypeOK, OnlyTerm
<1>p. CASE PlainInput(t)
  <2>1. pty' \in [Terms -> Seq(Events)]
    BY <1>p, <1>h, AppendType DEF PlainInput
  <2>2. PICK c \in {"empty", "human"} : term' = [term EXCEPT ![t].composer = c]
    BY <1>p DEF PlainInput
  <2>3. [term[t] EXCEPT !.composer = c] \in Terminal
    BY <1>0 DEF Terminal
  <2> QED BY <1>0, <1>p, <2>1, <2>2, <2>3 DEF PlainInput, TypeOK, OnlyTerm
<1>3. CASE Interrupt(t)
  <2>1. pty' \in [Terms -> Seq(Events)]
    BY <1>3, <1>h, AppendType DEF Interrupt
  <2>2. [term[t] EXCEPT !.uepoch = @ + 1, !.epoch = @ + 1, !.status = "idle"] \in Terminal
    BY <1>0, TerminalUpdates DEF Status
  <2> QED BY <1>0, <1>3, <2>1, <2>2 DEF Interrupt, TypeOK, OnlyTerm
<1>4. CASE PromptAck(t)
  <2>1. PICK st \in {term[t].status, "working"} :
          SetTerm(t, [term[t] EXCEPT !.unacked = FALSE, !.epoch = @ + 1, !.status = st])
    BY <1>4 DEF PromptAck
  <2>2. st \in Status
    BY <1>0, <2>1 DEF Status, Terminal
  <2>3. [term[t] EXCEPT !.unacked = FALSE, !.epoch = @ + 1, !.status = st] \in Terminal
    BY <1>0, <2>2, TerminalUpdates
  <2> QED BY <2>1, <2>3, SetTermType
<1>5. CASE InputSettles(t)
  <2>1. [term[t] EXCEPT !.unacked = FALSE] \in Terminal
    BY <1>0 DEF Terminal
  <2> QED BY <1>5, <2>1, SetTermType DEF InputSettles
<1>6. ASSUME NEW st \in Status, StatusChange(t, st) PROVE TypeOK'
  <2>1. [term[t] EXCEPT !.status = st] \in Terminal
    BY <1>0, <1>6, TerminalUpdates
  <2> QED BY <1>6, <2>1, SetTermType DEF StatusChange
<1>7. CASE ReplaceSession(t)
  <2>1. [term[t] EXCEPT !.conv = @ + 1, !.block = @ + 1, !.status = "idle", !.composer = "empty"]
          \in Terminal
    BY <1>0, TerminalUpdates DEF Status
  <2> QED BY <1>7, <2>1, SetTermType DEF ReplaceSession
<1>8. CASE ReleaseDeferred(t)
  <2>1. [term[t] EXCEPT !.phase = "starting"] \in Terminal
    BY <1>0 DEF Terminal
  <2> QED BY <1>8, <2>1, SetTermType DEF ReleaseDeferred
<1>9. CASE Launch(t)
  <2>1. /\ [term[t] EXCEPT !.phase = "up", !.block = @ + 1] \in Terminal
        /\ [term[t] EXCEPT !.phase = "down"] \in Terminal
    BY <1>0, TerminalUpdates DEF Status
  <2> QED BY <1>9, <2>1, SetTermType DEF Launch
<1>10. CASE ToggleWriter(t)
  <2>1. [term[t] EXCEPT !.writer = ~@] \in Terminal
    BY <1>0 DEF Terminal
  <2> QED BY <1>10, <2>1, SetTermType DEF ToggleWriter
<1>11. CASE ClosePane(t)
  <2>1. [term[t] EXCEPT !.open = FALSE] \in Terminal
    BY <1>0 DEF Terminal
  <2>2. finished' \in [Instances -> SUBSET Completions]
    BY <1>0, <1>11, CompletedType DEF ClosePane
  <2> QED BY <1>0, <1>11, <2>1, <2>2 DEF ClosePane, TypeOK
<1> QED BY <1>1, <1>2, <1>p, <1>3, <1>4, <1>5, <1>6, <1>7, <1>8, <1>9, <1>10, <1>11 DEF TermStep

\* The steps of a process and of the clock keep every variable in its type.
LEMMA ProcStepType ==
  ASSUME TypeOK, (\E p \in Procs : ProcStep(p)) \/ Clock
  PROVE  TypeOK'
<1>1. ASSUME NEW p \in Procs, StopControl(p) PROVE TypeOK'
  BY <1>1 DEF TypeOK, StopControl, ui
<1>2. ASSUME NEW p \in Procs, NEW i \in Instances, StartControl(p, i) PROVE TypeOK'
  BY <1>2 DEF TypeOK, StartControl, ui
<1>3. ASSUME NEW p \in Procs, Quit(p) PROVE TypeOK'
  <2>1. UNION {flight[t] : t \in {u \in Terms : TermHome[u] = p}} \in SUBSET Flights
    BY DEF TypeOK
  <2>2. finished' \in [Instances -> SUBSET Completions]
    BY <1>3, <2>1, CompletedType DEF Quit
  <2>3. flight' \in [Terms -> SUBSET Flights] /\ shut' \in SUBSET Instances
    BY <1>3 DEF Quit, TypeOK
  <2> QED BY <1>3, <2>2, <2>3 DEF TypeOK, Quit
<1>4. ASSUME NEW p \in Procs, Crash(p) PROVE TypeOK'
  BY <1>4 DEF TypeOK, Crash, ui
<1>5. CASE Clock
  BY <1>5 DEF TypeOK, Clock, ui
<1> QED BY <1>1, <1>2, <1>3, <1>4, <1>5 DEF ProcStep

LEMMA TypeInit == Init => TypeOK
<1> SUFFICES ASSUME Init PROVE TypeOK
  OBVIOUS
<1>1. worker \in [Instances -> Workers] /\ \A i \in Instances : worker[i].pc = "off"
  BY RestingType DEF Init, Pcs, Resting
<1>2. term \in [Terms -> Terminal]
  BY DEF Init, Terminal, Status
<1>3. pty \in [Terms -> Seq(Events)]
  BY DEF Init
<1> QED BY <1>1, <1>2, <1>3 DEF Init, TypeOK

LEMMA TypeStep == TypeOK /\ [Next]_vars => TypeOK'
<1> SUFFICES ASSUME TypeOK, [Next]_vars PROVE TypeOK'
  OBVIOUS
<1>1. ASSUME NEW i \in Instances, WorkerStep(i) PROVE TypeOK'
  BY <1>1, TakeType, AdmissionType, DispatchType DEF WorkerStep
<1>2. CASE UNCHANGED vars
  BY <1>2 DEF vars, TypeOK
<1> QED BY <1>1, <1>2, FaultType, TermStepType, ProcStepType DEF Next

\* Type correctness of the delivery system, for every instance.
THEOREM TypeCorrect == Spec => []TypeOK
BY TypeInit, TypeStep, PTL DEF Spec
-----------------------------------------------------------------------------
(* What a step does to the rows of the journal *)

\* A settled row whose retention has passed is forgotten.
Lapse(old, new) == old # NoRow /\ old.state \in SettledStates /\ old.updated + Retention < now /\ new = NoRow

\* The same message in another state.
Moved(old, new) == old # NoRow /\ new # NoRow /\ SameMessage(new, old) /\ new.updated = now

\* A message that nobody has claimed is dropped.
Refusal(old, new) == Moved(old, new) /\ old.state = "queued" /\ new.state \in {"cancelled", "expired"}

\* The claim of a process that ended is closed by another one.
Recovery(old, new) ==
  Moved(old, new) /\ old.state = "dispatching" /\ new.state = "delivery_unknown" /\ ~Alive(old.inst)

MaintMove(old, new) == new = old \/ Lapse(old, new) \/ Refusal(old, new) \/ Recovery(old, new)

\* A new row of worker i, the only change of the journal.
FreshRow(i, r) ==
  /\ journal[r] = NoRow /\ journal'[r] # NoRow /\ \A q \in Requests : q # r => journal'[q] = journal[q]
  /\ journal'[r].req = r /\ journal'[r].seq = nextSeq /\ nextSeq' = nextSeq + 1
  /\ journal'[r].inst = i /\ journal'[r].state = "queued" /\ journal'[r].updated = now
  /\ worker[i].pc = "insert" /\ Insertable(worker[i].op, i)
  /\ SameTarget(journal'[r], worker[i].op) /\ journal'[r].sender = worker[i].op.sender
  /\ journal'[r].guard = worker[i].op.guard

\* Worker i claims, or records that nothing was inserted or that nobody knows.
ClaimMove(i, old, new) ==
  /\ Moved(old, new) /\ old.inst = i /\ old.state = "queued" /\ new.state = "dispatching"
  /\ \E m \in worker[i].todo : SameMessage(old, m)

FailMove(i, old, new) ==
  /\ Moved(old, new) /\ old.inst = i /\ old.state = "dispatching" /\ ~Wrote(old.seq)
  /\ new.state \in {"failed", "delivery_unknown"}

\* Worker i takes the completion of its row.
FinishMove(i, old, new) ==
  /\ Moved(old, new) /\ old.inst = i /\ old.state = "dispatching"
  /\ \E f \in finished[i] : /\ f.req = old.req /\ finished'[i] = finished[i] \ {f}
                            /\ new.state = IF f.ok THEN "submitted" ELSE "delivery_unknown"

\* Worker i ends.
StopMove(i, old, new) ==
  /\ Moved(old, new) /\ old.inst = i /\ old.state = "dispatching" /\ new.state = "delivery_unknown"
  /\ worker'[i].pc = "stopped"

RowMove(i, r) ==
  LET old == journal[r]
      new == journal'[r]
  IN  \/ MaintMove(old, new) \/ FreshRow(i, r) \/ ClaimMove(i, old, new) \/ FailMove(i, old, new)
      \/ FinishMove(i, old, new) \/ StopMove(i, old, new)

RowMoves(i) == \A r \in Requests : RowMove(i, r)

\* A step of worker i: other workers, the terminals and the clock stay as they are.
WorkerFrame(i) ==
  /\ \A j \in Instances \ {i} : worker'[j] = worker[j] /\ finished'[j] = finished[j]
  /\ finished'[i] \subseteq finished[i]
  /\ worker'[i].pc = "stopped" => finished'[i] = {}
  /\ worker[i].pc # "stopped"
  /\ nextSeq' \in {nextSeq, nextSeq + 1}
  /\ UNCHANGED <<now, proc, flight, pty>>

LEMMA StateNames ==
  /\ PendingStates = {"queued", "dispatching"}
  /\ SettledStates = {"submitted", "delivery_unknown", "failed", "cancelled", "expired"}
BY DEF PendingStates, SettledStates

\* maintain moves every row as MaintMove says.
LEMMA MaintainedMoves ==
  ASSUME TypeOK, NEW r \in Requests
  PROVE  MaintMove(journal[r], Maintained[r])
<1>1. Maintained[r] = MaintainedRow(journal[r])
  BY DEF Maintained
<1>2. CASE journal[r] = NoRow
  BY <1>1, <1>2 DEF MaintainedRow, MaintMove
<1>3. CASE journal[r] # NoRow
  <2> DEFINE m == journal[r]
  <2>1. m \in Row /\ now \in Nat /\ m.state \in PendingStates \cup SettledStates
    BY <1>3 DEF TypeOK, Row
  <2>2. CASE m.state \in SettledStates
    <3>1. m.state \notin PendingStates
      BY <2>2 DEF SettledStates, PendingStates
    <3> QED BY <1>1, <1>3, <2>2, <3>1 DEF MaintainedRow, MaintMove, Lapse
  <2>3. CASE m.state \in PendingStates
    <3> DEFINE n == [m EXCEPT !.state = MaintainedState(m), !.updated = now]
    <3>1. Maintained[r] = IF MaintainedState(m) = m.state THEN m ELSE n
      BY <1>1, <1>3, <2>3 DEF MaintainedRow
    <3>2. MaintainedState(m) \in States
      BY <2>1 DEF MaintainedState, States, PendingStates, SettledStates, Row
    <3>3. n \in Row
      BY <2>1, <3>2, RowUpdate
    <3>4. n # NoRow
      BY <3>3, SentinelAssumption
    <3>5. SameMessage(n, m) /\ n.updated = now /\ n.state = MaintainedState(m)
      BY <2>1 DEF SameMessage, SameTarget, Row
    <3>6. CASE MaintainedState(m) # m.state
      <4>1. \/ m.state = "queued" /\ MaintainedState(m) \in {"cancelled", "expired"}
            \/ m.state = "dispatching" /\ MaintainedState(m) = "delivery_unknown" /\ ~OwnerAlive(m)
        BY <2>3, <3>6 DEF MaintainedState, PendingStates
      <4>2. Moved(m, n)
        BY <1>3, <3>4, <3>5 DEF Moved
      <4>3. Refusal(m, n) \/ Recovery(m, n)
        BY <3>5, <4>1, <4>2 DEF Refusal, Recovery, OwnerAlive, Alive
      <4> QED BY <3>1, <3>6, <4>3 DEF MaintMove
    <3>7. CASE MaintainedState(m) = m.state
      BY <3>1, <3>7 DEF MaintMove
    <3> QED BY <3>6, <3>7
  <2> QED BY <2>1, <2>2, <2>3
<1> QED BY <1>2, <1>3

\* A transition whose compare-and-set hits moves one row; any other does nothing.
LEMMA TransitionMoves ==
  ASSUME TypeOK, NEW j \in Journals, NEW m \in Row, NEW s \in States,
         j[m.req] # NoRow => SameMessage(j[m.req], m)
  PROVE  /\ \A r \in Requests : r # m.req => Transition(j, m, s)[r] = j[r]
         /\ ~CasHits(j, m) => Transition(j, m, s) = j
         /\ CasHits(j, m) => /\ Moved(j[m.req], Transition(j, m, s)[m.req])
                             /\ Transition(j, m, s)[m.req].state = s
                             /\ j[m.req].state = m.state
<1> DEFINE n == [m EXCEPT !.state = s, !.updated = now, !.seq = j[m.req].seq]
<1>1. m.req \in Requests /\ now \in Nat
  BY DEF Row, TypeOK
<1>2. CASE CasHits(j, m)
  <2>1. j[m.req] # NoRow /\ j[m.req].state = m.state /\ j[m.req] \in Row
    BY <1>1, <1>2 DEF CasHits, Journals
  <2>2. Transition(j, m, s) = [j EXCEPT ![m.req] = n]
    BY <1>2 DEF Transition
  <2>3. Transition(j, m, s)[m.req] = n /\ \A r \in Requests : r # m.req => Transition(j, m, s)[r] = j[r]
    BY <1>1, <2>2 DEF Journals
  <2>4. Transition(j, m, s) \in Journals
    BY <1>1, TransitionType
  <2>5. n \in Row
    <3>1. j[m.req].seq \in Nat
      BY <2>1 DEF Row
    <3> QED BY <1>1, <3>1 DEF Row, States
  <2>6. n.req = m.req /\ n.seq = j[m.req].seq /\ n.inst = m.inst /\ n.term = m.term /\ n.conv = m.conv
        /\ n.sender = m.sender /\ n.guard = m.guard /\ n.state = s /\ n.updated = now
    BY DEF Row
  <2>7. n # NoRow
    BY <2>5, SentinelAssumption
  <2> HIDE DEF n
  <2>8. SameMessage(n, j[m.req])
    BY <2>1, <2>6 DEF SameMessage, SameTarget
  <2> QED BY <1>2, <2>1, <2>3, <2>6, <2>7, <2>8 DEF Moved
<1>3. CASE ~CasHits(j, m)
  BY <1>3 DEF Transition
<1> QED BY <1>2, <1>3

\* What the snapshot of a live worker says of its row.
LEMMA SnapshotRow ==
  ASSUME IInv, NEW i \in Instances, Alive(i), NEW m \in worker[i].todo
  PROVE  /\ m \in Row /\ m.req \in Requests /\ m.state = "queued" /\ m.inst = i
         /\ journal[m.req] # NoRow /\ journal[m.req] \in Row /\ SameMessage(journal[m.req], m)
         /\ journal[m.req].inst = i /\ journal[m.req].seq = m.seq
<1>1. m \in Row /\ m.req \in Requests
  BY SnapshotType DEF IInv
<1>2. Present(m.req) /\ SameMessage(journal[m.req], m) /\ m.inst = i /\ m.state = "queued"
  BY DEF IInv, SnapshotsSound
<1>3. journal[m.req] # NoRow /\ journal[m.req] \in Row
  BY <1>1, <1>2 DEF IInv, TypeOK, Present
<1> QED BY <1>1, <1>2, <1>3 DEF SameMessage

\* Between commands and inside a dispatch no worker is stopped.
LEMMA NotStopped ==
  ASSUME NEW j, NEW i \in Instances, NEW again, NEW m
  PROVE  /\ Pass(j, i, again).pc \in {"idle", "probe"}
         /\ Advance(j, i, m).pc \in {"idle", "probe"}
         /\ Abort(i).pc \in {"idle", "probe"}
BY DEF Pass, Advance, Abort, Resting

\* The frame of a step that sends worker i to w and touches no terminal.
LEMMA FrameOf ==
  ASSUME TypeOK, NEW i \in Instances, NEW w, GoTo(i, w), worker[i].pc # "stopped",
         \A j \in Instances \ {i} : finished'[j] = finished[j],
         finished'[i] \subseteq finished[i], w.pc = "stopped" => finished'[i] = {},
         nextSeq' \in {nextSeq, nextSeq + 1},
         UNCHANGED <<now, proc, flight, pty>>
  PROVE  WorkerFrame(i)
BY DEF TypeOK, GoTo, WorkerFrame

\* Commands that only maintain the journal, cancel, finish or stop.
LEMMA TakeMoves ==
  ASSUME IInv, NEW i \in Instances,
         \/ Poll(i)
         \/ \E r \in Requests : TakeCancel(i, r)
         \/ \E op \in Sends : TakeSend(i, op)
         \/ \E f \in finished[i] : TakeFinished(i, f)
         \/ TakeShutdown(i)
  PROVE  RowMoves(i) /\ WorkerFrame(i)
<1>0. TypeOK /\ journal \in Journals /\ finished \in [Instances -> SUBSET Completions]
  BY DEF IInv, TypeOK, Journals
<1>m. Maintained \in Journals /\ \A r \in Requests : MaintMove(journal[r], Maintained[r])
  BY <1>0, MaintainedType, MaintainedMoves
<1>1. CASE Poll(i)
  <2>1. RowMoves(i)
    BY <1>1, <1>m DEF Poll, RowMoves, RowMove
  <2>2. WorkerFrame(i)
    BY <1>0, <1>1, FrameOf, NotStopped DEF Poll, Reachable, ui
  <2> QED BY <2>1, <2>2
<1>2. ASSUME NEW q \in Requests, TakeCancel(i, q) PROVE RowMoves(i) /\ WorkerFrame(i)
  <2> DEFINE hit == PendingIn(Maintained, q) /\ Maintained[q].state = "queued"
             j == IF hit THEN Transition(Maintained, Maintained[q], "cancelled") ELSE Maintained
  <2>1. journal' = j /\ GoTo(i, Pass(j, i, FALSE))
    BY <1>2 DEF TakeCancel
  <2>2. RowMoves(i)
    <3>1. CASE ~hit
      BY <1>m, <2>1, <3>1 DEF RowMoves, RowMove
    <3>2. CASE hit
      <4> DEFINE m == Maintained[q]
      <4>1. m # NoRow /\ m \in Row /\ m.state = "queued"
        BY <1>m, <3>2 DEF PendingIn, Journals
      <4>2. journal[q] # NoRow /\ journal[q].state = "queued" /\ m = journal[q]
        BY <1>m, <4>1 DEF MaintMove, Lapse, Refusal, Recovery
      <4>3. m.req = q
        BY <4>2 DEF IInv, JournalSound, Present
      <4>4. SameMessage(Maintained[m.req], m) /\ CasHits(Maintained, m)
        BY <4>1, <4>3 DEF SameMessage, SameTarget, CasHits
      <4>5. "cancelled" \in States
        BY SettledNames
      <4> HIDE DEF m
      <4>6. Moved(m, Transition(Maintained, m, "cancelled")[q])
            /\ Transition(Maintained, m, "cancelled")[q].state = "cancelled"
            /\ \A r \in Requests : r # q => Transition(Maintained, m, "cancelled")[r] = Maintained[r]
        BY <1>0, <1>m, <4>1, <4>3, <4>4, <4>5, TransitionMoves DEF m
      <4>7. Refusal(journal[q], journal'[q])
        BY <2>1, <3>2, <4>2, <4>6 DEF Refusal, m
      <4>8. \A r \in Requests : r # q => journal'[r] = Maintained[r]
        BY <2>1, <3>2, <4>6 DEF m
      <4> QED BY <1>m, <4>7, <4>8 DEF RowMoves, RowMove, MaintMove
    <3> QED BY <3>1, <3>2
  <2> HIDE DEF j
  <2>3. WorkerFrame(i)
    BY <1>0, <1>2, <2>1, FrameOf, NotStopped DEF TakeCancel, Reachable, ui
  <2> QED BY <2>2, <2>3
<1>3. ASSUME NEW op \in Sends, TakeSend(i, op) PROVE RowMoves(i) /\ WorkerFrame(i)
  <2>1. RowMoves(i)
    BY <1>3, <1>m DEF TakeSend, RowMoves, RowMove
  <2> DEFINE w == IF Maintained[op.req] # NoRow THEN Pass(Maintained, i, FALSE)
                  ELSE [Resting("admit") EXCEPT !.op = op]
  <2>2. w.pc \in {"idle", "probe", "admit"}
    <3>1. [Resting("admit") EXCEPT !.op = op].pc = "admit"
      BY DEF Resting
    <3> QED BY <3>1, NotStopped
  <2>3. GoTo(i, w)
    BY <1>3 DEF TakeSend
  <2> HIDE DEF w
  <2>4. WorkerFrame(i)
    BY <1>0, <1>3, <2>2, <2>3, FrameOf DEF TakeSend, Reachable, ui
  <2> QED BY <2>1, <2>4
<1>4. ASSUME NEW f \in finished[i], TakeFinished(i, f) PROVE RowMoves(i) /\ WorkerFrame(i)
  <2> DEFINE q == f.req
             m == Maintained[f.req]
             hit == m # NoRow /\ m.state = "dispatching"
             s == IF f.ok THEN "submitted" ELSE "delivery_unknown"
             j == IF hit THEN Transition(Maintained, m, s) ELSE Maintained
  <2>1. journal' = j /\ GoTo(i, Pass(j, i, FALSE)) /\ finished' = [finished EXCEPT ![i] = @ \ {f}]
    BY <1>4 DEF TakeFinished
  <2>2. f.req \in Requests /\ Alive(i)
    BY <1>0, <1>4 DEF Completions, TakeFinished, AtPc
  <2>3. RowMoves(i)
    <3>1. CASE ~hit
      BY <1>m, <2>1, <3>1 DEF RowMoves, RowMove
    <3>2. CASE hit
      <4>1. m # NoRow /\ m \in Row /\ m.state = "dispatching"
        BY <1>m, <2>2, <3>2 DEF Journals
      <4>2. journal[q] # NoRow /\ journal[q].state = "dispatching" /\ m = journal[q]
        BY <1>m, <2>2, <4>1 DEF MaintMove, Lapse, Refusal, Recovery
      <4>3. m.req = q /\ m.inst = i
        BY <2>2, <4>2 DEF IInv, JournalSound, Present, CompletionsSound
      <4>4. SameMessage(Maintained[m.req], m) /\ CasHits(Maintained, m)
        BY <4>1, <4>3 DEF SameMessage, SameTarget, CasHits
      <4>5. s \in States
        BY SettledNames
      <4> HIDE DEF m, s
      <4>6. Moved(m, Transition(Maintained, m, s)[q]) /\ Transition(Maintained, m, s)[q].state = s
            /\ \A r \in Requests : r # q => Transition(Maintained, m, s)[r] = Maintained[r]
        BY <1>0, <1>m, <4>1, <4>3, <4>4, <4>5, TransitionMoves DEF m
      <4>7. Moved(journal[q], journal'[q]) /\ journal'[q].state = s
        BY <2>1, <3>2, <4>2, <4>6 DEF m
      <4>8. finished'[i] = finished[i] \ {f}
        BY <1>0, <2>1
      <4>9. FinishMove(i, journal[q], journal'[q])
        BY <4>1, <4>2, <4>3, <4>7, <4>8 DEF FinishMove, s
      <4>10. \A r \in Requests : r # q => journal'[r] = Maintained[r]
        BY <2>1, <3>2, <4>6 DEF m
      <4> QED BY <1>m, <4>9, <4>10 DEF RowMoves, RowMove
    <3> QED BY <3>1, <3>2
  <2> HIDE DEF j
  <2>4. \A k \in Instances \ {i} : finished'[k] = finished[k]
    BY <1>0, <2>1
  <2>5. finished'[i] \subseteq finished[i]
    BY <1>0, <2>1
  <2>6. WorkerFrame(i)
    BY <1>0, <1>4, <2>1, <2>4, <2>5, FrameOf, NotStopped DEF TakeFinished, AtPc, ui
  <2> QED BY <2>3, <2>6
<1>5. CASE TakeShutdown(i)
  <2>1. worker'[i].pc = "stopped" /\ GoTo(i, Resting("stopped")) /\ Resting("stopped").pc = "stopped"
    BY <1>0, <1>5 DEF TakeShutdown, GoTo, TypeOK, Resting
  <2>2. \A k \in Instances \ {i} : finished'[k] = finished[k]
    BY <1>0, <1>5 DEF TakeShutdown
  <2>3. finished'[i] = {}
    BY <1>0, <1>5 DEF TakeShutdown
  <2>4. WorkerFrame(i)
    BY <1>0, <1>5, <2>1, <2>2, <2>3, FrameOf DEF TakeShutdown, AtPc, ui
  <2>5. ASSUME NEW r \in Requests PROVE RowMove(i, r)
    <3> DEFINE n == [journal[r] EXCEPT !.state = IF @ = "dispatching" THEN "delivery_unknown"
                                                 ELSE "cancelled", !.updated = now]
    <3>1. CASE r \in OwnPending(journal, i)
      <4>1. journal[r] \in Row /\ journal[r] # NoRow /\ journal[r].inst = i
            /\ journal[r].state \in {"queued", "dispatching"}
        BY <1>0, <3>1 DEF OwnPending, PendingIn, Journals, PendingStates
      <4>2. journal'[r] = n
        BY <1>5, <3>1 DEF TakeShutdown, Abandoned
      <4>3. n \in Row
        BY <1>0, <4>1 DEF Row, SettledStates, TypeOK
      <4>4. n # NoRow
        BY <4>3, SentinelAssumption
      <4>5. SameMessage(n, journal[r]) /\ n.updated = now
            /\ n.state = IF journal[r].state = "dispatching" THEN "delivery_unknown" ELSE "cancelled"
        BY <4>1 DEF SameMessage, SameTarget, Row
      <4> HIDE DEF n
      <4> QED BY <2>1, <4>1, <4>2, <4>4, <4>5 DEF RowMove, MaintMove, StopMove, Refusal, Moved
    <3>2. CASE r \notin OwnPending(journal, i)
      BY <1>5, <3>2 DEF TakeShutdown, Abandoned, RowMove, MaintMove
    <3> QED BY <3>1, <3>2
  <2> QED BY <2>4, <2>5 DEF RowMoves
<1> QED BY <1>1, <1>2, <1>3, <1>4, <1>5

\* Admission and insertion.
LEMMA AdmissionMoves ==
  ASSUME IInv, NEW i \in Instances, Admit(i) \/ AdmitRefused(i) \/ Insert(i)
  PROVE  RowMoves(i) /\ WorkerFrame(i)
<1>0. TypeOK /\ journal \in Journals /\ worker[i] \in Workers /\ nextSeq \in Nat
  BY DEF IInv, TypeOK, Journals
<1>1. CASE Admit(i)
  <2> DEFINE w == [worker[i] EXCEPT !.pc = "insert",
                     !.op.guard = [lazy |-> Reason(term[worker[i].op.term]) \in LazyReasons,
                                   uepoch |-> term[worker[i].op.term].uepoch,
                                   block |-> term[worker[i].op.term].block,
                                   mark |-> Len(pty[worker[i].op.term])]]
  <2>1. GoTo(i, w)
    BY <1>1 DEF Admit
  <2>2. w.pc = "insert"
    BY <1>0 DEF Workers
  <2> HIDE DEF w
  <2>3. WorkerFrame(i)
    BY <1>0, <1>1, <2>1, <2>2, FrameOf DEF Admit, AtPc
  <2> QED BY <1>1, <2>3 DEF Admit, RowMoves, RowMove, MaintMove
<1>2. CASE AdmitRefused(i)
  <2>1. WorkerFrame(i)
    BY <1>0, <1>2, FrameOf, NotStopped DEF AdmitRefused, AtPc
  <2> QED BY <1>2, <2>1 DEF AdmitRefused, RowMoves, RowMove, MaintMove
<1>3. CASE Insert(i)
  <2> DEFINE op == worker[i].op
             ok == Insertable(op, i) /\ now + Expiry <= MaxTime
             j == IF ok THEN [journal EXCEPT ![op.req] = NewRow(op, i)] ELSE journal
  <2>1. journal' = j /\ GoTo(i, Pass(j, i, ok)) /\ nextSeq' = IF ok THEN nextSeq + 1 ELSE nextSeq
    BY <1>3 DEF Insert
  <2>2. op \in Ops /\ op.req \in Requests
    BY <1>0, <1>3 DEF Insert, AtPc, TypeOK, Ops
  <2>3. NewRow(op, i) \in Row /\ NewRow(op, i) # NoRow
    BY <1>0, <2>2, NewRowType, SentinelAssumption DEF TypeOK
  <2>4. RowMoves(i)
    <3>1. CASE ok
      <4>1. journal[op.req] = NoRow
        BY <3>1 DEF Insertable, Present
      <4>2. journal'[op.req] = NewRow(op, i) /\ \A r \in Requests : r # op.req => journal'[r] = journal[r]
        BY <1>0, <2>1, <2>2, <3>1 DEF Journals
      <4>3. FreshRow(i, op.req)
        BY <1>3, <2>1, <2>3, <3>1, <4>1, <4>2 DEF FreshRow, NewRow, SameTarget, Insert, AtPc
      <4> QED BY <4>2, <4>3 DEF RowMoves, RowMove, MaintMove
    <3>2. CASE ~ok
      BY <2>1, <3>2 DEF RowMoves, RowMove, MaintMove
    <3> QED BY <3>1, <3>2
  <2> HIDE DEF j, ok
  <2>5. nextSeq' \in {nextSeq, nextSeq + 1}
    BY <2>1
  <2>6. WorkerFrame(i)
    BY <1>0, <1>3, <2>1, <2>5, FrameOf, NotStopped DEF Insert, AtPc, ui
  <2> QED BY <2>4, <2>6
<1> QED BY <1>1, <1>2, <1>3

\* A transition of a snapshot, from queued.
LEMMA SnapshotTransition ==
  ASSUME IInv, NEW i \in Instances, Alive(i), NEW m \in worker[i].todo,
         NEW s \in States, journal' = Transition(journal, m, s)
  PROVE  /\ \A r \in Requests : r # m.req => journal'[r] = journal[r]
         /\ journal'[m.req] = journal[m.req]
            \/ (Moved(journal[m.req], journal'[m.req]) /\ journal[m.req].state = "queued" /\ journal'[m.req].state = s)
<1>0. TypeOK /\ journal \in Journals
  BY DEF IInv, TypeOK, Journals
<1>1. /\ m \in Row /\ m.req \in Requests /\ m.state = "queued"
      /\ SameMessage(journal[m.req], m)
  BY SnapshotRow
<1> QED BY <1>0, <1>1, TransitionMoves

\* The steps of dispatch_pending that write nothing to a terminal.
LEMMA DispatchMoves ==
  ASSUME IInv, NEW i \in Instances, NEW m \in worker[i].todo,
         \/ ProbeStep(i, m) \/ RefuseStep(i, m) \/ ClaimStep(i, m) \/ SettleStep(i, m)
         \/ SendStep(i, m) /\ ~CanSend(i, m)
  PROVE  RowMoves(i) /\ WorkerFrame(i)
<1>0. TypeOK /\ journal \in Journals /\ worker[i] \in Workers
  BY DEF IInv, TypeOK, Journals
<1>a. Alive(i) /\ worker[i].pc # "stopped"
  BY DEF ProbeStep, RefuseStep, ClaimStep, SettleStep, SendStep, AtPc
<1>m. /\ m \in Row /\ m.req \in Requests /\ m.state = "queued" /\ m.inst = i
      /\ journal[m.req] # NoRow /\ journal[m.req] \in Row /\ SameMessage(journal[m.req], m)
      /\ journal[m.req].inst = i /\ journal[m.req].seq = m.seq
  BY <1>a, SnapshotRow
<1>p. \A pc \in {"refuse", "send", "fail", "lose"} : [worker[i] EXCEPT !.pc = pc].pc # "stopped"
  BY <1>0 DEF Workers
<1>1. CASE ProbeStep(i, m)
  <2>1. CASE m.expires <= now
    <3>1. ~(m.expires > now)
      BY <1>0, <1>m, <2>1 DEF Row, TypeOK
    <3>2. journal' = Transition(journal, m, "expired")
          /\ GoTo(i, Advance(Transition(journal, m, "expired"), i, m))
      BY <1>1, <2>1, <3>1 DEF ProbeStep
    <3>3. WorkerFrame(i)
      BY <1>0, <1>1, <1>a, <3>2, FrameOf, NotStopped DEF ProbeStep
    <3> QED BY <1>a, <3>2, <3>3, SnapshotTransition, SettledNames DEF RowMoves, RowMove, MaintMove, Refusal
  <2>2. CASE ~(m.expires <= now)
    <3>1. [worker[i] EXCEPT !.pc = "claim", !.rev = Revision(Started(m.term))].pc = "claim"
      BY <1>0 DEF Workers
    <3>2. PICK w : GoTo(i, w) /\ w.pc # "stopped"
      <4>1. Verdict(i, m) \in {"ready", "wait", "cancel"}
        BY DEF Verdict
      <4>2. CASE Verdict(i, m) = "ready"
        BY <1>1, <2>2, <3>1, <4>2 DEF ProbeStep
      <4>3. CASE Verdict(i, m) = "wait"
        BY <1>1, <2>2, <4>3, NotStopped DEF ProbeStep
      <4>4. CASE Verdict(i, m) = "cancel"
        BY <1>1, <1>p, <2>2, <4>4 DEF ProbeStep
      <4> QED BY <4>1, <4>2, <4>3, <4>4
    <3>3. journal' = journal
      BY <1>1, <2>2 DEF ProbeStep
    <3>4. WorkerFrame(i)
      BY <1>0, <1>1, <1>a, <3>2, FrameOf DEF ProbeStep
    <3> QED BY <3>3, <3>4 DEF RowMoves, RowMove, MaintMove
  <2> QED BY <2>1, <2>2
<1>2. CASE RefuseStep(i, m)
  <2>1. WorkerFrame(i)
    BY <1>0, <1>2, <1>a, FrameOf, NotStopped DEF RefuseStep, ui
  <2>2. journal' = Transition(journal, m, "cancelled")
    BY <1>2 DEF RefuseStep
  <2> QED BY <1>a, <2>1, <2>2, SnapshotTransition, SettledNames DEF RowMoves, RowMove, MaintMove, Refusal
<1>3. CASE ClaimStep(i, m)
  <2>1. PICK w : GoTo(i, w) /\ w.pc # "stopped"
    BY <1>3, <1>p, NotStopped DEF ClaimStep
  <2>2. WorkerFrame(i)
    BY <1>0, <1>3, <1>a, <2>1, FrameOf DEF ClaimStep, ui
  <2>3. journal' = Transition(journal, m, "dispatching")
    BY <1>3 DEF ClaimStep
  <2> QED BY <1>a, <1>m, <2>2, <2>3, SnapshotTransition, SettledNames DEF RowMoves, RowMove, MaintMove, ClaimMove
<1>4. CASE SettleStep(i, m)
  <2> DEFINE row == journal[m.req]
             s == IF worker[i].pc = "fail" THEN "failed" ELSE "delivery_unknown"
  <2>1. journal' = Transition(journal, row, s) /\ GoTo(i, Advance(Transition(journal, row, s), i, m))
    BY <1>4, <1>m DEF SettleStep
  <2>2. WorkerFrame(i)
    BY <1>0, <1>4, <1>a, <2>1, FrameOf, NotStopped DEF SettleStep, ui
  <2>3. row.req = m.req /\ SameMessage(row, row) /\ CasHits(journal, row)
    BY <1>m DEF SameMessage, SameTarget, CasHits
  <2>4. s \in States
    BY SettledNames
  <2>5. row.state = "dispatching" /\ ~Wrote(row.seq)
    BY <1>4, <1>a, <1>m DEF IInv, SnapshotsSound, SettleStep, Holding
  <2>6. /\ \A r \in Requests : r # m.req => journal'[r] = journal[r]
        /\ Moved(row, journal'[m.req]) /\ journal'[m.req].state = s
    BY <1>0, <1>m, <2>1, <2>3, <2>4, TransitionMoves
  <2> QED BY <1>m, <2>2, <2>5, <2>6 DEF RowMoves, RowMove, MaintMove, FailMove
<1>5. CASE SendStep(i, m) /\ ~CanSend(i, m)
  <2>1. PICK w : GoTo(i, w) /\ w.pc # "stopped"
    BY <1>5, <1>p DEF SendStep
  <2>2. UNCHANGED <<journal, nextSeq, now, proc, finished, flight, pty>>
    BY <1>5 DEF SendStep, ui
  <2>3. WorkerFrame(i)
    BY <1>0, <1>a, <2>1, <2>2, FrameOf
  <2> QED BY <2>2, <2>3 DEF RowMoves, RowMove, MaintMove
<1> QED BY <1>1, <1>2, <1>3, <1>4, <1>5

\* Storage errors.
LEMMA FaultMoves ==
  ASSUME IInv, NEW i \in Instances, FaultStep(i)
  PROVE  RowMoves(i) /\ WorkerFrame(i)
<1>0. TypeOK /\ finished \in [Instances -> SUBSET Completions]
      /\ \A r \in Requests : MaintMove(journal[r], Maintained[r])
  BY MaintainedMoves DEF IInv, TypeOK
<1>1. CASE JournalError(i)
  <2>1. PICK w : GoTo(i, w) /\ w.pc # "stopped"
    BY <1>1, NotStopped DEF JournalError
  <2>2. WorkerFrame(i)
    BY <1>0, <1>1, <2>1, FrameOf DEF JournalError, ui
  <2> QED BY <1>1, <2>2 DEF JournalError, RowMoves, RowMove, MaintMove
<1>2. ASSUME NEW f \in finished[i], FinishedError(i, f) PROVE RowMoves(i) /\ WorkerFrame(i)
  <2>1. \A k \in Instances \ {i} : finished'[k] = finished[k]
    BY <1>0, <1>2 DEF FinishedError
  <2>2. finished'[i] \subseteq finished[i]
    BY <1>0, <1>2 DEF FinishedError
  <2>3. WorkerFrame(i)
    BY <1>0, <1>2, <2>1, <2>2, FrameOf, NotStopped DEF FinishedError, AtPc, ui
  <2> QED BY <1>0, <1>2, <2>3 DEF FinishedError, RowMoves, RowMove
<1>3. CASE ShutdownError(i)
  <2>1. \A k \in Instances \ {i} : finished'[k] = finished[k]
    BY <1>0, <1>3 DEF ShutdownError
  <2>2. finished'[i] = {}
    BY <1>0, <1>3 DEF ShutdownError
  <2>3. WorkerFrame(i)
    BY <1>0, <1>3, <2>1, <2>2, FrameOf DEF ShutdownError, AtPc, ui
  <2> QED BY <1>3, <2>3 DEF ShutdownError, RowMoves, RowMove, MaintMove
<1> QED BY <1>1, <1>2, <1>3 DEF FaultStep

-----------------------------------------------------------------------------
(* The invariants over a step of a worker *)

\* What was written stays what it is while nothing is written.
LEMMA SameHistory ==
  ASSUME pty' = pty
  PROVE  /\ \A s : Wrote(s)' <=> Wrote(s)
         /\ \A s : Entered(s)' <=> Entered(s)
BY DEF Wrote, Entered, IsText, IsEnter

\* Types of what the invariants compare.
LEMMA InvTypes ==
  ASSUME TypeOK
  PROVE  /\ now \in Nat /\ nextSeq \in Nat
         /\ \A r \in Requests : journal[r] # NoRow =>
              /\ journal[r] \in Row /\ journal[r].seq \in Nat /\ journal[r].updated \in Nat
              /\ journal[r].inst \in Instances /\ journal[r].req \in Requests
              /\ journal[r].state \in PendingStates \cup SettledStates
         /\ \A i \in Instances : worker[i].since \in Nat /\ worker[i].todo \subseteq Row
         /\ \A i \in Instances : \A c \in finished[i] : c.req \in Requests
         /\ \A t \in Terms : \A f \in flight[t] : f.req \in Requests /\ f.inst \in Instances /\ f.seq \in Nat
BY DEF TypeOK, Row, Workers, Completions, Flights

\* What is in the history of a terminal.
LEMMA HistoryTypes ==
  ASSUME TypeOK, NEW t \in Terms
  PROVE  /\ pty[t] \in Seq(Events) /\ Len(pty[t]) \in Nat /\ DOMAIN pty[t] = 1..Len(pty[t])
         /\ \A k \in DOMAIN pty[t] : pty[t][k] \in Events /\ pty[t][k].seq \in Nat /\ pty[t][k].at \in Nat
<1>1. pty[t] \in Seq(Events)
  BY DEF TypeOK
<1>2. \A k \in DOMAIN pty[t] : pty[t][k] \in Events
  BY <1>1
<1> QED BY <1>1, <1>2 DEF Events

LEMMA HistoryKept ==
  ASSUME TypeOK, HistorySound, pty' = pty, nextSeq' \in {nextSeq, nextSeq + 1}
  PROVE  HistorySound'
<1> SUFFICES ASSUME NEW t \in Terms, NEW k \in DOMAIN pty[t]
             PROVE  pty[t][k].seq < nextSeq' /\ (IsEnter(t, k)' => Wrote(pty[t][k].seq)')
  BY DEF HistorySound
<1>1. pty[t][k].seq \in Nat /\ nextSeq \in Nat
  BY HistoryTypes DEF TypeOK
<1>2. pty[t][k].seq < nextSeq /\ (IsEnter(t, k) => Wrote(pty[t][k].seq))
  BY DEF HistorySound
<1>3. pty[t][k].seq < nextSeq'
  BY <1>1, <1>2
<1>4. IsEnter(t, k)' <=> IsEnter(t, k)
  BY DEF IsEnter
<1> QED BY <1>2, <1>3, <1>4, SameHistory

\* Rows keep their identity, and new ones get a new number.
LEMMA MoveJournalSound ==
  ASSUME IInv, TypeOK', NEW i \in Instances, RowMoves(i), WorkerFrame(i)
  PROVE  JournalSound' /\ HistorySound'
<1>0. TypeOK /\ JournalSound /\ HistorySound /\ now' = now /\ pty' = pty /\ nextSeq' \in {nextSeq, nextSeq + 1}
  BY DEF IInv, WorkerFrame
<1>1. now \in Nat /\ nextSeq \in Nat
  BY <1>0, InvTypes
<1>2. ASSUME NEW r \in Requests, journal'[r] # NoRow
      PROVE  \/ /\ journal[r] # NoRow /\ journal'[r].req = journal[r].req /\ journal'[r].seq = journal[r].seq
                /\ journal'[r].updated \in {now, journal[r].updated}
             \/ FreshRow(i, r)
  BY <1>2 DEF RowMoves, RowMove, MaintMove, Lapse, Moved, Refusal, Recovery, ClaimMove, FailMove,
              FinishMove, StopMove, SameMessage
<1>3. ASSUME NEW r \in Requests, Present(r)
      PROVE  /\ journal[r].req = r /\ journal[r].seq < nextSeq /\ journal[r].updated <= now
             /\ \A q \in Requests : Present(q) /\ journal[q].seq = journal[r].seq => q = r
             /\ journal[r].seq \in Nat
  BY <1>0, <1>3, InvTypes DEF JournalSound, Present
<1>4. CASE \E r \in Requests : FreshRow(i, r)
  <2>1. PICK n \in Requests : FreshRow(i, n)
    BY <1>4
  <2>2. \A q \in Requests : q # n => journal'[q] = journal[q]
    BY <2>1 DEF FreshRow
  <2>3. journal'[n].req = n /\ journal'[n].seq = nextSeq /\ nextSeq' = nextSeq + 1 /\ journal'[n].updated = now
    BY <2>1 DEF FreshRow
  <2>4. JournalSound'
    BY <1>0, <1>1, <1>3, <2>2, <2>3 DEF JournalSound, Present
  <2> QED BY <1>0, <2>4, HistoryKept
<1>5. CASE ~\E r \in Requests : FreshRow(i, r)
  <2>1. JournalSound'
    BY <1>0, <1>1, <1>2, <1>3, <1>5 DEF JournalSound, Present
  <2> QED BY <1>0, <2>1, HistoryKept
<1> QED BY <1>4, <1>5

LEMMA MoveHonest ==
  ASSUME IInv, NEW i \in Instances, Alive(i), RowMoves(i), WorkerFrame(i)
  PROVE  ReceiptHonest' /\ WrittenOnce'
<1>0. TypeOK /\ JournalSound /\ HistorySound /\ ReceiptHonest /\ CompletionsSound /\ WrittenOnce /\ pty' = pty
  BY DEF IInv, WorkerFrame
<1>1. /\ \A s : Wrote(s)' <=> Wrote(s)
      /\ \A s : Entered(s)' <=> Entered(s)
  BY <1>0, SameHistory
<1>2. ~Wrote(nextSeq)
  <2>1. \A t \in Terms : \A k \in DOMAIN pty[t] : pty[t][k].seq \in Nat /\ pty[t][k].seq < nextSeq
    BY <1>0, HistoryTypes DEF HistorySound
  <2> QED BY <2>1 DEF Wrote
<1>3. ASSUME NEW r \in Requests, journal'[r] # NoRow
      PROVE  /\ journal'[r].state \in {"queued", "cancelled", "expired", "failed"} => ~Wrote(journal'[r].seq)
             /\ journal'[r].state = "submitted" => Entered(journal'[r].seq)
  <2>0. journal[r] # NoRow =>
          /\ journal[r].state \in {"queued", "cancelled", "expired", "failed"} => ~Wrote(journal[r].seq)
          /\ journal[r].state = "submitted" => Entered(journal[r].seq)
    BY <1>0 DEF ReceiptHonest, Present
  <2>1. CASE MaintMove(journal[r], journal'[r])
    BY <1>3, <2>0, <2>1 DEF MaintMove, Lapse, Refusal, Recovery, Moved, SameMessage
  <2>2. CASE FreshRow(i, r)
    BY <1>2, <2>2 DEF FreshRow
  <2>3. CASE ClaimMove(i, journal[r], journal'[r])
    BY <2>3 DEF ClaimMove
  <2>4. CASE FailMove(i, journal[r], journal'[r])
    BY <2>4 DEF FailMove, Moved, SameMessage
  <2>5. CASE FinishMove(i, journal[r], journal'[r])
    <3>1. PICK f \in finished[i] : f.req = journal[r].req
                                   /\ journal'[r].state = IF f.ok THEN "submitted" ELSE "delivery_unknown"
      BY <2>5 DEF FinishMove
    <3>2. journal[r].req = r /\ journal'[r].seq = journal[r].seq
      BY <1>0, <2>5 DEF FinishMove, Moved, SameMessage, JournalSound, Present
    <3>3. f.ok => Entered(journal[r].seq)
      BY <1>0, <3>1, <3>2 DEF CompletionsSound
    <3> QED BY <3>1, <3>2, <3>3
  <2>6. CASE StopMove(i, journal[r], journal'[r])
    BY <2>6 DEF StopMove
  <2> QED BY <2>1, <2>2, <2>3, <2>4, <2>5, <2>6 DEF RowMoves, RowMove
<1>4. ReceiptHonest'
  BY <1>1, <1>3 DEF ReceiptHonest, Present
<1>5. WrittenOnce'
  BY <1>0 DEF WrittenOnce, IsText, IsEnter
<1> QED BY <1>4, <1>5

\* A written claim of a live worker that goes on stays open, unless its completion is taken.
LEMMA MoveOpen ==
  ASSUME IInv, NEW i \in Instances, RowMoves(i), WorkerFrame(i),
         NEW r \in Requests, journal[r] # NoRow, journal[r].state = "dispatching", Wrote(journal[r].seq),
         Alive(journal[r].inst), worker'[journal[r].inst].pc # "stopped",
         \A c \in finished[journal[r].inst] : c.req = r => c \in finished'[journal[r].inst]
  PROVE  journal'[r] = journal[r]
<1>0. TypeOK /\ JournalSound /\ journal[r].req = r
  BY DEF IInv, JournalSound, Present
<1>1. CASE FinishMove(i, journal[r], journal'[r])
  BY <1>0, <1>1 DEF FinishMove
<1>2. CASE MaintMove(journal[r], journal'[r])
  BY <1>2 DEF MaintMove, Lapse, Refusal, Recovery, SettledStates
<1> QED BY <1>1, <1>2 DEF RowMoves, RowMove, FreshRow, ClaimMove, FailMove, StopMove

LEMMA MoveCompletions ==
  ASSUME IInv, NEW i \in Instances, RowMoves(i), WorkerFrame(i)
  PROVE  CompletionsSound'
<1>0. TypeOK /\ JournalSound /\ CompletionsSound /\ pty' = pty /\ proc' = proc
  BY DEF IInv, WorkerFrame
<1>1. /\ \A s : Wrote(s)' <=> Wrote(s)
      /\ \A s : Entered(s)' <=> Entered(s)
  BY <1>0, SameHistory
<1>2. \A j \in Instances : Alive(j)' <=> Alive(j)
  BY <1>0 DEF Alive
<1>3. \A j \in Instances : finished'[j] \subseteq finished[j]
  BY DEF WorkerFrame
<1>4. ASSUME NEW j \in Instances, Alive(j) PROVE worker'[j].pc = "stopped" => finished'[j] = {}
  BY <1>0, <1>4 DEF WorkerFrame, CompletionsSound
<1>5. ASSUME NEW j \in Instances, Alive(j), NEW c \in finished'[j]
      PROVE  /\ journal[c.req] # NoRow /\ journal[c.req].inst = j /\ journal[c.req].state = "dispatching"
             /\ Wrote(journal[c.req].seq)
             /\ c.ok => Entered(journal[c.req].seq)
             /\ \A d \in finished'[j] : d.req = c.req => d = c
             /\ journal'[c.req] = journal[c.req]
  <2>1. c \in finished[j] /\ c.req \in Requests
    BY <1>0, <1>3, <1>5, InvTypes
  <2>2. /\ journal[c.req] # NoRow /\ journal[c.req].inst = j /\ journal[c.req].state = "dispatching"
        /\ Wrote(journal[c.req].seq)
        /\ c.ok => Entered(journal[c.req].seq)
        /\ \A d \in finished[j] : d.req = c.req => d = c
    BY <1>0, <1>5, <2>1 DEF CompletionsSound, Present
  <2>3. worker'[j].pc # "stopped"
    BY <1>4, <1>5
  <2>4. journal'[c.req] = journal[c.req]
    BY <1>5, <2>1, <2>2, <2>3, MoveOpen
  <2> QED BY <1>3, <2>2, <2>4
<1> QED BY <1>1, <1>2, <1>4, <1>5 DEF CompletionsSound, Present

LEMMA MoveFlights ==
  ASSUME IInv, NEW i \in Instances, RowMoves(i), WorkerFrame(i)
  PROVE  FlightsSound'
<1>0. TypeOK /\ FlightsSound /\ CompletionsSound /\ pty' = pty /\ proc' = proc /\ flight' = flight
  BY DEF IInv, WorkerFrame
<1>1. /\ \A s : Wrote(s)' <=> Wrote(s)
      /\ \A s : Entered(s)' <=> Entered(s)
      /\ \A j \in Instances : Alive(j)' <=> Alive(j)
  BY <1>0, SameHistory DEF Alive
<1>2. \A j \in Instances : finished'[j] \subseteq finished[j]
                           /\ (worker'[j].pc # "stopped" => worker[j].pc # "stopped")
  BY DEF WorkerFrame
<1>3. ASSUME NEW t \in Terms, NEW f \in flight[t]
      PROVE  /\ Wrote(f.seq) /\ ~Entered(f.seq) /\ InstHome[f.inst] = TermHome[t]
             /\ \A u \in Terms : \A g \in flight[u] : g.seq = f.seq => u = t /\ g = f
             /\ f.inst \in Instances
             /\ Alive(f.inst) /\ worker'[f.inst].pc # "stopped" =>
                  /\ journal'[f.req] # NoRow /\ journal'[f.req].seq = f.seq /\ journal'[f.req].inst = f.inst
                  /\ journal'[f.req].state = "dispatching"
                  /\ \A c \in finished'[f.inst] : c.req # f.req
  <2>1. f.inst \in Instances /\ f.req \in Requests
    BY <1>0, InvTypes
  <2>2. /\ Wrote(f.seq) /\ ~Entered(f.seq) /\ InstHome[f.inst] = TermHome[t]
        /\ \A u \in Terms : \A g \in flight[u] : g.seq = f.seq => u = t /\ g = f
    BY <1>0 DEF FlightsSound
  <2>3. ASSUME Alive(f.inst), worker'[f.inst].pc # "stopped"
        PROVE  /\ journal'[f.req] # NoRow /\ journal'[f.req].seq = f.seq /\ journal'[f.req].inst = f.inst
               /\ journal'[f.req].state = "dispatching"
               /\ \A c \in finished'[f.inst] : c.req # f.req
    <3>1. /\ journal[f.req] # NoRow /\ journal[f.req].seq = f.seq /\ journal[f.req].inst = f.inst
          /\ journal[f.req].state = "dispatching"
          /\ \A c \in finished[f.inst] : c.req # f.req
      BY <1>0, <1>2, <2>1, <2>3 DEF FlightsSound, Present
    <3>2. journal'[f.req] = journal[f.req]
      BY <2>1, <2>2, <2>3, <3>1, MoveOpen
    <3> QED BY <1>2, <2>1, <3>1, <3>2
  <2> QED BY <2>1, <2>2, <2>3
<1> QED BY <1>0, <1>1, <1>3 DEF FlightsSound, Present

\* Nothing that another worker looks at disappears or loses its claim.
LEMMA MoveOthers ==
  ASSUME IInv, NEW i \in Instances, RowMoves(i), WorkerFrame(i),
         NEW j \in Instances, j # i, Alive(j), NEW m \in worker[j].todo
  PROVE  /\ journal'[m.req] # NoRow /\ SameMessage(journal'[m.req], m)
         /\ journal'[m.req].state \in SettledStates => worker[j].since <= journal'[m.req].updated
         /\ journal[m.req].state = "dispatching" => journal'[m.req].state = "dispatching"
<1>0. TypeOK /\ now \in Nat /\ worker[j].since \in Nat
  BY InvTypes DEF IInv
<1>1. /\ m.req \in Requests /\ journal[m.req] # NoRow /\ journal[m.req].inst = j
      /\ SameMessage(journal[m.req], m) /\ journal[m.req].updated \in Nat
      /\ journal[m.req].state \in PendingStates \cup SettledStates
  BY <1>0, SnapshotRow, InvTypes
<1>2. /\ worker[j].since <= now /\ now <= worker[j].since + Retention
      /\ journal[m.req].state \in SettledStates => worker[j].since <= journal[m.req].updated
  BY DEF IInv, SnapshotsSound
<1>3. MaintMove(journal[m.req], journal'[m.req])
  BY <1>1 DEF RowMoves, RowMove, FreshRow, ClaimMove, FailMove, FinishMove, StopMove
<1>4. ~Lapse(journal[m.req], journal'[m.req])
  BY <1>0, <1>1, <1>2, NumbersAssumption DEF Lapse
<1>5. CASE journal'[m.req] = journal[m.req]
  BY <1>1, <1>2, <1>5
<1>6. CASE Refusal(journal[m.req], journal'[m.req])
  BY <1>1, <1>2, <1>6 DEF Refusal, Moved, SameMessage, SameTarget
<1>7. CASE Recovery(journal[m.req], journal'[m.req])
  BY <1>1, <1>7 DEF Recovery
<1> QED BY <1>3, <1>4, <1>5, <1>6, <1>7 DEF MaintMove

\* What worker i looks at after its step: what is left of its pass, or a new one.
OwnWorker(i) ==
  /\ \/ worker'[i].todo \subseteq worker[i].todo /\ worker'[i].since = worker[i].since
     \/ worker'[i].todo = {}
     \/ worker'[i].todo \subseteq Heads(journal', i) /\ worker'[i].since = now
  /\ worker'[i].pc \in Holding =>
       \A m \in worker'[i].todo : First(i, m)' => journal'[m.req].state = "dispatching" /\ ~Wrote(m.seq)

LEMMA PassOwn ==
  ASSUME TypeOK, NEW i \in Instances, NEW again, GoTo(i, Pass(journal', i, again))
  PROVE  OwnWorker(i)
<1>1. worker'[i] = Pass(journal', i, again)
  BY DEF GoTo, TypeOK
<1>2. CASE Heads(journal', i) = {}
  BY <1>1, <1>2 DEF Pass, Resting, OwnWorker, Holding
<1>3. CASE Heads(journal', i) # {}
  <2>1. worker'[i].todo = Heads(journal', i) /\ worker'[i].since = now /\ worker'[i].pc = "probe"
    BY <1>1, <1>3 DEF Pass, Resting
  <2> QED BY <2>1 DEF OwnWorker, Holding
<1> QED BY <1>2, <1>3

LEMMA AdvanceOwn ==
  ASSUME TypeOK, NEW i \in Instances, NEW m, GoTo(i, Advance(journal', i, m))
  PROVE  OwnWorker(i)
<1>1. worker'[i] = Advance(journal', i, m)
  BY DEF GoTo, TypeOK
<1>2. CASE worker[i].todo \ {m} # {}
  <2>1. worker'[i].todo = worker[i].todo \ {m} /\ worker'[i].since = worker[i].since /\ worker'[i].pc = "probe"
    BY <1>1, <1>2 DEF Advance, Resting
  <2> QED BY <2>1 DEF OwnWorker, Holding
<1>3. CASE worker[i].todo \ {m} = {} /\ worker[i].again
  <2>1. GoTo(i, Pass(journal', i, FALSE))
    BY <1>3 DEF Advance
  <2> QED BY <2>1, PassOwn
<1>4. CASE worker[i].todo \ {m} = {} /\ ~worker[i].again
  <2>1. worker'[i] = Resting("idle")
    BY <1>1, <1>4 DEF Advance
  <2> QED BY <2>1 DEF Resting, OwnWorker, Holding
<1> QED BY <1>2, <1>3, <1>4

LEMMA AbortOwn ==
  ASSUME TypeOK, NEW i \in Instances, GoTo(i, Abort(i)), journal' = journal
  PROVE  OwnWorker(i)
<1>1. CASE worker[i].again
  BY <1>1, PassOwn DEF Abort
<1>2. CASE ~worker[i].again
  <2>1. worker'[i] = Resting("idle")
    BY <1>2 DEF Abort, GoTo, TypeOK
  <2> QED BY <2>1 DEF Resting, OwnWorker, Holding
<1> QED BY <1>1, <1>2

LEMMA RestingOwn ==
  ASSUME TypeOK, NEW i \in Instances, NEW w, GoTo(i, w), w.todo = {}
  PROVE  OwnWorker(i)
<1>1. worker'[i] = w
  BY DEF GoTo, TypeOK
<1> QED BY <1>1 DEF OwnWorker

\* The same messages at another position.
LEMMA PositionOwn ==
  ASSUME TypeOK, NEW i \in Instances, NEW w, GoTo(i, w), w.todo = worker[i].todo, w.since = worker[i].since,
         w.pc \in Holding => \A m \in worker[i].todo :
           First(i, m) => journal'[m.req].state = "dispatching" /\ ~Wrote(m.seq)
  PROVE  OwnWorker(i)
<1>1. worker'[i] = w
  BY DEF GoTo, TypeOK
<1>2. \A m : First(i, m)' <=> First(i, m)
  BY <1>1 DEF First
<1> QED BY <1>1, <1>2 DEF OwnWorker

\* The first message of a pass is unique.
LEMMA FirstUnique ==
  ASSUME IInv, NEW i \in Instances, Alive(i), NEW m, NEW o, First(i, m), First(i, o)
  PROVE  m = o
<1>1. m \in worker[i].todo /\ o \in worker[i].todo /\ m.seq <= o.seq /\ o.seq <= m.seq
  BY DEF First
<1>2. m.req \in Requests /\ o.req \in Requests /\ Present(m.req) /\ Present(o.req)
      /\ journal[m.req].seq = m.seq /\ journal[o.req].seq = o.seq /\ m \in Row /\ o \in Row
  BY <1>1, SnapshotRow DEF Present
<1>3. m.seq = o.seq
  BY <1>1, <1>2 DEF Row
<1>4. m.req = o.req
  BY <1>2, <1>3 DEF IInv, JournalSound
<1> QED BY <1>1, <1>4 DEF IInv, SnapshotsSound

\* A command leaves worker i with a new pass, an admission or nothing.
LEMMA TakeOwn ==
  ASSUME IInv, NEW i \in Instances,
         \/ Poll(i)
         \/ \E r \in Requests : TakeCancel(i, r)
         \/ \E op \in Sends : TakeSend(i, op)
         \/ \E f \in finished[i] : TakeFinished(i, f)
         \/ TakeShutdown(i)
  PROVE  OwnWorker(i) /\ Alive(i)
<1>0. TypeOK
  BY DEF IInv
<1>1. CASE Poll(i)
  BY <1>0, <1>1, PassOwn DEF Poll, Reachable
<1>2. ASSUME NEW r \in Requests, TakeCancel(i, r) PROVE OwnWorker(i) /\ Alive(i)
  BY <1>0, <1>2, PassOwn DEF TakeCancel, Reachable
<1>3. ASSUME NEW op \in Sends, TakeSend(i, op) PROVE OwnWorker(i) /\ Alive(i)
  <2>1. CASE Maintained[op.req] # NoRow
    BY <1>0, <1>3, <2>1, PassOwn DEF TakeSend, Reachable
  <2>2. CASE Maintained[op.req] = NoRow
    <3>1. [Resting("admit") EXCEPT !.op = op].todo = {}
      BY DEF Resting
    <3> QED BY <1>0, <1>3, <2>2, <3>1, RestingOwn DEF TakeSend, Reachable
  <2> QED BY <2>1, <2>2
<1>4. ASSUME NEW f \in finished[i], TakeFinished(i, f) PROVE OwnWorker(i) /\ Alive(i)
  BY <1>0, <1>4, PassOwn DEF TakeFinished, AtPc
<1>5. CASE TakeShutdown(i)
  BY <1>0, <1>5, RestingOwn DEF TakeShutdown, AtPc, Resting
<1> QED BY <1>1, <1>2, <1>3, <1>4, <1>5

LEMMA AdmissionOwn ==
  ASSUME IInv, NEW i \in Instances, Admit(i) \/ AdmitRefused(i) \/ Insert(i)
  PROVE  OwnWorker(i) /\ Alive(i)
<1>0. TypeOK /\ worker[i] \in Workers
  BY DEF IInv, TypeOK
<1>1. CASE Admit(i)
  <2> DEFINE w == [worker[i] EXCEPT !.pc = "insert",
                     !.op.guard = [lazy |-> Reason(term[worker[i].op.term]) \in LazyReasons,
                                   uepoch |-> term[worker[i].op.term].uepoch,
                                   block |-> term[worker[i].op.term].block,
                                   mark |-> Len(pty[worker[i].op.term])]]
  <2>1. GoTo(i, w) /\ Alive(i)
    BY <1>1 DEF Admit, AtPc
  <2>2. w.pc = "insert" /\ w.todo = worker[i].todo /\ w.since = worker[i].since
    BY <1>0 DEF Workers
  <2> HIDE DEF w
  <2> QED BY <1>0, <2>1, <2>2, PositionOwn DEF Holding
<1>2. CASE AdmitRefused(i)
  BY <1>0, <1>2, PassOwn DEF AdmitRefused, AtPc
<1>3. CASE Insert(i)
  BY <1>0, <1>3, PassOwn DEF Insert, AtPc
<1> QED BY <1>1, <1>2, <1>3

LEMMA DispatchOwn ==
  ASSUME IInv, NEW i \in Instances, NEW m \in worker[i].todo,
         \/ ProbeStep(i, m) \/ RefuseStep(i, m) \/ ClaimStep(i, m) \/ SettleStep(i, m)
         \/ SendStep(i, m) /\ ~CanSend(i, m)
  PROVE  OwnWorker(i) /\ Alive(i)
<1>0. TypeOK /\ worker[i] \in Workers
  BY DEF IInv, TypeOK
<1>a. Alive(i) /\ First(i, m)
  BY DEF ProbeStep, RefuseStep, ClaimStep, SettleStep, SendStep, AtPc
<1>p. \A pc \in {"refuse", "send", "fail", "lose"} :
        LET w == [worker[i] EXCEPT !.pc = pc]
        IN  w.pc = pc /\ w.todo = worker[i].todo /\ w.since = worker[i].since
  BY <1>0 DEF Workers
<1>u. \A o \in worker[i].todo : First(i, o) => o = m
  BY <1>a, FirstUnique
<1>m. /\ m \in Row /\ m.req \in Requests /\ m.state = "queued" /\ m.inst = i
      /\ journal[m.req] # NoRow /\ journal[m.req] \in Row /\ SameMessage(journal[m.req], m)
      /\ journal[m.req].inst = i /\ journal[m.req].seq = m.seq
  BY <1>a, SnapshotRow
<1>1. CASE ProbeStep(i, m)
  <2>1. CASE m.expires <= now
    <3>1. ~(m.expires > now)
      BY <1>0, <1>m, <2>1 DEF Row, TypeOK
    <3>2. GoTo(i, Advance(journal', i, m))
      BY <1>1, <2>1, <3>1 DEF ProbeStep
    <3> QED BY <1>0, <1>a, <3>2, AdvanceOwn
  <2>2. CASE ~(m.expires <= now)
    <3>0. Verdict(i, m) \in {"ready", "wait", "cancel"}
      BY DEF Verdict
    <3>1. CASE Verdict(i, m) = "ready"
      <4> DEFINE w == [worker[i] EXCEPT !.pc = "claim", !.rev = Revision(Started(m.term))]
      <4>1. GoTo(i, w)
        BY <1>1, <2>2, <3>1 DEF ProbeStep
      <4>2. w.pc = "claim" /\ w.todo = worker[i].todo /\ w.since = worker[i].since
        BY <1>0 DEF Workers
      <4> HIDE DEF w
      <4> QED BY <1>0, <1>a, <4>1, <4>2, PositionOwn DEF Holding
    <3>2. CASE Verdict(i, m) = "wait"
      BY <1>0, <1>1, <1>a, <2>2, <3>2, AdvanceOwn DEF ProbeStep
    <3>3. CASE Verdict(i, m) = "cancel"
      <4>1. GoTo(i, [worker[i] EXCEPT !.pc = "refuse"])
        BY <1>1, <2>2, <3>3 DEF ProbeStep
      <4> QED BY <1>0, <1>a, <1>p, <4>1, PositionOwn DEF Holding
    <3> QED BY <3>0, <3>1, <3>2, <3>3
  <2> QED BY <2>1, <2>2
<1>2. CASE RefuseStep(i, m)
  BY <1>0, <1>2, <1>a, AdvanceOwn DEF RefuseStep
<1>3. CASE ClaimStep(i, m)
  <2>1. CASE CasHits(journal, m)
    <3>1. GoTo(i, [worker[i] EXCEPT !.pc = "send"]) /\ journal' = Transition(journal, m, "dispatching")
      BY <1>3, <2>1 DEF ClaimStep
    <3>2. journal'[m.req].state = "dispatching" /\ journal[m.req].state = "queued"
      <4>1. journal \in Journals /\ "dispatching" \in States
        BY <1>0, SettledNames DEF TypeOK, Journals
      <4> QED BY <1>0, <1>m, <2>1, <3>1, <4>1, TransitionMoves
    <3>3. ~Wrote(m.seq)
      BY <1>m, <3>2 DEF IInv, ReceiptHonest, Present
    <3> QED BY <1>0, <1>a, <1>p, <1>u, <3>1, <3>2, <3>3, PositionOwn
  <2>2. CASE ~CasHits(journal, m)
    <3>1. GoTo(i, Advance(journal, i, m)) /\ journal' = journal
      BY <1>3, <2>2 DEF ClaimStep, Transition
    <3> QED BY <1>0, <1>a, <3>1, AdvanceOwn
  <2> QED BY <2>1, <2>2
<1>4. CASE SettleStep(i, m)
  BY <1>0, <1>4, <1>a, <1>m, AdvanceOwn DEF SettleStep
<1>5. CASE SendStep(i, m) /\ ~CanSend(i, m)
  <2>1. journal' = journal /\ worker[i].pc = "send"
    BY <1>5 DEF SendStep, AtPc
  <2>2. journal[m.req].state = "dispatching" /\ ~Wrote(m.seq)
    BY <1>a, <2>1 DEF IInv, SnapshotsSound, Holding
  <2>3. PICK pc \in {"fail", "lose"} : GoTo(i, [worker[i] EXCEPT !.pc = pc])
    BY <1>5 DEF SendStep
  <2> QED BY <1>0, <1>a, <1>p, <1>u, <2>1, <2>2, <2>3, PositionOwn
<1> QED BY <1>1, <1>2, <1>3, <1>4, <1>5

LEMMA FaultOwn ==
  ASSUME IInv, NEW i \in Instances, FaultStep(i)
  PROVE  OwnWorker(i) /\ Alive(i)
<1>0. TypeOK
  BY DEF IInv
<1>1. CASE JournalError(i)
  BY <1>0, <1>1, PassOwn, AbortOwn DEF JournalError
<1>2. ASSUME NEW f \in finished[i], FinishedError(i, f) PROVE OwnWorker(i) /\ Alive(i)
  BY <1>0, <1>2, PassOwn DEF FinishedError, AtPc
<1>3. CASE ShutdownError(i)
  BY <1>0, <1>3, RestingOwn DEF ShutdownError, AtPc, Resting
<1> QED BY <1>1, <1>2, <1>3 DEF FaultStep

\* The rows of worker i itself stay there while it looks at them.
LEMMA MoveOwn ==
  ASSUME IInv, NEW i \in Instances, Alive(i), RowMoves(i), NEW m \in worker[i].todo
  PROVE  /\ journal'[m.req] # NoRow /\ SameMessage(journal'[m.req], m)
         /\ journal'[m.req].state \in SettledStates => worker[i].since <= journal'[m.req].updated
<1>0. TypeOK /\ now \in Nat /\ worker[i].since \in Nat
  BY InvTypes DEF IInv
<1>1. /\ m.req \in Requests /\ journal[m.req] # NoRow /\ SameMessage(journal[m.req], m)
      /\ journal[m.req].updated \in Nat
  BY <1>0, SnapshotRow, InvTypes
<1>2. /\ worker[i].since <= now /\ now <= worker[i].since + Retention
      /\ journal[m.req].state \in SettledStates => worker[i].since <= journal[m.req].updated
  BY DEF IInv, SnapshotsSound
<1>3. ~Lapse(journal[m.req], journal'[m.req])
  BY <1>0, <1>1, <1>2, NumbersAssumption DEF Lapse
<1>4. CASE journal'[m.req] = journal[m.req]
  BY <1>1, <1>2, <1>4
<1>5. CASE Moved(journal[m.req], journal'[m.req])
  BY <1>1, <1>2, <1>5 DEF Moved, SameMessage, SameTarget
<1> QED BY <1>1, <1>3, <1>4, <1>5
        DEF RowMoves, RowMove, MaintMove, Refusal, Recovery, FreshRow, ClaimMove, FailMove, FinishMove, StopMove

LEMMA MoveSnapshots ==
  ASSUME IInv, TypeOK', JournalSound', NEW i \in Instances, Alive(i), RowMoves(i), WorkerFrame(i), OwnWorker(i)
  PROVE  SnapshotsSound'
<1>0. TypeOK /\ SnapshotsSound /\ now' = now /\ pty' = pty /\ proc' = proc /\ nextSeq' \in {nextSeq, nextSeq + 1}
  BY DEF IInv, WorkerFrame
<1>1. /\ \A s : Wrote(s)' <=> Wrote(s)
      /\ \A j \in Instances : Alive(j)' <=> Alive(j)
  BY <1>0, SameHistory DEF Alive
<1>n. now \in Nat /\ nextSeq \in Nat /\ nextSeq' \in Nat
  BY <1>0, InvTypes DEF TypeOK
<1> SUFFICES ASSUME NEW j \in Instances, Alive(j), NEW m \in worker'[j].todo
             PROVE  /\ worker'[j].since <= now /\ now <= worker'[j].since + Retention
                    /\ m.inst = j /\ m.state = "queued" /\ m.seq < nextSeq'
                    /\ journal'[m.req] # NoRow /\ SameMessage(journal'[m.req], m)
                    /\ journal'[m.req].state \in SettledStates => worker'[j].since <= journal'[m.req].updated
                    /\ \A o \in worker'[j].todo : o.req = m.req => o = m
                    /\ worker'[j].pc \in Holding /\ First(j, m)' =>
                         journal'[m.req].state = "dispatching" /\ ~Wrote(m.seq)
  BY <1>0, <1>1 DEF SnapshotsSound, Present
<1>2. CASE j # i
  <2>1. worker'[j] = worker[j]
    BY <1>2 DEF WorkerFrame
  <2>2. /\ worker[j].since <= now /\ now <= worker[j].since + Retention
        /\ m.inst = j /\ m.state = "queued" /\ m.seq < nextSeq
        /\ \A o \in worker[j].todo : o.req = m.req => o = m
        /\ worker[j].pc \in Holding /\ First(j, m) => journal[m.req].state = "dispatching" /\ ~Wrote(m.seq)
    BY <1>0, <2>1 DEF SnapshotsSound
  <2>3. /\ journal'[m.req] # NoRow /\ SameMessage(journal'[m.req], m)
        /\ journal'[m.req].state \in SettledStates => worker[j].since <= journal'[m.req].updated
        /\ journal[m.req].state = "dispatching" => journal'[m.req].state = "dispatching"
    BY <1>2, <2>1, MoveOthers
  <2>4. First(j, m)' <=> First(j, m)
    BY <2>1 DEF First
  <2>5. m.seq < nextSeq'
    <3>1. m.seq \in Nat
      BY <1>0, <2>1, InvTypes DEF Row
    <3> QED BY <1>0, <1>n, <2>2, <3>1
  <2> QED BY <2>1, <2>2, <2>3, <2>4, <2>5
<1>3. CASE j = i
  <2>h. worker'[i].pc \in Holding /\ First(i, m)' => journal'[m.req].state = "dispatching" /\ ~Wrote(m.seq)
    BY <1>3 DEF OwnWorker
  <2>1. CASE worker'[i].todo \subseteq worker[i].todo /\ worker'[i].since = worker[i].since
    <3>1. m \in worker[i].todo
      BY <1>3, <2>1
    <3>2. /\ worker[i].since <= now /\ now <= worker[i].since + Retention
          /\ m.inst = i /\ m.state = "queued" /\ m.seq < nextSeq
          /\ \A o \in worker[i].todo : o.req = m.req => o = m
      BY <1>0, <1>3, <3>1 DEF SnapshotsSound
    <3>3. /\ journal'[m.req] # NoRow /\ SameMessage(journal'[m.req], m)
          /\ journal'[m.req].state \in SettledStates => worker[i].since <= journal'[m.req].updated
      BY <3>1, MoveOwn
    <3>4. m.seq < nextSeq'
      <4>1. m.seq \in Nat
        BY <1>0, <3>1, InvTypes DEF Row
      <4> QED BY <1>0, <1>n, <3>2, <4>1
    <3> QED BY <1>3, <2>1, <2>h, <3>2, <3>3, <3>4
  <2>2. CASE worker'[i].todo \subseteq Heads(journal', i) /\ worker'[i].since = now
    <3>1. \A o \in worker'[i].todo : \E r \in Requests :
            /\ o = journal'[r] /\ journal'[r] # NoRow /\ journal'[r].inst = i /\ journal'[r].state = "queued"
      BY <2>2 DEF Heads, OwnPending, PendingIn
    <3>2. \A r \in Requests : journal'[r] # NoRow => journal'[r].req = r /\ journal'[r].seq < nextSeq'
      BY DEF JournalSound, Present
    <3>3. PICK r \in Requests :
            /\ m = journal'[r] /\ journal'[r] # NoRow /\ journal'[r].inst = i /\ journal'[r].state = "queued"
      BY <1>3, <3>1
    <3>4. SameMessage(journal'[m.req], m)
      BY <3>2, <3>3 DEF SameMessage, SameTarget
    <3>5. \A o \in worker'[i].todo : o.req = m.req => o = m
      BY <3>1, <3>2, <3>3
    <3>6. now <= now + Retention /\ now <= now
      BY <1>n, NumbersAssumption
    <3>7. "queued" \notin SettledStates
      BY DEF SettledStates
    <3> QED BY <1>3, <2>2, <2>h, <3>2, <3>3, <3>4, <3>5, <3>6, <3>7
  <2>3. CASE worker'[i].todo = {}
    BY <1>3, <2>3
  <2> QED BY <2>1, <2>2, <2>3 DEF OwnWorker
<1> QED BY <1>2, <1>3

\* A step of a worker that writes nothing to a terminal keeps the invariant.
LEMMA WorkerInv ==
  ASSUME IInv, TypeOK', NEW i \in Instances, Alive(i), RowMoves(i), WorkerFrame(i), OwnWorker(i)
  PROVE  IInv'
<1>1. JournalSound' /\ HistorySound'
  BY MoveJournalSound
<1>2. ReceiptHonest' /\ WrittenOnce'
  BY MoveHonest
<1>3. CompletionsSound' /\ FlightsSound'
  BY MoveCompletions, MoveFlights
<1>4. SnapshotsSound'
  BY <1>1, MoveSnapshots
<1> QED BY <1>1, <1>2, <1>3, <1>4 DEF IInv

-----------------------------------------------------------------------------
(* Writing to a terminal *)

Writes(t, e) == pty' = [pty EXCEPT ![t] = Append(@, e)]

\* What a write adds to the history, and what it leaves.
LEMMA WriteEffect ==
  ASSUME TypeOK, NEW t \in Terms, NEW e \in Events, Writes(t, e)
  PROVE  /\ \A u \in Terms : u # t => pty'[u] = pty[u]
         /\ Len(pty[t]) + 1 \in DOMAIN pty'[t] /\ pty'[t][Len(pty[t]) + 1] = e
         /\ \A k \in DOMAIN pty[t] : k \in DOMAIN pty'[t] /\ pty'[t][k] = pty[t][k] /\ k # Len(pty[t]) + 1
         /\ \A k \in DOMAIN pty'[t] : k = Len(pty[t]) + 1 \/ k \in DOMAIN pty[t]
         /\ Len(pty'[t]) = Len(pty[t]) + 1
<1>1. pty \in [Terms -> Seq(Events)] /\ pty[t] \in Seq(Events)
  BY DEF TypeOK
<1>2. pty'[t] = Append(pty[t], e) /\ \A u \in Terms : u # t => pty'[u] = pty[u]
  BY <1>1 DEF Writes
<1>3. Len(pty[t]) \in Nat /\ DOMAIN pty[t] = 1..Len(pty[t])
  BY <1>1
<1>4. /\ Len(Append(pty[t], e)) = Len(pty[t]) + 1
      /\ DOMAIN Append(pty[t], e) = 1..(Len(pty[t]) + 1)
      /\ Append(pty[t], e)[Len(pty[t]) + 1] = e
      /\ \A k \in 1..Len(pty[t]) : Append(pty[t], e)[k] = pty[t][k]
  BY <1>1
<1> QED BY <1>2, <1>3, <1>4

\* The same for every terminal: old places keep their events, the new one has e.
LEMMA WritePlaces ==
  ASSUME TypeOK, NEW t \in Terms, NEW e \in Events, Writes(t, e)
  PROVE  /\ \A u \in Terms : \A k \in DOMAIN pty[u] : k \in DOMAIN pty'[u] /\ pty'[u][k] = pty[u][k]
         /\ \A u \in Terms : \A k \in DOMAIN pty'[u] :
              \/ u = t /\ k = Len(pty[t]) + 1 /\ pty'[u][k] = e
              \/ k \in DOMAIN pty[u] /\ pty'[u][k] = pty[u][k]
         /\ \E k \in DOMAIN pty'[t] : pty'[t][k] = e
BY WriteEffect

LEMMA WriteHistory ==
  ASSUME TypeOK, NEW t \in Terms, NEW e \in Events, Writes(t, e)
  PROVE  /\ \A s : Wrote(s)' <=> Wrote(s) \/ (e.kind = "text" /\ e.seq = s)
         /\ \A s : Entered(s)' <=> Entered(s) \/ (e.kind = "enter" /\ e.seq = s)
BY WritePlaces DEF Wrote, Entered, IsText, IsEnter

LEMMA WriteSound ==
  ASSUME TypeOK, NEW t \in Terms, NEW e \in Events, Writes(t, e), HistorySound, WrittenOnce,
         nextSeq' = nextSeq, e.seq < nextSeq,
         e.kind = "enter" => Wrote(e.seq) /\ ~Entered(e.seq),
         e.kind = "text" => ~Wrote(e.seq)
  PROVE  HistorySound' /\ WrittenOnce'
<1>1. HistorySound'
  <2>0. \A s : Wrote(s) => Wrote(s)'
    BY WriteHistory
  <2> SUFFICES ASSUME NEW u \in Terms, NEW k \in DOMAIN pty'[u]
               PROVE  pty'[u][k].seq < nextSeq /\ (IsEnter(u, k)' => Wrote(pty[u][k].seq)')
    BY DEF HistorySound
  <2> DEFINE x == pty'[u][k]
  <2>w. \A s : Wrote(s)' /\ s = x.seq => Wrote(pty[u][k].seq)'
    BY DEF Wrote
  <2>1. CASE x = e
    <3>1. IsEnter(u, k)' => e.kind = "enter"
      BY <2>1 DEF IsEnter
    <3>2. e.kind = "enter" => Wrote(e.seq)'
      BY <2>0
    <3> QED BY <2>w, <2>1, <3>1, <3>2
  <2>2. CASE k \in DOMAIN pty[u] /\ x = pty[u][k]
    <3>1. IsEnter(u, k)' => IsEnter(u, k)
      BY <2>2 DEF IsEnter
    <3>2. pty[u][k].seq < nextSeq /\ (IsEnter(u, k) => Wrote(pty[u][k].seq))
      BY <2>2 DEF HistorySound
    <3> QED BY <2>w, <2>0, <2>2, <3>1, <3>2
  <2> QED BY <2>1, <2>2, WritePlaces
<1>2. WrittenOnce'
  <2> SUFFICES ASSUME NEW u \in Terms, NEW v \in Terms, NEW k \in DOMAIN pty'[u], NEW l \in DOMAIN pty'[v],
                      pty'[u][k].kind = pty'[v][l].kind, pty'[u][k].kind \in {"text", "enter"},
                      pty'[u][k].seq = pty'[v][l].seq
               PROVE  u = v /\ k = l
    BY DEF WrittenOnce, IsText, IsEnter
  <2>0. \A w \in Terms : \A n \in DOMAIN pty[w] : pty[w][n].kind = e.kind /\ pty[w][n].seq = e.seq => e.kind \notin {"text", "enter"}
    <3>1. e.kind \in {"text", "enter", "human", "plain"}
      BY DEF Events
    <3> QED BY <3>1 DEF Wrote, Entered, IsText, IsEnter
  <2>1. CASE k \in DOMAIN pty[u] /\ pty'[u][k] = pty[u][k] /\ l \in DOMAIN pty[v] /\ pty'[v][l] = pty[v][l]
    BY <2>1 DEF WrittenOnce, IsText, IsEnter
  <2>2. CASE u = t /\ k = Len(pty[t]) + 1 /\ pty'[u][k] = e
    BY <2>0, <2>2, WritePlaces
  <2>3. CASE v = t /\ l = Len(pty[t]) + 1 /\ pty'[v][l] = e
    BY <2>0, <2>3, WritePlaces
  <2> QED BY <2>1, <2>2, <2>3, WritePlaces
<1> QED BY <1>1, <1>2


-----------------------------------------------------------------------------
(* Steps that leave the journal and the workers alone *)

\* Time may pass, processes may end, Enters may be written: rows, snapshots and
\* receipts stay sound.
LEMMA QuietRows ==
  ASSUME IInv, UNCHANGED <<journal, nextSeq, worker>>,
         now' \in Nat, now <= now', \A j \in Instances : Alive(j)' => Alive(j),
         \A j \in Instances : Alive(j) /\ worker[j].todo # {} => now' <= worker[j].since + Retention,
         \A s : Wrote(s)' <=> Wrote(s), \A s : Entered(s) => Entered(s)'
  PROVE  JournalSound' /\ SnapshotsSound' /\ ReceiptHonest'
<1>0. TypeOK /\ JournalSound /\ SnapshotsSound /\ ReceiptHonest
  BY DEF IInv
<1>1. now \in Nat
  BY <1>0, InvTypes
<1>2. JournalSound'
  BY <1>0, <1>1, InvTypes DEF JournalSound, Present
<1>3. ReceiptHonest'
  BY <1>0 DEF ReceiptHonest, Present
<1>4. SnapshotsSound'
  <2> SUFFICES ASSUME NEW i \in Instances, Alive(i), NEW m \in worker[i].todo
               PROVE  /\ worker[i].since <= now' /\ now' <= worker[i].since + Retention
                      /\ m.inst = i /\ m.state = "queued" /\ m.seq < nextSeq
                      /\ journal[m.req] # NoRow /\ SameMessage(journal[m.req], m)
                      /\ journal[m.req].state \in SettledStates => worker[i].since <= journal[m.req].updated
                      /\ \A o \in worker[i].todo : o.req = m.req => o = m
                      /\ worker[i].pc \in Holding /\ First(i, m)' =>
                           journal[m.req].state = "dispatching" /\ ~Wrote(m.seq)
    BY DEF SnapshotsSound, Present
  <2>1. First(i, m)' <=> First(i, m)
    BY DEF First
  <2>2. worker[i].since \in Nat
    BY <1>0, InvTypes
  <2>3. worker[i].since <= now
    BY <1>0 DEF SnapshotsSound
  <2>4. worker[i].since <= now' /\ now' <= worker[i].since + Retention
    BY <1>1, <2>2, <2>3
  <2> QED BY <1>0, <2>1, <2>4 DEF SnapshotsSound, Present
<1> QED BY <1>2, <1>3, <1>4

\* The same for completions and timers, when none of them changes.
LEMMA QuietFlights ==
  ASSUME IInv, UNCHANGED <<journal, worker, finished, flight>>,
         \A j \in Instances : Alive(j)' => Alive(j),
         \A s : Wrote(s)' <=> Wrote(s), \A s : Entered(s)' <=> Entered(s)
  PROVE  CompletionsSound' /\ FlightsSound'
<1>0. TypeOK /\ CompletionsSound /\ FlightsSound
  BY DEF IInv
<1>1. CompletionsSound'
  BY <1>0 DEF CompletionsSound, Present
<1>2. FlightsSound'
  BY <1>0, InvTypes DEF FlightsSound, Present
<1> QED BY <1>1, <1>2

\* Timers of live workers tell requests apart.
LEMMA FlightsApart ==
  ASSUME IInv, NEW t \in Terms, NEW u \in Terms, NEW f \in flight[t], NEW g \in flight[u],
         f.inst = g.inst, Alive(f.inst), worker[f.inst].pc # "stopped", f.req = g.req
  PROVE  t = u /\ f = g
<1>0. TypeOK /\ FlightsSound
  BY DEF IInv
<1>1. journal[f.req].seq = f.seq /\ journal[g.req].seq = g.seq
  BY <1>0 DEF FlightsSound
<1> QED BY <1>0, <1>1 DEF FlightsSound

\* Timers that fire or are dropped hand their completions to live workers.
LEMMA CompletedInv ==
  ASSUME IInv, UNCHANGED <<journal, worker>>, NEW done, NEW ok \in BOOLEAN, Completed(done, ok),
         \A f \in done : \E t \in Terms : f \in flight[t] /\ f \notin flight'[t],
         \A t \in Terms : flight'[t] \subseteq flight[t],
         \A j \in Instances : Alive(j)' => Alive(j),
         \A s : Wrote(s)' <=> Wrote(s), \A s : Entered(s) => Entered(s)',
         \A s : Entered(s)' => Entered(s) \/ \E f \in done : f.seq = s,
         ok => \A f \in done : Entered(f.seq)'
  PROVE  CompletionsSound' /\ FlightsSound'
<1>0. TypeOK /\ CompletionsSound /\ FlightsSound
  BY DEF IInv
<1>1. ASSUME NEW f \in done PROVE \E t \in Terms : f \in flight[t] /\ f.inst \in Instances /\ f.req \in Requests
  BY <1>0, <1>1, InvTypes
<1>2. ASSUME NEW j \in Instances
      PROVE  finished'[j] = IF worker[j].pc = "stopped" THEN finished[j]
                            ELSE finished[j] \cup {[req |-> f.req, ok |-> ok] : f \in {g \in done : g.inst = j}}
  BY DEF Completed
<1>3. ASSUME NEW j \in Instances, NEW c \in finished'[j]
      PROVE  \/ c \in finished[j]
             \/ worker[j].pc # "stopped" /\ \E f \in done : f.inst = j /\ c.req = f.req /\ c.ok = ok /\ c = [req |-> f.req, ok |-> ok]
  <2>1. c \notin finished[j] => /\ worker[j].pc # "stopped"
                               /\ c \in {[req |-> f.req, ok |-> ok] : f \in {g \in done : g.inst = j}}
    BY <1>2, <1>3
  <2>2. \A f : [req |-> f.req, ok |-> ok].req = f.req /\ [req |-> f.req, ok |-> ok].ok = ok
    OBVIOUS
  <2>3. c \notin finished[j] => \E f \in done : f.inst = j /\ c = [req |-> f.req, ok |-> ok]
    BY <2>1
  <2> QED BY <2>1, <2>2, <2>3
<1>4. ASSUME NEW f \in done, NEW u \in Terms, NEW g \in flight[u], f.inst = g.inst, Alive(f.inst),
             worker[f.inst].pc # "stopped", f.req = g.req
      PROVE  f = g
  BY <1>1, <1>4, FlightsApart
<1>5. ASSUME NEW j \in Instances, Alive(j), NEW c \in finished'[j]
      PROVE  /\ worker[j].pc # "stopped"
             /\ journal[c.req] # NoRow /\ journal[c.req].inst = j /\ journal[c.req].state = "dispatching"
             /\ Wrote(journal[c.req].seq)
             /\ c.ok => Entered(journal[c.req].seq)'
             /\ \A d \in finished'[j] : d.req = c.req => d = c
  <2>1. CASE c \in finished[j]
    <3>1. /\ worker[j].pc # "stopped"
          /\ journal[c.req] # NoRow /\ journal[c.req].inst = j /\ journal[c.req].state = "dispatching"
          /\ Wrote(journal[c.req].seq)
          /\ c.ok => Entered(journal[c.req].seq)
          /\ \A d \in finished[j] : d.req = c.req => d = c
      BY <1>0, <1>5, <2>1 DEF CompletionsSound, Present
    <3>2. \A d \in finished'[j] : d.req = c.req => d = c
      <4> SUFFICES ASSUME NEW d \in finished'[j], d.req = c.req, d \notin finished[j] PROVE FALSE
        BY <3>1
      <4>1. PICK f \in done : f.inst = j /\ d.req = f.req
        BY <1>3
      <4>2. PICK t \in Terms : f \in flight[t]
        BY <1>1
      <4>3. \A x \in finished[j] : x.req # f.req
        BY <1>0, <1>5, <3>1, <4>1, <4>2 DEF FlightsSound
      <4> QED BY <2>1, <4>1, <4>3
    <3>3. Entered(journal[c.req].seq) => Entered(journal[c.req].seq)'
      BY DEF Entered
    <3> QED BY <3>1, <3>2, <3>3
  <2>2. CASE c \notin finished[j]
    <3>1. PICK f \in done : worker[j].pc # "stopped" /\ f.inst = j /\ c.req = f.req /\ c.ok = ok /\ c = [req |-> f.req, ok |-> ok]
      BY <1>3, <1>5, <2>2
    <3>2. PICK t \in Terms : f \in flight[t]
      BY <1>1
    <3>3. /\ journal[f.req] # NoRow /\ journal[f.req].seq = f.seq /\ journal[f.req].inst = j
          /\ journal[f.req].state = "dispatching" /\ Wrote(f.seq)
          /\ \A x \in finished[j] : x.req # f.req
      BY <1>0, <1>5, <3>1, <3>2 DEF FlightsSound, Present
    <3>4. \A d \in finished'[j] : d.req = c.req => d = c
      <4> SUFFICES ASSUME NEW d \in finished'[j], d.req = c.req PROVE d = c
        OBVIOUS
      <4>1. PICK g \in done : g.inst = j /\ d = [req |-> g.req, ok |-> ok] /\ d.req = g.req
        BY <1>3, <3>1, <3>3
      <4>2. g.req = f.req
        BY <3>1, <4>1
      <4> QED BY <3>1, <4>1, <4>2
    <3>5. c.ok => Entered(journal[c.req].seq)'
      <4>1. c.ok => Entered(f.seq)'
        BY <3>1
      <4>2. journal'[c.req].seq = f.seq
        BY <3>1, <3>3
      <4> QED BY <4>1, <4>2 DEF Entered
    <3> QED BY <3>1, <3>3, <3>4, <3>5
  <2> QED BY <2>1, <2>2
<1>6. CompletionsSound'
  <2>1. \A j \in Instances : worker[j].pc = "stopped" => finished'[j] = finished[j]
    BY <1>2
  <2> SUFFICES ASSUME NEW j \in Instances, Alive(j)
               PROVE /\ worker[j].pc = "stopped" => finished'[j] = {}
                     /\ \A c \in finished'[j] :
                         /\ journal[c.req] # NoRow /\ journal[c.req].inst = j /\ journal[c.req].state = "dispatching"
                         /\ Wrote(journal[c.req].seq)
                         /\ c.ok => Entered(journal[c.req].seq)'
                         /\ \A d \in finished'[j] : d.req = c.req => d = c
    BY DEF CompletionsSound, Present
  <2> QED BY <1>0, <1>5, <2>1 DEF CompletionsSound
<1>7. FlightsSound'
  <2> SUFFICES ASSUME NEW t \in Terms, NEW g \in flight'[t]
               PROVE  /\ Wrote(g.seq) /\ ~Entered(g.seq)'
                      /\ InstHome[g.inst] = TermHome[t]
                      /\ \A u \in Terms : \A h \in flight'[u] : h.seq = g.seq => u = t /\ h = g
                      /\ Alive(g.inst)' /\ worker[g.inst].pc # "stopped" =>
                           /\ journal[g.req] # NoRow /\ journal[g.req].seq = g.seq /\ journal[g.req].inst = g.inst
                           /\ journal[g.req].state = "dispatching"
                           /\ \A c \in finished'[g.inst] : c.req # g.req
    BY DEF FlightsSound, Present
  <2>1. g \in flight[t] /\ g.inst \in Instances /\ \A u \in Terms : flight'[u] \subseteq flight[u]
    BY <1>0, InvTypes
  <2>2. /\ Wrote(g.seq) /\ ~Entered(g.seq) /\ InstHome[g.inst] = TermHome[t]
        /\ \A u \in Terms : \A h \in flight[u] : h.seq = g.seq => u = t /\ h = g
    BY <1>0, <2>1 DEF FlightsSound
  <2>3. \A f \in done : f # g
    BY <2>2
  <2>4. ~Entered(g.seq)'
    <3>1. \A f \in done : f.seq # g.seq
      BY <2>2, <2>3
    <3> QED BY <2>2, <3>1
  <2>5. ASSUME Alive(g.inst), worker[g.inst].pc # "stopped"
        PROVE  /\ journal[g.req] # NoRow /\ journal[g.req].seq = g.seq /\ journal[g.req].inst = g.inst
               /\ journal[g.req].state = "dispatching"
               /\ \A c \in finished'[g.inst] : c.req # g.req
    <3>1. /\ journal[g.req] # NoRow /\ journal[g.req].seq = g.seq /\ journal[g.req].inst = g.inst
          /\ journal[g.req].state = "dispatching" /\ \A c \in finished[g.inst] : c.req # g.req
      BY <1>0, <2>1, <2>5 DEF FlightsSound, Present
    <3>2. ASSUME NEW c \in finished'[g.inst], c.req = g.req, c \notin finished[g.inst] PROVE FALSE
      <4>1. PICK f \in done : f.inst = g.inst /\ c.req = f.req
        BY <1>3, <2>1, <3>2
      <4>2. f = g
        BY <1>4, <2>1, <2>5, <3>2, <4>1
      <4> QED BY <2>3, <4>2
    <3> QED BY <3>1, <3>2
  <2> QED BY <2>1, <2>2, <2>4, <2>5
<1> QED BY <1>6, <1>7


-----------------------------------------------------------------------------
(* The second hop inserts the text *)

\* The timer that the insertion leaves behind, and what else it does to the terminal.
Timer(i, m) == [req |-> m.req, seq |-> m.seq, inst |-> i, conv |-> term[m.term].conv,
                epoch |-> term[m.term].epoch, block |-> term[m.term].block]

Inserts(i, m) ==
  /\ flight' = [flight EXCEPT ![m.term] = @ \cup {Timer(i, m)}]
  /\ term' = [term EXCEPT ![m.term].pending = TRUE]

\* What the worker knows when it inserts a text.
LEMMA SendFacts ==
  ASSUME IInv, NEW i \in Instances, NEW m \in worker[i].todo, SendStep(i, m), CanSend(i, m)
  PROVE  /\ Alive(i) /\ First(i, m) /\ worker[i].pc = "send" /\ proc[InstHome[i]] = "up"
         /\ m \in Row /\ m.term \in Terms /\ m.req \in Requests /\ m.inst = i /\ m.seq < nextSeq
         /\ Present(m.req) /\ journal[m.req].inst = i /\ journal[m.req].seq = m.seq
         /\ journal[m.req].state = "dispatching" /\ ~Wrote(m.seq)
         /\ Resolves(i, m) /\ GuardHolds(m, term[m.term]) /\ Reason(term[m.term]) = "none"
         /\ TextEvent(m) \in Events /\ Writes(m.term, TextEvent(m))
         /\ Inserts(i, m) /\ GoTo(i, Advance(journal, i, m))
         /\ UNCHANGED <<journal, nextSeq, now, proc, bridge, shut, finished, faults>>
<1>0. TypeOK /\ SnapshotsSound
  BY DEF IInv
<1>1. Alive(i) /\ First(i, m) /\ worker[i].pc = "send"
  BY DEF SendStep, AtPc
<1>2. m \in Row /\ m.term \in Terms /\ m.req \in Requests
  BY <1>0, SnapshotType
<1>3. /\ Present(m.req) /\ journal[m.req].inst = i /\ journal[m.req].seq = m.seq /\ m.seq < nextSeq
      /\ m.inst = i /\ journal[m.req].state = "dispatching" /\ ~Wrote(m.seq)
  BY <1>0, <1>1 DEF SnapshotsSound, Holding, SameMessage
<1>4. Resolves(i, m) /\ GuardHolds(m, Started(m.term)) /\ Reason(Started(m.term)) = "none"
  BY DEF CanSend, Verdict
<1>5. proc[InstHome[i]] = "up"
  BY <1>4 DEF Resolves
<1>6. Started(m.term) = term[m.term]
  <2>1. CASE term[m.term].phase = "deferred" /\ m.term \notin Managed
    <3>1. Started(m.term).phase = "starting"
      BY <1>0, <1>2, <2>1 DEF Started, TypeOK, Terminal
    <3> QED BY <1>4, <3>1 DEF Reason
  <2> QED BY <2>1 DEF Started
<1>7. TextEvent(m) \in Events
  BY <1>0, <1>2 DEF TextEvent, Events, Row, Guards, TypeOK, Terminal
<1>8. Inserts(i, m) /\ Writes(m.term, TextEvent(m)) /\ GoTo(i, Advance(journal, i, m))
  BY <1>5 DEF SendStep, Writes, Inserts, Timer
<1>9. UNCHANGED <<journal, nextSeq, now, proc, bridge, shut, finished, faults>>
  BY DEF SendStep
<1> QED BY <1>1, <1>2, <1>3, <1>4, <1>5, <1>6, <1>7, <1>8, <1>9

\* The text of one open claim enters the history; nothing else does.
LEMMA SendHistory ==
  ASSUME IInv, NEW i \in Instances, NEW m \in worker[i].todo, SendStep(i, m), CanSend(i, m)
  PROVE  /\ \A s : Wrote(s)' <=> Wrote(s) \/ s = m.seq
         /\ \A s : Entered(s)' <=> Entered(s)
         /\ HistorySound' /\ WrittenOnce'
<1>0. TypeOK /\ HistorySound /\ WrittenOnce
  BY DEF IInv
<1>1. /\ m.term \in Terms /\ TextEvent(m) \in Events /\ Writes(m.term, TextEvent(m)) /\ nextSeq' = nextSeq
      /\ m.seq < nextSeq /\ ~Wrote(m.seq)
  BY SendFacts
<1>2. TextEvent(m).kind = "text" /\ TextEvent(m).seq = m.seq
  BY DEF TextEvent
<1>3. HistorySound' /\ WrittenOnce'
  BY <1>0, <1>1, <1>2, WriteSound
<1>4. /\ \A s : Wrote(s)' <=> Wrote(s) \/ (TextEvent(m).kind = "text" /\ TextEvent(m).seq = s)
      /\ \A s : Entered(s)' <=> Entered(s) \/ (TextEvent(m).kind = "enter" /\ TextEvent(m).seq = s)
  BY <1>0, <1>1, WriteHistory
<1> QED BY <1>2, <1>3, <1>4

LEMMA SendSnapshots ==
  ASSUME IInv, NEW i \in Instances, NEW m \in worker[i].todo, SendStep(i, m), CanSend(i, m)
  PROVE  SnapshotsSound'
<1>0. TypeOK /\ SnapshotsSound /\ JournalSound
  BY DEF IInv
<1>1. /\ Alive(i) /\ First(i, m) /\ GoTo(i, Advance(journal, i, m))
      /\ m.req \in Requests /\ journal[m.req] # NoRow /\ journal[m.req].inst = i /\ journal[m.req].seq = m.seq
      /\ UNCHANGED <<journal, nextSeq, now, proc>>
  BY SendFacts DEF Present
<1>2. \A s : Wrote(s)' <=> Wrote(s) \/ s = m.seq
  BY SendHistory
<1>3. OwnWorker(i)
  BY <1>0, <1>1, AdvanceOwn
<1>4. \A j \in Instances : j # i => worker'[j] = worker[j]
  BY <1>0, <1>1 DEF GoTo, TypeOK
<1>5. worker'[i].pc \notin Holding
  BY <1>0, <1>1, NotStopped DEF GoTo, TypeOK, Holding
<1>n. now \in Nat
  BY <1>0, InvTypes
<1> SUFFICES ASSUME NEW j \in Instances, Alive(j), NEW o \in worker'[j].todo
             PROVE  /\ worker'[j].since <= now /\ now <= worker'[j].since + Retention
                    /\ o.inst = j /\ o.state = "queued" /\ o.seq < nextSeq
                    /\ journal[o.req] # NoRow /\ SameMessage(journal[o.req], o)
                    /\ journal[o.req].state \in SettledStates => worker'[j].since <= journal[o.req].updated
                    /\ \A x \in worker'[j].todo : x.req = o.req => x = o
                    /\ worker'[j].pc \in Holding /\ First(j, o)' =>
                         journal[o.req].state = "dispatching" /\ ~Wrote(o.seq)'
  <2>1. \A j \in Instances : Alive(j)' <=> Alive(j)
    BY <1>1 DEF Alive
  <2> QED BY <1>1, <2>1 DEF SnapshotsSound, Present
<1>6. CASE j # i
  <2>1. worker'[j] = worker[j] /\ (First(j, o)' <=> First(j, o))
    BY <1>4, <1>6 DEF First
  <2>2. /\ o.req \in Requests /\ journal[o.req] # NoRow /\ journal[o.req].inst = j /\ journal[o.req].seq = o.seq
    BY <2>1, SnapshotRow
  <2>3. o.seq # m.seq
    BY <1>0, <1>1, <1>6, <2>2 DEF JournalSound, Present
  <2> QED BY <1>0, <1>2, <2>1, <2>3 DEF SnapshotsSound, Present
<1>7. CASE j = i
  <2>1. CASE worker'[i].todo \subseteq worker[i].todo /\ worker'[i].since = worker[i].since
    BY <1>0, <1>5, <1>7, <2>1 DEF SnapshotsSound, Present
  <2>2. CASE worker'[i].todo \subseteq Heads(journal', i) /\ worker'[i].since = now
    <3>1. \A x \in worker'[i].todo : \E r \in Requests :
            /\ x = journal[r] /\ journal[r] # NoRow /\ journal[r].inst = i /\ journal[r].state = "queued"
      BY <1>1, <2>2 DEF Heads, OwnPending, PendingIn
    <3>2. \A r \in Requests : journal[r] # NoRow => journal[r].req = r /\ journal[r].seq < nextSeq
      BY <1>0 DEF JournalSound, Present
    <3>3. PICK r \in Requests :
            /\ o = journal[r] /\ journal[r] # NoRow /\ journal[r].inst = i /\ journal[r].state = "queued"
      BY <1>7, <3>1
    <3>4. SameMessage(journal[o.req], o)
      BY <3>2, <3>3 DEF SameMessage, SameTarget
    <3>5. \A x \in worker'[i].todo : x.req = o.req => x = o
      BY <3>1, <3>2, <3>3
    <3>6. now <= now + Retention /\ now <= now
      BY <1>n, NumbersAssumption
    <3>7. "queued" \notin SettledStates
      BY DEF SettledStates
    <3> QED BY <1>5, <1>7, <2>2, <3>2, <3>3, <3>4, <3>5, <3>6, <3>7
  <2>3. CASE worker'[i].todo = {}
    BY <1>7, <2>3
  <2> QED BY <1>3, <2>1, <2>2, <2>3 DEF OwnWorker
<1> QED BY <1>6, <1>7

LEMMA SendInv ==
  ASSUME IInv, TypeOK', NEW i \in Instances, NEW m \in worker[i].todo, SendStep(i, m), CanSend(i, m)
  PROVE  IInv'
<1> DEFINE n == Timer(i, m)
<1>0. /\ TypeOK /\ JournalSound /\ HistorySound /\ CompletionsSound /\ FlightsSound /\ ReceiptHonest
      /\ flight \in [Terms -> SUBSET Flights]
  BY DEF IInv, TypeOK
<1>1. /\ Alive(i) /\ worker[i].pc = "send" /\ m.term \in Terms /\ m.req \in Requests
      /\ Present(m.req) /\ journal[m.req].inst = i /\ journal[m.req].seq = m.seq
      /\ journal[m.req].state = "dispatching" /\ ~Wrote(m.seq) /\ Resolves(i, m)
      /\ Inserts(i, m) /\ GoTo(i, Advance(journal, i, m))
      /\ UNCHANGED <<journal, nextSeq, now, proc, finished>>
  BY SendFacts
<1>2. /\ \A s : Wrote(s)' <=> Wrote(s) \/ s = m.seq
      /\ \A s : Entered(s)' <=> Entered(s)
      /\ HistorySound' /\ WrittenOnce' /\ SnapshotsSound'
  BY SendHistory, SendSnapshots
<1>3. \A j \in Instances : (Alive(j)' <=> Alive(j)) /\ (worker'[j].pc # "stopped" <=> worker[j].pc # "stopped")
  <2>1. worker'[i] = Advance(journal, i, m) /\ \A j \in Instances : j # i => worker'[j] = worker[j]
    BY <1>0, <1>1 DEF GoTo, TypeOK
  <2>2. worker'[i].pc # "stopped"
    BY <2>1, NotStopped
  <2> QED BY <1>1, <2>1, <2>2 DEF Alive
<1>4. JournalSound'
  BY <1>0, <1>1 DEF JournalSound, Present
<1>5. ReceiptHonest'
  <2>1. \A r \in Requests : Present(r) /\ journal[r].seq = m.seq => r = m.req
    BY <1>0, <1>1 DEF JournalSound
  <2> QED BY <1>0, <1>1, <1>2, <2>1 DEF ReceiptHonest, Present
<1>6. CompletionsSound'
  BY <1>0, <1>1, <1>2, <1>3 DEF CompletionsSound, Present
<1>7. FlightsSound'
  <2>1. ~Entered(m.seq)
    BY <1>0, <1>1 DEF HistorySound, Entered
  <2>2. \A c \in finished[i] : c.req # m.req
    BY <1>0, <1>1 DEF CompletionsSound
  <2>3. InstHome[i] = TermHome[m.term]
    BY <1>1 DEF Resolves
  <2>4. n.req = m.req /\ n.seq = m.seq /\ n.inst = i
    BY DEF Timer
  <2> HIDE DEF n
  <2>5. /\ flight'[m.term] = flight[m.term] \cup {n}
        /\ \A u \in Terms : u # m.term => flight'[u] = flight[u]
    BY <1>0, <1>1 DEF n, Inserts
  <2>6. \A u \in Terms : \A g \in flight[u] : g.seq # m.seq /\ g.inst \in Instances
    BY <1>0, <1>1, InvTypes DEF FlightsSound
  <2>7. \A u \in Terms : \A g \in flight'[u] : g \in flight[u] \/ (u = m.term /\ g = n)
    BY <2>5
  <2> SUFFICES ASSUME NEW t \in Terms, NEW f \in flight'[t]
               PROVE  /\ Wrote(f.seq)' /\ ~Entered(f.seq)
                      /\ InstHome[f.inst] = TermHome[t]
                      /\ \A u \in Terms : \A g \in flight'[u] : g.seq = f.seq => u = t /\ g = f
                      /\ Alive(f.inst)' /\ worker'[f.inst].pc # "stopped" =>
                           /\ journal[f.req] # NoRow /\ journal[f.req].seq = f.seq /\ journal[f.req].inst = f.inst
                           /\ journal[f.req].state = "dispatching"
                           /\ \A c \in finished[f.inst] : c.req # f.req
    BY <1>1, <1>2 DEF FlightsSound, Present
  <2>8. CASE f \in flight[t]
    BY <1>0, <1>2, <1>3, <2>4, <2>6, <2>7, <2>8 DEF FlightsSound, Present
  <2>9. CASE t = m.term /\ f = n
    <3>1. \A u \in Terms : \A g \in flight'[u] : g.seq = f.seq => u = t /\ g = f
      BY <2>4, <2>6, <2>7, <2>9
    <3> QED BY <1>1, <1>2, <2>1, <2>2, <2>3, <2>4, <2>9, <3>1 DEF Present
  <2> QED BY <2>7, <2>8, <2>9
<1> QED BY <1>2, <1>4, <1>5, <1>6, <1>7 DEF IInv


-----------------------------------------------------------------------------
(* Terminals, processes and the clock *)

\* A step that leaves the journal, the workers, the timers and the written messages.
LEMMA QuietInv ==
  ASSUME IInv, TypeOK', UNCHANGED <<journal, nextSeq, worker, finished, flight>>,
         now <= now', \A j \in Instances : Alive(j)' => Alive(j),
         \A j \in Instances : Alive(j) /\ worker[j].todo # {} => now' <= worker[j].since + Retention,
         \A s : Wrote(s)' <=> Wrote(s), \A s : Entered(s)' <=> Entered(s),
         HistorySound' /\ WrittenOnce'
  PROVE  IInv'
<1>1. now' \in Nat
  BY DEF TypeOK
<1>2. JournalSound' /\ SnapshotsSound' /\ ReceiptHonest'
  BY <1>1, QuietRows
<1>3. CompletionsSound' /\ FlightsSound'
  BY QuietFlights
<1> QED BY <1>2, <1>3 DEF IInv

\* The time that a pass has left before the clock moves.
LEMMA SameTime ==
  ASSUME IInv, now' = now
  PROVE  /\ now <= now'
         /\ \A j \in Instances : Alive(j) /\ worker[j].todo # {} => now' <= worker[j].since + Retention
BY InvTypes DEF IInv, SnapshotsSound

\* Keystrokes are written to a terminal; they are nobody's message.
LEMMA HumanInv ==
  ASSUME IInv, TypeOK', NEW t \in Terms, HumanInput(t) \/ PlainInput(t) \/ Interrupt(t)
  PROVE  IInv'
<1>0. TypeOK /\ HistorySound /\ WrittenOnce /\ nextSeq > 0
  BY DEF IInv, JournalSound
<1>1. PICK kind \in {"human", "plain"} :
        Writes(t, Typed(kind)) /\ UNCHANGED <<journal, nextSeq, now, proc, worker, finished, flight>>
  BY DEF HumanInput, PlainInput, Interrupt, OnlyTerm, Writes
<1>2. Typed(kind) \in Events /\ Typed(kind).kind = kind /\ Typed(kind).seq < nextSeq
  BY <1>0 DEF Typed, Events, TypeOK
<1>3. HistorySound' /\ WrittenOnce'
  BY <1>0, <1>1, <1>2, WriteSound
<1>4. /\ \A s : Wrote(s)' <=> Wrote(s)
      /\ \A s : Entered(s)' <=> Entered(s)
  BY <1>0, <1>1, <1>2, WriteHistory
<1>5. \A j \in Instances : Alive(j)' => Alive(j)
  BY <1>1 DEF Alive
<1> QED BY <1>1, <1>3, <1>4, <1>5, SameTime, QuietInv

\* A step that writes nothing and changes neither rows nor timers.
LEMMA SilentInv ==
  ASSUME IInv, TypeOK', UNCHANGED <<journal, nextSeq, now, worker, finished, flight, pty>>,
         \A j \in Instances : Alive(j)' => Alive(j)
  PROVE  IInv'
<1>1. HistorySound' /\ WrittenOnce'
  BY DEF IInv, HistorySound, WrittenOnce, Wrote, IsText, IsEnter
<1> QED BY <1>1, SameHistory, SameTime, QuietInv

LEMMA SetTermInv ==
  ASSUME IInv, TypeOK', NEW t \in Terms, NEW s, SetTerm(t, s)
  PROVE  IInv'
BY SilentInv DEF SetTerm, OnlyTerm, Alive

\* Timers that fire or are dropped.
LEMMA DoneInv ==
  ASSUME IInv, TypeOK', UNCHANGED <<journal, nextSeq, now, worker>>,
         NEW done, NEW ok \in BOOLEAN, Completed(done, ok),
         \A f \in done : \E t \in Terms : f \in flight[t] /\ f \notin flight'[t],
         \A t \in Terms : flight'[t] \subseteq flight[t],
         \A j \in Instances : Alive(j)' => Alive(j),
         \A s : Wrote(s)' <=> Wrote(s), \A s : Entered(s) => Entered(s)',
         \A s : Entered(s)' => Entered(s) \/ \E f \in done : f.seq = s,
         ok => \A f \in done : Entered(f.seq)',
         HistorySound' /\ WrittenOnce'
  PROVE  IInv'
<1>1. now' \in Nat
  BY DEF TypeOK
<1>2. JournalSound' /\ SnapshotsSound' /\ ReceiptHonest'
  BY <1>1, SameTime, QuietRows
<1>3. CompletionsSound' /\ FlightsSound'
  BY CompletedInv
<1> QED BY <1>2, <1>3 DEF IInv

EnterEvent(f) == [kind |-> "enter", seq |-> f.seq, req |-> f.req, at |-> now, lazy |-> FALSE, mark |-> 0]

\* What the timer does.
LEMMA EnterFacts ==
  ASSUME IInv, NEW t \in Terms, NEW f \in flight[t], EnterFires(t, f)
  PROVE  /\ f.seq < nextSeq /\ Wrote(f.seq) /\ ~Entered(f.seq) /\ EnterEvent(f) \in Events
         /\ UNCHANGED <<journal, nextSeq, now, proc, bridge, worker, shut>>
         /\ f \notin flight'[t] /\ \A u \in Terms : flight'[u] \subseteq flight[u]
         /\ \/ EnterValid(t, f) /\ Writes(t, EnterEvent(f)) /\ Completed({f}, TRUE)
            \/ ~EnterValid(t, f) /\ pty' = pty /\ Completed({f}, FALSE)
<1>0. TypeOK /\ FlightsSound /\ HistorySound /\ flight \in [Terms -> SUBSET Flights] /\ f \in Flights
  BY DEF IInv, TypeOK
<1>1. Wrote(f.seq) /\ ~Entered(f.seq)
  BY <1>0 DEF FlightsSound
<1>2. f.seq < nextSeq
  BY <1>0, <1>1 DEF HistorySound, Wrote
<1>3. EnterEvent(f) \in Events
  BY <1>0 DEF EnterEvent, Events, Flights, TypeOK
<1>4. UNCHANGED <<journal, nextSeq, now, proc, bridge, worker, shut>> /\ flight' = [flight EXCEPT ![t] = @ \ {f}]
  BY DEF EnterFires
<1>5. f \notin flight'[t] /\ \A u \in Terms : flight'[u] \subseteq flight[u]
  BY <1>0, <1>4
<1>6. CASE EnterValid(t, f)
  <2>1. pty' = [pty EXCEPT ![t] = Append(@, EnterEvent(f))] /\ Completed({f}, EnterValid(t, f))
    BY <1>6 DEF EnterFires, EnterEvent
  <2>2. Completed({f}, TRUE)
    <3>1. EnterValid(t, f) = TRUE
      BY <1>6
    <3> QED BY <2>1, <3>1
  <2> QED BY <1>1, <1>2, <1>3, <1>4, <1>5, <1>6, <2>1, <2>2 DEF Writes
<1>7. CASE ~EnterValid(t, f)
  <2>1. pty' = pty /\ Completed({f}, EnterValid(t, f))
    BY <1>7 DEF EnterFires
  <2>2. EnterValid(t, f) = FALSE
    BY <1>7 DEF EnterValid
  <2>3. Completed({f}, FALSE)
    BY <2>1, <2>2
  <2> QED BY <1>1, <1>2, <1>3, <1>4, <1>5, <1>7, <2>1, <2>3
<1> QED BY <1>6, <1>7

LEMMA EnterInv ==
  ASSUME IInv, TypeOK', NEW t \in Terms, NEW f \in flight[t], EnterFires(t, f)
  PROVE  IInv'
<1>0. TypeOK /\ HistorySound /\ WrittenOnce
  BY DEF IInv
<1>1. /\ f.seq < nextSeq /\ Wrote(f.seq) /\ ~Entered(f.seq) /\ EnterEvent(f) \in Events
      /\ UNCHANGED <<journal, nextSeq, now, worker>> /\ proc' = proc
      /\ \A g \in {f} : \E u \in Terms : g \in flight[u] /\ g \notin flight'[u]
      /\ \A u \in Terms : flight'[u] \subseteq flight[u]
  BY EnterFacts
<1>2. \A j \in Instances : Alive(j)' => Alive(j)
  BY <1>1 DEF Alive
<1>3. CASE Writes(t, EnterEvent(f)) /\ Completed({f}, TRUE)
  <2>1. EnterEvent(f).kind = "enter" /\ EnterEvent(f).seq = f.seq
    BY DEF EnterEvent
  <2>2. HistorySound' /\ WrittenOnce'
    BY <1>0, <1>1, <1>3, <2>1, WriteSound
  <2>3. /\ \A s : Wrote(s)' <=> Wrote(s) \/ (EnterEvent(f).kind = "text" /\ EnterEvent(f).seq = s)
        /\ \A s : Entered(s)' <=> Entered(s) \/ (EnterEvent(f).kind = "enter" /\ EnterEvent(f).seq = s)
    BY <1>0, <1>1, <1>3, WriteHistory
  <2>4. /\ \A s : Wrote(s)' <=> Wrote(s)
        /\ \A s : Entered(s) => Entered(s)'
        /\ \A s : Entered(s)' => Entered(s) \/ \E g \in {f} : g.seq = s
        /\ \A g \in {f} : Entered(g.seq)'
    BY <2>1, <2>3
  <2> QED BY <1>1, <1>2, <1>3, <2>2, <2>4, DoneInv
<1>4. CASE pty' = pty /\ Completed({f}, FALSE)
  <2>1. HistorySound' /\ WrittenOnce'
    BY <1>0, <1>1, <1>4 DEF HistorySound, WrittenOnce, Wrote, IsText, IsEnter
  <2>2. /\ \A s : Wrote(s)' <=> Wrote(s)
        /\ \A s : Entered(s) => Entered(s)'
        /\ \A s : Entered(s)' => Entered(s) \/ \E g \in {f} : g.seq = s
    BY <1>4, SameHistory
  <2> DEFINE done == {f}
  <2> HIDE DEF done
  <2>3. Completed(done, FALSE) /\ (\A g \in done : \E u \in Terms : g \in flight[u] /\ g \notin flight'[u])
        /\ \A s : Entered(s)' => Entered(s) \/ \E g \in done : g.seq = s
    BY <1>1, <1>4, <2>2 DEF done
  <2> QED BY <1>1, <1>2, <2>1, <2>2, <2>3, DoneInv
<1> QED BY <1>3, <1>4, EnterFacts

LEMMA CloseInv ==
  ASSUME IInv, TypeOK', NEW t \in Terms, ClosePane(t)
  PROVE  IInv'
<1>0. TypeOK /\ HistorySound /\ WrittenOnce /\ flight \in [Terms -> SUBSET Flights]
  BY DEF IInv, TypeOK
<1>1. /\ UNCHANGED <<journal, nextSeq, now, worker>> /\ UNCHANGED <<proc, pty>>
      /\ flight' = [flight EXCEPT ![t] = {}] /\ Completed(flight[t], FALSE)
  BY DEF ClosePane
<1>2. /\ \A f \in flight[t] : \E u \in Terms : f \in flight[u] /\ f \notin flight'[u]
      /\ \A u \in Terms : flight'[u] \subseteq flight[u]
  BY <1>0, <1>1
<1>3. \A j \in Instances : Alive(j)' => Alive(j)
  BY <1>1 DEF Alive
<1>4. HistorySound' /\ WrittenOnce'
  BY <1>0, <1>1 DEF HistorySound, WrittenOnce, Wrote, IsText, IsEnter
<1> QED BY <1>1, <1>2, <1>3, <1>4, SameHistory, DoneInv

LEMMA QuitInv ==
  ASSUME IInv, TypeOK', NEW p \in Procs, Quit(p)
  PROVE  IInv'
<1> DEFINE done == UNION {flight[t] : t \in {u \in Terms : TermHome[u] = p}}
<1>0. TypeOK /\ HistorySound /\ WrittenOnce
  BY DEF IInv, TypeOK
<1>1. /\ UNCHANGED <<journal, nextSeq, now, worker>> /\ pty' = pty
      /\ flight' = [t \in Terms |-> IF TermHome[t] = p THEN {} ELSE flight[t]] /\ Completed(done, FALSE)
  BY DEF Quit
<1>2. /\ \A f \in done : \E u \in Terms : f \in flight[u] /\ f \notin flight'[u]
      /\ \A u \in Terms : flight'[u] \subseteq flight[u]
  BY <1>0, <1>1
<1>3. \A j \in Instances : Alive(j)' => Alive(j)
  BY <1>0 DEF Alive, Quit, TypeOK
<1>4. HistorySound' /\ WrittenOnce'
  BY <1>0, <1>1 DEF HistorySound, WrittenOnce, Wrote, IsText, IsEnter
<1> HIDE DEF done
<1> QED BY <1>1, <1>2, <1>3, <1>4, SameHistory, DoneInv

LEMMA ClockInv ==
  ASSUME IInv, TypeOK', Clock
  PROVE  IInv'
<1>0. TypeOK /\ now \in Nat /\ \A j \in Instances : worker[j].since \in Nat
  BY InvTypes DEF IInv
<1>1. UNCHANGED <<journal, nextSeq, worker, finished, flight>> /\ pty' = pty /\ proc' = proc /\ now' = now + 1
  BY DEF Clock, ui
<1>2. now <= now' /\ \A j \in Instances : Alive(j) /\ worker[j].todo # {} => now' <= worker[j].since + Retention
  BY <1>0, <1>1, NumbersAssumption DEF Clock, PassesAreShort
<1>3. HistorySound' /\ WrittenOnce'
  BY <1>1 DEF IInv, HistorySound, WrittenOnce, Wrote, IsText, IsEnter
<1>4. \A j \in Instances : Alive(j)' => Alive(j)
  BY <1>1 DEF Alive
<1> QED BY <1>1, <1>2, <1>3, <1>4, SameHistory, QuietInv


-----------------------------------------------------------------------------
(* The inductive invariant *)

LEMMA IInit == Init => IInv
<1> SUFFICES ASSUME Init PROVE IInv
  OBVIOUS
<1>1. TypeOK
  BY TypeInit
<1>2. /\ \A r \in Requests : journal[r] = NoRow
      /\ \A i \in Instances : worker[i].todo = {} /\ finished[i] = {}
      /\ \A t \in Terms : flight[t] = {} /\ pty[t] = << >>
      /\ nextSeq = 1
  BY DEF Init, Resting
<1>3. \A t \in Terms : DOMAIN pty[t] = {}
  BY <1>2
<1>4. JournalSound /\ ReceiptHonest
  BY <1>2 DEF JournalSound, ReceiptHonest, Present
<1>5. HistorySound /\ WrittenOnce
  BY <1>3 DEF HistorySound, WrittenOnce
<1>6. SnapshotsSound /\ CompletionsSound /\ FlightsSound
  BY <1>2 DEF SnapshotsSound, CompletionsSound, FlightsSound
<1> QED BY <1>1, <1>4, <1>5, <1>6 DEF IInv

LEMMA WorkerStepInv ==
  ASSUME IInv, TypeOK', NEW i \in Instances, WorkerStep(i)
  PROVE  IInv'
<1>1. CASE \/ Poll(i)
           \/ \E r \in Requests : TakeCancel(i, r)
           \/ \E op \in Sends : TakeSend(i, op)
           \/ \E f \in finished[i] : TakeFinished(i, f)
           \/ TakeShutdown(i)
  BY <1>1, TakeMoves, TakeOwn, WorkerInv
<1>2. CASE Admit(i) \/ AdmitRefused(i) \/ Insert(i)
  BY <1>2, AdmissionMoves, AdmissionOwn, WorkerInv
<1>3. ASSUME NEW m \in worker[i].todo,
             ProbeStep(i, m) \/ RefuseStep(i, m) \/ ClaimStep(i, m) \/ SendStep(i, m) \/ SettleStep(i, m)
      PROVE  IInv'
  <2>1. CASE SendStep(i, m) /\ CanSend(i, m)
    BY <2>1, SendInv
  <2>2. CASE \/ ProbeStep(i, m) \/ RefuseStep(i, m) \/ ClaimStep(i, m) \/ SettleStep(i, m)
             \/ SendStep(i, m) /\ ~CanSend(i, m)
    BY <2>2, DispatchMoves, DispatchOwn, WorkerInv
  <2> QED BY <1>3, <2>1, <2>2
<1> QED BY <1>1, <1>2, <1>3 DEF WorkerStep

LEMMA TermStepInv ==
  ASSUME IInv, TypeOK', NEW t \in Terms, TermStep(t)
  PROVE  IInv'
<1>1. ASSUME NEW f \in flight[t], EnterFires(t, f) PROVE IInv'
  BY <1>1, EnterInv
<1>2. CASE HumanInput(t) \/ PlainInput(t) \/ Interrupt(t)
  BY <1>2, HumanInv
<1>3. CASE PromptAck(t)
  BY <1>3, SetTermInv DEF PromptAck
<1>4. CASE InputSettles(t)
  BY <1>4, SetTermInv DEF InputSettles
<1>5. ASSUME NEW st \in Status, StatusChange(t, st) PROVE IInv'
  BY <1>5, SetTermInv DEF StatusChange
<1>6. CASE ReplaceSession(t)
  BY <1>6, SetTermInv DEF ReplaceSession
<1>7. CASE ReleaseDeferred(t)
  BY <1>7, SetTermInv DEF ReleaseDeferred
<1>8. CASE Launch(t)
  BY <1>8, SetTermInv DEF Launch
<1>9. CASE ToggleWriter(t)
  BY <1>9, SetTermInv DEF ToggleWriter
<1> QED BY <1>1, <1>2, <1>3, <1>4, <1>5, <1>6, <1>7, <1>8, <1>9, CloseInv DEF TermStep

LEMMA ProcStepInv ==
  ASSUME IInv, TypeOK', NEW p \in Procs, ProcStep(p)
  PROVE  IInv'
<1>1. CASE StopControl(p)
  BY <1>1, SilentInv DEF StopControl, ui, Alive
<1>2. ASSUME NEW i \in Instances, StartControl(p, i) PROVE IInv'
  BY <1>2, SilentInv DEF StartControl, ui, Alive
<1>3. CASE Crash(p)
  <2>1. \A j \in Instances : Alive(j)' => Alive(j)
    BY <1>3, HomesAssumption DEF Crash, Alive, IInv, TypeOK
  <2> QED BY <1>3, <2>1, SilentInv DEF Crash, ui
<1> QED BY <1>1, <1>2, <1>3, QuitInv DEF ProcStep

LEMMA IStep == IInv /\ [Next]_vars => IInv'
<1> SUFFICES ASSUME IInv, [Next]_vars PROVE IInv'
  OBVIOUS
<1>0. TypeOK'
  BY TypeStep DEF IInv
<1>1. ASSUME NEW i \in Instances, FaultStep(i) PROVE IInv'
  BY <1>0, <1>1, FaultMoves, FaultOwn, WorkerInv
<1>2. CASE UNCHANGED vars
  BY <1>0, <1>2, SilentInv DEF vars, Alive
<1> QED BY <1>0, <1>1, <1>2, WorkerStepInv, TermStepInv, ProcStepInv, ClockInv DEF Next

\* The journal, the copies that workers hold of it, the completions on their way and
\* the timers of the terminals agree in every reachable state.
THEOREM JournalAgrees == Spec => []IInv
BY IInit, IStep, PTL DEF Spec

\* No receipt lies: queued, cancelled, expired and failed mean that no byte of the
\* message was written, submitted means that its Enter was (journal.rs, worker.rs).
THEOREM ReceiptsAreHonest == Spec => []ReceiptHonest
<1>1. IInv => ReceiptHonest
  BY DEF IInv
<1> QED BY <1>1, JournalAgrees, PTL

\* A row's text and its Enter are written at most once, over crashes, restarts,
\* retries, late completions and storage errors.
THEOREM NothingIsWrittenTwice == Spec => []WrittenOnce
<1>1. IInv => WrittenOnce
  BY DEF IInv
<1> QED BY <1>1, JournalAgrees, PTL


-----------------------------------------------------------------------------
(* The journal implements Receipt *)

LEMMA ViewInit == Init => R!Init
BY DEF Init, R!Init, R!Blank, ReceiptView, Present

\* The receipt of one request before and after a step.
LEMMA ViewOf ==
  ASSUME NEW r \in Requests
  PROVE  /\ Present(r) => ReceiptView[r] = [state |-> journal[r].state, text |-> Wrote(journal[r].seq),
                                            entered |-> Entered(journal[r].seq)]
         /\ ~Present(r) => ReceiptView[r] = R!Blank
         /\ Present(r)' => ReceiptView'[r] = [state |-> journal'[r].state, text |-> Wrote(journal[r].seq)',
                                              entered |-> Entered(journal[r].seq)']
         /\ ~Present(r)' => ReceiptView'[r] = R!Blank
BY DEF ReceiptView, R!Blank

\* A row that moves, while nothing is written, is a receipt in another state.
LEMMA ViewMove ==
  ASSUME NEW r \in Requests, pty' = pty, Moved(journal[r], journal'[r])
  PROVE  /\ ReceiptView[r] = [state |-> journal[r].state, text |-> Wrote(journal[r].seq),
                              entered |-> Entered(journal[r].seq)]
         /\ ReceiptView'[r] = [ReceiptView[r] EXCEPT !.state = journal'[r].state]
<1>1. Present(r) /\ Present(r)' /\ journal'[r].seq = journal[r].seq
  BY DEF Moved, Present, SameMessage
<1>2. (Wrote(journal[r].seq)' = Wrote(journal[r].seq)) /\ (Entered(journal[r].seq)' = Entered(journal[r].seq))
  BY <1>1 DEF Wrote, Entered, IsText, IsEnter
<1> DEFINE w == Wrote(journal[r].seq)
           e == Entered(journal[r].seq)
<1>3. ReceiptView[r] = [state |-> journal[r].state, text |-> w, entered |-> e]
  BY <1>1, ViewOf
<1>4. ReceiptView'[r] = [state |-> journal'[r].state, text |-> w', entered |-> e']
  BY <1>1, ViewOf
<1>5. ReceiptView'[r] = [state |-> journal'[r].state, text |-> w, entered |-> e]
  BY <1>2, <1>4
<1> HIDE DEF w, e
<1>6. ReceiptView'[r] = [ReceiptView[r] EXCEPT !.state = journal'[r].state]
  BY <1>3, <1>5
<1> QED BY <1>3, <1>6 DEF w, e


\* A receipt changes only with its row or with what was written of it.
LEMMA ViewSame ==
  ASSUME NEW r \in Requests, journal'[r] = journal[r],
         Wrote(journal[r].seq)' <=> Wrote(journal[r].seq), Entered(journal[r].seq)' <=> Entered(journal[r].seq)
  PROVE  ReceiptView'[r] = ReceiptView[r]
<1>1. (Wrote(journal[r].seq)' = Wrote(journal[r].seq)) /\ (Entered(journal[r].seq)' = Entered(journal[r].seq))
  BY DEF Wrote, Entered
<1> DEFINE w == Wrote(journal[r].seq)
           e == Entered(journal[r].seq)
<1>2. CASE Present(r)
  <2>1. ReceiptView[r] = [state |-> journal[r].state, text |-> w, entered |-> e]
    BY <1>2, ViewOf
  <2>2. ReceiptView'[r] = [state |-> journal'[r].state, text |-> w', entered |-> e']
    BY <1>2, ViewOf DEF Present
  <2> QED BY <1>1, <2>1, <2>2
<1>3. CASE ~Present(r)
  BY <1>3, ViewOf DEF Present
<1> QED BY <1>2, <1>3

\* A step of a worker that writes nothing moves every receipt by at most one legal step.
LEMMA ViewWorker ==
  ASSUME IInv, NEW i \in Instances, Alive(i), RowMoves(i), WorkerFrame(i)
  PROVE  R!Next
<1>0. /\ TypeOK /\ JournalSound /\ HistorySound /\ ReceiptHonest /\ CompletionsSound /\ pty' = pty
  BY DEF IInv, WorkerFrame
<1> SUFFICES ASSUME NEW r \in Requests
             PROVE  ReceiptView'[r] = ReceiptView[r] \/ R!Step(ReceiptView[r], ReceiptView'[r])
  BY DEF R!Next
<1> DEFINE old == journal[r]
           new == journal'[r]
           v == ReceiptView[r]
           w == ReceiptView'[r]
<1>1. CASE new = old
  <2>1. (Wrote(journal[r].seq)' <=> Wrote(journal[r].seq)) /\ (Entered(journal[r].seq)' <=> Entered(journal[r].seq))
    BY <1>0, <1>1 DEF Wrote, Entered, IsText, IsEnter
  <2> QED BY <1>1, <2>1, ViewSame
<1>2. CASE Lapse(old, new)
  <2>1. w = R!Blank
    BY <1>2, ViewOf DEF Lapse, Present
  <2>2. v.state \in R!Settled
    <3>1. v = [state |-> old.state, text |-> Wrote(old.seq), entered |-> Entered(old.seq)]
      BY <1>2, ViewOf DEF Lapse, Present
    <3>2. v.state = old.state
      BY <3>1
    <3> QED BY <1>2, <3>2 DEF Lapse, SettledStates, R!Settled
  <2> QED BY <2>1, <2>2 DEF R!Step, R!Forget
<1>3. CASE FreshRow(i, r)
  <2>1. v = R!Blank
    BY <1>3, ViewOf DEF FreshRow, Present
  <2>2. journal'[r].seq = nextSeq /\ journal'[r].state = "queued" /\ Present(r)'
    BY <1>3 DEF FreshRow, Present
  <2>3. \A t \in Terms : \A k \in DOMAIN pty[t] : pty[t][k].seq # nextSeq
    BY <1>0, HistoryTypes DEF HistorySound
  <2>4. (Wrote(journal[r].seq)' = FALSE) /\ (Entered(journal[r].seq)' = FALSE)
    BY <1>0, <2>2, <2>3 DEF Wrote, Entered
  <2>5. w = [state |-> "queued", text |-> FALSE, entered |-> FALSE]
    BY <2>2, <2>4, ViewOf
  <2>6. w = [R!Blank EXCEPT !.state = "queued"]
    <3> DEFINE no == FALSE
    <3>1. w = [state |-> "queued", text |-> no, entered |-> no]
          /\ R!Blank = [state |-> "none", text |-> no, entered |-> no]
      BY <2>5 DEF R!Blank
    <3> HIDE DEF no, w
    <3> QED BY <3>1
  <2>7. R!Accept(v, w)
    BY <2>1, <2>6 DEF R!Accept
  <2> QED BY <2>7 DEF R!Step
<1>4. CASE Moved(old, new)
  <2>1. v = [state |-> old.state, text |-> Wrote(old.seq), entered |-> Entered(old.seq)]
        /\ w = [v EXCEPT !.state = new.state]
    BY <1>0, <1>4, ViewMove
  <2>2. v.state = old.state /\ (v.text <=> Wrote(old.seq)) /\ (v.entered <=> Entered(old.seq))
    BY <2>1
  <2>3. /\ w = [v EXCEPT !.state = new.state] /\ v.state = old.state
        /\ (v.text <=> Wrote(old.seq)) /\ (v.entered <=> Entered(old.seq))
    BY <2>1, <2>2
  <2> HIDE DEF v, w
  <2>4. CASE Refusal(old, new)
    BY <2>3, <2>4 DEF Refusal, R!Step, R!Refuse, v, w
  <2>5. CASE Recovery(old, new) \/ StopMove(i, old, new)
    BY <2>3, <2>5 DEF Recovery, StopMove, R!Step, R!Settle, v, w
  <2>6. CASE ClaimMove(i, old, new)
    BY <2>3, <2>6 DEF ClaimMove, R!Step, R!Claim, v, w
  <2>7. CASE FailMove(i, old, new)
    <3>1. ~v.text /\ v.state = "dispatching" /\ new.state \in {"failed", "delivery_unknown"}
      BY <2>3, <2>7 DEF FailMove
    <3> QED BY <2>3, <3>1 DEF R!Step, R!Settle, v, w
  <2>8. CASE FinishMove(i, old, new)
    <3>1. PICK f \in finished[i] : f.req = old.req /\ new.state = IF f.ok THEN "submitted" ELSE "delivery_unknown"
      BY <2>8 DEF FinishMove
    <3>2. old.req = r
      BY <1>0, <1>4 DEF Moved, JournalSound, Present
    <3>3. f.ok => v.entered
      BY <1>0, <2>3, <3>1, <3>2 DEF CompletionsSound
    <3>4. v.state = "dispatching"
      BY <2>3, <2>8 DEF FinishMove
    <3> QED BY <2>3, <3>1, <3>3, <3>4 DEF R!Step, R!Settle, v, w
  <2>9. \/ Refusal(old, new) \/ Recovery(old, new) \/ StopMove(i, old, new) \/ ClaimMove(i, old, new)
        \/ FailMove(i, old, new) \/ FinishMove(i, old, new) \/ new = old
    BY <1>4 DEF RowMoves, RowMove, MaintMove, Lapse, FreshRow, Moved
  <2> QED BY <1>1, <2>4, <2>5, <2>6, <2>7, <2>8, <2>9 DEF v, w
<1> QED BY <1>1, <1>2, <1>3, <1>4
        DEF RowMoves, RowMove, MaintMove, Refusal, Recovery, ClaimMove, FailMove, FinishMove, StopMove

\* The insertion is Receipt's Write.
LEMMA ViewSend ==
  ASSUME IInv, NEW i \in Instances, NEW m \in worker[i].todo, SendStep(i, m), CanSend(i, m)
  PROVE  R!Next
<1>0. TypeOK /\ JournalSound /\ HistorySound
  BY DEF IInv
<1>1. /\ m.req \in Requests /\ Present(m.req) /\ journal[m.req].seq = m.seq
      /\ journal[m.req].state = "dispatching" /\ ~Wrote(m.seq) /\ journal' = journal
  BY SendFacts
<1>2. /\ \A s : Wrote(s)' <=> Wrote(s) \/ s = m.seq
      /\ \A s : Entered(s)' <=> Entered(s)
  BY SendHistory
<1> SUFFICES ASSUME NEW r \in Requests
             PROVE  ReceiptView'[r] = ReceiptView[r] \/ R!Step(ReceiptView[r], ReceiptView'[r])
  BY DEF R!Next
<1>w. /\ \A s : s = journal[r].seq => (Wrote(s)' <=> Wrote(journal[r].seq)')
      /\ \A s : s = journal[r].seq => (Entered(s)' <=> Entered(journal[r].seq)')
  BY <1>1 DEF Wrote, Entered
<1>3. CASE r = m.req
  <2>1. (Wrote(journal[r].seq)' = TRUE) /\ (Wrote(journal[r].seq) = FALSE)
        /\ (Entered(journal[r].seq)' = Entered(journal[r].seq))
    <3>1. Wrote(journal[r].seq)' /\ ~Wrote(journal[r].seq) /\ (Entered(journal[r].seq)' <=> Entered(journal[r].seq))
      BY <1>1, <1>2, <1>3, <1>w
    <3> QED BY <3>1 DEF Wrote, Entered
  <2> DEFINE e == Entered(journal[r].seq)
  <2>2. ReceiptView[r] = [state |-> "dispatching", text |-> FALSE, entered |-> e]
    BY <1>1, <1>3, <2>1, ViewOf
  <2>3. ReceiptView'[r] = [state |-> "dispatching", text |-> TRUE, entered |-> e]
    <3>1. ReceiptView'[r] = [state |-> journal'[r].state, text |-> Wrote(journal[r].seq)', entered |-> e']
      BY <1>1, <1>3, ViewOf DEF Present
    <3> QED BY <1>1, <1>3, <2>1, <3>1
  <2> HIDE DEF e
  <2>4. ReceiptView[r].state = "dispatching" /\ ~ReceiptView[r].text
    BY <2>2
  <2>5. ReceiptView'[r] = [ReceiptView[r] EXCEPT !.text = TRUE]
    <3> DEFINE no == FALSE
               yes == TRUE
    <3>1. ReceiptView[r] = [state |-> "dispatching", text |-> no, entered |-> e]
          /\ ReceiptView'[r] = [state |-> "dispatching", text |-> yes, entered |-> e]
      BY <2>2, <2>3
    <3> HIDE DEF no, yes
    <3>2. ReceiptView'[r] = [ReceiptView[r] EXCEPT !.text = yes]
      BY <3>1
    <3> QED BY <3>2 DEF yes
  <2>6. R!Write(ReceiptView[r], ReceiptView'[r])
    BY <2>4, <2>5 DEF R!Write
  <2> QED BY <2>6 DEF R!Step
<1>4. CASE r # m.req
  <2>1. CASE Present(r)
    <3>1. journal[r].seq # m.seq
      BY <1>0, <1>1, <1>4, <2>1 DEF JournalSound
    <3>2. (Wrote(journal[r].seq)' <=> Wrote(journal[r].seq)) /\ (Entered(journal[r].seq)' <=> Entered(journal[r].seq))
      BY <1>2, <1>w, <3>1
    <3> QED BY <1>1, <3>2, ViewSame
  <2>2. CASE ~Present(r)
    BY <1>1, <2>2, ViewOf DEF Present
  <2> QED BY <2>1, <2>2
<1> QED BY <1>3, <1>4

\* A timer that fires is Receipt's Enter, or changes no receipt.
LEMMA ViewEnter ==
  ASSUME IInv, NEW t \in Terms, NEW f \in flight[t], EnterFires(t, f)
  PROVE  R!Next
<1>0. TypeOK /\ JournalSound /\ HistorySound /\ ReceiptHonest
  BY DEF IInv
<1>1. Wrote(f.seq) /\ ~Entered(f.seq) /\ EnterEvent(f) \in Events /\ journal' = journal
  BY EnterFacts
<1>2. \A s : Wrote(s)' <=> Wrote(s)
  <2>1. CASE Writes(t, EnterEvent(f))
    BY <1>0, <1>1, <2>1, WriteHistory DEF EnterEvent
  <2> QED BY <2>1, EnterFacts, SameHistory
<1>3. (\A s : Entered(s)' <=> Entered(s) \/ s = f.seq) \/ (\A s : Entered(s)' <=> Entered(s))
  <2>1. CASE Writes(t, EnterEvent(f))
    BY <1>0, <1>1, <2>1, WriteHistory DEF EnterEvent
  <2> QED BY <2>1, EnterFacts, SameHistory
<1> SUFFICES ASSUME NEW r \in Requests
             PROVE  ReceiptView'[r] = ReceiptView[r] \/ R!Step(ReceiptView[r], ReceiptView'[r])
  BY DEF R!Next
<1>w. /\ \A s : s = journal[r].seq => (Wrote(s)' <=> Wrote(journal[r].seq)')
      /\ \A s : s = journal[r].seq => (Entered(s)' <=> Entered(journal[r].seq)')
  BY <1>1 DEF Wrote, Entered
<1>4. CASE Entered(journal[r].seq)' <=> Entered(journal[r].seq)
  BY <1>1, <1>2, <1>4, <1>w, ViewSame
<1>5. CASE Present(r) /\ Entered(journal[r].seq)' /\ ~Entered(journal[r].seq)
  <2>1. journal[r].seq = f.seq
    BY <1>3, <1>5, <1>w
  <2>2. journal[r].state \in {"dispatching", "delivery_unknown"}
    <3>1. Wrote(journal[r].seq)
      BY <1>1, <2>1
    <3> QED BY <1>0, <1>5, <3>1, InvTypes DEF ReceiptHonest, Present, PendingStates, SettledStates
  <2>3. (Wrote(journal[r].seq)' = TRUE) /\ (Wrote(journal[r].seq) = TRUE)
        /\ (Entered(journal[r].seq)' = TRUE) /\ (Entered(journal[r].seq) = FALSE)
    <3>1. Wrote(journal[r].seq)' /\ Wrote(journal[r].seq)
      BY <1>1, <1>2, <1>w, <2>1
    <3> QED BY <1>5, <3>1 DEF Wrote, Entered
  <2>4. ReceiptView[r] = [state |-> journal[r].state, text |-> TRUE, entered |-> FALSE]
    BY <1>5, <2>3, ViewOf
  <2>5. ReceiptView'[r] = [state |-> journal[r].state, text |-> TRUE, entered |-> TRUE]
    <3>1. ReceiptView'[r] = [state |-> journal'[r].state, text |-> Wrote(journal[r].seq)', entered |-> Entered(journal[r].seq)']
      BY <1>1, <1>5, ViewOf DEF Present
    <3> QED BY <1>1, <2>3, <3>1
  <2>6. ReceiptView[r].state = journal[r].state /\ ReceiptView[r].text /\ ~ReceiptView[r].entered
    BY <2>4
  <2>7. ReceiptView'[r] = [ReceiptView[r] EXCEPT !.entered = TRUE]
    <3> DEFINE no == FALSE
               yes == TRUE
    <3>1. ReceiptView[r] = [state |-> journal[r].state, text |-> yes, entered |-> no]
          /\ ReceiptView'[r] = [state |-> journal[r].state, text |-> yes, entered |-> yes]
      BY <2>4, <2>5
    <3> HIDE DEF no, yes
    <3>2. ReceiptView'[r] = [ReceiptView[r] EXCEPT !.entered = yes]
      BY <3>1
    <3> QED BY <3>2 DEF yes
  <2>8. R!Enter(ReceiptView[r], ReceiptView'[r])
    BY <2>2, <2>6, <2>7 DEF R!Enter
  <2> QED BY <2>8 DEF R!Step
<1>6. CASE ~Present(r)
  BY <1>1, <1>6, ViewOf DEF Present
<1> QED BY <1>3, <1>4, <1>5, <1>6, <1>w

\* A step that leaves the journal and the written messages is no step of Receipt.
LEMMA ViewQuiet ==
  ASSUME journal' = journal, \A s : Wrote(s)' <=> Wrote(s), \A s : Entered(s)' <=> Entered(s)
  PROVE  R!Next
<1> SUFFICES ASSUME NEW r \in Requests PROVE ReceiptView'[r] = ReceiptView[r]
  BY DEF R!Next
<1>w. /\ \A s : s = journal[r].seq => (Wrote(s)' <=> Wrote(journal[r].seq)')
      /\ \A s : s = journal[r].seq => (Entered(s)' <=> Entered(journal[r].seq)')
  BY DEF Wrote, Entered
<1> QED BY <1>w, ViewSame


LEMMA ViewStep == IInv /\ [Next]_vars => [R!Next]_ReceiptView
<1> SUFFICES ASSUME IInv, [Next]_vars PROVE R!Next
  OBVIOUS
<1>1. ASSUME NEW i \in Instances, WorkerStep(i) PROVE R!Next
  <2>1. CASE \/ Poll(i)
             \/ \E r \in Requests : TakeCancel(i, r)
             \/ \E op \in Sends : TakeSend(i, op)
             \/ \E f \in finished[i] : TakeFinished(i, f)
             \/ TakeShutdown(i)
    BY <2>1, TakeMoves, TakeOwn, ViewWorker
  <2>2. CASE Admit(i) \/ AdmitRefused(i) \/ Insert(i)
    BY <2>2, AdmissionMoves, AdmissionOwn, ViewWorker
  <2>3. ASSUME NEW m \in worker[i].todo,
               ProbeStep(i, m) \/ RefuseStep(i, m) \/ ClaimStep(i, m) \/ SendStep(i, m) \/ SettleStep(i, m)
        PROVE  R!Next
    <3>1. CASE SendStep(i, m) /\ CanSend(i, m)
      BY <3>1, ViewSend
    <3>2. CASE \/ ProbeStep(i, m) \/ RefuseStep(i, m) \/ ClaimStep(i, m) \/ SettleStep(i, m)
               \/ SendStep(i, m) /\ ~CanSend(i, m)
      BY <3>2, DispatchMoves, DispatchOwn, ViewWorker
    <3> QED BY <2>3, <3>1, <3>2
  <2> QED BY <1>1, <2>1, <2>2, <2>3 DEF WorkerStep
<1>2. ASSUME NEW i \in Instances, FaultStep(i) PROVE R!Next
  BY <1>2, FaultMoves, FaultOwn, ViewWorker
<1>3. ASSUME NEW t \in Terms, TermStep(t) PROVE R!Next
  <2>1. CASE HumanInput(t) \/ PlainInput(t) \/ Interrupt(t)
    <3>1. PICK kind \in {"human", "plain"} : TypeOK /\ Writes(t, Typed(kind)) /\ journal' = journal
      BY <2>1 DEF HumanInput, PlainInput, Interrupt, OnlyTerm, Writes, IInv
    <3>2. Typed(kind) \in Events /\ Typed(kind).kind = kind
      BY <3>1 DEF Typed, Events, TypeOK
    <3>3. /\ \A s : Wrote(s)' <=> Wrote(s)
          /\ \A s : Entered(s)' <=> Entered(s)
      BY <3>1, <3>2, WriteHistory
    <3> QED BY <3>1, <3>3, ViewQuiet
  <2>2. CASE \E f \in flight[t] : EnterFires(t, f)
    BY <2>2, ViewEnter
  <2>3. CASE \/ PromptAck(t) \/ InputSettles(t) \/ (\E st \in Status : StatusChange(t, st)) \/ ReplaceSession(t)
             \/ ReleaseDeferred(t) \/ Launch(t) \/ ToggleWriter(t) \/ ClosePane(t)
    <3>1. journal' = journal /\ pty' = pty
      BY <2>3 DEF PromptAck, InputSettles, StatusChange, ReplaceSession, ReleaseDeferred, Launch, ToggleWriter,
                  ClosePane, SetTerm, OnlyTerm
    <3> QED BY <3>1, SameHistory, ViewQuiet
  <2> QED BY <1>3, <2>1, <2>2, <2>3 DEF TermStep
<1>4. ASSUME (\E p \in Procs : ProcStep(p)) \/ Clock \/ UNCHANGED vars PROVE R!Next
  <2>1. journal' = journal /\ pty' = pty
    BY <1>4 DEF ProcStep, StopControl, StartControl, Quit, Crash, Clock, ui, vars
  <2> QED BY <2>1, SameHistory, ViewQuiet
<1> QED BY <1>1, <1>2, <1>3, <1>4 DEF Next

\* Refinement: seen through its receipts, the journal with its workers, terminals,
\* crashes and storage errors behaves as module Receipt promises to a caller.
THEOREM JournalImplementsReceipt == Spec => ReceiptPromise
BY ViewInit, ViewStep, JournalAgrees, PTL DEF Spec, ReceiptPromise, R!Spec


-----------------------------------------------------------------------------
(* What a step writes, and what it leaves of the terminals *)

\* A step writes the text of one message, one Enter, a user's input, or nothing.
LEMMA StepWrites ==
  ASSUME [Next]_vars
  PROVE  \/ \E i \in Instances : \E m \in worker[i].todo : SendStep(i, m) /\ CanSend(i, m)
         \/ \E t \in Terms : HumanInput(t) \/ PlainInput(t) \/ Interrupt(t)
         \/ \E t \in Terms : \E f \in flight[t] : EnterFires(t, f)
         \/ pty' = pty
<1>1. ASSUME NEW i \in Instances, WorkerStep(i),
             ~\E m \in worker[i].todo : SendStep(i, m) /\ CanSend(i, m)
      PROVE  pty' = pty
  <2>1. ASSUME NEW m \in worker[i].todo, SendStep(i, m) PROVE pty' = pty
    BY <1>1, <2>1 DEF SendStep, ui
  <2>2. CASE Poll(i) \/ Admit(i) \/ AdmitRefused(i) \/ Insert(i) \/ TakeShutdown(i)
    BY <2>2 DEF Poll, Admit, AdmitRefused, Insert, TakeShutdown, ui
  <2>3. ASSUME NEW m \in worker[i].todo, ProbeStep(i, m) \/ RefuseStep(i, m) \/ ClaimStep(i, m) \/ SettleStep(i, m)
        PROVE  pty' = pty
    BY <2>3 DEF ProbeStep, RefuseStep, ClaimStep, SettleStep, ui
  <2>4. CASE \/ \E r \in Requests : TakeCancel(i, r)
             \/ \E op \in Sends : TakeSend(i, op)
             \/ \E f \in finished[i] : TakeFinished(i, f)
    BY <2>4 DEF TakeCancel, TakeSend, TakeFinished, ui
  <2> QED BY <1>1, <2>1, <2>2, <2>3, <2>4 DEF WorkerStep
<1>2. ASSUME NEW i \in Instances, FaultStep(i) PROVE pty' = pty
  BY <1>2 DEF FaultStep, JournalError, FinishedError, ShutdownError, ui
<1>3. ASSUME NEW t \in Terms, TermStep(t), ~(HumanInput(t) \/ PlainInput(t) \/ Interrupt(t)), ~\E f \in flight[t] : EnterFires(t, f)
      PROVE  pty' = pty
  BY <1>3 DEF TermStep, PromptAck, InputSettles, StatusChange, ReplaceSession, ReleaseDeferred, Launch, ToggleWriter,
              ClosePane, SetTerm
<1>4. ASSUME (\E p \in Procs : ProcStep(p)) \/ Clock \/ UNCHANGED vars PROVE pty' = pty
  BY <1>4 DEF ProcStep, StopControl, StartControl, Quit, Crash, Clock, ui, vars
<1> QED BY <1>1, <1>2, <1>3, <1>4 DEF Next

LEMMA HumanFacts ==
  ASSUME TypeOK, NEW t \in Terms, HumanInput(t) \/ PlainInput(t) \/ Interrupt(t)
  PROVE  \E e \in Events :
           /\ Writes(t, e) /\ e.kind \in {"human", "plain"}
           /\ e.kind = "human" => term'[t].epoch = term[t].epoch + 1 /\ term'[t].uepoch = term[t].uepoch + 1
           /\ e.kind = "plain" => term'[t].epoch = term[t].epoch /\ term'[t].uepoch = term[t].uepoch
           /\ term'[t].pending = term[t].pending
           /\ \A u \in Terms : u # t => term'[u] = term[u]
<1>0. term \in [Terms -> Terminal] /\ term[t] \in Terminal /\ now \in Nat
  BY DEF TypeOK
<1>1. Typed("human") \in Events /\ Typed("human").kind = "human" /\ Typed("plain") \in Events /\ Typed("plain").kind = "plain"
  BY <1>0 DEF Typed, Events
<1>2. \A u \in Terms : u # t => term'[u] = term[u]
  BY <1>0 DEF HumanInput, PlainInput, Interrupt
<1>3. CASE HumanInput(t) \/ Interrupt(t)
  <2>1. Writes(t, Typed("human"))
    BY <1>3 DEF HumanInput, Interrupt, Writes
  <2>2. /\ term'[t].epoch = term[t].epoch + 1 /\ term'[t].uepoch = term[t].uepoch + 1
        /\ term'[t].pending = term[t].pending
    BY <1>0, <1>3 DEF HumanInput, Interrupt, Terminal
  <2> QED BY <1>1, <1>2, <2>1, <2>2
<1>4. CASE PlainInput(t)
  <2>1. Writes(t, Typed("plain"))
    BY <1>4 DEF PlainInput, Writes
  <2>2. /\ term'[t].epoch = term[t].epoch /\ term'[t].uepoch = term[t].uepoch
        /\ term'[t].pending = term[t].pending
    BY <1>0, <1>4 DEF PlainInput, Terminal
  <2> QED BY <1>1, <1>2, <2>1, <2>2
<1> QED BY <1>3, <1>4


-----------------------------------------------------------------------------
(* Enter submits one message, the one inserted before it *)

\* A hop may start its agent; it changes nothing else of a terminal.
StartsOnly ==
  \A t \in Terms : term'[t] = term[t] \/ term'[t] = [term[t] EXCEPT !.phase = "starting"]

LEMMA StartTargetOnly ==
  ASSUME TypeOK, NEW i, NEW m, m.term \in Terms, StartTarget(i, m)
  PROVE  StartsOnly
<1>1. term \in [Terms -> Terminal]
  BY DEF TypeOK
<1>2. Started(m.term) = term[m.term] \/ Started(m.term) = [term[m.term] EXCEPT !.phase = "starting"]
  BY DEF Started
<1>3. term' = term \/ term' = [term EXCEPT ![m.term] = Started(m.term)]
  BY DEF StartTarget
<1> QED BY <1>1, <1>2, <1>3 DEF StartsOnly

\* A worker that inserts nothing leaves the terminals, their timers and the bridges.
LEMMA WorkerTerms ==
  ASSUME IInv, NEW i \in Instances, WorkerStep(i) \/ FaultStep(i),
         ~\E m \in worker[i].todo : SendStep(i, m) /\ CanSend(i, m)
  PROVE  StartsOnly /\ UNCHANGED <<flight, pty, bridge, shut, proc, now>>
<1>0. TypeOK
  BY DEF IInv
<1>1. term' = term => StartsOnly
  BY DEF StartsOnly
<1>2. CASE Poll(i) \/ Insert(i) \/ TakeShutdown(i)
  BY <1>1, <1>2 DEF Poll, Insert, TakeShutdown, ui
<1>3. CASE Admit(i) \/ AdmitRefused(i)
  <2>1. worker[i].op.term \in Terms
    BY <1>0, <1>3 DEF Admit, AdmitRefused, AtPc, TypeOK, Ops
  <2>2. StartTarget(i, worker[i].op) /\ UNCHANGED <<flight, pty, bridge, shut, proc, now>>
    BY <1>3 DEF Admit, AdmitRefused
  <2> QED BY <1>0, <2>1, <2>2, StartTargetOnly
<1>4. ASSUME NEW m \in worker[i].todo, RefuseStep(i, m) \/ ClaimStep(i, m) \/ SettleStep(i, m)
      PROVE  StartsOnly /\ UNCHANGED <<flight, pty, bridge, shut, proc, now>>
  BY <1>1, <1>4 DEF RefuseStep, ClaimStep, SettleStep, ui
<1>5. ASSUME NEW m \in worker[i].todo, ProbeStep(i, m) \/ SendStep(i, m)
      PROVE  StartsOnly /\ UNCHANGED <<flight, pty, bridge, shut, proc, now>>
  <2>1. m.term \in Terms
    BY <1>0, SnapshotType
  <2>2. ~(SendStep(i, m) /\ CanSend(i, m))
    OBVIOUS
  <2>3. (term' = term \/ StartTarget(i, m)) /\ UNCHANGED <<flight, pty, bridge, shut, proc, now>>
    BY <1>5, <2>2 DEF ProbeStep, SendStep, ui
  <2> QED BY <1>0, <1>1, <2>1, <2>3, StartTargetOnly
<1>6. CASE \/ \E r \in Requests : TakeCancel(i, r)
           \/ \E op \in Sends : TakeSend(i, op)
           \/ \E f \in finished[i] : TakeFinished(i, f)
  BY <1>1, <1>6 DEF TakeCancel, TakeSend, TakeFinished, ui
<1>7. CASE FaultStep(i)
  BY <1>1, <1>7 DEF FaultStep, JournalError, FinishedError, ShutdownError, ui
<1> QED BY <1>2, <1>3, <1>4, <1>5, <1>6, <1>7 DEF WorkerStep

\* Starting an agent changes nothing that the other invariants read.
LEMMA StartsOnlyKeeps ==
  ASSUME TypeOK, StartsOnly, NEW t \in Terms
  PROVE  /\ term'[t].pending = term[t].pending /\ term'[t].epoch = term[t].epoch
         /\ term'[t].conv = term[t].conv
<1>1. term[t] \in Terminal
  BY DEF TypeOK
<1> QED BY <1>1 DEF StartsOnly, Terminal

\* The text of message seq is in terminal t, with only plain input after it.
Fresh(t, seq) == \E j \in DOMAIN pty[t] : IsText(t, j) /\ pty[t][j].seq = seq /\ PlainAfter(t, j)

\* Plain input after the text changes nothing; what is written elsewhere neither.
LEMMA FreshWrite ==
  ASSUME TypeOK, NEW t \in Terms, NEW e \in Events, Writes(t, e), NEW u \in Terms, NEW seq,
         Fresh(u, seq), u = t => e.kind = "plain"
  PROVE  Fresh(u, seq)'
<1>1. PICK j \in DOMAIN pty[u] : IsText(u, j) /\ pty[u][j].seq = seq /\ PlainAfter(u, j)
  BY DEF Fresh
<1>2. j \in DOMAIN pty'[u] /\ pty'[u][j] = pty[u][j]
  BY WritePlaces
<1>3. ASSUME NEW n \in DOMAIN pty'[u], j < n PROVE pty'[u][n].kind = "plain"
  BY <1>1, <1>3, WritePlaces DEF PlainAfter
<1>4. pty'[u][j].kind = "text" /\ pty'[u][j].seq = seq
  BY <1>1, <1>2 DEF IsText
<1> QED BY <1>2, <1>3, <1>4 DEF Fresh, PlainAfter, IsText

\* Timers may go; while one stays, its terminal stays pending and the epoch only grows.
LEMMA AloneQuiet ==
  ASSUME TypeOK, AloneInv, pty' = pty,
         \A t \in Terms : flight'[t] \subseteq flight[t],
         \A t \in Terms : flight'[t] # {} =>
           term'[t].pending = term[t].pending /\ term'[t].epoch \in Nat /\ term[t].epoch <= term'[t].epoch
  PROVE  AloneInv'
<1>1. SubmittedAlone'
  BY DEF AloneInv, SubmittedAlone, IsText, IsEnter
<1>2. ASSUME NEW t \in Terms, NEW f \in flight'[t]
      PROVE  /\ term'[t].pending /\ f.epoch <= term'[t].epoch
             /\ \A g \in flight'[t] : g = f
             /\ f.epoch = term'[t].epoch => Fresh(t, f.seq)
  <2>1. f \in flight[t] /\ f.epoch \in Nat /\ term[t].epoch \in Nat
    BY <1>2 DEF TypeOK, Flights, Terminal
  <2>2. /\ term[t].pending /\ f.epoch <= term[t].epoch
        /\ \A g \in flight[t] : g = f
        /\ f.epoch = term[t].epoch => Fresh(t, f.seq)
    BY <2>1 DEF AloneInv, FlightsFresh, Fresh
  <2>3. term'[t].pending = term[t].pending /\ term'[t].epoch \in Nat /\ term[t].epoch <= term'[t].epoch
    BY <1>2
  <2>4. f.epoch = term'[t].epoch => f.epoch = term[t].epoch
    BY <2>1, <2>2, <2>3
  <2>5. f.epoch <= term'[t].epoch
    BY <2>1, <2>2, <2>3
  <2> QED BY <1>2, <2>2, <2>3, <2>4, <2>5
<1>3. FlightsFresh'
  BY <1>2 DEF FlightsFresh, Fresh, PlainAfter, IsText
<1> QED BY <1>1, <1>3 DEF AloneInv

\* What is appended to a terminal does not come between an Enter and its text.
LEMMA AloneWrite ==
  ASSUME TypeOK, SubmittedAlone, NEW t \in Terms, NEW e \in Events, Writes(t, e),
         e.kind = "enter" => Fresh(t, e.seq)
  PROVE  SubmittedAlone'
<1>0. /\ Len(pty[t]) \in Nat
      /\ \A u \in Terms : DOMAIN pty[u] = 1..Len(pty[u]) /\ Len(pty[u]) \in Nat
  BY HistoryTypes
<1>w. \A v \in Terms : \A l \in DOMAIN pty[v] : l \in DOMAIN pty'[v] /\ pty'[v][l] = pty[v][l]
  BY WritePlaces
<1> SUFFICES ASSUME NEW u \in Terms, NEW k \in DOMAIN pty'[u], pty'[u][k].kind = "enter"
             PROVE  \E j \in DOMAIN pty'[u] :
                      /\ j < k /\ pty'[u][j].kind = "text" /\ pty'[u][j].seq = pty'[u][k].seq
                      /\ \A n \in DOMAIN pty'[u] : j < n /\ n < k => pty'[u][n].kind = "plain"
  BY DEF SubmittedAlone, IsText, IsEnter
<1>1. CASE u = t /\ k = Len(pty[t]) + 1 /\ pty'[u][k] = e
  <2>1. PICK j \in DOMAIN pty[t] : IsText(t, j) /\ pty[t][j].seq = e.seq /\ PlainAfter(t, j)
    BY <1>1 DEF Fresh
  <2>2. j < k /\ j \in DOMAIN pty'[u] /\ pty'[u][j].kind = "text" /\ pty'[u][j].seq = pty'[u][k].seq
    BY <1>0, <1>w, <1>1, <2>1 DEF IsText
  <2>3. ASSUME NEW n \in DOMAIN pty'[u], j < n, n < k PROVE pty'[u][n].kind = "plain"
    <3>1. n \in DOMAIN pty[u] /\ pty'[u][n] = pty[u][n]
      BY <1>0, <1>1, <2>3, WritePlaces
    <3> QED BY <1>1, <2>1, <2>3, <3>1 DEF PlainAfter
  <2> QED BY <2>2, <2>3
<1>2. CASE k \in DOMAIN pty[u] /\ pty'[u][k] = pty[u][k]
  <2>1. PICK j \in DOMAIN pty[u] :
          /\ j < k /\ IsText(u, j) /\ pty[u][j].seq = pty[u][k].seq
          /\ \A n \in DOMAIN pty[u] : j < n /\ n < k => pty[u][n].kind = "plain"
    BY <1>2 DEF SubmittedAlone, IsEnter
  <2>2. ASSUME NEW n \in DOMAIN pty'[u], j < n, n < k PROVE pty'[u][n].kind = "plain"
    <3>1. n \in DOMAIN pty[u]
      BY <1>0, <1>2, <2>2, WritePlaces
    <3> QED BY <1>w, <2>1, <2>2, <3>1
  <2> QED BY <1>2, <1>w, <2>1, <2>2 DEF IsText
<1> QED BY <1>1, <1>2, WritePlaces


LEMMA AloneSend ==
  ASSUME IInv, AloneInv, NEW i \in Instances, NEW m \in worker[i].todo, SendStep(i, m), CanSend(i, m)
  PROVE  AloneInv'
<1>0. TypeOK /\ FlightsFresh /\ SubmittedAlone /\ flight \in [Terms -> SUBSET Flights] /\ term \in [Terms -> Terminal]
  BY DEF IInv, TypeOK, AloneInv
<1>1. /\ m.term \in Terms /\ TextEvent(m) \in Events /\ Writes(m.term, TextEvent(m)) /\ Inserts(i, m)
      /\ Reason(term[m.term]) = "none"
  BY SendFacts
<1>2. TextEvent(m).kind = "text" /\ TextEvent(m).seq = m.seq
  BY DEF TextEvent
<1>3. SubmittedAlone'
  BY <1>0, <1>1, <1>2, AloneWrite
<1>4. ~term[m.term].pending
  BY <1>1 DEF Reason
<1>5. flight[m.term] = {}
  BY <1>0, <1>1, <1>4 DEF FlightsFresh
<1>6. /\ flight'[m.term] = {Timer(i, m)} /\ \A u \in Terms : u # m.term => flight'[u] = flight[u]
      /\ term'[m.term] = [term[m.term] EXCEPT !.pending = TRUE] /\ \A u \in Terms : u # m.term => term'[u] = term[u]
  BY <1>0, <1>1, <1>5 DEF Inserts
<1>7. term'[m.term].pending /\ term'[m.term].epoch = term[m.term].epoch /\ term[m.term].epoch \in Nat
  BY <1>0, <1>1, <1>6 DEF Terminal
<1>8. Timer(i, m).epoch = term[m.term].epoch /\ Timer(i, m).seq = m.seq
  BY DEF Timer
<1>9. /\ Len(pty'[m.term]) = Len(pty[m.term]) + 1 /\ Len(pty[m.term]) \in Nat
      /\ DOMAIN pty'[m.term] = 1..Len(pty'[m.term])
      /\ pty'[m.term][Len(pty'[m.term])] = TextEvent(m)
      /\ \A u \in Terms : u # m.term => pty'[u] = pty[u]
  BY <1>0, <1>1, WriteEffect, HistoryTypes
<1>10. FlightsFresh'
  <2> SUFFICES ASSUME NEW t \in Terms, NEW f \in flight'[t]
               PROVE  /\ term'[t].pending /\ f.epoch <= term'[t].epoch
                      /\ \A g \in flight'[t] : g = f
                      /\ f.epoch = term'[t].epoch => Fresh(t, f.seq)'
    BY DEF FlightsFresh, Fresh
  <2>1. CASE t = m.term
    <3>1. f = Timer(i, m)
      BY <1>6, <2>1
    <3>2. LET n == Len(pty[t]) + 1
          IN  n \in DOMAIN pty'[t] /\ pty'[t][n] = TextEvent(m) /\ \A l \in DOMAIN pty'[t] : ~(n < l)
      BY <1>9, <2>1
    <3>3. Fresh(t, m.seq)'
      BY <1>2, <3>2 DEF Fresh, PlainAfter, IsText
    <3>4. f.epoch <= term'[t].epoch
      BY <1>7, <1>8, <2>1, <3>1
    <3> QED BY <1>6, <1>7, <1>8, <2>1, <3>1, <3>3, <3>4
  <2>2. CASE t # m.term
    <3>1. f \in flight[t] /\ term'[t] = term[t] /\ flight'[t] = flight[t]
      BY <1>6, <2>2
    <3>2. f.epoch = term[t].epoch => Fresh(t, f.seq)
      BY <1>0, <3>1 DEF FlightsFresh, Fresh
    <3>3. f.epoch = term[t].epoch => Fresh(t, f.seq)'
      BY <1>0, <1>1, <2>2, <3>2, FreshWrite
    <3> QED BY <1>0, <3>1, <3>3 DEF FlightsFresh
  <2> QED BY <2>1, <2>2
<1> QED BY <1>3, <1>10 DEF AloneInv

LEMMA AloneEnter ==
  ASSUME IInv, AloneInv, NEW t \in Terms, NEW f \in flight[t], EnterFires(t, f)
  PROVE  AloneInv'
<1>0. TypeOK /\ FlightsFresh /\ SubmittedAlone /\ flight \in [Terms -> SUBSET Flights] /\ term \in [Terms -> Terminal]
  BY DEF IInv, TypeOK, AloneInv
<1>1. flight' = [flight EXCEPT ![t] = @ \ {f}] /\ \A u \in Terms : u # t => term'[u] = term[u]
  BY <1>0 DEF EnterFires
<1>2. \A g \in flight[t] : g = f
  BY <1>0 DEF FlightsFresh
<1>3. flight'[t] = {} /\ \A u \in Terms : u # t => flight'[u] = flight[u]
  BY <1>0, <1>1, <1>2
<1>4. CASE pty' = pty
  <2>1. \A u \in Terms : term[u].epoch \in Nat
    BY <1>0 DEF Terminal
  <2>2. \A u \in Terms : flight'[u] # {} => term'[u] = term[u]
    BY <1>1, <1>3
  <2>3. \A u \in Terms : flight'[u] # {} =>
          term'[u].pending = term[u].pending /\ term'[u].epoch \in Nat /\ term[u].epoch <= term'[u].epoch
    BY <2>1, <2>2
  <2> QED BY <1>0, <1>3, <1>4, <2>3, AloneQuiet
<1>5. CASE EnterValid(t, f) /\ Writes(t, EnterEvent(f))
  <2>1. EnterEvent(f) \in Events /\ EnterEvent(f).kind = "enter" /\ EnterEvent(f).seq = f.seq
    BY EnterFacts DEF EnterEvent
  <2>2. Fresh(t, f.seq)
    BY <1>0, <1>5 DEF EnterValid, FlightsFresh, Fresh
  <2>3. SubmittedAlone'
    BY <1>0, <1>5, <2>1, <2>2, AloneWrite
  <2>4. \A u \in Terms : u # t => pty'[u] = pty[u]
    BY <1>0, <1>5, <2>1, WriteEffect
  <2>5. FlightsFresh'
    <3> SUFFICES ASSUME NEW u \in Terms, NEW g \in flight'[u]
                 PROVE  /\ term'[u].pending /\ g.epoch <= term'[u].epoch
                        /\ \A h \in flight'[u] : h = g
                        /\ g.epoch = term'[u].epoch => Fresh(u, g.seq)'
      BY DEF FlightsFresh, Fresh
    <3>1. u # t /\ g \in flight[u] /\ flight'[u] = flight[u] /\ term'[u] = term[u]
      BY <1>1, <1>3
    <3>2. g.epoch = term[u].epoch => Fresh(u, g.seq)
      BY <1>0, <3>1 DEF FlightsFresh, Fresh
    <3>3. g.epoch = term[u].epoch => Fresh(u, g.seq)'
      BY <1>0, <1>5, <2>1, <3>1, <3>2, FreshWrite
    <3> QED BY <1>0, <3>1, <3>3 DEF FlightsFresh
  <2> QED BY <2>3, <2>5 DEF AloneInv
<1> QED BY <1>4, <1>5, EnterFacts

LEMMA AloneHuman ==
  ASSUME IInv, AloneInv, NEW t \in Terms, HumanInput(t) \/ PlainInput(t) \/ Interrupt(t)
  PROVE  AloneInv'
<1>0. TypeOK /\ FlightsFresh /\ SubmittedAlone /\ flight \in [Terms -> SUBSET Flights] /\ term \in [Terms -> Terminal]
  BY DEF IInv, TypeOK, AloneInv
<1>1. PICK e \in Events :
        /\ Writes(t, e) /\ e.kind \in {"human", "plain"}
        /\ e.kind = "human" => term'[t].epoch = term[t].epoch + 1
        /\ e.kind = "plain" => term'[t].epoch = term[t].epoch
        /\ term'[t].pending = term[t].pending
        /\ \A u \in Terms : u # t => term'[u] = term[u]
  BY <1>0, HumanFacts
<1>2. SubmittedAlone'
  BY <1>0, <1>1, AloneWrite
<1>3. flight' = flight
  BY DEF HumanInput, PlainInput, Interrupt, OnlyTerm
<1>4. FlightsFresh'
  <2> SUFFICES ASSUME NEW u \in Terms, NEW f \in flight[u]
               PROVE  /\ term'[u].pending /\ f.epoch <= term'[u].epoch
                      /\ \A g \in flight[u] : g = f
                      /\ f.epoch = term'[u].epoch => Fresh(u, f.seq)'
    BY <1>3 DEF FlightsFresh, Fresh
  <2>1. /\ term[u].pending /\ f.epoch <= term[u].epoch /\ \A g \in flight[u] : g = f
        /\ f.epoch = term[u].epoch => Fresh(u, f.seq)
    BY <1>0 DEF FlightsFresh, Fresh
  <2>2. f.epoch \in Nat /\ term[u].epoch \in Nat
    BY <1>0 DEF Flights, Terminal
  <2>3. CASE u = t /\ e.kind = "human"
    BY <1>1, <2>1, <2>2, <2>3
  <2>4. CASE u # t \/ e.kind = "plain"
    <3>1. term'[u].pending = term[u].pending /\ term'[u].epoch = term[u].epoch
      BY <1>1, <2>4
    <3>2. f.epoch = term[u].epoch => Fresh(u, f.seq)'
      BY <1>0, <1>1, <2>1, <2>4, FreshWrite
    <3> QED BY <2>1, <3>1, <3>2
  <2> QED BY <1>1, <2>3, <2>4
<1> QED BY <1>2, <1>4 DEF AloneInv

\* A change of one terminal that keeps its timers, and its epoch or more.
LEMMA AloneSet ==
  ASSUME IInv, AloneInv, NEW t \in Terms, NEW s, SetTerm(t, s),
         s.pending = term[t].pending, s.epoch \in {term[t].epoch, term[t].epoch + 1}
  PROVE  AloneInv'
<1>0. TypeOK /\ term \in [Terms -> Terminal] /\ \A u \in Terms : term[u].epoch \in Nat
  BY DEF IInv, TypeOK, Terminal
<1>1. pty' = pty /\ flight' = flight /\ term'[t] = s /\ \A u \in Terms : u # t => term'[u] = term[u]
  BY <1>0 DEF SetTerm, OnlyTerm
<1>2. \A u \in Terms : term'[u].pending = term[u].pending /\ term'[u].epoch \in Nat /\ term[u].epoch <= term'[u].epoch
  BY <1>0, <1>1
<1> QED BY <1>0, <1>1, <1>2, AloneQuiet

LEMMA AloneTerm ==
  ASSUME IInv, AloneInv, NEW t \in Terms, TermStep(t)
  PROVE  AloneInv'
<1>0. TypeOK /\ term \in [Terms -> Terminal] /\ term[t] \in Terminal /\ \A u \in Terms : term[u].epoch \in Nat
  BY DEF IInv, TypeOK, Terminal
<1>1. CASE PromptAck(t)
  <2>1. PICK st \in {term[t].status, "working"} :
          SetTerm(t, [term[t] EXCEPT !.unacked = FALSE, !.epoch = @ + 1, !.status = st])
    BY <1>1 DEF PromptAck
  <2>2. LET s == [term[t] EXCEPT !.unacked = FALSE, !.epoch = @ + 1, !.status = st]
        IN  s.pending = term[t].pending /\ s.epoch = term[t].epoch + 1
    BY <1>0 DEF Terminal
  <2> QED BY <2>1, <2>2, AloneSet
<1>2. CASE InputSettles(t)
  <2>1. LET s == [term[t] EXCEPT !.unacked = FALSE] IN s.pending = term[t].pending /\ s.epoch = term[t].epoch
    BY <1>0 DEF Terminal
  <2> QED BY <1>2, <2>1, AloneSet DEF InputSettles
<1>3. ASSUME NEW st \in Status, StatusChange(t, st) PROVE AloneInv'
  <2>1. LET s == [term[t] EXCEPT !.status = st] IN s.pending = term[t].pending /\ s.epoch = term[t].epoch
    BY <1>0 DEF Terminal
  <2> QED BY <1>3, <2>1, AloneSet DEF StatusChange
<1>4. CASE ReplaceSession(t)
  <2>1. LET s == [term[t] EXCEPT !.conv = @ + 1, !.block = @ + 1, !.status = "idle", !.composer = "empty"]
        IN  s.pending = term[t].pending /\ s.epoch = term[t].epoch
    BY <1>0 DEF Terminal
  <2> QED BY <1>4, <2>1, AloneSet DEF ReplaceSession
<1>5. CASE ReleaseDeferred(t)
  <2>1. LET s == [term[t] EXCEPT !.phase = "starting"] IN s.pending = term[t].pending /\ s.epoch = term[t].epoch
    BY <1>0 DEF Terminal
  <2> QED BY <1>5, <2>1, AloneSet DEF ReleaseDeferred
<1>6. CASE Launch(t)
  <2>1. LET s == [term[t] EXCEPT !.phase = "up", !.block = @ + 1] IN s.pending = term[t].pending /\ s.epoch = term[t].epoch
    BY <1>0 DEF Terminal
  <2>2. LET s == [term[t] EXCEPT !.phase = "down"] IN s.pending = term[t].pending /\ s.epoch = term[t].epoch
    BY <1>0 DEF Terminal
  <2> QED BY <1>6, <2>1, <2>2, AloneSet DEF Launch
<1>7. CASE ToggleWriter(t)
  <2>1. LET s == [term[t] EXCEPT !.writer = ~@] IN s.pending = term[t].pending /\ s.epoch = term[t].epoch
    BY <1>0 DEF Terminal
  <2> QED BY <1>7, <2>1, AloneSet DEF ToggleWriter
<1>8. CASE ClosePane(t)
  <2>1. pty' = pty /\ flight' = [flight EXCEPT ![t] = {}] /\ term' = [term EXCEPT ![t].open = FALSE]
    BY <1>8 DEF ClosePane
  <2>2. flight \in [Terms -> SUBSET Flights]
    BY <1>0 DEF TypeOK
  <2>3. flight'[t] = {} /\ \A u \in Terms : u # t => flight'[u] = flight[u] /\ term'[u] = term[u]
    BY <1>0, <2>1, <2>2
  <2>4. \A u \in Terms : flight'[u] # {} =>
          term'[u].pending = term[u].pending /\ term'[u].epoch \in Nat /\ term[u].epoch <= term'[u].epoch
    BY <1>0, <2>3
  <2>5. \A u \in Terms : flight'[u] \subseteq flight[u]
    BY <2>3
  <2> QED BY <1>0, <2>1, <2>4, <2>5, AloneQuiet
<1> QED BY <1>1, <1>2, <1>3, <1>4, <1>5, <1>6, <1>7, <1>8, AloneEnter, AloneHuman DEF TermStep

LEMMA AloneStep == IInv /\ AloneInv /\ [Next]_vars => AloneInv'
<1> SUFFICES ASSUME IInv, AloneInv, [Next]_vars PROVE AloneInv'
  OBVIOUS
<1>0. TypeOK /\ term \in [Terms -> Terminal] /\ \A u \in Terms : term[u].epoch \in Nat /\ term[u].epoch <= term[u].epoch
  BY DEF IInv, TypeOK, Terminal
<1>1. ASSUME NEW i \in Instances, WorkerStep(i) \/ FaultStep(i),
             ~\E m \in worker[i].todo : SendStep(i, m) /\ CanSend(i, m)
      PROVE  AloneInv'
  <2>1. StartsOnly /\ flight' = flight /\ pty' = pty
    BY <1>1, WorkerTerms
  <2>2. \A u \in Terms : term'[u].pending = term[u].pending /\ term'[u].epoch = term[u].epoch
    BY <1>0, <2>1, StartsOnlyKeeps
  <2> QED BY <1>0, <2>1, <2>2, AloneQuiet
<1>2. ASSUME (\E p \in Procs : ProcStep(p)) \/ Clock \/ UNCHANGED vars PROVE AloneInv'
  <2>1. term' = term /\ pty' = pty /\ \A t \in Terms : flight'[t] \subseteq flight[t]
    BY <1>2 DEF ProcStep, StopControl, StartControl, Quit, Crash, Clock, ui, vars
  <2> QED BY <1>0, <2>1, AloneQuiet
<1> QED BY <1>1, <1>2, AloneSend, AloneTerm DEF Next

LEMMA AloneInit == Init => AloneInv
<1> SUFFICES ASSUME Init PROVE AloneInv
  OBVIOUS
<1>1. \A t \in Terms : flight[t] = {} /\ DOMAIN pty[t] = {}
  BY DEF Init
<1> QED BY <1>1 DEF AloneInv, FlightsFresh, SubmittedAlone

\* Enter submits the one message inserted before it: no other text, no Enter and no
\* input that moves the input epoch came in between (the recheck of that epoch).
THEOREM EnterSubmitsItsText == Spec => []SubmittedAlone
<1>1. Spec => []AloneInv
  BY AloneInit, AloneStep, JournalAgrees, PTL DEF Spec
<1>2. AloneInv => SubmittedAlone
  BY DEF AloneInv
<1> QED BY <1>1, <1>2, PTL


-----------------------------------------------------------------------------
(* Order: what is written to a terminal was accepted earlier *)

\* Where a step of worker i takes it.
Position(i) ==
  /\ worker'[i].pc # "off" /\ (worker[i].pc = "off" => bridge[InstHome[i]] = i)
  /\ worker'[i].pc \in {"admit", "insert"} =>
       \/ worker'[i].op \in Sends
       \/ worker[i].pc = "admit" /\ SameTarget(worker'[i].op, worker[i].op)
  /\ worker'[i].pc = "insert" => Admit(i)

LEMMA PositionOf ==
  ASSUME TypeOK, NEW i \in Instances, NEW w, GoTo(i, w), w.pc \notin {"off", "admit", "insert"},
         worker[i].pc = "off" => bridge[InstHome[i]] = i
  PROVE  Position(i)
<1>1. worker'[i] = w
  BY DEF TypeOK, GoTo
<1> QED BY <1>1 DEF Position

LEMMA WorkerPosition ==
  ASSUME IInv, NEW i \in Instances, WorkerStep(i) \/ FaultStep(i)
  PROVE  Position(i)
<1>0. TypeOK /\ worker[i] \in Workers
  BY DEF IInv, TypeOK
<1>p. \A pc \in {"refuse", "send", "fail", "lose"} : [worker[i] EXCEPT !.pc = pc].pc \notin {"off", "admit", "insert"}
  BY <1>0 DEF Workers
<1>1. CASE Poll(i)
  BY <1>0, <1>1, NotStopped, PositionOf DEF Poll, Reachable
<1>2. ASSUME NEW r \in Requests, TakeCancel(i, r) PROVE Position(i)
  BY <1>0, <1>2, NotStopped, PositionOf DEF TakeCancel, Reachable
<1>3. ASSUME NEW op \in Sends, TakeSend(i, op) PROVE Position(i)
  <2>1. CASE Maintained[op.req] # NoRow
    BY <1>0, <1>3, <2>1, NotStopped, PositionOf DEF TakeSend, Reachable
  <2>2. CASE Maintained[op.req] = NoRow
    <3>1. worker'[i] = [Resting("admit") EXCEPT !.op = op]
      BY <1>0, <1>3, <2>2 DEF TakeSend, GoTo, TypeOK
    <3>2. worker'[i].pc = "admit" /\ worker'[i].op = op
      BY <3>1 DEF Resting
    <3> QED BY <1>3, <3>2 DEF Position, TakeSend, Reachable
  <2> QED BY <2>1, <2>2
<1>4. CASE Admit(i)
  <2> DEFINE g == [lazy |-> Reason(term[worker[i].op.term]) \in LazyReasons,
                   uepoch |-> term[worker[i].op.term].uepoch,
                   block |-> term[worker[i].op.term].block, mark |-> Len(pty[worker[i].op.term])]
             w == [worker[i] EXCEPT !.pc = "insert", !.op.guard = g]
  <2>1. worker[i].op \in Ops /\ worker[i].pc = "admit"
    BY <1>0, <1>4 DEF Admit, AtPc, TypeOK
  <2>2. worker'[i] = w
    BY <1>0, <1>4 DEF Admit, GoTo, TypeOK
  <2> HIDE DEF g
  <2>3. w.pc = "insert" /\ w.op = [worker[i].op EXCEPT !.guard = g]
    BY <1>0 DEF Workers
  <2>4. SameTarget([worker[i].op EXCEPT !.guard = g], worker[i].op)
    BY <2>1 DEF SameTarget, Ops
  <2> HIDE DEF w
  <2> QED BY <1>4, <2>1, <2>2, <2>3, <2>4 DEF Position
<1>5. CASE AdmitRefused(i) \/ Insert(i)
  BY <1>0, <1>5, NotStopped, PositionOf DEF AdmitRefused, Insert, AtPc
<1>6. ASSUME NEW m \in worker[i].todo, ProbeStep(i, m) PROVE Position(i)
  <2>1. [worker[i] EXCEPT !.pc = "claim", !.rev = Revision(Started(m.term))].pc = "claim"
    BY <1>0 DEF Workers
  <2>2. Verdict(i, m) \in {"ready", "wait", "cancel"} /\ worker[i].pc = "probe"
    BY <1>6 DEF Verdict, ProbeStep, AtPc
  <2>3. PICK w : GoTo(i, w) /\ w.pc \notin {"off", "admit", "insert"}
    BY <1>6, <1>p, <2>1, <2>2, NotStopped DEF ProbeStep
  <2> QED BY <1>0, <2>2, <2>3, PositionOf
<1>7. ASSUME NEW m \in worker[i].todo, RefuseStep(i, m) \/ ClaimStep(i, m) \/ SendStep(i, m) \/ SettleStep(i, m)
      PROVE  Position(i)
  <2>1. PICK w : GoTo(i, w) /\ w.pc \notin {"off", "admit", "insert"}
    BY <1>7, <1>p, NotStopped DEF RefuseStep, ClaimStep, SendStep, SettleStep
  <2>2. worker[i].pc # "off"
    BY <1>7 DEF RefuseStep, ClaimStep, SendStep, SettleStep, AtPc
  <2> QED BY <1>0, <2>1, <2>2, PositionOf
<1>8. ASSUME NEW f \in finished[i], TakeFinished(i, f) \/ FinishedError(i, f) PROVE Position(i)
  BY <1>0, <1>8, NotStopped, PositionOf DEF TakeFinished, FinishedError, AtPc
<1>9. CASE TakeShutdown(i) \/ ShutdownError(i)
  BY <1>0, <1>9, PositionOf DEF TakeShutdown, ShutdownError, AtPc, Resting
<1>10. CASE JournalError(i)
  <2>1. PICK w : GoTo(i, w) /\ w.pc \notin {"off", "admit", "insert"}
    BY <1>10, NotStopped DEF JournalError
  <2>2. worker[i].pc # "off"
    BY <1>10 DEF JournalError
  <2> QED BY <1>0, <2>1, <2>2, PositionOf
<1> QED BY <1>1, <1>2, <1>3, <1>4, <1>5, <1>6, <1>7, <1>8, <1>9, <1>10 DEF WorkerStep, FaultStep

\* Where a row of the journal comes from: the same message before, or a new one.
LEMMA RowOrigin ==
  ASSUME IInv, NEW i \in Instances, RowMoves(i), NEW r \in Requests, journal'[r] # NoRow
  PROVE  \/ FreshRow(i, r)
         \/ /\ journal[r] # NoRow /\ SameMessage(journal'[r], journal[r])
            /\ journal'[r].state \in PendingStates => journal[r].state \in PendingStates
            /\ journal'[r].state = "dispatching" => journal[r].state = "dispatching" \/ ClaimMove(i, journal[r], journal'[r])
            /\ journal'[r].state = "queued" => journal[r].state = "queued"
<1>1. SameMessage(journal[r], journal[r])
  BY DEF SameMessage, SameTarget
<1> QED BY <1>1 DEF RowMoves, RowMove, MaintMove, Lapse, Refusal, Recovery, ClaimMove, FailMove, FinishMove, StopMove,
                    Moved, PendingStates


\* A pending row of the journal after the step, as it was before.
LEMMA PendingOrigin ==
  ASSUME IInv, NEW i \in Instances, RowMoves(i), NEW j \in Instances, NEW r \in OwnPending(journal', j)
  PROVE  \/ FreshRow(i, r) /\ j = i
         \/ /\ r \in OwnPending(journal, j) /\ SameMessage(journal'[r], journal[r])
            /\ journal'[r].state = "dispatching" => journal[r].state = "dispatching" \/ ClaimMove(i, journal[r], journal'[r])
<1>1. r \in Requests /\ journal'[r] # NoRow /\ journal'[r].state \in PendingStates /\ journal'[r].inst = j
  BY DEF OwnPending, PendingIn
<1>2. CASE FreshRow(i, r)
  BY <1>1, <1>2 DEF FreshRow
<1>3. CASE ~FreshRow(i, r)
  <2>1. /\ journal[r] # NoRow /\ SameMessage(journal'[r], journal[r])
        /\ journal'[r].state \in PendingStates => journal[r].state \in PendingStates
        /\ journal'[r].state = "dispatching" => journal[r].state = "dispatching" \/ ClaimMove(i, journal[r], journal'[r])
    BY <1>1, <1>3, RowOrigin
  <2>2. journal[r].inst = j
    BY <1>1, <2>1 DEF SameMessage
  <2> QED BY <1>1, <2>1, <2>2 DEF OwnPending, PendingIn
<1> QED BY <1>2, <1>3

\* Nothing gets ahead of the oldest message of a target.
LEMMA OldestKept ==
  ASSUME IInv, NEW i \in Instances, RowMoves(i), NEW j \in Instances, NEW m,
         Oldest(j, m), m.seq \in Nat, m.seq < nextSeq
  PROVE  \A r \in OwnPending(journal', j) : SameTarget(journal'[r], m) => m.seq <= journal'[r].seq
<1>0. nextSeq \in Nat
  BY InvTypes DEF IInv
<1> SUFFICES ASSUME NEW r \in OwnPending(journal', j), SameTarget(journal'[r], m)
             PROVE  m.seq <= journal'[r].seq
  OBVIOUS
<1>1. CASE FreshRow(i, r)
  BY <1>0, <1>1 DEF FreshRow
<1>2. CASE r \in OwnPending(journal, j) /\ SameMessage(journal'[r], journal[r])
  <2>1. SameTarget(journal[r], m) /\ journal'[r].seq = journal[r].seq
    BY <1>2 DEF SameMessage, SameTarget
  <2> QED BY <1>2, <2>1 DEF Oldest
<1> QED BY <1>1, <1>2, PendingOrigin

LEMMA QueuesWorker ==
  ASSUME IInv, JournalSound', QueuesSound, NEW i \in Instances, Alive(i), RowMoves(i), OwnWorker(i),
         \A j \in Instances \ {i} : worker'[j] = worker[j], proc' = proc
  PROVE  QueuesSound'
<1>0. TypeOK /\ JournalSound /\ \A j \in Instances : Alive(j)' <=> Alive(j)
  BY DEF IInv, Alive
<1>1. ASSUME NEW j \in Instances, Alive(j), NEW m \in worker[j].todo
      PROVE  Oldest(j, m) /\ Oldest(j, m)' /\ m.seq \in Nat /\ m.seq < nextSeq
  <2>1. Oldest(j, m)
    BY <1>1 DEF QueuesSound
  <2>2. m.seq \in Nat /\ m.seq < nextSeq
    BY <1>1, SnapshotRow DEF IInv, SnapshotsSound, Row
  <2>3. \A r \in OwnPending(journal', j) : SameTarget(journal'[r], m) => m.seq <= journal'[r].seq
    BY <2>1, <2>2, OldestKept
  <2> QED BY <2>1, <2>2, <2>3 DEF Oldest
<1>2. ASSUME NEW j \in Instances, NEW r \in OwnPending(journal', j), journal'[r].state = "dispatching"
      PROVE  Oldest(j, journal[r])'
  <2>1. CASE FreshRow(i, r)
    BY <1>2, <2>1 DEF FreshRow
  <2>2. CASE r \in OwnPending(journal, j) /\ SameMessage(journal'[r], journal[r]) /\ ~FreshRow(i, r)
    <3>0. /\ r \in Requests /\ journal[r] # NoRow /\ journal[r].seq \in Nat /\ journal[r].seq < nextSeq /\ journal[r].inst = j
          /\ SameTarget(journal'[r], journal[r]) /\ journal'[r].seq = journal[r].seq
      BY <1>0, <2>2, InvTypes DEF OwnPending, PendingIn, JournalSound, Present, SameMessage
    <3>1. Oldest(j, journal[r])
      <4>1. CASE journal[r].state = "dispatching"
        BY <2>2, <4>1 DEF QueuesSound
      <4>2. CASE ClaimMove(i, journal[r], journal'[r])
        <5>1. PICK m \in worker[i].todo : SameMessage(journal[r], m)
          BY <4>2 DEF ClaimMove
        <5>2. j = i
          BY <3>0, <4>2 DEF ClaimMove
        <5>3. Oldest(i, m)
          BY <1>1
        <5> QED BY <5>1, <5>2, <5>3 DEF Oldest, SameMessage, SameTarget
      <4> QED BY <1>2, <2>2, <4>1, <4>2, PendingOrigin
    <3>2. \A q \in OwnPending(journal', j) : SameTarget(journal'[q], journal[r]) => journal[r].seq <= journal'[q].seq
      BY <3>0, <3>1, OldestKept
    <3> QED BY <3>0, <3>2 DEF Oldest, SameTarget
  <2> QED BY <1>2, <2>1, <2>2, PendingOrigin
<1>3. ASSUME NEW j \in Instances, Alive(j), NEW m \in worker'[j].todo PROVE Oldest(j, m)'
  <2>1. CASE j # i
    BY <1>1, <1>3, <2>1
  <2>2. CASE j = i /\ worker'[i].todo \subseteq worker[i].todo
    BY <1>1, <1>3, <2>2
  <2>3. CASE j = i /\ worker'[i].todo \subseteq Heads(journal', i)
    BY <1>3, <2>3 DEF Heads, Oldest
  <2>4. CASE j = i /\ worker'[i].todo = {}
    BY <1>3, <2>4
  <2> QED BY <2>1, <2>2, <2>3, <2>4 DEF OwnWorker
<1> QED BY <1>0, <1>2, <1>3 DEF QueuesSound


LEMMA BridgesWorker ==
  ASSUME IInv, BridgesSound, NEW i \in Instances, RowMoves(i), Position(i),
         \A j \in Instances \ {i} : worker'[j] = worker[j], UNCHANGED <<bridge, shut>>
  PROVE  BridgesSound'
<1>1. ASSUME NEW j \in Instances, j # i, worker[j].pc = "off", NEW r \in Requests, journal'[r] # NoRow
      PROVE  journal'[r].inst # j
  BY <1>1, RowOrigin DEF BridgesSound, Present, FreshRow, SameMessage
<1>2. worker'[i].pc # "off" /\ (i \in shut \/ bridge[InstHome[i]] = i)
  BY DEF Position, BridgesSound
<1>3. ASSUME NEW j \in Instances
      PROVE  IF worker'[j].pc = "off" THEN \A r \in Requests : journal'[r] # NoRow => journal'[r].inst # j
             ELSE j \in shut \/ bridge[InstHome[j]] = j
  BY <1>1, <1>2 DEF BridgesSound
<1> QED BY <1>3 DEF BridgesSound, Present

LEMMA AddressesWorker ==
  ASSUME IInv, AddressesSound, NEW i \in Instances, RowMoves(i), Position(i),
         \A j \in Instances \ {i} : worker'[j] = worker[j],
         \A t \in Terms : term'[t].conv = term[t].conv
  PROVE  AddressesSound'
<1>0. TypeOK /\ (\A r \in Requests : journal[r] # NoRow => journal[r].term \in Terms)
      /\ \A j \in Instances : worker[j].pc \in {"admit", "insert"} => worker[j].op.term \in Terms
  BY DEF IInv, TypeOK, Row, Ops
<1>1. ASSUME NEW r \in Requests, journal'[r] # NoRow
      PROVE  journal'[r].conv <= term'[journal'[r].term].conv
  <2>1. CASE FreshRow(i, r)
    BY <1>0, <2>1 DEF FreshRow, SameTarget, AddressesSound
  <2>2. CASE journal[r] # NoRow /\ SameMessage(journal'[r], journal[r])
    BY <1>0, <2>2 DEF SameMessage, SameTarget, AddressesSound, Present
  <2> QED BY <1>1, <2>1, <2>2, RowOrigin
<1>2. ASSUME NEW j \in Instances, worker'[j].pc \in {"admit", "insert"}
      PROVE  worker'[j].op.conv <= term'[worker'[j].op.term].conv
  <2>1. CASE j # i
    BY <1>0, <1>2, <2>1 DEF AddressesSound
  <2>2. CASE j = i /\ worker'[i].op \in Sends
    <3>1. PICK t \in Terms : worker'[i].op.term = t /\ worker'[i].op.conv = term[t].conv
      BY <2>2 DEF Sends
    <3>2. term[t].conv \in Nat
      BY <1>0 DEF TypeOK, Terminal
    <3> QED BY <2>2, <3>1, <3>2
  <2>3. CASE j = i /\ worker[i].pc = "admit" /\ SameTarget(worker'[i].op, worker[i].op)
    BY <1>0, <2>3 DEF AddressesSound, SameTarget
  <2> QED BY <1>2, <2>1, <2>2, <2>3 DEF Position
<1> QED BY <1>1, <1>2 DEF AddressesSound, Present

\* A worker that inserts nothing.
LEMMA OrderWorker ==
  ASSUME IInv, IInv', OrderInv, NEW i \in Instances, Alive(i), RowMoves(i), WorkerFrame(i), OwnWorker(i),
         Position(i), StartsOnly, UNCHANGED <<bridge, shut>>
  PROVE  OrderInv'
<1>0. /\ TypeOK /\ HistorySound /\ pty' = pty /\ proc' = proc /\ nextSeq \in Nat
      /\ \A j \in Instances \ {i} : worker'[j] = worker[j]
      /\ BridgesSound /\ AddressesSound /\ QueuesSound /\ TextsOlder /\ TargetFIFO
  BY InvTypes DEF IInv, WorkerFrame, OrderInv
<1>1. \A t \in Terms : term'[t].conv = term[t].conv
  BY <1>0, StartsOnlyKeeps
<1>2. BridgesSound' /\ AddressesSound'
  BY <1>0, <1>1, BridgesWorker, AddressesWorker
<1>3. QueuesSound'
  BY <1>0, QueuesWorker DEF IInv
<1>4. TextsOlder'
  <2>0. \A s : Wrote(s)' <=> Wrote(s)
    BY <1>0, SameHistory
  <2> SUFFICES ASSUME NEW t \in Terms, NEW k \in DOMAIN pty[t], NEW r \in Requests,
                      IsText(t, k), journal'[r] # NoRow, journal'[r].state \in PendingStates,
                      ~Wrote(journal'[r].seq), journal'[r].term = t, journal'[r].conv = term[t].conv,
                      journal'[r].inst = bridge[TermHome[t]]
               PROVE  pty[t][k].seq < journal'[r].seq
    BY <1>0, <1>1, <2>0 DEF TextsOlder, IsText, Present
  <2>1. CASE FreshRow(i, r)
    BY <1>0, <2>1 DEF FreshRow, HistorySound
  <2>2. CASE /\ journal[r] # NoRow /\ SameMessage(journal'[r], journal[r])
             /\ journal[r].state \in PendingStates
    BY <1>0, <2>2 DEF TextsOlder, SameMessage, SameTarget, Present
  <2> QED BY <2>1, <2>2, RowOrigin
<1>5. TargetFIFO'
  BY <1>0 DEF TargetFIFO, IsText
<1> QED BY <1>2, <1>3, <1>4, <1>5 DEF OrderInv

\* The journal and the workers stay; texts are not written and conversations only move on.
LEMMA OrderQuiet ==
  ASSUME IInv, OrderInv, UNCHANGED <<journal, worker, bridge>>, shut \subseteq shut',
         \A j \in Instances : Alive(j)' => Alive(j),
         \A t \in Terms : term'[t].conv \in Nat /\ term[t].conv <= term'[t].conv,
         \A t \in Terms : \A k \in DOMAIN pty'[t] :
           pty'[t][k].kind = "text" => k \in DOMAIN pty[t] /\ pty'[t][k] = pty[t][k],
         \A s : Wrote(s) => Wrote(s)'
  PROVE  OrderInv'
<1>0. TypeOK /\ BridgesSound /\ AddressesSound /\ QueuesSound /\ TextsOlder /\ TargetFIFO
  BY DEF IInv, OrderInv
<1>t. /\ \A r \in Requests : journal[r] # NoRow => journal[r].term \in Terms /\ journal[r].conv \in Nat
      /\ \A j \in Instances : worker[j].pc \in {"admit", "insert"} => worker[j].op.term \in Terms /\ worker[j].op.conv \in Nat
      /\ \A t \in Terms : term[t].conv \in Nat
  BY <1>0 DEF TypeOK, Row, Ops, Terminal
<1>1. BridgesSound'
  BY <1>0 DEF BridgesSound, Present
<1>2. AddressesSound'
  <2>1. \A r \in Requests : journal[r] # NoRow => journal[r].conv <= term'[journal[r].term].conv
    BY <1>0, <1>t DEF AddressesSound, Present
  <2>2. \A j \in Instances : worker[j].pc \in {"admit", "insert"} => worker[j].op.conv <= term'[worker[j].op.term].conv
    BY <1>0, <1>t DEF AddressesSound
  <2> QED BY <2>1, <2>2 DEF AddressesSound, Present
<1>3. QueuesSound'
  BY <1>0 DEF QueuesSound, Oldest
<1>4. TextsOlder'
  <2> SUFFICES ASSUME NEW t \in Terms, NEW k \in DOMAIN pty'[t], NEW r \in Requests,
                      pty'[t][k].kind = "text", journal[r] # NoRow, journal[r].state \in PendingStates,
                      ~Wrote(journal[r].seq)', journal[r].term = t, journal[r].conv = term'[t].conv,
                      journal[r].inst = bridge[TermHome[t]]
               PROVE  pty'[t][k].seq < journal[r].seq
    BY DEF TextsOlder, IsText, Present
  <2>1. journal[r].conv <= term[t].conv /\ journal[r].conv \in Nat
    BY <1>0, <1>t DEF AddressesSound, Present
  <2>2. journal[r].conv = term[t].conv
    BY <1>t, <2>1
  <2>3. ~Wrote(journal[r].seq)
    <3>1. \A s : s = journal[r].seq /\ Wrote(s)' => Wrote(journal[r].seq)'
      BY DEF Wrote
    <3> QED BY <3>1
  <2> QED BY <1>0, <2>2, <2>3 DEF TextsOlder, IsText, Present
<1>5. TargetFIFO'
  BY <1>0 DEF TargetFIFO, IsText
<1> QED BY <1>1, <1>2, <1>3, <1>4, <1>5 DEF OrderInv


LEMMA OrderSend ==
  ASSUME IInv, IInv', OrderInv, NEW i \in Instances, NEW m \in worker[i].todo, SendStep(i, m), CanSend(i, m),
         Position(i)
  PROVE  OrderInv'
<1> DEFINE t == m.term
           n == Len(pty[t]) + 1
<1>0. /\ TypeOK /\ term \in [Terms -> Terminal]
      /\ BridgesSound /\ AddressesSound /\ QueuesSound /\ TextsOlder /\ TargetFIFO
  BY DEF IInv, OrderInv, TypeOK
<1>1. /\ Alive(i) /\ t \in Terms /\ TextEvent(m) \in Events /\ Writes(t, TextEvent(m)) /\ Inserts(i, m)
      /\ m.req \in Requests /\ Present(m.req) /\ journal[m.req].inst = i /\ journal[m.req].seq = m.seq
      /\ journal[m.req].state = "dispatching" /\ ~Wrote(m.seq) /\ Resolves(i, m)
      /\ GoTo(i, Advance(journal, i, m)) /\ journal' = journal
  BY SendFacts
<1>2. proc' = proc /\ bridge' = bridge /\ shut' = shut
  BY SendFacts
<1>3. TextEvent(m).kind = "text" /\ TextEvent(m).seq = m.seq
  BY DEF TextEvent
<1>4. \A j \in Instances \ {i} : worker'[j] = worker[j]
  BY <1>0, <1>1 DEF GoTo, TypeOK
<1>5. RowMoves(i) /\ OwnWorker(i)
  BY <1>0, <1>1, AdvanceOwn DEF RowMoves, RowMove, MaintMove
<1>6. \A u \in Terms : term'[u].conv = term[u].conv
  BY <1>0, <1>1 DEF Inserts, Terminal
<1>7. BridgesSound' /\ AddressesSound'
  BY <1>0, <1>2, <1>4, <1>5, <1>6, BridgesWorker, AddressesWorker
<1>8. QueuesSound'
  BY <1>0, <1>1, <1>2, <1>4, <1>5, QueuesWorker DEF IInv
<1>9. \A s : Wrote(s)' <=> Wrote(s) \/ s = m.seq
  BY SendHistory
<1>10. bridge[TermHome[t]] = i /\ term[t].conv = m.conv
  BY <1>1 DEF Resolves
<1>11. journal[m.req].term = t /\ journal[m.req].conv = m.conv
  BY <1>1, SnapshotRow DEF SameMessage, SameTarget
\* every text on that terminal is older than this one
<1>12. \A k \in DOMAIN pty[t] : IsText(t, k) => pty[t][k].seq < m.seq
  BY <1>0, <1>1, <1>10, <1>11 DEF TextsOlder, PendingStates
\* places of the new history
<1>13. /\ \A u \in Terms : \A k \in DOMAIN pty'[u] :
            \/ u = t /\ k = n /\ pty'[u][k] = TextEvent(m)
            \/ k \in DOMAIN pty[u] /\ pty'[u][k] = pty[u][k]
       /\ \A k \in DOMAIN pty[t] : k < n /\ k \in Nat
  <2>1. Len(pty[t]) \in Nat /\ DOMAIN pty[t] = 1..Len(pty[t])
    BY <1>0, <1>1, HistoryTypes
  <2>2. \A k \in DOMAIN pty[t] : k < n /\ k \in Nat
    BY <2>1
  <2> QED BY <1>0, <1>1, <2>2, WritePlaces
<1>14. TargetFIFO'
  <2> SUFFICES ASSUME NEW u \in Terms, NEW k \in DOMAIN pty'[u], NEW l \in DOMAIN pty'[u],
                      pty'[u][k].kind = "text", pty'[u][l].kind = "text", k < l
               PROVE  pty'[u][k].seq < pty'[u][l].seq
    BY DEF TargetFIFO, IsText
  <2> HIDE DEF t, n
  <2>1. CASE u = t /\ k = n
    <3>1. l \notin DOMAIN pty[t]
      <4>1. n \in Nat
        BY <1>0, <1>1, HistoryTypes DEF n
      <4> QED BY <1>13, <2>1, <4>1
    <3>2. l = n
      BY <1>13, <2>1, <3>1
    <3> QED BY <1>0, <1>1, <2>1, <3>2, HistoryTypes DEF n
  <2>2. CASE k \in DOMAIN pty[u] /\ pty'[u][k] = pty[u][k] /\ u = t /\ l = n /\ pty'[u][l] = TextEvent(m)
    BY <1>3, <1>12, <2>2 DEF IsText
  <2>3. CASE k \in DOMAIN pty[u] /\ pty'[u][k] = pty[u][k] /\ l \in DOMAIN pty[u] /\ pty'[u][l] = pty[u][l]
    BY <1>0, <2>3 DEF TargetFIFO, IsText
  <2> QED BY <1>13, <2>1, <2>2, <2>3
<1>15. TextsOlder'
  <2> SUFFICES ASSUME NEW u \in Terms, NEW k \in DOMAIN pty'[u], NEW r \in Requests,
                      pty'[u][k].kind = "text", journal[r] # NoRow, journal[r].state \in PendingStates,
                      ~Wrote(journal[r].seq), journal[r].seq # m.seq, journal[r].term = u, journal[r].conv = term[u].conv,
                      journal[r].inst = bridge[TermHome[u]]
               PROVE  pty'[u][k].seq < journal[r].seq
    <3>1. \A r \in Requests : \A s : s = journal[r].seq => (Wrote(s)' <=> Wrote(journal[r].seq)')
      BY <1>1 DEF Wrote
    <3>2. \A r \in Requests : ~Wrote(journal[r].seq)' => ~Wrote(journal[r].seq) /\ journal[r].seq # m.seq
      BY <1>9, <3>1
    <3> QED BY <1>1, <1>2, <1>6, <3>2 DEF TextsOlder, IsText, Present
  <2>1. CASE k \in DOMAIN pty[u] /\ pty'[u][k] = pty[u][k]
    BY <1>0, <2>1 DEF TextsOlder, IsText, Present
  <2>2. CASE u = t /\ pty'[u][k] = TextEvent(m)
    <3>1. r \in OwnPending(journal, i) /\ SameTarget(journal[r], m)
      BY <1>10, <2>2 DEF OwnPending, PendingIn, SameTarget
    <3>2. m.seq <= journal[r].seq
      BY <1>0, <1>1, <3>1 DEF QueuesSound, Oldest
    <3>3. m.seq \in Nat /\ journal[r].seq \in Nat
      BY <1>0, <1>1, SnapshotRow, InvTypes DEF Row
    <3>4. m.seq < journal[r].seq
      BY <3>2, <3>3
    <3> QED BY <1>3, <2>2, <3>4
  <2> QED BY <1>13, <2>1, <2>2
<1> QED BY <1>7, <1>8, <1>14, <1>15 DEF OrderInv

LEMMA OrderTerm ==
  ASSUME IInv, OrderInv, NEW t \in Terms, TermStep(t)
  PROVE  OrderInv'
<1>0. TypeOK /\ term \in [Terms -> Terminal] /\ \A u \in Terms : term[u].conv \in Nat
  BY DEF IInv, TypeOK, Terminal
<1>1. UNCHANGED <<journal, worker, bridge>> /\ shut' = shut /\ proc' = proc
  BY DEF TermStep, EnterFires, HumanInput, PlainInput, Interrupt, PromptAck, InputSettles, StatusChange, ReplaceSession,
         ReleaseDeferred, Launch, ToggleWriter, ClosePane, SetTerm, OnlyTerm
<1>2. \A j \in Instances : Alive(j)' => Alive(j)
  BY <1>1 DEF Alive
<1>3. term' \in [Terms -> Terminal] /\ \A u \in Terms : term[u].conv <= term'[u].conv
  <2>1. TypeOK'
    BY <1>0, TermStepType
  <2>2. \A u \in Terms : u # t => term'[u] = term[u]
    BY <1>0 DEF TermStep, EnterFires, HumanInput, PlainInput, Interrupt, PromptAck, InputSettles, StatusChange, ReplaceSession,
                ReleaseDeferred, Launch, ToggleWriter, ClosePane, SetTerm
  <2>3. term'[t].conv \in {term[t].conv, term[t].conv + 1}
    <3>0. term[t] \in Terminal
      BY <1>0
    <3>1. ASSUME NEW f \in flight[t], EnterFires(t, f) PROVE term'[t].conv = term[t].conv
      <4>1. PICK st, c : term' = [term EXCEPT ![t].pending = FALSE, ![t].unacked = TRUE, ![t].epoch = @ + 1,
                                              ![t].status = st, ![t].composer = c]
        BY <3>1 DEF EnterFires
      <4> QED BY <1>0, <3>0, <4>1 DEF Terminal
    <3>2. ASSUME NEW st \in Status, StatusChange(t, st) PROVE term'[t].conv = term[t].conv
      BY <1>0, <3>0, <3>2 DEF StatusChange, SetTerm, Terminal
    <3>3. CASE HumanInput(t)
      BY <1>0, <3>0, <3>3 DEF HumanInput, Terminal
    <3>4. CASE PlainInput(t) \/ Interrupt(t)
      BY <1>0, <3>0, <3>4 DEF PlainInput, Interrupt, Terminal
    <3>5. CASE ClosePane(t)
      BY <1>0, <3>0, <3>5 DEF ClosePane, Terminal
    <3>6. CASE InputSettles(t)
      BY <1>0, <3>0, <3>6 DEF InputSettles, SetTerm, Terminal
    <3>7. CASE ReplaceSession(t)
      BY <1>0, <3>0, <3>7 DEF ReplaceSession, SetTerm, Terminal
    <3>8. CASE ReleaseDeferred(t)
      BY <1>0, <3>0, <3>8 DEF ReleaseDeferred, SetTerm, Terminal
    <3>9. CASE Launch(t)
      BY <1>0, <3>0, <3>9 DEF Launch, SetTerm, Terminal
    <3>10. CASE ToggleWriter(t)
      BY <1>0, <3>0, <3>10 DEF ToggleWriter, SetTerm, Terminal
    <3>11. CASE PromptAck(t)
      BY <1>0, <3>0, <3>11 DEF PromptAck, SetTerm, Terminal
    <3> QED BY <3>1, <3>2, <3>3, <3>4, <3>5, <3>6, <3>7, <3>8, <3>9, <3>10, <3>11 DEF TermStep
  <2>4. \A u \in Terms : term'[u].conv \in {term[u].conv, term[u].conv + 1}
    BY <2>2, <2>3
  <2>5. \A u \in Terms : term[u].conv <= term'[u].conv
    BY <1>0, <2>4
  <2> QED BY <2>1, <2>5 DEF TypeOK
<1>4. \A u \in Terms : term'[u].conv \in Nat
  BY <1>3 DEF Terminal
<1>5. ASSUME NEW e \in Events, Writes(t, e), e.kind # "text" PROVE OrderInv'
  <2>1. \A u \in Terms : \A k \in DOMAIN pty'[u] :
           pty'[u][k].kind = "text" => k \in DOMAIN pty[u] /\ pty'[u][k] = pty[u][k]
    BY <1>0, <1>5, WritePlaces
  <2>2. \A s : Wrote(s) => Wrote(s)'
    BY <1>0, <1>5, WriteHistory
  <2> QED BY <1>1, <1>2, <1>3, <1>4, <2>1, <2>2, OrderQuiet
<1>6. CASE pty' = pty
  BY <1>1, <1>2, <1>3, <1>4, <1>6, SameHistory, OrderQuiet
<1>7. CASE HumanInput(t) \/ PlainInput(t) \/ Interrupt(t)
  BY <1>0, <1>5, <1>7, HumanFacts
<1>8. ASSUME NEW f \in flight[t], EnterFires(t, f) PROVE OrderInv'
  <2>1. EnterEvent(f) \in Events /\ EnterEvent(f).kind # "text"
    BY <1>8, EnterFacts DEF EnterEvent
  <2> QED BY <1>5, <1>6, <1>8, <2>1, EnterFacts
<1>9. CASE ~(HumanInput(t) \/ PlainInput(t) \/ Interrupt(t)) /\ ~\E f \in flight[t] : EnterFires(t, f)
  <2>1. pty' = pty
    BY <1>9 DEF TermStep, PromptAck, InputSettles, StatusChange, ReplaceSession, ReleaseDeferred, Launch, ToggleWriter,
                ClosePane, SetTerm
  <2> QED BY <1>6, <2>1
<1> QED BY <1>7, <1>8, <1>9

LEMMA OrderProc ==
  ASSUME IInv, OrderInv, NEW p \in Procs, ProcStep(p)
  PROVE  OrderInv'
<1>0. TypeOK /\ BridgesSound /\ AddressesSound /\ QueuesSound /\ TextsOlder /\ TargetFIFO
      /\ bridge \in [Procs -> Instances \cup {NoInst}] /\ proc \in [Procs -> {"up", "quitting", "dead"}]
      /\ \A t \in Terms : term[t].conv \in Nat /\ term[t].conv <= term[t].conv
  BY DEF IInv, OrderInv, TypeOK, Terminal
<1>1. CASE Quit(p) \/ Crash(p)
  <2>1. UNCHANGED <<journal, worker, bridge>> /\ shut \subseteq shut' /\ term' = term /\ pty' = pty
    BY <1>1 DEF Quit, Crash, ui
  <2>2. \A j \in Instances : Alive(j)' => Alive(j)
    BY <1>0, <1>1, HomesAssumption DEF Quit, Crash, Alive
  <2> QED BY <1>0, <2>1, <2>2, SameHistory, OrderQuiet
<1>2. ASSUME UNCHANGED <<journal, worker, term, pty, proc>>, BridgesSound',
             \A t \in Terms : bridge'[TermHome[t]] = bridge[TermHome[t]]
                              \/ \A r \in Requests : Present(r) => journal[r].inst # bridge'[TermHome[t]]
      PROVE  OrderInv'
  <2>1. AddressesSound'
    BY <1>0, <1>2 DEF AddressesSound, Present
  <2>2. QueuesSound'
    BY <1>0, <1>2 DEF QueuesSound, Oldest, Alive
  <2>3. TargetFIFO'
    BY <1>0, <1>2 DEF TargetFIFO, IsText
  <2>4. \A s : Wrote(s)' <=> Wrote(s)
    BY <1>2, SameHistory
  <2>5. TextsOlder'
    BY <1>0, <1>2, <2>4 DEF TextsOlder, Present, IsText, Wrote
  <2> QED BY <1>2, <2>1, <2>2, <2>3, <2>5 DEF OrderInv
<1>3. CASE StopControl(p)
  <2>1. UNCHANGED <<journal, worker, term, pty, proc>> /\ bridge[p] # NoInst
        /\ shut' = shut \cup {bridge[p]} /\ bridge' = [bridge EXCEPT ![p] = NoInst]
    BY <1>3 DEF StopControl, ui
  <2>2. bridge'[p] = NoInst /\ \A q \in Procs : q # p => bridge'[q] = bridge[q]
    BY <1>0, <2>1
  <2>3. BridgesSound'
    <3>1. \A q \in Procs : bridge'[q] # NoInst => InstHome[bridge'[q]] = q
      BY <1>0, <2>2 DEF BridgesSound
    <3>2. ASSUME NEW j \in Instances, j \in shut \/ bridge[InstHome[j]] = j
          PROVE  j \in shut' \/ bridge'[InstHome[j]] = j
      BY <2>1, <2>2, <3>2, HomesAssumption
    <3> QED BY <1>0, <2>1, <3>1, <3>2 DEF BridgesSound, Present
  <2>4. \A r \in Requests : Present(r) => journal[r].inst # NoInst
    BY <1>0, InvTypes, SentinelAssumption DEF Present
  <2> QED BY <1>2, <2>1, <2>2, <2>3, <2>4, HomesAssumption
<1>4. ASSUME NEW i \in Instances, StartControl(p, i) PROVE OrderInv'
  <2>1. UNCHANGED <<journal, worker, term, pty, proc>> /\ bridge[p] = NoInst /\ InstHome[i] = p /\ i \notin shut
        /\ shut' = shut /\ bridge' = [bridge EXCEPT ![p] = i]
    BY <1>4 DEF StartControl, ui
  <2>2. bridge'[p] = i /\ \A q \in Procs : q # p => bridge'[q] = bridge[q]
    BY <1>0, <2>1
  <2>3. BridgesSound'
    <3>1. \A q \in Procs : bridge'[q] # NoInst => InstHome[bridge'[q]] = q
      BY <1>0, <2>1, <2>2 DEF BridgesSound
    <3>2. ASSUME NEW j \in Instances, j \in shut \/ bridge[InstHome[j]] = j
          PROVE  j \in shut' \/ bridge'[InstHome[j]] = j
      BY <2>1, <2>2, <3>2, HomesAssumption, SentinelAssumption
    <3> QED BY <1>0, <2>1, <3>1, <3>2 DEF BridgesSound, Present
  <2>4. \A r \in Requests : Present(r) => journal[r].inst # i
    <3>1. ~(i \in shut \/ bridge[InstHome[i]] = i)
      BY <2>1, SentinelAssumption
    <3> QED BY <1>0, <3>1 DEF BridgesSound
  <2> QED BY <1>2, <2>1, <2>2, <2>3, <2>4, HomesAssumption
<1> QED BY <1>1, <1>3, <1>4 DEF ProcStep


\* What a step of a worker that inserts nothing does, in one place.
LEMMA WorkerSteps ==
  ASSUME IInv, NEW i \in Instances, WorkerStep(i) \/ FaultStep(i),
         ~\E m \in worker[i].todo : SendStep(i, m) /\ CanSend(i, m)
  PROVE  RowMoves(i) /\ WorkerFrame(i) /\ OwnWorker(i) /\ Alive(i)
<1>1. CASE FaultStep(i)
  BY <1>1, FaultMoves, FaultOwn
<1>2. CASE \/ Poll(i)
           \/ \E r \in Requests : TakeCancel(i, r)
           \/ \E op \in Sends : TakeSend(i, op)
           \/ \E f \in finished[i] : TakeFinished(i, f)
           \/ TakeShutdown(i)
  BY <1>2, TakeMoves, TakeOwn
<1>3. CASE Admit(i) \/ AdmitRefused(i) \/ Insert(i)
  BY <1>3, AdmissionMoves, AdmissionOwn
<1>4. ASSUME NEW m \in worker[i].todo,
             ProbeStep(i, m) \/ RefuseStep(i, m) \/ ClaimStep(i, m) \/ SendStep(i, m) \/ SettleStep(i, m)
      PROVE  RowMoves(i) /\ WorkerFrame(i) /\ OwnWorker(i) /\ Alive(i)
  <2>1. ~(SendStep(i, m) /\ CanSend(i, m))
    OBVIOUS
  <2> QED BY <1>4, <2>1, DispatchMoves, DispatchOwn
<1> QED BY <1>1, <1>2, <1>3, <1>4 DEF WorkerStep

LEMMA OrderStep == IInv /\ OrderInv /\ [Next]_vars => OrderInv'
<1> SUFFICES ASSUME IInv, OrderInv, [Next]_vars PROVE OrderInv'
  OBVIOUS
<1>0. IInv' /\ TypeOK /\ \A t \in Terms : term[t].conv \in Nat /\ term[t].conv <= term[t].conv
  <2>1. IInv'
    BY IStep
  <2>2. TypeOK
    BY DEF IInv
  <2>3. term \in [Terms -> Terminal]
    BY <2>2 DEF TypeOK
  <2>4. \A t \in Terms : term[t].conv \in Nat
    BY <2>3 DEF Terminal
  <2>5. \A n \in Nat : n <= n
    OBVIOUS
  <2> QED BY <2>1, <2>2, <2>4, <2>5
<1>1. ASSUME NEW i \in Instances, WorkerStep(i) \/ FaultStep(i),
             ~\E m \in worker[i].todo : SendStep(i, m) /\ CanSend(i, m)
      PROVE  OrderInv'
  <2>1. RowMoves(i) /\ WorkerFrame(i) /\ OwnWorker(i) /\ Alive(i) /\ Position(i)
    BY <1>1, WorkerSteps, WorkerPosition
  <2>2. StartsOnly /\ UNCHANGED <<bridge, shut>>
    BY <1>1, WorkerTerms
  <2> QED BY <1>0, <2>1, <2>2, OrderWorker
<1>2. ASSUME NEW i \in Instances, WorkerStep(i) \/ FaultStep(i),
             NEW m \in worker[i].todo, SendStep(i, m), CanSend(i, m)
      PROVE  OrderInv'
  BY <1>0, <1>2, WorkerPosition, OrderSend
<1>3. CASE Clock \/ UNCHANGED vars
  <2>1. UNCHANGED <<journal, worker, bridge>> /\ shut \subseteq shut' /\ term' = term /\ pty' = pty /\ proc' = proc
    BY <1>3 DEF Clock, vars, ui
  <2>2. \A j \in Instances : Alive(j)' => Alive(j)
    BY <2>1 DEF Alive
  <2> QED BY <1>0, <2>1, <2>2, SameHistory, OrderQuiet
<1> QED BY <1>1, <1>2, <1>3, OrderTerm, OrderProc DEF Next

LEMMA OrderInit == Init => OrderInv
<1> SUFFICES ASSUME Init PROVE OrderInv
  OBVIOUS
<1>1. /\ \A r \in Requests : journal[r] = NoRow
      /\ \A i \in Instances : worker[i].todo = {} /\ worker[i].pc = "off"
      /\ \A t \in Terms : DOMAIN pty[t] = {}
      /\ \A p \in Procs : bridge[p] = NoInst
  BY DEF Init, Resting
<1>2. BridgesSound /\ AddressesSound
  BY <1>1 DEF BridgesSound, AddressesSound, Present
<1>3. QueuesSound
  BY <1>1 DEF QueuesSound, OwnPending, PendingIn
<1>4. TextsOlder /\ TargetFIFO
  BY <1>1 DEF TextsOlder, TargetFIFO
<1> QED BY <1>2, <1>3, <1>4 DEF OrderInv

LEMMA OrderAlways == Spec => []OrderInv
BY OrderInit, OrderStep, JournalAgrees, PTL DEF Spec

\* Messages reach a terminal in the order in which the journal accepted them, over
\* instances that come and go and conversations that replace each other.
THEOREM MessagesKeepTheirOrder == Spec => []TargetFIFO
<1>1. OrderInv => TargetFIFO
  BY DEF OrderInv
<1> QED BY <1>1, OrderAlways, PTL



-----------------------------------------------------------------------------
(* Human input comes first *)

\* Nothing human was written to t since a guard was taken that still holds.
LEMMA GuardQuiet ==
  ASSUME TypeOK, NEW t \in Terms, NEW g \in Guards, GuardSound(t, g),
         term'[t].uepoch = term[t].uepoch,
         \A h \in DOMAIN pty'[t] : pty'[t][h].kind = "human" => h \in DOMAIN pty[t] /\ pty'[t][h] = pty[t][h]
  PROVE  GuardSound(t, g)'
BY DEF GuardSound

LEMMA GuardWrite ==
  ASSUME TypeOK, NEW t \in Terms, NEW e \in Events, Writes(t, e),
         e.kind = "human" => term'[t].uepoch = term[t].uepoch + 1,
         e.kind # "human" => term'[t].uepoch = term[t].uepoch,
         \A u \in Terms : u # t => term'[u] = term[u],
         NEW u \in Terms, NEW g \in Guards, GuardSound(u, g)
  PROVE  GuardSound(u, g)'
<1>0. g.uepoch \in Nat /\ term[u].uepoch \in Nat /\ g.uepoch <= term[u].uepoch
  BY DEF TypeOK, Terminal, Guards, GuardSound
<1>1. CASE u = t /\ e.kind = "human"
  BY <1>0, <1>1 DEF GuardSound
<1>2. CASE u # t \/ e.kind # "human"
  <2>1. term'[u].uepoch = term[u].uepoch
    BY <1>2
  <2>2. \A h \in DOMAIN pty'[u] : pty'[u][h].kind = "human" => h \in DOMAIN pty[u] /\ pty'[u][h] = pty[u][h]
    BY <1>2, WritePlaces
  <2> QED BY <2>1, <2>2, GuardQuiet
<1> QED BY <1>1, <1>2

LEMMA GuardTypes ==
  ASSUME TypeOK
  PROVE  /\ \A r \in Requests : Present(r) => journal[r].term \in Terms /\ journal[r].guard \in Guards
         /\ \A i \in Instances :
              /\ worker[i].pc \in {"admit", "insert"} => worker[i].op.term \in Terms /\ worker[i].op.guard \in Guards
              /\ \A m \in worker[i].todo : m.term \in Terms /\ m.guard \in Guards
<1>1. \A r \in Requests : Present(r) => journal[r] \in Row
  BY DEF TypeOK, Present
<1>2. \A i \in Instances : worker[i].todo \subseteq Row /\ (worker[i].pc \in {"admit", "insert"} => worker[i].op \in Ops)
  BY DEF TypeOK, Workers
<1> QED BY <1>1, <1>2 DEF Row, Ops

\* A worker's step: new rows take the guard of their admission, copies that of their row.
LEMMA GuardsWorker ==
  ASSUME IInv, GuardsSound, NEW i \in Instances, RowMoves(i), OwnWorker(i), Position(i),
         \A j \in Instances \ {i} : worker'[j] = worker[j],
         \A t \in Terms : \A g \in Guards : GuardSound(t, g) => GuardSound(t, g)',
         Admit(i) => GuardSound(worker[i].op.term, worker[i].op.guard)'
  PROVE  GuardsSound'
<1>0. /\ \A r \in Requests : journal[r] # NoRow => journal[r].term \in Terms /\ journal[r].guard \in Guards
      /\ \A j \in Instances :
           /\ worker[j].pc \in {"admit", "insert"} => worker[j].op.term \in Terms /\ worker[j].op.guard \in Guards
           /\ \A m \in worker[j].todo : m.term \in Terms /\ m.guard \in Guards
  BY GuardTypes DEF IInv, Present
<1>1. ASSUME NEW r \in Requests, journal'[r] # NoRow PROVE GuardSound(journal[r].term, journal[r].guard)'
  <2>1. CASE FreshRow(i, r)
    <3>1. /\ worker[i].pc = "insert" /\ journal'[r].term = worker[i].op.term /\ journal'[r].guard = worker[i].op.guard
      BY <2>1 DEF FreshRow, SameTarget
    <3>2. GuardSound(worker[i].op.term, worker[i].op.guard)
      BY <3>1 DEF GuardsSound
    <3>3. \A t \in Terms : \A g \in Guards :
            t = journal'[r].term /\ g = journal'[r].guard /\ GuardSound(t, g)' => GuardSound(journal[r].term, journal[r].guard)'
      BY DEF GuardSound
    <3>4. worker[i].op.term \in Terms /\ worker[i].op.guard \in Guards
      BY <1>0, <3>1
    <3> QED BY <3>1, <3>2, <3>3, <3>4
  <2>2. CASE journal[r] # NoRow /\ SameMessage(journal'[r], journal[r])
    <3>1. journal'[r].term = journal[r].term /\ journal'[r].guard = journal[r].guard
      BY <2>2 DEF SameMessage, SameTarget
    <3>2. GuardSound(journal[r].term, journal[r].guard)
      BY <2>2 DEF GuardsSound, Present
    <3>3. \A t \in Terms : \A g \in Guards :
            t = journal'[r].term /\ g = journal'[r].guard /\ GuardSound(t, g)' => GuardSound(journal[r].term, journal[r].guard)'
      BY DEF GuardSound
    <3> QED BY <1>0, <2>2, <3>1, <3>2, <3>3
  <2> QED BY <1>1, <2>1, <2>2, RowOrigin
<1>2. ASSUME NEW j \in Instances, worker'[j].pc = "insert" PROVE GuardSound(worker[j].op.term, worker[j].op.guard)'
  <2>1. CASE j = i
    BY <1>2, <2>1 DEF Position
  <2>2. CASE j # i
    <3>1. worker'[j] = worker[j] /\ GuardSound(worker[j].op.term, worker[j].op.guard)
      BY <1>2, <2>2 DEF GuardsSound
    <3>2. \A t \in Terms : \A g \in Guards :
            t = worker'[j].op.term /\ g = worker'[j].op.guard /\ GuardSound(t, g)' => GuardSound(worker[j].op.term, worker[j].op.guard)'
      BY DEF GuardSound
    <3> QED BY <1>0, <1>2, <3>1, <3>2
  <2> QED BY <2>1, <2>2
<1>3. ASSUME NEW j \in Instances, NEW m \in worker'[j].todo PROVE GuardSound(m.term, m.guard)'
  <2>1. CASE m \in worker[j].todo
    <3>1. GuardSound(m.term, m.guard) /\ m.term \in Terms /\ m.guard \in Guards
      BY <1>0, <2>1 DEF GuardsSound
    <3> QED BY <3>1
  <2>2. CASE j = i /\ worker'[i].todo \subseteq Heads(journal', i)
    <3>1. PICK r \in Requests : m = journal'[r] /\ journal'[r] # NoRow
      BY <1>3, <2>2 DEF Heads, OwnPending, PendingIn
    <3>2. GuardSound(journal[r].term, journal[r].guard)'
      BY <1>1, <3>1
    <3> QED BY <3>1, <3>2 DEF GuardSound
  <2>3. CASE j # i
    BY <1>3, <2>1, <2>3
  <2> QED BY <1>3, <2>1, <2>2, <2>3 DEF OwnWorker
<1> QED BY <1>1, <1>2, <1>3 DEF GuardsSound, Present

\* Rows and workers stay.
LEMMA GuardsRest ==
  ASSUME IInv, GuardsSound, journal' = journal, worker' = worker,
         \A t \in Terms : \A g \in Guards : GuardSound(t, g) => GuardSound(t, g)'
  PROVE  GuardsSound'
<1>0. /\ \A r \in Requests : journal[r] # NoRow => journal[r].term \in Terms /\ journal[r].guard \in Guards
      /\ \A j \in Instances :
           /\ worker[j].pc = "insert" => worker[j].op.term \in Terms /\ worker[j].op.guard \in Guards
           /\ \A m \in worker[j].todo : m.term \in Terms /\ m.guard \in Guards
  BY GuardTypes DEF IInv, Present
<1>1. ASSUME NEW r \in Requests, journal[r] # NoRow PROVE GuardSound(journal[r].term, journal[r].guard)'
  <2>1. GuardSound(journal[r].term, journal[r].guard)
    BY <1>1 DEF GuardsSound, Present
  <2>2. \A t \in Terms : \A g \in Guards :
          t = journal[r].term /\ g = journal[r].guard /\ GuardSound(t, g)' => GuardSound(journal[r].term, journal[r].guard)'
    BY DEF GuardSound
  <2> QED BY <1>0, <1>1, <2>1, <2>2
<1>2. ASSUME NEW j \in Instances, worker[j].pc = "insert" PROVE GuardSound(worker[j].op.term, worker[j].op.guard)'
  <2>1. GuardSound(worker[j].op.term, worker[j].op.guard)
    BY <1>2 DEF GuardsSound
  <2>2. \A t \in Terms : \A g \in Guards :
          t = worker[j].op.term /\ g = worker[j].op.guard /\ GuardSound(t, g)' => GuardSound(worker[j].op.term, worker[j].op.guard)'
    BY DEF GuardSound
  <2> QED BY <1>0, <1>2, <2>1, <2>2
<1>3. ASSUME NEW j \in Instances, NEW m \in worker[j].todo PROVE GuardSound(m.term, m.guard)'
  <2>1. GuardSound(m.term, m.guard) /\ m.term \in Terms /\ m.guard \in Guards
    BY <1>0 DEF GuardsSound
  <2> QED BY <2>1
<1> QED BY <1>1, <1>2, <1>3 DEF GuardsSound, Present


\* The admission hop takes the guard from the terminal as it is.
LEMMA AdmitGuard ==
  ASSUME IInv, NEW i \in Instances, Admit(i), StartsOnly, pty' = pty
  PROVE  GuardSound(worker[i].op.term, worker[i].op.guard)'
<1> DEFINE t == worker[i].op.term
           g == [lazy |-> Reason(term[t]) \in LazyReasons, uepoch |-> term[t].uepoch,
                 block |-> term[t].block, mark |-> Len(pty[t])]
           w == [worker[i] EXCEPT !.pc = "insert", !.op.guard = g]
<1>0. TypeOK /\ worker[i] \in Workers
  BY DEF IInv, TypeOK
<1>1. worker[i].op \in Ops
  BY <1>0 DEF Admit, AtPc, TypeOK
<1>2. worker'[i] = w
  BY <1>0 DEF Admit, GoTo, TypeOK
<1>3. t \in Terms
  BY <1>1 DEF Ops
<1>4. g.uepoch = term[t].uepoch /\ g.mark = Len(pty[t])
  OBVIOUS
<1>5. term'[t].uepoch = term[t].uepoch /\ term[t].uepoch \in Nat
  <2>1. term[t] \in Terminal
    BY <1>0, <1>3 DEF TypeOK
  <2> QED BY <1>3, <2>1 DEF StartsOnly, Terminal
<1>6. \A h \in DOMAIN pty[t] : h <= Len(pty[t])
  BY <1>0, <1>3, HistoryTypes
<1> HIDE DEF g
<1>7. w.op.guard = g /\ w.op.term = t
  BY <1>0, <1>1 DEF Workers, Ops
<1>8. worker'[i].op.term = t /\ worker'[i].op.guard = g
  BY <1>2, <1>7
<1> HIDE DEF t
<1>9. /\ g.uepoch <= term'[t].uepoch
      /\ \A h \in DOMAIN pty'[t] : h <= g.mark
  BY <1>4, <1>5, <1>6
<1> QED BY <1>8, <1>9 DEF GuardSound

\* What is appended after human input is not of a message that was admitted before it.
LEMMA PreemptWrite ==
  ASSUME IInv, HumanPreempts, NEW t \in Terms, NEW e \in Events, Writes(t, e),
         e.kind = "text" => ~Wrote(e.seq),
         e.kind = "text" /\ ~e.lazy => \A h \in DOMAIN pty[t] : pty[t][h].kind = "human" => h <= e.mark,
         e.kind = "enter" => Fresh(t, e.seq)
  PROVE  HumanPreempts'
<1> DEFINE n == Len(pty[t]) + 1
<1>0. TypeOK /\ HistorySound /\ WrittenOnce /\ e.mark \in Nat
  BY DEF IInv, Events
<1>1. Len(pty[t]) \in Nat /\ DOMAIN pty[t] = 1..Len(pty[t]) /\ \A k \in DOMAIN pty[t] : pty[t][k].mark \in Nat
  <2>1. \A k \in DOMAIN pty[t] : pty[t][k] \in Events
    BY <1>0, HistoryTypes
  <2> QED BY <1>0, <2>1, HistoryTypes DEF Events
<1> SUFFICES ASSUME NEW u \in Terms, NEW k \in DOMAIN pty'[u], NEW l \in DOMAIN pty'[u], NEW h \in DOMAIN pty'[u],
                    pty'[u][k].kind = "text", pty'[u][l].kind \in {"text", "enter"},
                    pty'[u][l].seq = pty'[u][k].seq, pty'[u][h].kind = "human",
                    (IF pty'[u][k].lazy THEN k ELSE pty'[u][k].mark) < h
             PROVE  l < h
  BY DEF HumanPreempts, IsText, IsEnter
<1> DEFINE Old(x) == x \in DOMAIN pty[u] /\ pty'[u][x] = pty[u][x]
           New(x) == u = t /\ x = n /\ pty'[u][x] = e
<1>2. (Old(k) \/ New(k)) /\ (Old(l) \/ New(l)) /\ (Old(h) \/ New(h))
  BY <1>0, WritePlaces
<1>3. CASE Old(k) /\ Old(l) /\ Old(h)
  BY <1>3 DEF HumanPreempts, IsText, IsEnter
<1>4. CASE New(h)
  <2>1. Old(l)
    BY <1>2, <1>4
  <2> QED BY <1>1, <1>4, <2>1
<1>5. CASE Old(h) /\ New(k)
  <2>1. e.kind = "text" /\ ~Wrote(e.seq) /\ h \in 1..Len(pty[t]) /\ k = n
    BY <1>1, <1>5
  <2>2. e.lazy
    BY <1>0, <1>1, <1>5, <2>1
  <2> QED BY <1>1, <1>5, <2>1, <2>2
<1>6. CASE Old(h) /\ Old(k) /\ New(l)
  <2>1. Wrote(e.seq)
    BY <1>6 DEF Wrote, IsText
  <2>2. e.kind = "enter" /\ Fresh(t, e.seq)
    BY <1>6, <2>1
  <2>3. PICK j \in DOMAIN pty[t] : IsText(t, j) /\ pty[t][j].seq = e.seq /\ PlainAfter(t, j)
    BY <2>2 DEF Fresh
  <2>4. j = k
    BY <1>0, <1>6, <2>3 DEF WrittenOnce, IsText
  <2>5. k < h
    BY <1>6 DEF HumanPreempts, IsText, IsEnter
  <2> QED BY <1>6, <2>3, <2>4, <2>5 DEF PlainAfter
<1> QED BY <1>2, <1>3, <1>4, <1>5, <1>6

LEMMA PreemptWorker ==
  ASSUME IInv, PreemptInv, NEW i \in Instances, WorkerStep(i) \/ FaultStep(i),
         ~\E m \in worker[i].todo : SendStep(i, m) /\ CanSend(i, m)
  PROVE  PreemptInv'
<1>0. TypeOK /\ GuardsSound /\ HumanPreempts
  BY DEF IInv, PreemptInv
<1>1. RowMoves(i) /\ WorkerFrame(i) /\ OwnWorker(i) /\ Position(i)
  BY WorkerSteps, WorkerPosition
<1>2. StartsOnly /\ pty' = pty
  BY WorkerTerms
<1>3. ASSUME NEW t \in Terms, NEW g \in Guards, GuardSound(t, g) PROVE GuardSound(t, g)'
  <2>1. term[t] \in Terminal
    BY <1>0 DEF TypeOK
  <2>2. term'[t].uepoch = term[t].uepoch
    BY <1>2, <2>1 DEF StartsOnly, Terminal
  <2> QED BY <1>0, <1>2, <1>3, <2>2, GuardQuiet
<1>4. Admit(i) => GuardSound(worker[i].op.term, worker[i].op.guard)'
  BY <1>2, AdmitGuard
<1>5. GuardsSound'
  BY <1>0, <1>1, <1>3, <1>4, GuardsWorker DEF WorkerFrame
<1>6. HumanPreempts'
  BY <1>0, <1>2 DEF HumanPreempts, IsText, IsEnter
<1> QED BY <1>5, <1>6 DEF PreemptInv

LEMMA PreemptSend ==
  ASSUME IInv, PreemptInv, NEW i \in Instances, WorkerStep(i) \/ FaultStep(i),
         NEW m \in worker[i].todo, SendStep(i, m), CanSend(i, m)
  PROVE  PreemptInv'
<1> DEFINE t == m.term
           e == TextEvent(m)
<1>0. TypeOK /\ GuardsSound /\ HumanPreempts
  BY DEF IInv, PreemptInv
<1>1. /\ t \in Terms /\ e \in Events /\ Writes(t, e) /\ Inserts(i, m) /\ ~Wrote(m.seq)
      /\ GuardHolds(m, term[t]) /\ GoTo(i, Advance(journal, i, m)) /\ journal' = journal
      /\ worker[i].pc = "send"
  BY SendFacts
<1>2. e.kind = "text" /\ e.seq = m.seq /\ e.lazy = m.guard.lazy /\ e.mark = m.guard.mark
  BY DEF TextEvent
<1>3. \A j \in Instances \ {i} : worker'[j] = worker[j]
  BY <1>0, <1>1 DEF GoTo, TypeOK
<1>4. RowMoves(i) /\ OwnWorker(i) /\ Position(i)
  BY <1>0, <1>1, AdvanceOwn, WorkerPosition DEF RowMoves, RowMove, MaintMove
<1>5. (\A u \in Terms : u # t => term'[u] = term[u]) /\ term'[t].uepoch = term[t].uepoch
  <2>1. term \in [Terms -> Terminal]
    BY <1>0 DEF TypeOK
  <2> QED BY <1>1, <2>1 DEF Inserts, Terminal
<1> HIDE DEF t, e
<1>6. \A u \in Terms : \A g \in Guards : GuardSound(u, g) => GuardSound(u, g)'
  BY <1>0, <1>1, <1>2, <1>5, GuardWrite
<1>7. ~Admit(i)
  BY <1>1 DEF Admit, AtPc
<1>8. GuardsSound'
  BY <1>0, <1>3, <1>4, <1>6, <1>7, GuardsWorker
<1>9. ~m.guard.lazy => \A h \in DOMAIN pty[t] : pty[t][h].kind = "human" => h <= m.guard.mark
  BY <1>0, <1>1 DEF GuardsSound, GuardSound, GuardHolds, t
<1>10. HumanPreempts'
  BY <1>0, <1>1, <1>2, <1>9, PreemptWrite
<1> QED BY <1>8, <1>10 DEF PreemptInv

LEMMA PreemptTerm ==
  ASSUME IInv, AloneInv, PreemptInv, NEW t \in Terms, TermStep(t)
  PROVE  PreemptInv'
<1>0. TypeOK /\ GuardsSound /\ HumanPreempts /\ term \in [Terms -> Terminal] /\ term[t] \in Terminal
  BY DEF IInv, PreemptInv, TypeOK
<1>1. journal' = journal /\ worker' = worker
  BY DEF TermStep, EnterFires, HumanInput, PlainInput, Interrupt, PromptAck, InputSettles, StatusChange, ReplaceSession,
         ReleaseDeferred, Launch, ToggleWriter, ClosePane, SetTerm, OnlyTerm
<1>2. CASE HumanInput(t) \/ PlainInput(t) \/ Interrupt(t)
  <2>1. PICK e \in Events :
          /\ Writes(t, e) /\ e.kind \in {"human", "plain"}
          /\ e.kind = "human" => term'[t].uepoch = term[t].uepoch + 1
          /\ e.kind = "plain" => term'[t].uepoch = term[t].uepoch
          /\ \A u \in Terms : u # t => term'[u] = term[u]
    BY <1>0, <1>2, HumanFacts
  <2>2. \A u \in Terms : \A g \in Guards : GuardSound(u, g) => GuardSound(u, g)'
    BY <1>0, <2>1, GuardWrite
  <2>3. HumanPreempts'
    BY <1>0, <2>1, PreemptWrite
  <2> QED BY <1>0, <1>1, <2>2, <2>3, GuardsRest DEF PreemptInv
<1>3. ASSUME NEW f \in flight[t], EnterFires(t, f) PROVE PreemptInv'
  <2>1. term'[t].uepoch = term[t].uepoch /\ \A u \in Terms : u # t => term'[u] = term[u]
    <3>1. PICK st, c : term' = [term EXCEPT ![t].pending = FALSE, ![t].unacked = TRUE, ![t].epoch = @ + 1,
                                            ![t].status = st, ![t].composer = c]
      BY <1>3 DEF EnterFires
    <3> QED BY <1>0, <3>1 DEF Terminal
  <2>2. \A u \in Terms : term'[u].uepoch = term[u].uepoch
    BY <2>1
  <2>3. CASE pty' = pty
    <3>1. \A u \in Terms : \A g \in Guards : GuardSound(u, g) => GuardSound(u, g)'
      BY <1>0, <2>2, <2>3, GuardQuiet
    <3>2. HumanPreempts'
      BY <1>0, <2>3 DEF HumanPreempts, IsText, IsEnter
    <3> QED BY <1>0, <1>1, <3>1, <3>2, GuardsRest DEF PreemptInv
  <2>4. CASE EnterValid(t, f) /\ Writes(t, EnterEvent(f))
    <3>1. EnterEvent(f) \in Events /\ EnterEvent(f).kind = "enter" /\ EnterEvent(f).seq = f.seq
      BY <1>3, EnterFacts DEF EnterEvent
    <3>2. Fresh(t, f.seq)
      BY <2>4 DEF AloneInv, FlightsFresh, Fresh, EnterValid
    <3>3. \A u \in Terms : \A g \in Guards : GuardSound(u, g) => GuardSound(u, g)'
      BY <1>0, <2>1, <2>4, <3>1, GuardWrite
    <3>4. HumanPreempts'
      BY <1>0, <2>4, <3>1, <3>2, PreemptWrite
    <3> QED BY <1>0, <1>1, <3>3, <3>4, GuardsRest DEF PreemptInv
  <2> QED BY <1>3, <2>3, <2>4, EnterFacts
<1>4. CASE \/ PromptAck(t) \/ InputSettles(t) \/ (\E st \in Status : StatusChange(t, st)) \/ ReplaceSession(t)
           \/ ReleaseDeferred(t) \/ Launch(t) \/ ToggleWriter(t) \/ ClosePane(t)
  <2>1. pty' = pty /\ \A u \in Terms : u # t => term'[u] = term[u]
    BY <1>0, <1>4 DEF PromptAck, InputSettles, StatusChange, ReplaceSession, ReleaseDeferred, Launch, ToggleWriter,
                      ClosePane, SetTerm
  <2>2. term'[t].uepoch = term[t].uepoch
    <3>1. CASE PromptAck(t) \/ InputSettles(t)
      BY <1>0, <3>1 DEF PromptAck, InputSettles, SetTerm, Terminal
    <3>2. ASSUME NEW st \in Status, StatusChange(t, st) PROVE term'[t].uepoch = term[t].uepoch
      BY <1>0, <3>2 DEF StatusChange, SetTerm, Terminal
    <3>3. CASE ReplaceSession(t) \/ ReleaseDeferred(t)
      BY <1>0, <3>3 DEF ReplaceSession, ReleaseDeferred, SetTerm, Terminal
    <3>4. CASE Launch(t) \/ ToggleWriter(t) \/ ClosePane(t)
      BY <1>0, <3>4 DEF Launch, ToggleWriter, ClosePane, SetTerm, Terminal
    <3> QED BY <1>4, <3>1, <3>2, <3>3, <3>4
  <2>3. \A u \in Terms : \A g \in Guards : GuardSound(u, g) => GuardSound(u, g)'
    BY <1>0, <2>1, <2>2, GuardQuiet
  <2>4. HumanPreempts'
    BY <1>0, <2>1 DEF HumanPreempts, IsText, IsEnter
  <2> QED BY <1>0, <1>1, <2>3, <2>4, GuardsRest DEF PreemptInv
<1> QED BY <1>2, <1>3, <1>4 DEF TermStep

LEMMA PreemptStep == IInv /\ AloneInv /\ PreemptInv /\ [Next]_vars => PreemptInv'
<1> SUFFICES ASSUME IInv, AloneInv, PreemptInv, [Next]_vars PROVE PreemptInv'
  OBVIOUS
<1>0. TypeOK /\ GuardsSound /\ HumanPreempts
  BY DEF IInv, PreemptInv
<1>1. ASSUME NEW i \in Instances, WorkerStep(i) \/ FaultStep(i) PROVE PreemptInv'
  BY <1>1, PreemptWorker, PreemptSend
<1>2. ASSUME (\E p \in Procs : ProcStep(p)) \/ Clock \/ UNCHANGED vars PROVE PreemptInv'
  <2>1. term' = term /\ pty' = pty /\ journal' = journal /\ worker' = worker
    BY <1>2 DEF ProcStep, StopControl, StartControl, Quit, Crash, Clock, ui, vars
  <2>2. \A u \in Terms : \A g \in Guards : GuardSound(u, g) => GuardSound(u, g)'
    BY <1>0, <2>1, GuardQuiet
  <2>3. HumanPreempts'
    BY <1>0, <2>1 DEF HumanPreempts, IsText, IsEnter
  <2> QED BY <1>0, <2>1, <2>2, <2>3, GuardsRest DEF PreemptInv
<1> QED BY <1>1, <1>2, PreemptTerm DEF Next

LEMMA PreemptInit == Init => PreemptInv
<1> SUFFICES ASSUME Init PROVE PreemptInv
  OBVIOUS
<1>1. /\ \A r \in Requests : journal[r] = NoRow
      /\ \A i \in Instances : worker[i].todo = {} /\ worker[i].pc = "off"
      /\ \A t \in Terms : DOMAIN pty[t] = {}
  BY DEF Init, Resting
<1> QED BY <1>1 DEF PreemptInv, GuardsSound, HumanPreempts, Present

\* Input that moves the epochs, once a message was admitted, comes after all that is
\* ever written of it; one admitted for an agent that was still to be started (the
\* LAZY_START_GUARD) is held to that from its text on.
THEOREM HumanInputComesFirst == Spec => []HumanPreempts
<1>1. Spec => []AloneInv
  BY AloneInit, AloneStep, JournalAgrees, PTL DEF Spec
<1>2. Spec => []PreemptInv
  BY <1>1, PreemptInit, PreemptStep, JournalAgrees, PTL DEF Spec
<1>3. PreemptInv => HumanPreempts
  BY DEF PreemptInv
<1> QED BY <1>2, <1>3, PTL


-----------------------------------------------------------------------------
(* The queue of a target *)

\* One worker may add a row; no step adds more.
LEMMA FiniteWorker ==
  ASSUME IInv, IsFiniteSet({r \in Requests : Present(r)}), NEW i \in Instances, RowMoves(i)
  PROVE  IsFiniteSet({r \in Requests : Present(r)})'
<1> DEFINE S == {r \in Requests : journal[r] # NoRow}
           T == {r \in Requests : journal'[r] # NoRow}
<1>1. IsFiniteSet(S)
  BY DEF Present
<1>2. \A r \in T : r \in S \/ FreshRow(i, r)
  BY RowOrigin
<1>3. CASE \E n \in Requests : FreshRow(i, n)
  <2>1. PICK n \in Requests : FreshRow(i, n)
    BY <1>3
  <2>2. \A r \in Requests : FreshRow(i, r) => r = n
    BY <2>1 DEF FreshRow
  <2>3. T \subseteq S \cup {n}
    BY <1>2, <2>2
  <2> HIDE DEF S, T
  <2>4. IsFiniteSet(S \cup {n})
    BY <1>1, FS_AddElement
  <2>5. IsFiniteSet(T)
    BY <2>3, <2>4, FS_Subset
  <2> QED BY <2>5 DEF T, Present
<1>4. CASE ~\E n \in Requests : FreshRow(i, n)
  <2>1. T \subseteq S
    BY <1>2, <1>4
  <2> HIDE DEF S, T
  <2>2. IsFiniteSet(T)
    BY <1>1, <2>1, FS_Subset
  <2> QED BY <2>2 DEF T, Present
<1> QED BY <1>3, <1>4

\* At most one message of a target is claimed: two would both be the oldest.
LEMMA OneClaim ==
  ASSUME TypeOK, JournalSound, QueuesSound, NEW i \in Instances, NEW m
  PROVE  Cardinality({o \in TargetPending(journal, i, m) : journal[o].state = "dispatching"}) <= 1
<1> DEFINE S == {o \in TargetPending(journal, i, m) : journal[o].state = "dispatching"}
<1>1. ASSUME NEW a \in S, NEW b \in S PROVE a = b
  <2>1. /\ a \in OwnPending(journal, i) /\ b \in OwnPending(journal, i) /\ a \in Requests /\ b \in Requests
        /\ SameTarget(journal[a], journal[b]) /\ SameTarget(journal[b], journal[a]) /\ Present(a) /\ Present(b)
        /\ journal[a].state = "dispatching" /\ journal[b].state = "dispatching"
    BY <1>1 DEF TargetPending, OwnPending, PendingIn, SameTarget, Present
  <2>2. Oldest(i, journal[a]) /\ Oldest(i, journal[b])
    BY <2>1 DEF QueuesSound
  <2>3. journal[a].seq <= journal[b].seq /\ journal[b].seq <= journal[a].seq
    BY <2>1, <2>2 DEF Oldest
  <2>4. journal[a].seq \in Nat /\ journal[b].seq \in Nat
    BY <2>1, InvTypes DEF Present
  <2>5. journal[a].seq = journal[b].seq
    BY <2>3, <2>4
  <2> QED BY <2>1, <2>5 DEF JournalSound
<1> HIDE DEF S
<1>2. ASSUME S = {} PROVE Cardinality(S) <= 1
  <2>1. Cardinality(S) = 0
    BY <1>2, FS_EmptySet
  <2> QED BY <2>1
<1>3. ASSUME S # {} PROVE Cardinality(S) <= 1
  <2>1. PICK a : a \in S
    BY <1>3
  <2>2. S = {a}
    BY <1>1, <2>1
  <2>3. Cardinality({a}) = 1
    BY FS_Singleton
  <2> QED BY <2>2, <2>3
<1>4. Cardinality(S) <= 1
  BY <1>2, <1>3
<1> QED BY <1>4 DEF S

OneClaimed ==
  \A i \in Instances : \A r \in OwnPending(journal, i) :
    Cardinality({o \in TargetPending(journal, i, journal[r]) : journal[o].state = "dispatching"}) <= 1

LEMMA ClaimsAreSingle == TypeOK /\ JournalSound /\ QueuesSound => OneClaimed
  BY OneClaim DEF OneClaimed

LEMMA QueueWorker ==
  ASSUME IInv, IInv', QueuesSound', QueueInv, NEW i \in Instances, RowMoves(i)
  PROVE  OneQueuePerTarget'
<1> SUFFICES ASSUME NEW j \in Instances, NEW r \in OwnPending(journal', j)
             PROVE  LET q == TargetPending(journal', j, journal'[r])
                    IN  /\ Cardinality(q) <= MaxPerTarget
                        /\ \A o \in q : journal'[o].sender = journal'[r].sender
                        /\ Cardinality({o \in q : journal'[o].state = "dispatching"}) <= 1
  BY DEF OneQueuePerTarget
<1> DEFINE q == TargetPending(journal', j, journal'[r])
           P == {x \in Requests : Present(x)}
<1>1. Cardinality({o \in q : journal'[o].state = "dispatching"}) <= 1
  <2>1. TypeOK' /\ JournalSound' /\ QueuesSound'
    BY DEF IInv
  <2>2. OneClaimed'
    BY <2>1, ClaimsAreSingle, PTL
  <2> QED BY <2>2 DEF OneClaimed
<1>2. IsFiniteSet(P)
  BY DEF QueueInv
<1>3. \A o \in q : o \in OwnPending(journal', j) /\ SameTarget(journal'[o], journal'[r])
  BY DEF TargetPending
<1>4. CASE \E n \in q : FreshRow(i, n)
  <2>1. PICK n \in q : FreshRow(i, n)
    BY <1>4
  <2> DEFINE op == worker[i].op
             p == TargetPending(journal, i, op)
  <2>2. j = i /\ \A o \in q : o # n => journal'[o] = journal[o]
    <3>1. journal'[n].inst = i /\ \A o \in Requests : o # n => journal'[o] = journal[o]
      BY <2>1 DEF FreshRow
    <3>2. journal'[n].inst = j /\ q \subseteq Requests
      BY <1>3, <2>1 DEF OwnPending
    <3> QED BY <3>1, <3>2
  <2>3. SameTarget(journal'[r], op) /\ SameTarget(journal'[n], op) /\ journal'[n].sender = op.sender
    BY <1>3, <2>1 DEF FreshRow, SameTarget
  <2>4. \A o \in q : o # n => o \in p
    BY <1>3, <2>2, <2>3 DEF TargetPending, OwnPending, PendingIn, SameTarget
  <2>5. Insertable(op, i)
    BY <2>1 DEF FreshRow
  <2>6. \A o \in q : journal'[o].sender = op.sender
    BY <2>2, <2>3, <2>4, <2>5 DEF Insertable
  <2>7. r \in q
    BY DEF TargetPending, SameTarget
  <2>8. q \subseteq p \cup {n} /\ p \subseteq P
    BY <2>4 DEF TargetPending, OwnPending, PendingIn, Present
  <2>9. Cardinality(p) < MaxPerTarget
    BY <2>5 DEF Insertable
  <2> HIDE DEF q, p, P, op
  <2>10. IsFiniteSet(p) /\ Cardinality(p) \in Nat
    BY <1>2, <2>8, FS_Subset, FS_CardinalityType
  <2>11. IsFiniteSet(p \cup {n}) /\ Cardinality(p \cup {n}) <= Cardinality(p) + 1
    BY <2>10, FS_AddElement
  <2>12. Cardinality(q) <= Cardinality(p \cup {n}) /\ Cardinality(q) \in Nat /\ Cardinality(p \cup {n}) \in Nat
    BY <2>8, <2>11, FS_Subset, FS_CardinalityType
  <2>13. Cardinality(q) <= MaxPerTarget
    BY <2>9, <2>10, <2>11, <2>12, NumbersAssumption
  <2> QED BY <1>1, <2>6, <2>7, <2>13 DEF q
<1>5. CASE ~\E n \in q : FreshRow(i, n)
  <2>1. r \in q
    BY DEF TargetPending, SameTarget
  <2>2. \A o \in q : o \in OwnPending(journal, j) /\ SameMessage(journal'[o], journal[o])
    BY <1>3, <1>5, PendingOrigin
  <2> DEFINE p == TargetPending(journal, j, journal[r])
  <2>3. q \subseteq p /\ p \subseteq P
    BY <1>3, <2>1, <2>2 DEF TargetPending, OwnPending, PendingIn, Present, SameMessage, SameTarget
  <2>4. Cardinality(p) <= MaxPerTarget /\ \A o \in p : journal[o].sender = journal[r].sender
    BY <2>1, <2>2 DEF QueueInv, OneQueuePerTarget
  <2>5. \A o \in q : journal'[o].sender = journal'[r].sender
    BY <2>1, <2>2, <2>3, <2>4 DEF SameMessage
  <2> HIDE DEF q, p, P
  <2>6. IsFiniteSet(p) /\ Cardinality(p) \in Nat
    BY <1>2, <2>3, FS_Subset, FS_CardinalityType
  <2>7. Cardinality(q) <= Cardinality(p) /\ Cardinality(q) \in Nat
    BY <2>3, <2>6, FS_Subset, FS_CardinalityType
  <2>8. Cardinality(q) <= MaxPerTarget
    BY <2>4, <2>6, <2>7, NumbersAssumption
  <2> QED BY <1>1, <2>5, <2>8 DEF q
<1> QED BY <1>4, <1>5

LEMMA QueueStep == IInv /\ OrderInv /\ OrderInv' /\ QueueInv /\ [Next]_vars => QueueInv'
<1> SUFFICES ASSUME IInv, OrderInv, OrderInv', QueueInv, [Next]_vars PROVE QueueInv'
  OBVIOUS
<1>0. IInv' /\ QueuesSound'
  BY IStep DEF OrderInv
<1>1. ASSUME NEW i \in Instances, WorkerStep(i) \/ FaultStep(i),
             ~\E m \in worker[i].todo : SendStep(i, m) /\ CanSend(i, m)
      PROVE  QueueInv'
  <2>1. RowMoves(i)
    BY <1>1, WorkerSteps
  <2>2. IsFiniteSet({r \in Requests : Present(r)})'
    BY <2>1, FiniteWorker DEF QueueInv
  <2> QED BY <1>0, <2>1, <2>2, QueueWorker DEF QueueInv
<1>2. CASE journal' = journal
  BY <1>0, <1>2 DEF QueueInv, OneQueuePerTarget, Present
<1>3. ASSUME NEW i \in Instances, NEW m \in worker[i].todo, SendStep(i, m) PROVE QueueInv'
  BY <1>2, <1>3 DEF SendStep
<1>4. ASSUME NEW t \in Terms, TermStep(t) PROVE journal' = journal
  BY <1>4 DEF TermStep, EnterFires, HumanInput, PlainInput, Interrupt, PromptAck, InputSettles, StatusChange, ReplaceSession,
              ReleaseDeferred, Launch, ToggleWriter, ClosePane, SetTerm, OnlyTerm
<1>5. ASSUME (\E p \in Procs : ProcStep(p)) \/ Clock \/ UNCHANGED vars PROVE journal' = journal
  BY <1>5 DEF ProcStep, StopControl, StartControl, Quit, Crash, Clock, vars
<1> QED BY <1>1, <1>2, <1>3, <1>4, <1>5 DEF Next

LEMMA QueueInit == Init => QueueInv
<1> SUFFICES ASSUME Init PROVE QueueInv
  OBVIOUS
<1>1. \A r \in Requests : journal[r] = NoRow
  BY DEF Init
<1>2. {r \in Requests : Present(r)} = {}
  BY <1>1 DEF Present
<1>3. IsFiniteSet({r \in Requests : Present(r)})
  BY <1>2, FS_EmptySet
<1>4. QueuesSound
  BY OrderInit DEF OrderInv
<1>5. OneQueuePerTarget
  BY <1>1 DEF OneQueuePerTarget, OwnPending, PendingIn
<1> QED BY <1>3, <1>4, <1>5 DEF QueueInv

\* The pending messages of a target have one sender, stay within the limit, and at most
\* one of them is claimed (the checks of the insert transaction and dispatch by heads).
THEOREM TargetsHaveOneQueue == Spec => []OneQueuePerTarget
<1>1. Spec => []QueueInv
  BY QueueInit, QueueStep, JournalAgrees, OrderAlways, PTL DEF Spec
<1>2. QueueInv => OneQueuePerTarget
  BY DEF QueueInv
<1> QED BY <1>1, <1>2, PTL


-----------------------------------------------------------------------------
(* A request ID can be written again only after its receipt was forgotten *)

\* What the journal remembers of an event.
Retained(e) ==
  /\ e.req \in Requests /\ e.at <= now
  /\ Present(e.req) =>
       /\ e.seq <= journal[e.req].seq
       /\ e.seq = journal[e.req].seq /\ journal[e.req].state \in SettledStates => e.at <= journal[e.req].updated
       /\ e.seq # journal[e.req].seq => e.at + Retention < now
  /\ ~Present(e.req) => e.at + Retention < now

LEMMA RetainedTexts ==
  TextsRetained <=> \A t \in Terms : \A k \in DOMAIN pty[t] : IsText(t, k) => Retained(pty[t][k])
BY DEF TextsRetained, Retained

LEMMA RetainedWorker ==
  ASSUME IInv, NEW i \in Instances, RowMoves(i), WorkerFrame(i), NEW e \in Events, e.seq < nextSeq, Retained(e)
  PROVE  Retained(e)'
<1> DEFINE old == journal[e.req]
           new == journal'[e.req]
<1>0. /\ now' = now /\ now \in Nat /\ nextSeq \in Nat /\ e.at \in Nat /\ e.seq \in Nat /\ e.req \in Requests
      /\ Retention \in Nat /\ RowMove(i, e.req)
  BY InvTypes, NumbersAssumption DEF IInv, RowMoves, WorkerFrame, Events, Retained
<1>1. old # NoRow => old.seq \in Nat /\ old.updated \in Nat
  BY <1>0, InvTypes DEF IInv
<1>2. CASE new = old
  BY <1>0, <1>2 DEF Retained, Present
<1>3. CASE Lapse(old, new)
  <2>1. e.at + Retention < now
    BY <1>0, <1>1, <1>3 DEF Lapse, Retained, Present
  <2> QED BY <1>0, <1>3, <2>1 DEF Lapse, Retained, Present
<1>4. CASE Moved(old, new)
  <2>1. old # NoRow /\ new # NoRow /\ new.seq = old.seq /\ new.updated = now
    BY <1>4 DEF Moved, SameMessage
  <2> QED BY <1>0, <1>1, <2>1 DEF Retained, Present
<1>5. CASE FreshRow(i, e.req)
  <2>1. old = NoRow /\ new # NoRow /\ new.seq = nextSeq
    BY <1>5 DEF FreshRow
  <2>2. e.at + Retention < now
    BY <2>1 DEF Retained, Present
  <2> QED BY <1>0, <2>1, <2>2 DEF Retained, Present
<1> QED BY <1>0, <1>2, <1>3, <1>4, <1>5 DEF RowMove, MaintMove, Refusal, Recovery, ClaimMove, FailMove, FinishMove, StopMove

\* Time only helps.
LEMMA RetainedQuiet ==
  ASSUME TypeOK, journal' = journal, now' \in Nat, now <= now', NEW e \in Events, Retained(e)
  PROVE  Retained(e)'
<1>1. now \in Nat /\ e.at \in Nat /\ Retention \in Nat
  BY NumbersAssumption DEF TypeOK, Events
<1> QED BY <1>1 DEF Retained, Present

LEMMA RetentionSame ==
  ASSUME IInv, RetentionInv, pty' = pty, \A e \in Events : e.seq < nextSeq /\ Retained(e) => Retained(e)'
  PROVE  RetentionInv'
<1>1. \A t \in Terms : \A k \in DOMAIN pty[t] : pty[t][k] \in Events /\ pty[t][k].seq < nextSeq
  BY HistoryTypes DEF IInv, HistorySound
<1>2. \A t \in Terms : \A k \in DOMAIN pty[t] : IsText(t, k) => Retained(pty[t][k])
  BY RetainedTexts DEF RetentionInv
<1>3. \A t \in Terms : \A k \in DOMAIN pty'[t] : IsText(t, k)' => Retained(pty[t][k])'
  BY <1>1, <1>2 DEF IsText
<1>4. TextsRetained'
  BY <1>3 DEF TextsRetained, Retained
<1>5. ReplayOnlyAfterRetention'
  BY DEF RetentionInv, ReplayOnlyAfterRetention, IsText
<1> QED BY <1>4, <1>5 DEF RetentionInv

\* What is written while journal and clock stand still.
LEMMA RetentionWrite ==
  ASSUME IInv, RetentionInv, journal' = journal, now' = now, NEW t \in Terms, NEW e \in Events, Writes(t, e),
         e.kind = "text" => /\ e.at = now /\ e.req \in Requests /\ Present(e.req) /\ journal[e.req].seq = e.seq
                            /\ journal[e.req].state \notin SettledStates
  PROVE  RetentionInv'
<1>0. TypeOK /\ now \in Nat /\ e.seq \in Nat /\ Retention \in Nat
  BY InvTypes, NumbersAssumption DEF IInv, Events
<1>1. e.kind = "text" => Retained(e)
  BY <1>0 DEF Retained
<1>2. \A u \in Terms : \A k \in DOMAIN pty[u] : IsText(u, k) => Retained(pty[u][k])
  BY RetainedTexts DEF RetentionInv
<1>3. \A f : Retained(f) => Retained(f)'
  BY DEF Retained, Present
<1>4. TextsRetained'
  <2>1. ASSUME NEW u \in Terms, NEW k \in DOMAIN pty'[u], pty'[u][k].kind = "text"
        PROVE  \E f : f = pty'[u][k] /\ Retained(f)'
    BY <1>0, <1>1, <1>2, <1>3, <2>1, WritePlaces DEF IsText
  <2> QED BY <2>1 DEF TextsRetained, Retained, IsText
<1>5. ReplayOnlyAfterRetention'
  <2> SUFFICES ASSUME NEW u \in Terms, NEW v \in Terms, NEW k \in DOMAIN pty'[u], NEW l \in DOMAIN pty'[v],
                      pty'[u][k].kind = "text", pty'[v][l].kind = "text", pty'[u][k].req = pty'[v][l].req,
                      pty'[u][k].seq < pty'[v][l].seq
               PROVE  pty'[u][k].at + Retention < pty'[v][l].at
    BY DEF ReplayOnlyAfterRetention, IsText
  <2>1. /\ pty'[u][k] = e \/ (k \in DOMAIN pty[u] /\ pty'[u][k] = pty[u][k])
        /\ pty'[v][l] = e \/ (l \in DOMAIN pty[v] /\ pty'[v][l] = pty[v][l])
    BY <1>0, WritePlaces
  <2>2. CASE pty'[u][k] = e /\ pty'[v][l] = e
    BY <1>0, <2>2
  <2>3. CASE pty'[u][k] = e /\ l \in DOMAIN pty[v] /\ pty'[v][l] = pty[v][l]
    <3>1. Retained(pty[v][l]) /\ pty[v][l].req = e.req /\ e.seq < pty[v][l].seq /\ pty[v][l].seq \in Nat
      BY <1>0, <1>2, <2>3, HistoryTypes DEF IsText
    <3>2. pty[v][l].seq <= e.seq
      BY <2>3, <3>1 DEF Retained
    <3> QED BY <1>0, <3>1, <3>2
  <2>4. CASE k \in DOMAIN pty[u] /\ pty'[u][k] = pty[u][k] /\ pty'[v][l] = e
    <3>1. Retained(pty[u][k]) /\ pty[u][k].req = e.req /\ pty[u][k].seq < e.seq /\ pty[u][k].seq \in Nat
      BY <1>0, <1>2, <2>4, HistoryTypes DEF IsText
    <3>2. pty[u][k].at + Retention < now
      BY <1>0, <2>4, <3>1 DEF Retained
    <3> QED BY <2>4, <3>2
  <2>5. CASE k \in DOMAIN pty[u] /\ pty'[u][k] = pty[u][k] /\ l \in DOMAIN pty[v] /\ pty'[v][l] = pty[v][l]
    BY <2>5 DEF RetentionInv, ReplayOnlyAfterRetention, IsText
  <2> QED BY <2>1, <2>2, <2>3, <2>4, <2>5
<1> QED BY <1>4, <1>5 DEF RetentionInv

LEMMA RetentionTerm ==
  ASSUME IInv, RetentionInv, NEW t \in Terms, TermStep(t)
  PROVE  RetentionInv'
<1>0. TypeOK /\ now \in Nat
  BY InvTypes DEF IInv
<1>1. journal' = journal /\ now' = now
  BY DEF TermStep, EnterFires, HumanInput, PlainInput, Interrupt, PromptAck, InputSettles, StatusChange, ReplaceSession,
         ReleaseDeferred, Launch, ToggleWriter, ClosePane, SetTerm, OnlyTerm
<1>2. CASE HumanInput(t) \/ PlainInput(t) \/ Interrupt(t)
  BY <1>0, <1>1, <1>2, HumanFacts, RetentionWrite
<1>3. CASE pty' = pty
  <2>1. \A e \in Events : e.seq < nextSeq /\ Retained(e) => Retained(e)'
    BY <1>0, <1>1, RetainedQuiet
  <2> QED BY <1>3, <2>1, RetentionSame
<1>4. ASSUME NEW f \in flight[t], EnterFires(t, f) PROVE RetentionInv'
  <2>1. CASE Writes(t, EnterEvent(f))
    <3>1. EnterEvent(f) \in Events /\ EnterEvent(f).kind = "enter"
      BY <1>4, EnterFacts DEF EnterEvent
    <3> QED BY <1>1, <2>1, <3>1, RetentionWrite
  <2> QED BY <1>3, <1>4, <2>1, EnterFacts
<1>5. pty' = pty \/ HumanInput(t) \/ PlainInput(t) \/ Interrupt(t) \/ \E f \in flight[t] : EnterFires(t, f)
  BY DEF TermStep, PromptAck, InputSettles, StatusChange, ReplaceSession, ReleaseDeferred, Launch, ToggleWriter,
         ClosePane, SetTerm
<1> QED BY <1>2, <1>3, <1>4, <1>5

LEMMA RetentionStep == IInv /\ RetentionInv /\ [Next]_vars => RetentionInv'
<1> SUFFICES ASSUME IInv, RetentionInv, [Next]_vars PROVE RetentionInv'
  OBVIOUS
<1>0. TypeOK /\ now \in Nat
  BY InvTypes DEF IInv
<1>1. ASSUME NEW i \in Instances, NEW m \in worker[i].todo, SendStep(i, m), CanSend(i, m) PROVE RetentionInv'
  <2>1. /\ m.term \in Terms /\ TextEvent(m) \in Events /\ Writes(m.term, TextEvent(m)) /\ m.req \in Requests
        /\ Present(m.req) /\ journal[m.req].seq = m.seq /\ journal[m.req].state = "dispatching"
        /\ journal' = journal /\ now' = now
    BY <1>1, SendFacts
  <2>2. TextEvent(m).at = now /\ TextEvent(m).req = m.req /\ TextEvent(m).seq = m.seq
    BY DEF TextEvent
  <2>3. "dispatching" \notin SettledStates
    BY DEF SettledStates
  <2> QED BY <2>1, <2>2, <2>3, RetentionWrite
<1>2. ASSUME NEW i \in Instances, WorkerStep(i) \/ FaultStep(i),
             ~\E m \in worker[i].todo : SendStep(i, m) /\ CanSend(i, m)
      PROVE  RetentionInv'
  <2>1. RowMoves(i) /\ WorkerFrame(i)
    BY <1>2, WorkerSteps
  <2>2. pty' = pty
    BY <2>1 DEF WorkerFrame
  <2>3. \A e \in Events : e.seq < nextSeq /\ Retained(e) => Retained(e)'
    BY <2>1, RetainedWorker
  <2> QED BY <2>2, <2>3, RetentionSame
<1>3. ASSUME NEW t \in Terms, TermStep(t) PROVE RetentionInv'
  BY <1>3, RetentionTerm
<1>4. ASSUME (\E p \in Procs : ProcStep(p)) \/ Clock \/ UNCHANGED vars PROVE RetentionInv'
  <2>1. journal' = journal /\ pty' = pty /\ now' \in {now, now + 1}
    BY <1>4 DEF ProcStep, StopControl, StartControl, Quit, Crash, Clock, ui, vars
  <2>2. now' \in Nat /\ now <= now'
    BY <1>0, <2>1
  <2>3. \A e \in Events : e.seq < nextSeq /\ Retained(e) => Retained(e)'
    BY <1>0, <2>1, <2>2, RetainedQuiet
  <2> QED BY <2>1, <2>3, RetentionSame
<1> QED BY <1>1, <1>2, <1>3, <1>4 DEF Next

LEMMA RetentionInit == Init => RetentionInv
<1> SUFFICES ASSUME Init PROVE RetentionInv
  OBVIOUS
<1>1. \A t \in Terms : DOMAIN pty[t] = {}
  BY DEF Init
<1> QED BY <1>1 DEF RetentionInv, TextsRetained, ReplayOnlyAfterRetention

\* The same request ID is written twice only when its first receipt outlived the
\* retention of the journal (an exact retry inside it returns the saved receipt).
THEOREM ReplaysAreLate == Spec => []ReplayOnlyAfterRetention
<1>1. Spec => []RetentionInv
  BY RetentionInit, RetentionStep, JournalAgrees, PTL DEF Spec
<1>2. RetentionInv => ReplayOnlyAfterRetention
  BY DEF RetentionInv
<1> QED BY <1>1, <1>2, PTL
=============================================================================
