---------------------------- MODULE Observation -----------------------------
(***************************************************************************)
(* The observation log and the agent inbox (local_control/observation).    *)
(*                                                                         *)
(* Every local-control instance has a bounded capture queue and a worker   *)
(* thread.  The UI thread puts snapshots of the workspace and the requests *)
(* of callers into the queue and never waits; the worker turns snapshots   *)
(* into events of a SQLite log and answers requests from it.  All app      *)
(* processes share the log and the inbox checkpoints; every SQL statement  *)
(* outside a transaction is atomic by itself only.                         *)
(***************************************************************************)
EXTENDS Naturals, Sequences, FiniteSets

CONSTANTS
  Insts,        \* local-control instances, each in a process of its own
  Agents,       \* what a snapshot lists
  Values,       \* metadata of an agent; 0: the agent is not there
  Readers,      \* callers that follow the log or own an inbox
  Convs,        \* provider conversations with a transcript
  NoAgent, NoCmd, NoRow,
  Capacity,     \* length of the capture queue
  MaxEvents, Retention, PageLimit,          \* the log: rows, age, rows per page
  FloorLife, ReaderLife, BatchLife,         \* 90 days, 90 days and ten minutes
  MaxBatches, MaxReaders, InboxLimit,
  MaxTime, MaxObs, MaxAsks, MaxFaults, MaxRecords   \* bounds of the model

VARIABLES
  rows,      \* the observations table
  nextSeq,   \* its AUTOINCREMENT sequence
  floors,    \* observation_state 'floor:': newest pruned row of each instance (seq 0: none)
  ckpts,     \* observation_state 'reader:': checkpoints of each reader, or NoRow
  batches,   \* observation_state 'batch:': the batches not yet deleted
  issued,    \* history: every batch that was handed out, with what it showed
  svc,       \* instance -> queue, gap flag and worker
  world,     \* instance -> the workspace its snapshots are taken of
  files,     \* conversation -> records in its transcript
  client,    \* reader -> the event cursor it holds
  now, asks, faults,
  log,       \* history: instance -> its events, in the order of recording
  lost,      \* history: instance -> snapshots that did not fit into the queue
  answers,   \* history: for every page, losses before it was asked for and losses disclosed
  cut,       \* history: events deleted between the two reads of a page that wanted them
  consumed   \* history: reader -> conversation -> records of acknowledged batches

store == <<rows, nextSeq, floors>>
inboxes == <<ckpts, batches, issued, consumed>>
outside == <<world, files, now, asks, faults, lost>>
vars == <<store, inboxes, svc, client, outside, log, answers, cut>>

-----------------------------------------------------------------------------
(* Values *)

Snapshots == [Agents -> Values]

Empty == [a \in Agents |-> 0]

\* An event; mark: the losses a collection_gap marker stands for, else 0.
Events == [inst : Insts, agent : Agents \cup {NoAgent}, value : Values, mark : Nat]

EventRows == [inst : Insts, agent : Agents \cup {NoAgent}, value : Values, mark : Nat,
              seq : Nat, created : Nat]

\* cur: records covered; 0 with first = TRUE: the conversation was never read.
Marks == [Convs -> [first : BOOLEAN, cur : Nat]]

NoMarks == [c \in Convs |-> [first |-> TRUE, cur |-> 0]]

Ckpts == [marks : Marks, at : Nat]

Batches == [reader : Readers, before : Ckpts \cup {NoRow}, after : Marks,
            acked : BOOLEAN, at : Nat, shown : [Convs -> SUBSET Nat]]

Commands ==
  [kind : {"observe"}, snap : Snapshots, signal : Agents \cup {NoAgent}]
    \cup [kind : {"events"}, reader : Readers, owed : Nat]
    \cup [kind : {"inbox"}, reader : Readers, owed : Nat]
    \cup [kind : {"ack"}, reader : Readers, batch : Nat, owed : Nat]

\* insert, cutoff and prune are the statements of append; floor and page those of
\* events; batch is the inbox between its reads and its write.
Pcs == {"off", "idle", "insert", "cutoff", "prune", "floor", "page", "inbox", "batch", "ack", "gone"}

Services == [pc : Pcs, queue : Seq(Commands), gap : BOOLEAN, ok : BOOLEAN, prev : Snapshots,
             cmd : Commands \cup {NoCmd}, todo : Seq(Events), cutoff : Nat, floor : Nat, from : Nat,
             draft : Batches \cup {NoRow}]

Off == [pc |-> "off", queue |-> <<>>, gap |-> FALSE, ok |-> TRUE, prev |-> Empty, cmd |-> NoCmd,
        todo |-> <<>>, cutoff |-> 0, floor |-> 0, from |-> 0, draft |-> NoRow]

\* inst NoRow: no cursor.  start: the position the reader began at.
Clients == [inst : Insts \cup {NoRow}, cursor : Nat, start : Nat, seen : SUBSET Nat]

Fresh == [inst |-> NoRow, cursor |-> 0, start |-> 0, seen |-> {}]

ASSUME ObservationAssumption ==
  /\ 0 \in Values /\ Values \subseteq Nat /\ NoAgent \notin Agents
  /\ IsFiniteSet(Agents)
  /\ NoCmd \notin Commands /\ NoRow \notin Batches /\ NoRow \notin Insts
  /\ NoRow \notin Ckpts /\ NoRow \notin Marks
  /\ Capacity \in Nat \ {0} /\ PageLimit \in Nat \ {0} /\ InboxLimit \in Nat \ {0}
  /\ MaxEvents \in Nat /\ Retention \in Nat
  /\ FloorLife \in Nat /\ ReaderLife \in Nat /\ BatchLife \in Nat

Largest(S) == IF S = {} THEN 0 ELSE CHOOSE n \in S : \A m \in S : m <= n

Monus(a, b) == IF a > b THEN a - b ELSE 0

Lesser(a, b) == IF a < b THEN a ELSE b

Running(i) == svc[i].pc \notin {"off", "gone"}

-----------------------------------------------------------------------------
(* The UI thread: it only ever tries to put a command into the queue *)

\* Mutant: a snapshot that does not fit is dropped without a trace.
ObserveQuietly(s, c) == IF Len(s.queue) < Capacity THEN [s EXCEPT !.queue = Append(@, c)] ELSE s

\* observe: a full queue raises the gap flag instead.
Observe(s, c) ==
  IF Len(s.queue) < Capacity THEN [s EXCEPT !.queue = Append(@, c)] ELSE [s EXCEPT !.gap = TRUE]

Snapshot(i, signal) == [kind |-> "observe", snap |-> world'[i], signal |-> signal]

Capture(i, signal) ==
  /\ svc' = [svc EXCEPT ![i] = Observe(@, Snapshot(i, signal))]
  /\ lost' = [lost EXCEPT ![i] = IF Len(svc[i].queue) < Capacity THEN @ ELSE @ + 1]

\* start: the thread records that collection began; set_instance_id captures once.
Start(i) ==
  /\ svc[i].pc = "off"
  /\ svc' = [svc EXCEPT ![i] = [Observe(Off, [kind |-> "observe", snap |-> world[i], signal |-> NoAgent])
                                  EXCEPT !.pc = "insert",
                                         !.todo = <<[inst |-> i, agent |-> NoAgent, value |-> 0, mark |-> 0]>>]]
  /\ UNCHANGED <<store, inboxes, client, outside, log, answers, cut>>

\* The workspace changes and the bridge captures it, with the signal of a session
\* event or without one.
Change(i, a, v, signal) ==
  /\ Running(i) /\ v # world[i][a]
  /\ asks.obs < MaxObs
  /\ asks' = [asks EXCEPT !.obs = @ + 1]
  /\ world' = [world EXCEPT ![i][a] = v]
  /\ Capture(i, signal)
  /\ UNCHANGED <<store, inboxes, client, files, now, faults, log, answers, cut>>

\* The process ends; its queue goes with it.
Stop(i) ==
  /\ Running(i)
  /\ svc' = [svc EXCEPT ![i] = [Off EXCEPT !.pc = "gone"]]
  /\ UNCHANGED <<store, inboxes, client, outside, log, answers, cut>>

\* request: a full queue is an error to the caller.
Ask(i, c) ==
  /\ Running(i) /\ Len(svc[i].queue) < Capacity
  /\ asks.req < MaxAsks
  /\ asks' = [asks EXCEPT !.req = @ + 1]
  /\ svc' = [svc EXCEPT ![i].queue = Append(@, c)]
  /\ UNCHANGED <<store, inboxes, client, world, files, now, faults, lost, log, answers, cut>>

\* A caller follows the log with one request at a time.
Waiting(r) ==
  \E i \in Insts : \E c \in {svc[i].cmd} \cup {svc[i].queue[k] : k \in DOMAIN svc[i].queue} :
    c # NoCmd /\ c.kind = "events" /\ c.reader = r

AskEvents(i, r) == ~Waiting(r) /\ Ask(i, [kind |-> "events", reader |-> r, owed |-> lost[i]])

AskInbox(i, r) == Ask(i, [kind |-> "inbox", reader |-> r, owed |-> lost[i]])

AskAck(i, r, b) == Ask(i, [kind |-> "ack", reader |-> r, batch |-> b, owed |-> lost[i]])

-----------------------------------------------------------------------------
(* The worker: taking a command *)

\* Mutant: an agent that disappears is not recorded.
ChangesKept(i, prev, snap) ==
  {[inst |-> i, agent |-> a, value |-> snap[a], mark |-> 0] : a \in {b \in Agents : snap[b] \notin {prev[b], 0}}}

\* record_changes: discovered, changed and removed agents.
Changes(i, prev, snap) ==
  {[inst |-> i, agent |-> a, value |-> snap[a], mark |-> 0] : a \in {b \in Agents : snap[b] # prev[b]}}

AnyOrder(S) == {s \in [1..Cardinality(S) -> S] : \A e \in S : \E k \in DOMAIN s : s[k] = e}

\* The event of a signal: what the snapshot shows of its agent, or, of an agent that
\* ended, what the one before did.
SignalEvents(i, c, prev) ==
  IF c.signal = NoAgent THEN <<>>
  ELSE <<[inst |-> i, agent |-> NoAgent, mark |-> 0,
          value |-> IF c.snap[c.signal] = 0 THEN prev[c.signal] ELSE c.snap[c.signal]]>>

\* The marker that precedes the command when the flag was up.
Markers(i) ==
  IF svc[i].gap THEN <<[inst |-> i, agent |-> NoAgent, value |-> 0, mark |-> lost[i]]>> ELSE <<>>

Idle(s) == [s EXCEPT !.pc = "idle", !.cmd = NoCmd, !.todo = <<>>, !.cutoff = 0, !.floor = 0, !.from = 0, !.draft = NoRow]

\* process, once everything that had to be recorded is.
Proceed(s) ==
  IF s.cmd = NoCmd THEN Idle(s)
  ELSE CASE s.cmd.kind = "observe" -> [Idle(s) EXCEPT !.prev = s.cmd.snap]
         [] s.cmd.kind = "events" -> [s EXCEPT !.pc = "cutoff"]
         [] s.cmd.kind \in {"inbox", "ack"} -> [s EXCEPT !.pc = s.cmd.kind]

\* recv: after a storage error everything is dropped and requests get the error.
Take(i) ==
  /\ svc[i].pc = "idle" /\ svc[i].queue # <<>>
  /\ LET c == Head(svc[i].queue)
         s == [svc[i] EXCEPT !.queue = Tail(@)]
     IN  IF ~s.ok THEN svc' = [svc EXCEPT ![i] = s]
         ELSE \E order \in AnyOrder(IF c.kind = "observe" THEN Changes(i, s.prev, c.snap) ELSE {}) :
                LET todo == Markers(i) \o (IF c.kind = "observe" THEN SignalEvents(i, c, s.prev) ELSE <<>>) \o order
                    t == [s EXCEPT !.gap = FALSE, !.cmd = c, !.todo = todo]
                IN  svc' = [svc EXCEPT ![i] = IF todo = <<>> THEN Proceed(t) ELSE [t EXCEPT !.pc = "insert"]]
  /\ UNCHANGED <<store, inboxes, client, outside, log, answers, cut>>

-----------------------------------------------------------------------------
(* The log: append is an insert, a count and a transaction *)

Insert(i) ==
  /\ svc[i].pc = "insert"
  /\ LET e == Head(svc[i].todo)
     IN  /\ rows' = rows \cup {[inst |-> e.inst, agent |-> e.agent, value |-> e.value, mark |-> e.mark,
                                seq |-> nextSeq, created |-> now]}
         /\ log' = [log EXCEPT ![i] = Append(@, [agent |-> e.agent, value |-> e.value, mark |-> e.mark,
                                                 seq |-> nextSeq])]
  /\ nextSeq' = nextSeq + 1
  /\ svc' = [svc EXCEPT ![i].pc = "cutoff"]
  /\ UNCHANGED <<floors, inboxes, client, outside, answers, cut>>

Cutoff(i) ==
  /\ svc[i].pc = "cutoff"
  /\ svc' = [svc EXCEPT ![i].pc = "prune", ![i].cutoff = Monus(Largest({r.seq : r \in rows}), MaxEvents)]
  /\ UNCHANGED <<store, inboxes, client, outside, log, answers, cut>>

Expired(i) == {r \in rows : r.created + Retention < now \/ r.seq <= svc[i].cutoff}

\* Mutant: a prune records the floor of its own instance only.
RaisedOwn(f, gone, i) ==
  IF \E r \in gone : r.inst = i
  THEN [f EXCEPT ![i] = [seq |-> Largest({@.seq} \cup {r.seq : r \in {x \in gone : x.inst = i}}), at |-> now]]
  ELSE f

\* The upsert of floors, for every instance that loses rows.
Raised(f, gone, i) ==
  [j \in Insts |->
     IF \E r \in gone : r.inst = j
     THEN [seq |-> Largest({f[j].seq} \cup {r.seq : r \in {x \in gone : x.inst = j}}), at |-> now]
     ELSE f[j]]

Forgotten(f) == [j \in Insts |-> IF f[j].at + FloorLife < now THEN [seq |-> 0, at |-> 0] ELSE f[j]]

LiveBatches == {b \in DOMAIN batches : batches[b].at + BatchLife >= now}

LiveCkpts == [r \in Readers |-> IF ckpts[r] # NoRow /\ ckpts[r].at + ReaderLife < now THEN NoRow ELSE ckpts[r]]

\* maintain_state: batches and readers past their life are deleted.
Maintain ==
  /\ batches' = [b \in LiveBatches |-> batches[b]]
  /\ ckpts' = LiveCkpts

\* Where append and events go after their prune.
AfterPrune(s) ==
  IF s.todo = <<>> THEN [s EXCEPT !.pc = "floor", !.cutoff = 0]
  ELSE LET t == [s EXCEPT !.todo = Tail(@), !.cutoff = 0]
       IN  IF t.todo = <<>> THEN Proceed(t) ELSE [t EXCEPT !.pc = "insert"]

\* The transaction of prune.
Prune(i) ==
  /\ svc[i].pc = "prune"
  /\ LET gone == Expired(i)
     IN  /\ rows' = rows \ gone
         /\ floors' = Forgotten(Raised(floors, gone, i))
         /\ cut' = cut \cup {r.seq : r \in {x \in gone : \E j \in Insts \ {i} :
                                              svc[j].pc = "page" /\ x.inst = j /\ x.seq > svc[j].from}}
  /\ Maintain
  /\ svc' = [svc EXCEPT ![i] = AfterPrune(@)]
  /\ UNCHANGED <<nextSeq, issued, consumed, client, outside, log, answers>>

\* The cursor is of this instance and nothing after it was pruned.
Accepts(i, k) == k.inst = i /\ k.cursor >= floors[i].seq

\* events reads the floor and checks the cursor; a refused reader starts over.
Floor(i) ==
  /\ svc[i].pc = "floor"
  /\ LET r == svc[i].cmd.reader
         k == client[r]
     IN  \/ /\ k.inst = NoRow \/ Accepts(i, k)
            /\ svc' = [svc EXCEPT ![i].pc = "page", ![i].floor = floors[i].seq,
                                  ![i].from = IF k.inst = NoRow THEN floors[i].seq ELSE k.cursor]
            /\ UNCHANGED client
         \/ /\ k.inst # NoRow /\ ~Accepts(i, k)
            /\ client' = [client EXCEPT ![r] = Fresh]
            /\ svc' = [svc EXCEPT ![i] = Idle(@)]
  /\ UNCHANGED <<store, inboxes, outside, log, answers, cut>>

\* The first rows after the cursor.
Page(i) == {r \in rows : r.inst = i /\ r.seq > svc[i].from
                          /\ Cardinality({x \in rows : x.inst = i /\ x.seq > svc[i].from /\ x.seq <= r.seq})
                               <= PageLimit}

\* The newest row, or the floor that was read before.
Newest(i) == Largest({r.seq : r \in {x \in rows : x.inst = i}} \cup {svc[i].floor})

\* History: the losses that recorded markers stand for.
Disclosed(i) == Largest({log[i][k].mark : k \in DOMAIN log[i]})

\* events reads the newest row and the rows and answers; a cursor beyond the journal is
\* an error.  One prune may delete all rows from the cursor on before or between the two.
Answer(i) ==
  /\ svc[i].pc = "page"
  /\ LET r == svc[i].cmd.reader
         got == {x.seq : x \in Page(i)}
         from == svc[i].from
         k == IF client[r].inst = NoRow THEN [Fresh EXCEPT !.inst = i, !.start = from] ELSE client[r]
     IN  \/ from > Newest(i) /\ client' = [client EXCEPT ![r] = Fresh]
         \/ client' = [client EXCEPT ![r] =
              [k EXCEPT !.cursor = Largest({from} \cup got), !.seen = @ \cup got]]
  /\ answers' = answers \cup {[owed |-> svc[i].cmd.owed, told |-> Disclosed(i)]}
  /\ svc' = [svc EXCEPT ![i] = Idle(@)]
  /\ UNCHANGED <<store, inboxes, outside, log, cut>>

-----------------------------------------------------------------------------
(* The inbox *)

\* A first read shows the latest records, a later one drains forward.
Shown(m, c) ==
  IF m[c].first THEN (Monus(files[c], InboxLimit) + 1)..files[c]
  ELSE (m[c].cur + 1)..Lesser(files[c], m[c].cur + InboxLimit)

\* Mutant: a conversation that did not fit into the page is advanced all the same.
AdvancedAll(m, readable, kept) ==
  [c \in Convs |-> IF c \in readable THEN [first |-> FALSE, cur |-> Largest({m[c].cur} \cup Shown(m, c))]
                   ELSE m[c]]

\* The checkpoints after a batch: conversations that could be read and were not
\* deferred to a later page.
Advanced(m, readable, kept) ==
  [c \in Convs |-> IF c \in readable \cap kept
                   THEN [first |-> FALSE, cur |-> Largest({m[c].cur} \cup Shown(m, c))]
                   ELSE m[c]]

\* collect_inbox up to the batch: reads the checkpoints and the transcripts.  Which
\* of them can be read and which fit into the answer is left open.
InboxRead(i) ==
  /\ svc[i].pc = "inbox"
  /\ Maintain
  /\ LET r == svc[i].cmd.reader
         before == LiveCkpts[r]
         m == IF before = NoRow THEN NoMarks ELSE before.marks
     IN  \E readable, kept \in SUBSET Convs :
           LET after == Advanced(m, readable, kept)
           IN  svc' = [svc EXCEPT ![i] =
                 IF before # NoRow /\ after = m THEN Idle(@)
                 ELSE [@ EXCEPT !.pc = "batch",
                                !.draft = [reader |-> r, before |-> before, after |-> after, acked |-> FALSE,
                                           at |-> now,
                                           shown |-> [c \in Convs |-> IF c \in readable \cap kept
                                                                      THEN Shown(m, c) ELSE {}]]]]
  /\ UNCHANGED <<store, issued, consumed, client, outside, log, answers, cut>>

BatchesLeft == Cardinality({b \in LiveBatches : ~batches[b].acked}) < MaxBatches

ReaderAllowed(d) == d.before # NoRow \/ Cardinality({r \in Readers : LiveCkpts[r] # NoRow}) < MaxReaders

\* batch: refused at its limits, otherwise stored under a new ID and handed out.
InboxBatch(i) ==
  /\ svc[i].pc = "batch"
  /\ ckpts' = LiveCkpts
  /\ LET d == [svc[i].draft EXCEPT !.at = now]
         id == Len(issued) + 1
     IN  IF BatchesLeft /\ ReaderAllowed(d)
         THEN /\ batches' = [b \in LiveBatches \cup {id} |-> IF b = id THEN d ELSE batches[b]]
              /\ issued' = Append(issued, d)
         ELSE batches' = [b \in LiveBatches |-> batches[b]] /\ UNCHANGED issued
  /\ svc' = [svc EXCEPT ![i] = Idle(@)]
  /\ UNCHANGED <<store, consumed, client, outside, log, answers, cut>>

\* Mutant: the checkpoints of the reader are not compared.
CurrentAny(b) == TRUE

\* The reader's checkpoints are still those the batch was read after.
Current(b) == (IF LiveCkpts[b.reader] = NoRow THEN NoRow ELSE LiveCkpts[b.reader].marks)
                = (IF b.before = NoRow THEN NoRow ELSE b.before.marks)

\* ack, one transaction: the batch lives, belongs to the reader, is not yet
\* acknowledged and the checkpoints are unchanged.
Ack(i) ==
  /\ svc[i].pc = "ack"
  /\ LET r == svc[i].cmd.reader
         id == svc[i].cmd.batch
         b == batches[id]
     IN  IF id \in LiveBatches /\ b.reader = r /\ ~b.acked /\ Current(b)
         THEN /\ ckpts' = [LiveCkpts EXCEPT ![r] = [marks |-> b.after, at |-> now]]
              /\ batches' = [x \in LiveBatches |-> IF x = id THEN [b EXCEPT !.acked = TRUE, !.at = now]
                                                   ELSE batches[x]]
              /\ consumed' = [consumed EXCEPT ![r] =
                   [c \in Convs |-> IF b.before = NoRow THEN b.shown[c] ELSE @[c] \cup b.shown[c]]]
         ELSE Maintain /\ UNCHANGED consumed
  /\ svc' = [svc EXCEPT ![i] = Idle(@)]
  /\ UNCHANGED <<store, issued, client, outside, log, answers, cut>>

-----------------------------------------------------------------------------
(* The rest of the world *)

\* A statement fails.  While recording, that ends the collection for good;
\* a request only gets the error.
Fault(i) ==
  /\ svc[i].pc \in {"insert", "cutoff", "prune", "floor", "page", "inbox", "batch", "ack"}
  /\ faults < MaxFaults /\ faults' = faults + 1
  /\ svc' = [svc EXCEPT ![i] = [Idle(@) EXCEPT !.ok = svc[i].todo = <<>>]]
  /\ UNCHANGED <<store, inboxes, client, world, files, now, asks, lost, log, answers, cut>>

\* External: a provider appends to a transcript.
Grow(c) ==
  /\ files[c] < MaxRecords
  /\ files' = [files EXCEPT ![c] = @ + 1]
  /\ UNCHANGED <<store, inboxes, svc, client, world, now, asks, faults, lost, log, answers, cut>>

Clock ==
  /\ now < MaxTime
  /\ now' = now + 1
  /\ UNCHANGED <<store, inboxes, svc, client, world, files, asks, faults, lost, log, answers, cut>>

Init ==
  /\ rows = {} /\ nextSeq = 1
  /\ floors = [i \in Insts |-> [seq |-> 0, at |-> 0]]
  /\ ckpts = [r \in Readers |-> NoRow]
  /\ batches = [b \in {} |-> NoRow]
  /\ issued = <<>>
  /\ svc = [i \in Insts |-> Off]
  /\ world = [i \in Insts |-> Empty]
  /\ files = [c \in Convs |-> 0]
  /\ client = [r \in Readers |-> Fresh]
  /\ now = 0 /\ faults = 0
  /\ asks = [obs |-> 0, req |-> 0]
  /\ log = [i \in Insts |-> <<>>]
  /\ lost = [i \in Insts |-> 0]
  /\ answers = {} /\ cut = {}
  /\ consumed = [r \in Readers |-> [c \in Convs |-> {}]]

WorkerStep(i) ==
  \/ Take(i) \/ Insert(i) \/ Cutoff(i) \/ Prune(i) \/ Floor(i) \/ Answer(i)
  \/ InboxRead(i) \/ InboxBatch(i) \/ Ack(i)

Next ==
  \/ \E i \in Insts :
       \/ Start(i) \/ Stop(i) \/ WorkerStep(i) \/ Fault(i)
       \/ \E a \in Agents, v \in Values : \E signal \in {NoAgent, a} : Change(i, a, v, signal)
       \/ \E r \in Readers : \/ AskEvents(i, r) \/ AskInbox(i, r)
                             \/ \E b \in DOMAIN issued : AskAck(i, r, b)
  \/ \E c \in Convs : Grow(c)
  \/ Clock

Spec == Init /\ [][Next]_vars

-----------------------------------------------------------------------------
(* Properties *)

Records == [agent : Agents \cup {NoAgent}, value : Values, mark : Nat, seq : Nat]

\* Every variable has its type: the queue of observation/mod.rs never exceeds its
\* capacity, and a worker between two statements knows what it is working on.
TypeOK ==
  /\ rows \subseteq EventRows /\ nextSeq \in Nat
  /\ floors \in [Insts -> [seq : Nat, at : Nat]]
  /\ ckpts \in [Readers -> Ckpts \cup {NoRow}]
  /\ issued \in Seq(Batches)
  /\ DOMAIN batches \subseteq DOMAIN issued /\ batches \in [DOMAIN batches -> Batches]
  /\ svc \in [Insts -> Services]
  /\ \A i \in Insts :
       /\ Len(svc[i].queue) <= Capacity
       /\ svc[i].pc \in {"floor", "page", "inbox", "batch", "ack"} => svc[i].cmd # NoCmd
       /\ svc[i].pc = "insert" => svc[i].todo # <<>>
       /\ svc[i].pc = "batch" => svc[i].draft # NoRow
  /\ client \in [Readers -> Clients]
  /\ now \in Nat /\ files \in [Convs -> Nat] /\ world \in [Insts -> Snapshots]
  /\ asks \in [obs : Nat, req : Nat] /\ faults \in Nat /\ lost \in [Insts -> Nat]
  /\ log \in [Insts -> Seq(Records)] /\ answers \subseteq [owed : Nat, told : Nat] /\ cut \subseteq Nat
  /\ consumed \in [Readers -> [Convs -> SUBSET Nat]]

\* An overflow of the capture queue is never silent (observe and the worker loop of
\* start): a page that was asked for after a snapshot was lost is answered only from
\* a log in which a collection_gap marker for that loss is recorded.
LossDisclosed == \A a \in answers : a.owed <= a.told

\* What the events of an instance add up to.
Replayed(i) ==
  [a \in Agents |->
     LET at == Largest({k \in DOMAIN log[i] : log[i][k].agent = a})
     IN  IF at = 0 THEN 0 ELSE log[i][at].value]

\* When a worker has caught up, replaying its events gives the workspace as it is, or
\* the snapshot that is missing was lost and the loss is or will be recorded
\* (process, record_changes and the gap flag together).
ReplayOrGap ==
  \A i \in Insts :
    (svc[i].pc = "idle" /\ svc[i].ok /\ svc[i].queue = <<>> /\ Replayed(i) # world[i])
      => (svc[i].gap \/ (lost[i] > 0 /\ Disclosed(i) = lost[i]))

Skipped(r) ==
  LET k == client[r]
  IN  IF k.inst = NoRow THEN {}
      ELSE {log[k.inst][n].seq : n \in {m \in DOMAIN log[k.inst] :
              log[k.inst][m].seq > k.start /\ log[k.inst][m].seq <= k.cursor}} \ k.seen

\* A reader that follows next_cursor sees every event from where it began, or is told
\* that its cursor expired: "expiration, collection gaps and instance changes are
\* explicit" (Store::prune and Store::events).
NothingSkipped == \A r \in Readers : Skipped(r) = {}

\* The only events a reader may miss are those another process pruned between the
\* reads of floor and rows of one page (Store::events is not a transaction).
SkippedOnlyMidPage == \A r \in Readers : Skipped(r) \subseteq cut

\* Checkpoints cover only what was shown: from the first record a reader was shown to
\* its checkpoint, every record was in a batch that it acknowledged (collect_inbox
\* and Store::ack).
CheckpointCovered ==
  \A r \in Readers, c \in Convs :
    ckpts[r] # NoRow =>
      /\ ckpts[r].marks[c].cur > 0 => ckpts[r].marks[c].cur \in consumed[r][c]
      /\ \A n \in consumed[r][c] : (n..ckpts[r].marks[c].cur) \subseteq consumed[r][c]

\* A checkpoint never moves back and is never taken from the reader by a late or
\* repeated acknowledgment; only the 90-day expiry resets it (Store::ack, which
\* deletes what expired before it compares).
AckAdvances ==
  [][\A r \in Readers :
       (LiveCkpts[r] # NoRow /\ ckpts'[r] # NoRow) =>
         \A c \in Convs : ckpts'[r].marks[c].cur >= ckpts[r].marks[c].cur]_vars

-----------------------------------------------------------------------------
(* The parts of the inductive invariants *)

\* What a worker holds at each of its steps.  After a storage error it only drains.
WorkersSound ==
  \A i \in Insts :
    LET s == svc[i] IN
    /\ s.pc \in {"off", "idle", "gone"} => s.cmd = NoCmd /\ s.todo = <<>>
    /\ s.pc \in {"floor", "page", "inbox", "batch", "ack"} => s.todo = <<>>
    /\ s.pc \in {"floor", "page"} => s.cmd.kind = "events"
    /\ s.pc \in {"inbox", "batch"} => s.cmd.kind = "inbox"
    /\ s.pc = "ack" => s.cmd.kind = "ack"
    /\ s.pc \in {"cutoff", "prune"} /\ s.todo = <<>> => s.cmd # NoCmd /\ s.cmd.kind = "events"
    /\ ~s.ok => s.pc = "idle"
    /\ \A k \in DOMAIN s.todo : s.todo[k].inst = i

ObsInv == TypeOK /\ WorkersSound /\ IsFiniteSet(rows)

\* A conversation that was never read has nothing covered.
MarksSound(m) == \A c \in Convs : m[c].first => m[c].cur = 0

Before(d) == IF d.before = NoRow THEN NoMarks ELSE d.before.marks

\* A batch shows the records from the checkpoint it was read after, or from anywhere
\* when there was none, to the checkpoint it leads to.
BatchSound(d) ==
  /\ MarksSound(d.after)
  /\ \A c \in Convs :
       \/ d.shown[c] = {} /\ d.after[c].cur = Before(d)[c].cur
       \/ \E low \in 1..d.after[c].cur :
            d.shown[c] = low..d.after[c].cur /\ Before(d)[c].cur \in {0, low - 1}

BatchesSound ==
  /\ \A b \in DOMAIN batches : BatchSound(batches[b])
  /\ \A i \in Insts : svc[i].pc = "batch" => BatchSound(svc[i].draft)

CkptsSound ==
  \A r \in Readers : ckpts[r] # NoRow =>
    /\ MarksSound(ckpts[r].marks)
    /\ \A c \in Convs : consumed[r][c] \subseteq 1..ckpts[r].marks[c].cur

InboxInv == BatchesSound /\ CkptsSound /\ CheckpointCovered

\* A loss is in the log or about to be.
Told(i, n) ==
  \/ n = 0
  \/ \E k \in DOMAIN log[i] : log[i][k].mark >= n
  \/ \E k \in DOMAIN svc[i].todo : svc[i].todo[k].mark >= n

\* An event that is being pruned after was inserted.
HeadInserted ==
  \A i \in Insts : svc[i].pc \in {"cutoff", "prune"} /\ svc[i].todo # <<>> =>
    \E k \in DOMAIN log[i] : log[i][k].mark = Head(svc[i].todo).mark

\* While the gap flag is down every loss is marked; a request that is being answered
\* was asked for after losses that are marked.
LossesKnown ==
  \A i \in Insts :
    /\ svc[i].pc = "off" => lost[i] = 0 /\ log[i] = <<>>
    /\ \A k \in DOMAIN log[i] : log[i][k].mark <= lost[i]
    /\ \A k \in DOMAIN svc[i].todo : svc[i].todo[k].mark <= lost[i]
    /\ \A k \in DOMAIN svc[i].queue : svc[i].queue[k].kind # "observe" => svc[i].queue[k].owed <= lost[i]
    /\ Running(i) /\ svc[i].ok /\ ~svc[i].gap => Told(i, lost[i])
    /\ svc[i].cmd # NoCmd /\ svc[i].cmd.kind # "observe" => Told(i, svc[i].cmd.owed)

LossInv == HeadInserted /\ LossesKnown /\ LossDisclosed

\* What the log shows once the command at hand is recorded.
Goal(i) == IF svc[i].cmd # NoCmd /\ svc[i].cmd.kind = "observe" THEN svc[i].cmd.snap ELSE svc[i].prev

Uninserted(i) == {k \in DOMAIN svc[i].todo : k > 1 \/ svc[i].pc = "insert"}

\* The log and the events still to be inserted add up to it.
LogAddsUp ==
  \A i \in Insts : Running(i) /\ svc[i].ok =>
    \A a \in Agents :
      /\ \A k \in Uninserted(i) : svc[i].todo[k].agent = a => svc[i].todo[k].value = Goal(i)[a]
      /\ (\A k \in Uninserted(i) : svc[i].todo[k].agent # a) => Replayed(i)[a] = Goal(i)[a]

Observes(i) == {k \in DOMAIN svc[i].queue : svc[i].queue[k].kind = "observe"}

\* The last snapshot taken shows the workspace, unless one was lost.
LastIsCurrent ==
  \A i \in Insts : Running(i) /\ lost[i] = 0 =>
    /\ Observes(i) = {} /\ svc[i].ok => Goal(i) = world[i]
    /\ \A k \in Observes(i) : (\A l \in Observes(i) : l <= k) => svc[i].queue[k].snap = world[i]

ReplayInv == LogAddsUp /\ LastIsCurrent

\* Every event is in the table or below the floor of its instance.
FloorsSound ==
  /\ now <= MaxTime
  /\ \A x \in rows : x.seq < nextSeq
  /\ \A i \in Insts :
       /\ floors[i].seq < nextSeq
       /\ \A k \in DOMAIN log[i] :
            /\ log[i][k].seq < nextSeq
            /\ \/ \E x \in rows : x.inst = i /\ x.seq = log[i][k].seq
               \/ log[i][k].seq <= floors[i].seq

\* The commands of a worker: the one at hand and those in its queue.
Held(i, p) == IF p = 0 THEN svc[i].cmd ELSE svc[i].queue[p]

Asks(i, p, r) == Held(i, p) # NoCmd /\ Held(i, p).kind = "events" /\ Held(i, p).reader = r

OneAsk ==
  \A r \in Readers, i, j \in Insts : \A p \in 0..Len(svc[i].queue), q \in 0..Len(svc[j].queue) :
    Asks(i, p, r) /\ Asks(j, q, r) => i = j /\ p = q

\* A worker that has read a floor answers the cursor it compared, and every later
\* event is in the table or was deleted since.
PagesSound ==
  \A i \in Insts : svc[i].pc = "page" =>
    LET k == client[svc[i].cmd.reader] IN
    /\ svc[i].from < nextSeq
    /\ k.inst = NoRow \/ (k.inst = i /\ k.cursor = svc[i].from)
    /\ \A n \in DOMAIN log[i] : log[i][n].seq > svc[i].from =>
         (\E x \in rows : x.inst = i /\ x.seq = log[i][n].seq) \/ log[i][n].seq \in cut

CursorsSound == \A r \in Readers : client[r].cursor < nextSeq

PageInv == FloorsSound /\ OneAsk /\ PagesSound /\ CursorsSound /\ SkippedOnlyMidPage
=============================================================================
