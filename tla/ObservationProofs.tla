------------------------- MODULE ObservationProofs --------------------------
(***************************************************************************)
(* The observation log and the inbox, proved for every instance of         *)
(* Observation: checkpoints cover what was shown and only advance, losses  *)
(* are disclosed, the log adds up to the workspace, and a page skips only  *)
(* what was pruned under it.                                               *)
(***************************************************************************)
EXTENDS Observation, FiniteSetTheorems, SequenceTheorems, TLAPS

-----------------------------------------------------------------------------
(* Finite sets *)

\* The largest of finitely many numbers.
LEMMA LargestFacts ==
  ASSUME NEW S \in SUBSET Nat, IsFiniteSet(S)
  PROVE  /\ Largest(S) \in Nat /\ \A n \in S : n <= Largest(S)
         /\ S # {} => Largest(S) \in S
         /\ S = {} => Largest(S) = 0
<1>1. CASE S = {}
  BY <1>1 DEF Largest
<1>2. CASE S # {}
  <2> DEFINE above(n) == {m \in S : m > n}
             T == {above(n) : n \in S}
             R == StrictSubsetOrdering(S)
             F == FiniteSubsetsOf(S)
  <2>1. T \subseteq F /\ T # {}
    <3>1. \A n \in S : above(n) \in SUBSET S
      OBVIOUS
    <3>2. \A n \in S : IsFiniteSet(above(n))
      BY <3>1, FS_Subset
    <3> QED BY <1>2, <3>1, <3>2 DEF FiniteSubsetsOf
  <2>2. IsWellFoundedOn(R, F)
    BY FS_StrictSubsetOrderingWellFounded
  <2>3. PICK A \in T : \A B \in T : <<B, A>> \notin R
    <3> HIDE DEF T, F, R
    <3> QED BY <2>1, <2>2, WFMin
  <2>4. PICK n \in S : A = above(n)
    OBVIOUS
  <2>5. \A m \in S : m <= n
    <3> SUFFICES ASSUME NEW m \in S, ~(m <= n) PROVE FALSE
      OBVIOUS
    <3>1. m \in Nat /\ n \in Nat /\ m > n /\ S \subseteq Nat
      OBVIOUS
    <3>2. m \in A /\ m \notin above(m)
      BY <2>4, <3>1
    <3>3. above(m) \subseteq A
      <4>1. ASSUME NEW x \in above(m) PROVE x \in above(n)
        <5>1. x \in S /\ x > m /\ x \in Nat
          OBVIOUS
        <5>2. x > n
          BY <3>1, <5>1
        <5> QED BY <5>1, <5>2
      <4> QED BY <2>4, <4>1
    <3>4. A \in SUBSET S /\ above(m) \in SUBSET S
      BY <2>4
    <3>5. <<above(m), A>> \in R
      BY <3>2, <3>3, <3>4 DEF StrictSubsetOrdering
    <3>6. above(m) \in T
      OBVIOUS
    <3> QED BY <2>3, <3>5, <3>6
  <2>6. \E x \in S : \A m \in S : m <= x
    BY <2>5
  <2>7. Largest(S) \in S /\ \A m \in S : m <= Largest(S)
    BY <1>2, <2>6 DEF Largest
  <2> QED BY <1>2, <2>7
<1> QED BY <1>1, <1>2

\* A set of values of a finite set of things is finite.
LEMMA FiniteValues ==
  ASSUME NEW D, IsFiniteSet(D), NEW f, DOMAIN f = D
  PROVE  IsFiniteSet({f[x] : x \in D})
<1> DEFINE S == {f[x] : x \in D}
           g == [x \in D |-> f[x]]
<1>1. g \in [D -> S] /\ \A y \in S : \E x \in D : g[x] = y
  OBVIOUS
<1>2. g \in Surjection(D, S)
  BY <1>1 DEF Surjection
<1>3. IsFiniteSet(S)
  <2> HIDE DEF S, g
  <2> QED BY <1>2, FS_Surjection
<1> QED BY <1>3

-----------------------------------------------------------------------------
(* The record of a worker *)

LEMMA CommandFacts ==
  ASSUME NEW c \in Commands
  PROVE  /\ c # NoCmd /\ c.kind \in {"observe", "events", "inbox", "ack"}
         /\ c.kind = "observe" => c.snap \in Snapshots /\ c.signal \in Agents \cup {NoAgent}
         /\ c.kind # "observe" => c.reader \in Readers /\ c.owed \in Nat
         /\ c.kind = "ack" => c.batch \in Nat
<1>1. c # NoCmd
  BY ObservationAssumption
<1> QED BY <1>1 DEF Commands

LEMMA ServiceFields ==
  ASSUME NEW s \in Services
  PROVE  /\ s.pc \in Pcs /\ s.queue \in Seq(Commands) /\ s.gap \in BOOLEAN /\ s.ok \in BOOLEAN /\ s.prev \in Snapshots
         /\ s.cmd \in Commands \cup {NoCmd} /\ s.todo \in Seq(Events) /\ s.cutoff \in Nat /\ s.from \in Nat /\ s.floor \in Nat
         /\ s.draft \in Batches \cup {NoRow}
BY DEF Services

\* What a step that touches neither the queue nor the flags leaves alone.
Keeps(u, s) == u.queue = s.queue /\ u.gap = s.gap /\ u.ok = s.ok

LEMMA IdleFacts ==
  ASSUME NEW s \in Services
  PROVE  /\ Idle(s) \in Services /\ Keeps(Idle(s), s) /\ Idle(s).prev = s.prev
         /\ Idle(s).pc = "idle" /\ Idle(s).cmd = NoCmd /\ Idle(s).todo = <<>> /\ Idle(s).draft = NoRow
<1>1. Idle(s) = [s EXCEPT !.pc = "idle", !.cmd = NoCmd, !.todo = <<>>, !.cutoff = 0, !.floor = 0, !.from = 0,
                        !.draft = NoRow]
  BY DEF Idle
<1>2. "idle" \in Pcs /\ <<>> \in Seq(Events)
  BY EmptySeq DEF Pcs
<1>3. Idle(s) \in Services
  <2> DEFINE n == <<>>
             z == 0
  <2>1. Idle(s) = [s EXCEPT !.pc = "idle", !.cmd = NoCmd, !.todo = n, !.cutoff = z, !.floor = z, !.from = z,
                          !.draft = NoRow]
    BY <1>1
  <2>2. n \in Seq(Events) /\ z \in Nat
    BY <1>2
  <2> HIDE DEF n, z
  <2> QED BY <1>2, <2>1, <2>2 DEF Services
<1>4. Idle(s).queue = s.queue /\ Idle(s).prev = s.prev
  BY <1>1 DEF Services
<1>5. Idle(s).gap = s.gap /\ Idle(s).ok = s.ok
  BY <1>1 DEF Services
<1>6. Idle(s).pc = "idle" /\ Idle(s).cmd = NoCmd /\ Idle(s).todo = <<>> /\ Idle(s).draft = NoRow
  BY <1>1 DEF Services
<1> QED BY <1>3, <1>4, <1>5, <1>6 DEF Keeps

LEMMA OffFacts ==
  /\ Off \in Services /\ Off.pc = "off" /\ Off.queue = <<>> /\ ~Off.gap /\ Off.ok /\ Off.prev = Empty
  /\ Off.cmd = NoCmd /\ Off.todo = <<>> /\ Off.draft = NoRow
<1> DEFINE no == FALSE
           yes == TRUE
<1>1. no \in BOOLEAN /\ yes \in BOOLEAN /\ ~no /\ yes
  OBVIOUS
<1>2. Off = [pc |-> "off", queue |-> <<>>, gap |-> no, ok |-> yes, prev |-> Empty, cmd |-> NoCmd,
             todo |-> <<>>, cutoff |-> 0, floor |-> 0, from |-> 0, draft |-> NoRow]
  BY DEF Off
<1>3. "off" \in Pcs /\ <<>> \in Seq(Events) /\ <<>> \in Seq(Commands) /\ Empty \in Snapshots
  BY EmptySeq, ObservationAssumption DEF Pcs, Empty, Snapshots
<1> HIDE DEF no, yes
<1>4. Off \in Services
  BY <1>1, <1>2, <1>3 DEF Services
<1> QED BY <1>1, <1>2, <1>4

\* A command that the UI thread puts into the queue, or does not.
LEMMA ObserveFacts ==
  ASSUME NEW s \in Services, NEW c \in Commands, Len(s.queue) <= Capacity
  PROVE  LET u == Observe(s, c)
         IN  /\ u \in Services /\ Len(u.queue) <= Capacity
             /\ u.pc = s.pc /\ u.prev = s.prev /\ u.cmd = s.cmd /\ u.todo = s.todo /\ u.draft = s.draft
             /\ u.from = s.from /\ u.cutoff = s.cutoff /\ u.ok = s.ok
             /\ Len(s.queue) < Capacity => u.queue = Append(s.queue, c) /\ u.gap = s.gap
             /\ ~(Len(s.queue) < Capacity) => u.queue = s.queue /\ u.gap
<1> DEFINE yes == TRUE
           u == Observe(s, c)
<1>0. yes \in BOOLEAN /\ yes
  OBVIOUS
<1>1. CASE Len(s.queue) < Capacity
  <2>1. u = [s EXCEPT !.queue = Append(s.queue, c)]
    BY <1>1 DEF Observe
  <2>2. Append(s.queue, c) \in Seq(Commands) /\ Len(Append(s.queue, c)) = Len(s.queue) + 1 /\ Len(s.queue) \in Nat
    BY AppendProperties, ServiceFields, LenProperties
  <2>3. u \in Services
    BY <2>1, <2>2 DEF Services
  <2>4. /\ u.pc = s.pc /\ u.prev = s.prev /\ u.cmd = s.cmd /\ u.todo = s.todo /\ u.draft = s.draft
        /\ u.from = s.from /\ u.cutoff = s.cutoff /\ u.queue = Append(s.queue, c)
    BY <2>1 DEF Services
  <2>5. u.ok = s.ok /\ u.gap = s.gap
    BY <2>1 DEF Services
  <2>6. Len(u.queue) <= Capacity
    BY <1>1, <2>2, <2>4, ObservationAssumption
  <2> QED BY <1>1, <2>3, <2>4, <2>5, <2>6
<1>2. CASE ~(Len(s.queue) < Capacity)
  <2>1. u = [s EXCEPT !.gap = yes]
    BY <1>2 DEF Observe
  <2> HIDE DEF yes
  <2>3. u \in Services
    BY <1>0, <2>1 DEF Services
  <2>4. /\ u.pc = s.pc /\ u.prev = s.prev /\ u.cmd = s.cmd /\ u.todo = s.todo /\ u.draft = s.draft
        /\ u.from = s.from /\ u.cutoff = s.cutoff /\ u.queue = s.queue
    BY <2>1 DEF Services
  <2>5. u.ok = s.ok
    BY <2>1 DEF Services
  <2>6. u.gap = yes
    BY <2>1 DEF Services
  <2> QED BY <1>0, <1>2, <2>3, <2>4, <2>5, <2>6
<1> QED BY <1>1, <1>2

\* process, once everything is recorded.
LEMMA ProceedFacts ==
  ASSUME NEW s \in Services, s.todo = <<>>
  PROVE  LET u == Proceed(s)
         IN  /\ u \in Services /\ Keeps(u, s) /\ u.todo = <<>>
             /\ s.cmd = NoCmd \/ s.cmd.kind = "observe" => u.pc = "idle" /\ u.cmd = NoCmd /\ u.draft = NoRow
             /\ s.cmd # NoCmd /\ s.cmd.kind = "observe" => u.prev = s.cmd.snap
             /\ s.cmd = NoCmd \/ s.cmd.kind # "observe" => u.prev = s.prev
             /\ s.cmd # NoCmd /\ s.cmd.kind # "observe" => u.cmd = s.cmd /\ u.draft = s.draft
             /\ s.cmd # NoCmd /\ s.cmd.kind = "events" => u.pc = "cutoff"
             /\ s.cmd # NoCmd /\ s.cmd.kind \in {"inbox", "ack"} => u.pc = s.cmd.kind
<1> DEFINE u == Proceed(s)
           k == Idle(s)
<1>0. s.cmd # NoCmd => s.cmd \in Commands /\ s.cmd.kind \in {"observe", "events", "inbox", "ack"}
  BY ServiceFields, CommandFacts
<1>1. CASE s.cmd = NoCmd
  <2>1. u = Idle(s)
    BY <1>1 DEF Proceed
  <2> QED BY <1>1, <2>1, IdleFacts
<1>2. CASE s.cmd # NoCmd /\ s.cmd.kind = "observe"
  <2>1. u = [Idle(s) EXCEPT !.prev = s.cmd.snap]
    BY <1>2 DEF Proceed
  <2>2. /\ k \in Services /\ Keeps(k, s) /\ k.pc = "idle" /\ k.cmd = NoCmd /\ k.todo = <<>> /\ k.draft = NoRow
    BY IdleFacts
  <2> HIDE DEF k
  <2>3. u = [k EXCEPT !.prev = s.cmd.snap] /\ s.cmd.snap \in Snapshots
    BY <1>0, <1>2, <2>1, CommandFacts DEF k
  <2>4. u \in Services /\ u.prev = s.cmd.snap /\ u.pc = "idle" /\ u.cmd = NoCmd /\ u.todo = <<>> /\ u.draft = NoRow
    BY <2>2, <2>3 DEF Services
  <2>5. u.queue = k.queue
    BY <2>2, <2>3 DEF Services
  <2>6. u.gap = k.gap /\ u.ok = k.ok
    BY <2>2, <2>3 DEF Services
  <2> QED BY <1>2, <2>2, <2>4, <2>5, <2>6 DEF Keeps
<1>3. CASE s.cmd # NoCmd /\ s.cmd.kind # "observe"
  <2>1. PICK p \in Pcs : /\ u = [s EXCEPT !.pc = p]
                         /\ s.cmd.kind = "events" => p = "cutoff"
                         /\ s.cmd.kind \in {"inbox", "ack"} => p = s.cmd.kind
    <3>1. CASE s.cmd.kind = "events"
      <4>1. u = [s EXCEPT !.pc = "cutoff"] /\ "cutoff" \in Pcs
        BY <1>3, <3>1 DEF Proceed, Pcs
      <4> QED BY <3>1, <4>1
    <3>2. CASE s.cmd.kind \in {"inbox", "ack"}
      <4>1. u = [s EXCEPT !.pc = s.cmd.kind]
        BY <1>3, <3>2 DEF Proceed
      <4>2. s.cmd.kind \in Pcs
        BY <3>2 DEF Pcs
      <4> QED BY <3>2, <4>1, <4>2
    <3> QED BY <1>0, <1>3, <3>1, <3>2
  <2>2. u \in Services
    BY <2>1 DEF Services
  <2>3. u.pc = p /\ u.cmd = s.cmd /\ u.todo = s.todo /\ u.draft = s.draft /\ u.prev = s.prev /\ u.queue = s.queue
    BY <2>1 DEF Services
  <2>4. u.gap = s.gap /\ u.ok = s.ok
    BY <2>1 DEF Services
  <2> QED BY <1>3, <2>1, <2>2, <2>3, <2>4 DEF Keeps
<1> QED BY <1>1, <1>2, <1>3

-----------------------------------------------------------------------------
(* What has to be recorded for a command *)

\* Events of an instance: a marker carries its losses, everything else none.
EventsOf(i, seq) ==
  seq \in Seq(Events) /\ \A k \in DOMAIN seq : seq[k].inst = i /\ seq[k].mark \in {0, lost[i]}

LEMMA MarkersFacts ==
  ASSUME TypeOK, NEW i \in Insts
  PROVE  /\ EventsOf(i, Markers(i)) /\ \A k \in DOMAIN Markers(i) : Markers(i)[k].agent = NoAgent
         /\ svc[i].gap => \E k \in DOMAIN Markers(i) : Markers(i)[k].mark = lost[i]
<1> DEFINE e == [inst |-> i, agent |-> NoAgent, value |-> 0, mark |-> lost[i]]
<1>1. e \in Events /\ e.inst = i /\ e.agent = NoAgent /\ e.mark = lost[i]
  BY ObservationAssumption DEF TypeOK, Events
<1>2. CASE svc[i].gap
  <2>1. Markers(i) = <<e>>
    BY <1>2 DEF Markers
  <2> HIDE DEF e
  <2>2. Markers(i) \in Seq(Events) /\ DOMAIN Markers(i) = {1} /\ Markers(i)[1] = e
    BY <1>1, <2>1
  <2> QED BY <1>1, <2>2 DEF EventsOf
<1>3. CASE ~svc[i].gap
  <2>1. Markers(i) = <<>>
    BY <1>3 DEF Markers
  <2>2. Markers(i) \in Seq(Events) /\ DOMAIN Markers(i) = {}
    BY <2>1
  <2> QED BY <1>3, <2>2 DEF EventsOf
<1> QED BY <1>2, <1>3

LEMMA SignalFacts ==
  ASSUME TypeOK, NEW i \in Insts, NEW c \in Commands, c.kind = "observe", NEW prev \in Snapshots
  PROVE  /\ EventsOf(i, SignalEvents(i, c, prev))
         /\ \A k \in DOMAIN SignalEvents(i, c, prev) : SignalEvents(i, c, prev)[k].agent = NoAgent
<1> DEFINE q == SignalEvents(i, c, prev)
           v == IF c.snap[c.signal] = 0 THEN prev[c.signal] ELSE c.snap[c.signal]
           e == [inst |-> i, agent |-> NoAgent, mark |-> 0, value |-> v]
<1>1. c.snap \in Snapshots /\ c.signal \in Agents \cup {NoAgent}
  BY CommandFacts
<1>2. CASE c.signal = NoAgent
  <2>1. q = <<>>
    BY <1>2 DEF SignalEvents
  <2>2. q \in Seq(Events) /\ DOMAIN q = {}
    BY <2>1
  <2> QED BY <2>2 DEF EventsOf
<1>3. CASE c.signal # NoAgent
  <2>1. q = <<e>>
    BY <1>3 DEF SignalEvents
  <2>2. v \in Values
    BY <1>1, <1>3 DEF Snapshots
  <2> HIDE DEF v
  <2>3. e \in Events /\ e.inst = i /\ e.mark = 0 /\ e.agent = NoAgent
    BY <2>2 DEF Events
  <2> HIDE DEF e, q
  <2>4. q \in Seq(Events) /\ DOMAIN q = {1} /\ q[1] = e
    BY <2>1, <2>3
  <2>5. EventsOf(i, q) /\ \A k \in DOMAIN q : q[k].agent = NoAgent
    BY <2>3, <2>4 DEF EventsOf
  <2> QED BY <2>5 DEF q
<1> QED BY <1>2, <1>3

\* The changes are an event for every agent that differs, in any order.
LEMMA ChangesFacts ==
  ASSUME TypeOK, NEW i \in Insts, NEW snap \in Snapshots, NEW prev \in Snapshots,
         NEW q \in AnyOrder(Changes(i, prev, snap))
  PROVE  /\ EventsOf(i, q)
         /\ \A k \in DOMAIN q : q[k].agent \in Agents /\ q[k].value = snap[q[k].agent]
         /\ \A a \in Agents : snap[a] # prev[a] => \E k \in DOMAIN q : q[k].agent = a
<1> DEFINE D == {b \in Agents : snap[b] # prev[b]}
           S == Changes(i, prev, snap)
           e(a) == [inst |-> i, agent |-> a, value |-> snap[a], mark |-> 0]
<1>1. S = {e(a) : a \in D} /\ D \subseteq Agents
  BY DEF Changes
<1>2. \A a \in D : e(a) \in Events /\ e(a).inst = i /\ e(a).mark = 0 /\ e(a).agent = a /\ e(a).value = snap[a]
  BY <1>1 DEF Events, Snapshots
<1> HIDE DEF e, S
<1>3. IsFiniteSet(D)
  BY <1>1, ObservationAssumption, FS_Subset
<1>4. IsFiniteSet(S)
  <2> DEFINE f == [a \in D |-> e(a)]
  <2>1. f \in [D -> S] /\ \A x \in S : \E a \in D : f[a] = x
    BY <1>1
  <2> QED BY <1>3, <2>1, FS_Surjection DEF Surjection
<1>5. Cardinality(S) \in Nat
  BY <1>4, FS_CardinalityType
<1>6. q \in [1..Cardinality(S) -> S] /\ \A x \in S : \E k \in DOMAIN q : q[k] = x
  BY DEF AnyOrder, S
<1>7. S \subseteq Events
  BY <1>1, <1>2
<1>8. q \in [1..Cardinality(S) -> Events]
  BY <1>6, <1>7
<1>9. q \in Seq(Events)
  BY <1>5, <1>8
<1>10. \A k \in DOMAIN q : q[k] \in S
  BY <1>6
<1>11. \A k \in DOMAIN q : \E a \in D : q[k] = e(a)
  BY <1>1, <1>10
<1>12. \A k \in DOMAIN q : /\ q[k].inst = i /\ q[k].mark = 0 /\ q[k].agent \in Agents /\ q[k].value = snap[q[k].agent]
  BY <1>1, <1>2, <1>11
<1>13. ASSUME NEW a \in Agents, snap[a] # prev[a] PROVE \E k \in DOMAIN q : q[k].agent = a
  <2>1. a \in D /\ e(a) \in S
    BY <1>1, <1>13
  <2> QED BY <1>2, <1>6, <2>1
<1> QED BY <1>9, <1>12, <1>13 DEF EventsOf

LEMMA EventsJoin ==
  ASSUME NEW i, NEW p \in Seq(Events), NEW q \in Seq(Events), EventsOf(i, p), EventsOf(i, q)
  PROVE  /\ EventsOf(i, p \o q)
         /\ \A k \in DOMAIN (p \o q) : \/ k \in DOMAIN p /\ (p \o q)[k] = p[k]
                                       \/ \E l \in DOMAIN q : (p \o q)[k] = q[l]
         /\ \A k \in DOMAIN p : k \in DOMAIN (p \o q) /\ (p \o q)[k] = p[k]
         /\ \A l \in DOMAIN q : \E k \in DOMAIN (p \o q) : (p \o q)[k] = q[l]
<1> DEFINE r == p \o q
<1>1. p \in Seq(Events) /\ q \in Seq(Events)
  BY DEF EventsOf
<1>2. Len(p) \in Nat /\ Len(q) \in Nat /\ DOMAIN p = 1..Len(p) /\ DOMAIN q = 1..Len(q)
  BY <1>1, LenProperties
<1>3. r \in Seq(Events) /\ Len(r) = Len(p) + Len(q)
      /\ \A k \in 1..Len(p) + Len(q) : r[k] = IF k <= Len(p) THEN p[k] ELSE q[k - Len(p)]
  BY <1>1, ConcatProperties
<1>4. DOMAIN r = 1..Len(p) + Len(q)
  BY <1>3, LenProperties
<1> HIDE DEF r
<1>5. ASSUME NEW k \in DOMAIN r
      PROVE  (k \in DOMAIN p /\ r[k] = p[k]) \/ \E l \in DOMAIN q : r[k] = q[l]
  <2>1. CASE k <= Len(p)
    BY <1>2, <1>3, <1>4, <1>5, <2>1
  <2>2. CASE ~(k <= Len(p))
    <3>1. k - Len(p) \in DOMAIN q /\ r[k] = q[k - Len(p)]
      BY <1>2, <1>3, <1>4, <1>5, <2>2
    <3> QED BY <3>1
  <2> QED BY <2>1, <2>2
<1>6. ASSUME NEW k \in DOMAIN p PROVE k \in DOMAIN r /\ r[k] = p[k]
  BY <1>2, <1>3, <1>4, <1>6
<1>7. ASSUME NEW l \in DOMAIN q PROVE \E k \in DOMAIN r : r[k] = q[l]
  <2>1. Len(p) + l \in DOMAIN r /\ r[Len(p) + l] = q[l]
    BY <1>2, <1>3, <1>4, <1>7
  <2> QED BY <2>1
<1>8. EventsOf(i, r)
  BY <1>3, <1>5 DEF EventsOf
<1> QED BY <1>5, <1>6, <1>7, <1>8 DEF r

Signals(i, c, prev) == IF c.kind = "observe" THEN SignalEvents(i, c, prev) ELSE <<>>

ChangesOf(i, c, prev) == IF c.kind = "observe" THEN Changes(i, prev, c.snap) ELSE {}

\* Everything a worker records before it goes on with a command.
LEMMA TodoFacts ==
  ASSUME TypeOK, NEW i \in Insts, NEW c \in Commands, NEW prev \in Snapshots, NEW order \in AnyOrder(ChangesOf(i, c, prev))
  PROVE  LET todo == Markers(i) \o Signals(i, c, prev) \o order
         IN  /\ EventsOf(i, todo)
             /\ svc[i].gap => \E k \in DOMAIN todo : todo[k].mark = lost[i]
             /\ \A k \in DOMAIN todo : todo[k].agent # NoAgent => c.kind = "observe" /\ todo[k].value = c.snap[todo[k].agent]
             /\ c.kind = "observe" => \A a \in Agents : c.snap[a] # prev[a] => \E k \in DOMAIN todo : todo[k].agent = a
<1> DEFINE m == Markers(i)
           s == Signals(i, c, prev)
           todo == (m \o s) \o order
<1>1. /\ EventsOf(i, m) /\ \A k \in DOMAIN m : m[k].agent = NoAgent
      /\ svc[i].gap => \E k \in DOMAIN m : m[k].mark = lost[i]
  BY MarkersFacts
<1>0. EventsOf(i, <<>>) /\ DOMAIN <<>> = {}
  BY DEF EventsOf
<1>2. EventsOf(i, s) /\ \A k \in DOMAIN s : s[k].agent = NoAgent
  BY <1>0, SignalFacts DEF Signals
<1>3. /\ EventsOf(i, order)
      /\ \A k \in DOMAIN order : c.kind = "observe" /\ order[k].value = c.snap[order[k].agent]
      /\ c.kind = "observe" => \A a \in Agents : c.snap[a] # prev[a] => \E k \in DOMAIN order : order[k].agent = a
  <2>1. CASE c.kind = "observe"
    <3>1. order \in AnyOrder(Changes(i, prev, c.snap)) /\ c.snap \in Snapshots
      BY <2>1, CommandFacts DEF ChangesOf
    <3> QED BY <2>1, <3>1, ChangesFacts
  <2>2. CASE c.kind # "observe"
    <3>1. order \in AnyOrder({})
      BY <2>2 DEF ChangesOf
    <3>2. order \in [1..0 -> {}]
      BY <3>1, FS_EmptySet DEF AnyOrder
    <3>3. DOMAIN order = {} /\ order \in Seq(Events)
      <4>1. DOMAIN order = 1..0
        BY <3>2
      <4>2. order \in [1..0 -> Events]
        BY <3>2
      <4> QED BY <4>1, <4>2
    <3> QED BY <2>2, <3>3 DEF EventsOf
  <2> QED BY <2>1, <2>2
<1> HIDE DEF m, s
<1>7. m \in Seq(Events) /\ s \in Seq(Events) /\ order \in Seq(Events)
  BY <1>1, <1>2, <1>3 DEF EventsOf
<1>4. /\ EventsOf(i, m \o s)
      /\ \A k \in DOMAIN (m \o s) : (m \o s)[k].agent = NoAgent
      /\ svc[i].gap => \E k \in DOMAIN (m \o s) : (m \o s)[k].mark = lost[i]
  <2>1. /\ EventsOf(i, m \o s)
        /\ \A k \in DOMAIN (m \o s) : \/ k \in DOMAIN m /\ (m \o s)[k] = m[k]
                                      \/ \E l \in DOMAIN s : (m \o s)[k] = s[l]
        /\ \A k \in DOMAIN m : k \in DOMAIN (m \o s) /\ (m \o s)[k] = m[k]
    BY <1>1, <1>2, <1>7, EventsJoin
  <2>2. \A k \in DOMAIN (m \o s) : (m \o s)[k].agent = NoAgent
    BY <1>1, <1>2, <2>1
  <2> QED BY <1>1, <2>1, <2>2
<1> DEFINE ms == m \o s
<1> HIDE DEF ms
<1>5. /\ EventsOf(i, ms) /\ \A k \in DOMAIN ms : ms[k].agent = NoAgent
      /\ svc[i].gap => \E k \in DOMAIN ms : ms[k].mark = lost[i]
      /\ todo = ms \o order
  BY <1>4 DEF ms
<1>8. ms \in Seq(Events)
  BY <1>5 DEF EventsOf
<1> HIDE DEF todo
<1>6. /\ EventsOf(i, todo)
      /\ svc[i].gap => \E k \in DOMAIN todo : todo[k].mark = lost[i]
      /\ \A k \in DOMAIN todo : todo[k].agent # NoAgent => c.kind = "observe" /\ todo[k].value = c.snap[todo[k].agent]
      /\ c.kind = "observe" => \A a \in Agents : c.snap[a] # prev[a] => \E k \in DOMAIN todo : todo[k].agent = a
  <2>1. /\ EventsOf(i, todo)
        /\ \A k \in DOMAIN todo : \/ k \in DOMAIN ms /\ todo[k] = ms[k]
                                  \/ \E l \in DOMAIN order : todo[k] = order[l]
        /\ \A k \in DOMAIN ms : k \in DOMAIN todo /\ todo[k] = ms[k]
        /\ \A l \in DOMAIN order : \E k \in DOMAIN todo : todo[k] = order[l]
    <3>1. EventsOf(i, ms) /\ EventsOf(i, order) /\ todo = ms \o order
      BY <1>3, <1>5
    <3>2. /\ EventsOf(i, ms \o order)
          /\ \A k \in DOMAIN (ms \o order) : \/ k \in DOMAIN ms /\ (ms \o order)[k] = ms[k]
                                            \/ \E l \in DOMAIN order : (ms \o order)[k] = order[l]
          /\ \A k \in DOMAIN ms : k \in DOMAIN (ms \o order) /\ (ms \o order)[k] = ms[k]
          /\ \A l \in DOMAIN order : \E k \in DOMAIN (ms \o order) : (ms \o order)[k] = order[l]
      BY <1>7, <1>8, <3>1, EventsJoin
    <3> QED BY <3>1, <3>2
  <2>2. \A k \in DOMAIN todo : todo[k].agent # NoAgent => c.kind = "observe" /\ todo[k].value = c.snap[todo[k].agent]
    BY <1>3, <1>5, <2>1
  <2>3. svc[i].gap => \E k \in DOMAIN todo : todo[k].mark = lost[i]
    BY <1>5, <2>1
  <2>4. ASSUME c.kind = "observe", NEW a \in Agents, c.snap[a] # prev[a] PROVE \E k \in DOMAIN todo : todo[k].agent = a
    <3>1. PICK l \in DOMAIN order : order[l].agent = a
      BY <1>3, <2>4
    <3> QED BY <2>1, <3>1
  <2> QED BY <2>1, <2>2, <2>3, <2>4
<1> QED BY <1>6 DEF todo, m, s


-----------------------------------------------------------------------------
(* A step changes one worker *)

\* What TypeOK and WorkersSound say of the worker of instance i.
Sound(s, i) ==
  /\ s \in Services /\ Len(s.queue) <= Capacity
  /\ s.pc = "insert" => s.todo # <<>>
  /\ s.pc = "batch" => s.draft # NoRow
  /\ s.pc \in {"off", "idle", "gone"} => s.cmd = NoCmd /\ s.todo = <<>>
  /\ s.pc \in {"floor", "page", "inbox", "batch", "ack"} => s.todo = <<>> /\ s.cmd # NoCmd
  /\ s.pc \in {"floor", "page"} => s.cmd.kind = "events"
  /\ s.pc \in {"inbox", "batch"} => s.cmd.kind = "inbox"
  /\ s.pc = "ack" => s.cmd.kind = "ack"
  /\ s.pc \in {"cutoff", "prune"} /\ s.todo = <<>> => s.cmd # NoCmd /\ s.cmd.kind = "events"
  /\ ~s.ok => s.pc = "idle"
  /\ \A k \in DOMAIN s.todo : s.todo[k].inst = i

\* The variables but those of the workers.
RestOK ==
  /\ rows \subseteq EventRows /\ IsFiniteSet(rows) /\ nextSeq \in Nat
  /\ floors \in [Insts -> [seq : Nat, at : Nat]]
  /\ ckpts \in [Readers -> Ckpts \cup {NoRow}]
  /\ issued \in Seq(Batches)
  /\ DOMAIN batches \subseteq DOMAIN issued /\ batches \in [DOMAIN batches -> Batches]
  /\ client \in [Readers -> Clients]
  /\ now \in Nat /\ files \in [Convs -> Nat] /\ world \in [Insts -> Snapshots]
  /\ asks \in [obs : Nat, req : Nat] /\ faults \in Nat /\ lost \in [Insts -> Nat]
  /\ log \in [Insts -> Seq(Records)] /\ answers \subseteq [owed : Nat, told : Nat] /\ cut \subseteq Nat
  /\ consumed \in [Readers -> [Convs -> SUBSET Nat]]

LEMMA ObsParts ==
  ObsInv <=> RestOK /\ svc \in [Insts -> Services] /\ \A i \in Insts : Sound(svc[i], i)
BY DEF ObsInv, TypeOK, WorkersSound, RestOK, Sound

Moves(i, u) == u = svc'[i] /\ svc' = [svc EXCEPT ![i] = u] /\ Sound(u, i)

LEMMA MovesKeep ==
  ASSUME ObsInv, NEW i \in Insts, Moves(i, svc'[i]), RestOK'
  PROVE  ObsInv'
<1>1. svc \in [Insts -> Services] /\ \A j \in Insts : Sound(svc[j], j)
  BY ObsParts
<1>2. svc' = [svc EXCEPT ![i] = svc'[i]] /\ Sound(svc'[i], i) /\ svc'[i] \in Services
  BY DEF Moves, Sound
<1>3. svc' \in [Insts -> Services]
  BY <1>1, <1>2
<1>4. \A j \in Insts : Sound(svc'[j], j)
  BY <1>1, <1>2
<1> QED BY <1>3, <1>4, ObsParts DEF ObsInv, TypeOK, WorkersSound, RestOK, Sound

\* A worker that waits for the next command.
LEMMA IdleSound ==
  ASSUME NEW i, NEW s \in Services, Len(s.queue) <= Capacity
  PROVE  Sound(Idle(s), i)
<1> DEFINE u == Idle(s)
<1>1. u \in Services /\ u.queue = s.queue /\ u.pc = "idle" /\ u.cmd = NoCmd /\ u.todo = <<>>
  BY IdleFacts DEF Keeps
<1>2. DOMAIN u.todo = {}
  BY <1>1
<1> HIDE DEF u
<1>3. Sound(u, i)
  BY <1>1, <1>2 DEF Sound
<1> QED BY <1>3 DEF u

\* The first command of a service is the snapshot that set_instance_id takes.
First(i) == [kind |-> "observe", snap |-> world[i], signal |-> NoAgent]

Began(i) == [inst |-> i, agent |-> NoAgent, value |-> 0, mark |-> 0]

LEMMA StartFacts ==
  ASSUME ObsInv, NEW i \in Insts, Start(i)
  PROVE  LET u == svc'[i]
         IN  /\ Moves(i, u) /\ u.pc = "insert" /\ u.queue = <<First(i)>> /\ ~u.gap /\ u.ok /\ u.prev = Empty
             /\ u.cmd = NoCmd /\ u.todo = <<Began(i)>> /\ First(i) \in Commands
<1> DEFINE v == Observe(Off, First(i))
           u == [v EXCEPT !.pc = "insert", !.todo = <<Began(i)>>]
<1>0. svc \in [Insts -> Services] /\ world \in [Insts -> Snapshots]
  BY ObsParts DEF RestOK
<1>1. First(i) \in Commands
  BY <1>0 DEF First, Commands
<1>2. Began(i) \in Events /\ Began(i).inst = i
  BY ObservationAssumption DEF Began, Events
<1>3. Len(Off.queue) < Capacity /\ Len(Off.queue) <= Capacity
  BY OffFacts, ObservationAssumption
<1>4. /\ v \in Services /\ Len(v.queue) <= Capacity /\ v.queue = Append(Off.queue, First(i)) /\ v.gap = Off.gap
      /\ v.ok = Off.ok /\ v.prev = Off.prev /\ v.cmd = Off.cmd /\ v.draft = Off.draft
  BY <1>1, <1>3, OffFacts, ObserveFacts
<1>5. svc' = [svc EXCEPT ![i] = u]
  BY DEF Start, First, Began
<1> DEFINE q == <<Began(i)>>
<1>6. q \in Seq(Events) /\ q # <<>> /\ DOMAIN q = {1} /\ q[1] = Began(i)
  BY <1>2
<1> HIDE DEF v, q
<1>7. u = [v EXCEPT !.pc = "insert", !.todo = q] /\ "insert" \in Pcs
  BY DEF q, Pcs
<1> HIDE DEF u
<1>8. u \in Services
  BY <1>4, <1>6, <1>7 DEF Services
<1>9. u.pc = "insert" /\ u.todo = q /\ u.queue = v.queue /\ u.prev = v.prev /\ u.cmd = v.cmd
  BY <1>4, <1>7 DEF Services
<1>10. u.gap = v.gap /\ u.ok = v.ok
  BY <1>4, <1>7 DEF Services
<1>11. svc'[i] = u
  BY <1>0, <1>5
<1>12. u.queue = <<First(i)>>
  BY <1>4, <1>9, OffFacts
<1>13. u.ok
  BY <1>4, <1>10, OffFacts
<1>14. Sound(u, i)
  BY <1>2, <1>4, <1>6, <1>8, <1>9, <1>13 DEF Sound
<1> QED BY <1>1, <1>4, <1>5, <1>9, <1>10, <1>11, <1>12, <1>13, <1>14, OffFacts DEF q, Moves

LEMMA ChangeFacts ==
  ASSUME ObsInv, NEW i \in Insts, NEW a \in Agents, NEW v \in Values, NEW signal \in {NoAgent, a}, Change(i, a, v, signal)
  PROVE  LET u == svc'[i]
             s == svc[i]
             c == Snapshot(i, signal)
         IN  /\ Moves(i, u) /\ c \in Commands /\ c.kind = "observe" /\ c.snap = world'[i] /\ world' \in [Insts -> Snapshots]
             /\ u.pc = s.pc /\ u.prev = s.prev /\ u.cmd = s.cmd /\ u.todo = s.todo /\ u.draft = s.draft
             /\ u.from = s.from /\ u.ok = s.ok /\ Running(i)
             /\ \/ u.queue = Append(s.queue, c) /\ u.gap = s.gap /\ UNCHANGED lost
                \/ u.queue = s.queue /\ u.gap /\ lost' = [lost EXCEPT ![i] = @ + 1]
<1> DEFINE u == Observe(svc[i], Snapshot(i, signal))
           s == svc[i]
           c == Snapshot(i, signal)
<1>0. svc \in [Insts -> Services] /\ world \in [Insts -> Snapshots] /\ Sound(s, i) /\ s \in Services /\ lost \in [Insts -> Nat]
  BY ObsParts DEF RestOK
<1>1. world' \in [Insts -> Snapshots]
  BY <1>0 DEF Change, Snapshots
<1>2. c \in Commands /\ c.kind = "observe" /\ c.snap = world'[i]
  <2>1. c = [kind |-> "observe", snap |-> world'[i], signal |-> signal]
    BY DEF Snapshot
  <2> HIDE DEF c
  <2> QED BY <1>1, <2>1 DEF Commands
<1>3. svc' = [svc EXCEPT ![i] = u] /\ lost' = [lost EXCEPT ![i] = IF Len(s.queue) < Capacity THEN @ ELSE @ + 1] /\ Running(i)
  BY DEF Change, Capture
<1>4. svc'[i] = u
  BY <1>0, <1>3
<1>5. Len(s.queue) <= Capacity
  BY <1>0 DEF Sound
<1> HIDE DEF c
<1>6. /\ u \in Services /\ Len(u.queue) <= Capacity
      /\ u.pc = s.pc /\ u.prev = s.prev /\ u.cmd = s.cmd /\ u.todo = s.todo /\ u.draft = s.draft
      /\ u.from = s.from /\ u.cutoff = s.cutoff /\ u.ok = s.ok
      /\ Len(s.queue) < Capacity => u.queue = Append(s.queue, c) /\ u.gap = s.gap
      /\ ~(Len(s.queue) < Capacity) => u.queue = s.queue /\ u.gap
  BY <1>0, <1>2, <1>5, ObserveFacts DEF c
<1>7. \/ u.queue = Append(s.queue, c) /\ u.gap = s.gap /\ UNCHANGED lost
      \/ u.queue = s.queue /\ u.gap /\ lost' = [lost EXCEPT ![i] = @ + 1]
  <2>1. CASE Len(s.queue) < Capacity
    BY <1>0, <1>3, <1>6, <2>1
  <2>2. CASE ~(Len(s.queue) < Capacity)
    BY <1>0, <1>3, <1>6, <2>2
  <2> QED BY <2>1, <2>2
<1> HIDE DEF u
<1>8. Sound(u, i)
  BY <1>0, <1>6 DEF Sound
<1> QED BY <1>1, <1>2, <1>3, <1>4, <1>6, <1>7, <1>8 DEF Moves, c

LEMMA StopFacts ==
  ASSUME ObsInv, NEW i \in Insts, Stop(i)
  PROVE  LET u == svc'[i]
         IN  Moves(i, u) /\ u.pc = "gone" /\ u.queue = <<>> /\ u.cmd = NoCmd /\ u.todo = <<>> /\ u.ok
<1> DEFINE u == [Off EXCEPT !.pc = "gone"]
<1>0. svc \in [Insts -> Services]
  BY ObsParts
<1>1. svc' = [svc EXCEPT ![i] = u]
  BY DEF Stop
<1>2. svc'[i] = u
  BY <1>0, <1>1
<1>3. u \in Services /\ u.pc = "gone" /\ u.queue = Off.queue /\ u.cmd = Off.cmd /\ u.todo = Off.todo
  BY OffFacts DEF Services, Pcs
<1>4. u.ok = Off.ok
  BY OffFacts DEF Services
<1>5. DOMAIN u.todo = {} /\ Len(u.queue) <= Capacity
  BY <1>3, OffFacts, ObservationAssumption
<1> HIDE DEF u
<1>6. Sound(u, i)
  BY <1>3, <1>4, <1>5, OffFacts DEF Sound
<1> QED BY <1>1, <1>2, <1>3, <1>4, <1>6, OffFacts DEF Moves

LEMMA AskFacts ==
  ASSUME ObsInv, NEW i \in Insts, NEW c \in Commands, Ask(i, c)
  PROVE  LET u == svc'[i]
             s == svc[i]
         IN  /\ Moves(i, u) /\ Running(i) /\ u.queue = Append(s.queue, c)
             /\ u.pc = s.pc /\ u.prev = s.prev /\ u.cmd = s.cmd /\ u.todo = s.todo /\ u.draft = s.draft
             /\ u.from = s.from /\ u.ok = s.ok /\ u.gap = s.gap
<1> DEFINE s == svc[i]
           u == [s EXCEPT !.queue = Append(s.queue, c)]
<1>0. svc \in [Insts -> Services] /\ Sound(s, i) /\ s \in Services
  BY ObsParts
<1>1. svc' = [svc EXCEPT ![i] = u] /\ Running(i) /\ Len(s.queue) < Capacity
  BY <1>0 DEF Ask, Services
<1>2. svc'[i] = u
  BY <1>0, <1>1
<1>3. Append(s.queue, c) \in Seq(Commands) /\ Len(Append(s.queue, c)) = Len(s.queue) + 1 /\ Len(s.queue) \in Nat
  BY <1>0, AppendProperties, ServiceFields, LenProperties
<1>4. u \in Services
  BY <1>0, <1>3 DEF Services
<1>5. /\ u.queue = Append(s.queue, c) /\ u.pc = s.pc /\ u.prev = s.prev /\ u.cmd = s.cmd /\ u.todo = s.todo
      /\ u.draft = s.draft /\ u.from = s.from
  BY <1>0 DEF Services
<1>6. u.ok = s.ok /\ u.gap = s.gap
  BY <1>0 DEF Services
<1>7. Len(u.queue) <= Capacity
  BY <1>1, <1>3, <1>5, ObservationAssumption
<1> HIDE DEF u
<1>8. Sound(u, i)
  BY <1>0, <1>4, <1>5, <1>6, <1>7 DEF Sound
<1> QED BY <1>1, <1>2, <1>5, <1>6, <1>8 DEF Moves


\* The worker takes a command.  It goes on at once if there is nothing to record.
Taken(s, u, c, todo) ==
  /\ s.pc = "idle" /\ s.cmd = NoCmd /\ s.todo = <<>> /\ s.queue # <<>> /\ c = Head(s.queue) /\ c \in Commands
  /\ u.queue = Tail(s.queue) /\ (u.ok <=> s.ok)
  /\ ~s.ok => u.pc = "idle" /\ (u.gap <=> s.gap) /\ u.prev = s.prev /\ u.cmd = NoCmd /\ u.todo = <<>>
  /\ s.ok =>
       /\ ~u.gap /\ u.todo = todo
       /\ todo # <<>> => u.pc = "insert" /\ u.cmd = c /\ u.prev = s.prev
       /\ todo = <<>> =>
            IF c.kind = "observe" THEN u.pc = "idle" /\ u.cmd = NoCmd /\ u.prev = c.snap
            ELSE u.cmd = c /\ u.prev = s.prev /\ u.pc = (IF c.kind = "events" THEN "cutoff" ELSE c.kind)

\* The events of a command.
Due(i, c, prev, todo) ==
  /\ EventsOf(i, todo)
  /\ svc[i].gap => \E k \in DOMAIN todo : todo[k].mark = lost[i]
  /\ \A k \in DOMAIN todo : todo[k].agent # NoAgent => c.kind = "observe" /\ todo[k].value = c.snap[todo[k].agent]
  /\ c.kind = "observe" => \A a \in Agents : c.snap[a] # prev[a] => \E k \in DOMAIN todo : todo[k].agent = a

LEMMA TakeFacts ==
  ASSUME ObsInv, NEW i \in Insts, Take(i)
  PROVE  LET u == svc'[i]
             s == svc[i]
         IN  /\ Moves(i, u)
             /\ \E c \in Commands : \E todo \in Seq(Events) : Taken(s, u, c, todo) /\ (s.ok => Due(i, c, s.prev, todo))
<1> DEFINE q == svc[i]
           c == Head(q.queue)
           s == [q EXCEPT !.queue = Tail(@)]
           no == FALSE
<1>0. /\ svc \in [Insts -> Services] /\ Sound(q, i) /\ q \in Services /\ TypeOK /\ no \in BOOLEAN /\ ~no
      /\ q.pc = "idle" /\ q.queue # <<>> /\ q.cmd = NoCmd /\ q.todo = <<>> /\ q.prev \in Snapshots
  BY ObsParts, ServiceFields DEF Take, ObsInv, Sound
<1>1. c \in Commands /\ Tail(q.queue) \in Seq(Commands) /\ Len(Tail(q.queue)) <= Capacity
  <2>1. q.queue \in Seq(Commands) /\ Len(q.queue) \in Nat /\ Len(q.queue) <= Capacity
    BY <1>0, ServiceFields, LenProperties DEF Sound
  <2> QED BY <1>0, <2>1, HeadTailProperties, ObservationAssumption
<1>2. s = [q EXCEPT !.queue = Tail(q.queue)]
  BY <1>0 DEF Services
<1>3. s \in Services /\ s.queue = Tail(q.queue) /\ s.pc = q.pc /\ s.cmd = q.cmd /\ s.todo = q.todo /\ s.prev = q.prev
      /\ s.draft = q.draft
  BY <1>0, <1>1, <1>2 DEF Services
<1>4. s.ok = q.ok /\ s.gap = q.gap
  BY <1>0, <1>2 DEF Services
<1> HIDE DEF c
<1>5. CASE ~s.ok
  <2>1. svc' = [svc EXCEPT ![i] = s]
    BY <1>5 DEF Take
  <2>2. svc'[i] = s
    BY <1>0, <2>1
  <2>3. DOMAIN s.todo = {}
    BY <1>0, <1>3
  <2> HIDE DEF s
  <2>4. Sound(s, i)
    BY <1>0, <1>1, <1>3, <2>3 DEF Sound
  <2>5. Taken(q, s, c, <<>>)
    BY <1>0, <1>1, <1>3, <1>4, <1>5 DEF Taken, c
  <2>6. <<>> \in Seq(Events)
    BY EmptySeq
  <2> QED BY <1>1, <1>4, <1>5, <2>1, <2>2, <2>4, <2>5, <2>6 DEF Moves
<1>6. CASE s.ok
  <2> HIDE DEF no
  <2>1. PICK order \in AnyOrder(ChangesOf(i, c, s.prev)) :
          LET todo == Markers(i) \o Signals(i, c, s.prev) \o order
              t == [s EXCEPT !.gap = no, !.cmd = c, !.todo = todo]
          IN  svc' = [svc EXCEPT ![i] = IF todo = <<>> THEN Proceed(t) ELSE [t EXCEPT !.pc = "insert"]]
    BY <1>6 DEF Take, c, no, Signals, ChangesOf
  <2>2. PICK todo \in Seq(Events) : todo = Markers(i) \o Signals(i, c, s.prev) \o order /\ Due(i, c, s.prev, todo)
    <3> DEFINE p == s.prev
               todo == Markers(i) \o Signals(i, c, p) \o order
    <3>1. TypeOK /\ c \in Commands /\ p \in Snapshots /\ order \in AnyOrder(ChangesOf(i, c, p))
      BY <1>0, <1>1, <1>3
    <3> HIDE DEF p, s, q
    <3>2. /\ EventsOf(i, todo)
          /\ svc[i].gap => \E k \in DOMAIN todo : todo[k].mark = lost[i]
          /\ \A k \in DOMAIN todo : todo[k].agent # NoAgent => c.kind = "observe" /\ todo[k].value = c.snap[todo[k].agent]
          /\ c.kind = "observe" => \A a \in Agents : c.snap[a] # p[a] => \E k \in DOMAIN todo : todo[k].agent = a
      BY <3>1, TodoFacts
    <3> HIDE DEF todo
    <3>3. todo \in Seq(Events)
      BY <3>2 DEF EventsOf
    <3>4. Due(i, c, p, todo)
      BY <3>2 DEF Due
    <3> QED BY <3>3, <3>4 DEF todo, p
  <2> DEFINE t == [s EXCEPT !.gap = no, !.cmd = c, !.todo = todo]
             u == IF todo = <<>> THEN Proceed(t) ELSE [t EXCEPT !.pc = "insert"]
  <2>3. svc' = [svc EXCEPT ![i] = u]
    BY <2>1, <2>2
  <2>4. svc'[i] = u
    BY <1>0, <2>3
  <2> HIDE DEF s
  <2>5. t \in Services
    BY <1>0, <1>1, <1>3, <2>2 DEF Services
  <2>6. t.queue = s.queue /\ t.pc = s.pc /\ t.cmd = c /\ t.todo = todo /\ t.prev = s.prev /\ t.draft = s.draft
    BY <1>3 DEF Services
  <2>7. t.ok = s.ok /\ t.gap = no
    BY <1>3 DEF Services
  <2> HIDE DEF t
  <2>8. c # NoCmd /\ c.kind \in {"observe", "events", "inbox", "ack"}
    BY <1>1, CommandFacts
  <2>9. \A k \in DOMAIN todo : todo[k].inst = i
    BY <2>2 DEF Due, EventsOf
  <2>10. CASE todo = <<>>
    <3>1. u = Proceed(t)
      BY <2>10
    <3>2. /\ u \in Services /\ Keeps(u, t) /\ u.todo = <<>>
          /\ c.kind = "observe" => u.pc = "idle" /\ u.cmd = NoCmd /\ u.prev = c.snap
          /\ c.kind # "observe" => u.prev = s.prev /\ u.cmd = c
          /\ c.kind = "events" => u.pc = "cutoff"
          /\ c.kind \in {"inbox", "ack"} => u.pc = c.kind
      BY <2>5, <2>6, <2>8, <2>10, <3>1, ProceedFacts
    <3> HIDE DEF u
    <3>3. DOMAIN u.todo = {}
      BY <3>2
    <3>4. Sound(u, i)
      BY <1>1, <1>3, <1>6, <2>6, <2>7, <2>8, <3>2, <3>3 DEF Sound, Keeps
    <3>5. Taken(q, u, c, todo)
      BY <1>0, <1>1, <1>3, <1>4, <1>6, <2>6, <2>7, <2>8, <2>10, <3>2 DEF Taken, Keeps, c
    <3> QED BY <1>1, <1>3, <2>2, <2>3, <2>4, <3>4, <3>5 DEF Moves
  <2>11. CASE todo # <<>>
    <3>1. u = [t EXCEPT !.pc = "insert"] /\ "insert" \in Pcs
      BY <2>11 DEF Pcs
    <3> HIDE DEF u
    <3>2. u \in Services /\ u.pc = "insert" /\ u.queue = t.queue /\ u.cmd = t.cmd /\ u.todo = t.todo /\ u.prev = t.prev
      BY <2>5, <3>1 DEF Services
    <3>3. u.ok = t.ok /\ u.gap = t.gap
      BY <2>5, <3>1 DEF Services
    <3>4. Sound(u, i)
      BY <1>1, <1>3, <1>6, <2>6, <2>7, <2>9, <2>11, <3>2, <3>3 DEF Sound
    <3>5. Taken(q, u, c, todo)
      BY <1>0, <1>1, <1>3, <1>4, <1>6, <2>6, <2>7, <2>8, <2>11, <3>2, <3>3 DEF Taken, c
    <3> QED BY <1>1, <1>3, <2>2, <2>3, <2>4, <3>4, <3>5 DEF Moves
  <2> QED BY <2>10, <2>11
<1> QED BY <1>5, <1>6

\* The worker goes on with the same command.
Same(u, s) == Keeps(u, s) /\ u.prev = s.prev /\ u.cmd = s.cmd /\ u.todo = s.todo /\ u.draft = s.draft

LEMMA PcFacts ==
  ASSUME NEW s \in Services, NEW p \in Pcs
  PROVE  [s EXCEPT !.pc = p] \in Services /\ [s EXCEPT !.pc = p].pc = p /\ Same([s EXCEPT !.pc = p], s)
<1> DEFINE u == [s EXCEPT !.pc = p]
<1>1. u \in Services
  BY DEF Services
<1>2. u.pc = p /\ u.queue = s.queue /\ u.prev = s.prev /\ u.cmd = s.cmd /\ u.todo = s.todo /\ u.draft = s.draft
  BY DEF Services
<1>3. u.gap = s.gap /\ u.ok = s.ok
  BY DEF Services
<1> HIDE DEF u
<1>4. u \in Services /\ u.pc = p /\ Same(u, s)
  BY <1>1, <1>2, <1>3 DEF Same, Keeps
<1> QED BY <1>4 DEF u

\* The worker is done with its command.
Resets(u, s) == Keeps(u, s) /\ u.prev = s.prev /\ u.pc = "idle" /\ u.cmd = NoCmd /\ u.todo = <<>>

LEMMA IdleMoves ==
  ASSUME ObsInv, NEW i \in Insts, svc' = [svc EXCEPT ![i] = Idle(svc[i])]
  PROVE  Moves(i, svc'[i]) /\ Resets(svc'[i], svc[i])
<1>1. svc \in [Insts -> Services] /\ svc[i] \in Services /\ Len(svc[i].queue) <= Capacity
  BY ObsParts DEF Sound
<1>2. svc'[i] = Idle(svc[i])
  BY <1>1
<1>3. Sound(Idle(svc[i]), i) /\ Resets(Idle(svc[i]), svc[i])
  BY <1>1, IdleSound, IdleFacts DEF Resets
<1> QED BY <1>2, <1>3 DEF Moves

LEMMA InsertFacts ==
  ASSUME ObsInv, NEW i \in Insts, Insert(i)
  PROVE  LET u == svc'[i]
             s == svc[i]
             e == Head(s.todo)
         IN  /\ Moves(i, u) /\ s.pc = "insert" /\ u.pc = "cutoff" /\ Same(u, s) /\ s.ok /\ s.todo # <<>>
             /\ e \in Events /\ e.inst = i /\ 1 \in DOMAIN s.todo /\ e = s.todo[1]
             /\ RestOK'
<1> DEFINE s == svc[i]
           u == [s EXCEPT !.pc = "cutoff"]
           e == Head(s.todo)
           new == [inst |-> e.inst, agent |-> e.agent, value |-> e.value, mark |-> e.mark, seq |-> nextSeq, created |-> now]
           rec == [agent |-> e.agent, value |-> e.value, mark |-> e.mark, seq |-> nextSeq]
<1>0. svc \in [Insts -> Services] /\ s \in Services /\ Sound(s, i) /\ RestOK /\ s.pc = "insert"
  BY ObsParts DEF Insert
<1>1. s.todo # <<>> /\ s.todo \in Seq(Events) /\ s.ok
  BY <1>0, ServiceFields DEF Sound
<1>2. e \in Events /\ 1 \in DOMAIN s.todo /\ e = s.todo[1]
  <2>1. Len(s.todo) \in Nat \ {0} /\ DOMAIN s.todo = 1..Len(s.todo)
    BY <1>1, LenProperties, EmptySeq
  <2> QED BY <1>1, <2>1, HeadTailProperties
<1>3. e.inst = i
  BY <1>0, <1>2 DEF Sound
<1>4. svc' = [svc EXCEPT ![i] = u]
  BY <1>0 DEF Insert, Services
<1>5. u \in Services /\ u.pc = "cutoff" /\ Same(u, s)
  BY <1>0, PcFacts DEF Pcs
<1>6. svc'[i] = u
  BY <1>0, <1>4
<1>7. new \in EventRows /\ rec \in Records
  BY <1>0, <1>2 DEF RestOK, Events, EventRows, Records
<1>8. rows' = rows \cup {new} /\ log' = [log EXCEPT ![i] = Append(log[i], rec)] /\ nextSeq' = nextSeq + 1
  BY <1>0 DEF Insert, RestOK
<1> HIDE DEF u, e, new, rec
<1>9. Sound(u, i)
  BY <1>0, <1>1, <1>5 DEF Sound, Same, Keeps
<1>10. rows' \subseteq EventRows /\ IsFiniteSet(rows') /\ nextSeq' \in Nat
  <2>1. rows \subseteq EventRows /\ IsFiniteSet(rows) /\ nextSeq \in Nat
    BY <1>0 DEF RestOK
  <2>2. IsFiniteSet(rows \cup {new})
    BY <2>1, FS_AddElement
  <2> QED BY <1>7, <1>8, <2>1, <2>2
<1>11. log' \in [Insts -> Seq(Records)]
  <2>1. log[i] \in Seq(Records)
    BY <1>0 DEF RestOK
  <2>2. Append(log[i], rec) \in Seq(Records)
    BY <1>7, <2>1, AppendProperties
  <2> QED BY <1>0, <1>8, <2>2 DEF RestOK
<1>12. RestOK'
  <2>1. UNCHANGED <<floors, inboxes, client, outside, answers, cut>>
    BY DEF Insert
  <2> QED BY <1>0, <1>10, <1>11, <2>1 DEF RestOK, inboxes, outside
<1> QED BY <1>0, <1>1, <1>2, <1>3, <1>4, <1>5, <1>6, <1>9, <1>12 DEF Moves, e

LEMMA CutoffFacts ==
  ASSUME ObsInv, NEW i \in Insts, Cutoff(i)
  PROVE  LET u == svc'[i]
             s == svc[i]
         IN  Moves(i, u) /\ s.pc = "cutoff" /\ u.pc = "prune" /\ Same(u, s) /\ s.ok /\ RestOK'
<1> DEFINE s == svc[i]
           n == Monus(Largest({r.seq : r \in rows}), MaxEvents)
           t == [s EXCEPT !.pc = "prune"]
           u == [t EXCEPT !.cutoff = n]
<1>0. svc \in [Insts -> Services] /\ s \in Services /\ Sound(s, i) /\ RestOK /\ s.pc = "cutoff"
  BY ObsParts DEF Cutoff
<1>1. n \in Nat
  <2> DEFINE S == {r.seq : r \in rows}
             f == [r \in rows |-> r.seq]
  <2>1. S = {f[r] : r \in rows} /\ DOMAIN f = rows
    OBVIOUS
  <2>2. IsFiniteSet(S)
    <3>1. IsFiniteSet(rows)
      BY <1>0 DEF RestOK
    <3> HIDE DEF S, f
    <3>2. IsFiniteSet({f[r] : r \in rows})
      BY <2>1, <3>1, FiniteValues
    <3> QED BY <2>1, <3>2
  <2>3. S \in SUBSET Nat
    BY <1>0 DEF RestOK, EventRows
  <2> HIDE DEF S
  <2>4. Largest(S) \in Nat
    BY <2>2, <2>3, LargestFacts
  <2>5. Monus(Largest(S), MaxEvents) \in Nat
    BY <2>4, ObservationAssumption DEF Monus
  <2> QED BY <2>5 DEF S
<1>2. svc' = [svc EXCEPT ![i] = u]
  BY <1>0 DEF Cutoff, Services
<1> HIDE DEF n
<1>3. t \in Services /\ t.pc = "prune" /\ Same(t, s)
  BY <1>0, PcFacts DEF Pcs
<1>4. svc'[i] = u
  BY <1>0, <1>2
<1> HIDE DEF t
<1>5. u \in Services /\ u.pc = t.pc /\ u.queue = t.queue /\ u.prev = t.prev /\ u.cmd = t.cmd /\ u.todo = t.todo
      /\ u.draft = t.draft
  BY <1>1, <1>3 DEF Services
<1>6. u.gap = t.gap /\ u.ok = t.ok
  BY <1>3 DEF Services
<1> HIDE DEF u
<1>7. Same(u, s)
  BY <1>3, <1>5, <1>6 DEF Same, Keeps
<1>8. Sound(u, i) /\ s.ok
  BY <1>0, <1>3, <1>5, <1>7 DEF Sound, Same, Keeps
<1>9. RestOK'
  <2>1. UNCHANGED <<store, inboxes, client, outside, log, answers, cut>>
    BY DEF Cutoff
  <2> QED BY <1>0, <2>1 DEF RestOK, store, inboxes, outside
<1> QED BY <1>0, <1>2, <1>3, <1>4, <1>5, <1>7, <1>8, <1>9 DEF Moves

\* The newest of the sequence numbers of some rows and another.
LEMMA NewestFacts ==
  ASSUME RestOK, NEW gone \in SUBSET rows, NEW n \in Nat
  PROVE  LET m == Largest({n} \cup {r.seq : r \in gone})
         IN  m \in Nat /\ n <= m /\ (\A x \in gone : x.seq <= m) /\ (m = n \/ \E x \in gone : m = x.seq)
<1> DEFINE f == [r \in gone |-> r.seq]
           S == {f[r] : r \in gone}
           U == {n} \cup S
<1>1. IsFiniteSet(rows) /\ rows \subseteq EventRows
  BY DEF RestOK
<1>2. IsFiniteSet(gone)
  BY <1>1, FS_Subset
<1>3. IsFiniteSet(S)
  <2> HIDE DEF f
  <2>1. DOMAIN f = gone
    BY DEF f
  <2> QED BY <1>2, <2>1, FiniteValues
<1>4. S \subseteq Nat /\ S = {r.seq : r \in gone}
  BY <1>1 DEF EventRows
<1> HIDE DEF S
<1>5. IsFiniteSet(U) /\ U \in SUBSET Nat /\ U # {}
  <2>1. U = S \cup {n}
    OBVIOUS
  <2> QED BY <1>3, <1>4, <2>1, FS_AddElement
<1> HIDE DEF U
<1>6. Largest(U) \in Nat /\ Largest(U) \in U /\ \A x \in U : x <= Largest(U)
  BY <1>5, LargestFacts
<1>7. U = {n} \cup {r.seq : r \in gone}
  BY <1>4 DEF U
<1> QED BY <1>6, <1>7

LEMMA RaisedFacts ==
  ASSUME RestOK, NEW i \in Insts, NEW gone \in SUBSET rows
  PROVE  LET f == Raised(floors, gone, i)
         IN  /\ f \in [Insts -> [seq : Nat, at : Nat]]
             /\ \A j \in Insts : /\ floors[j].seq <= f[j].seq
                                 /\ \A x \in gone : x.inst = j => x.seq <= f[j].seq
                                 /\ f[j].seq = floors[j].seq \/ \E x \in gone : f[j].seq = x.seq
             /\ \A j \in Insts : f[j] = floors[j] \/ f[j].at = now
<1> DEFINE f == Raised(floors, gone, i)
           of(j) == {x \in gone : x.inst = j}
           m(j) == Largest({floors[j].seq} \cup {r.seq : r \in of(j)})
<1>0. floors \in [Insts -> [seq : Nat, at : Nat]] /\ now \in Nat
  BY DEF RestOK
<1>1. \A j \in Insts : f[j] = IF \E r \in gone : r.inst = j THEN [seq |-> m(j), at |-> now] ELSE floors[j]
  BY DEF Raised
<1>2. ASSUME NEW j \in Insts
      PROVE  /\ m(j) \in Nat /\ floors[j].seq <= m(j) /\ \A x \in gone : x.inst = j => x.seq <= m(j)
             /\ m(j) = floors[j].seq \/ \E x \in gone : m(j) = x.seq
  <2>1. floors[j].seq \in Nat /\ of(j) \in SUBSET rows
    BY <1>0
  <2>2. /\ m(j) \in Nat /\ floors[j].seq <= m(j) /\ (\A x \in of(j) : x.seq <= m(j))
        /\ m(j) = floors[j].seq \/ \E x \in of(j) : m(j) = x.seq
    BY <2>1, NewestFacts
  <2> HIDE DEF m
  <2> QED BY <2>2
<1> HIDE DEF m
<1>3. DOMAIN f = Insts /\ f = [j \in Insts |-> f[j]]
  BY DEF Raised
<1> HIDE DEF f
<1>4. ASSUME NEW j \in Insts
      PROVE  /\ f[j] \in [seq : Nat, at : Nat] /\ floors[j].seq <= f[j].seq
             /\ \A x \in gone : x.inst = j => x.seq <= f[j].seq
             /\ f[j].seq = floors[j].seq \/ \E x \in gone : f[j].seq = x.seq
             /\ f[j] = floors[j] \/ f[j].at = now
  <2>1. CASE \E r \in gone : r.inst = j
    <3>1. f[j] = [seq |-> m(j), at |-> now]
      BY <1>1, <2>1
    <3>2. f[j] \in [seq : Nat, at : Nat] /\ f[j].seq = m(j) /\ f[j].at = now
      BY <1>0, <1>2, <3>1
    <3> QED BY <1>2, <3>2
  <2>2. CASE ~\E r \in gone : r.inst = j
    <3>1. f[j] = floors[j]
      BY <1>1, <2>2
    <3> QED BY <1>0, <2>2, <3>1
  <2> QED BY <2>1, <2>2
<1>5. f \in [Insts -> [seq : Nat, at : Nat]]
  BY <1>3, <1>4
<1> QED BY <1>4, <1>5 DEF f

\* maintain_state only deletes.
LEMMA LiveFacts ==
  ASSUME RestOK
  PROVE  /\ LiveCkpts \in [Readers -> Ckpts \cup {NoRow}]
         /\ \A r \in Readers : LiveCkpts[r] \in {ckpts[r], NoRow}
         /\ LiveBatches \subseteq DOMAIN batches
<1>1. ckpts \in [Readers -> Ckpts \cup {NoRow}]
  BY DEF RestOK
<1>2. \A r \in Readers : LiveCkpts[r] \in {ckpts[r], NoRow}
  BY DEF LiveCkpts
<1>3. DOMAIN LiveCkpts = Readers /\ LiveCkpts = [r \in Readers |-> LiveCkpts[r]]
  BY DEF LiveCkpts
<1> QED BY <1>1, <1>2, <1>3 DEF LiveBatches

LEMMA MaintainFacts ==
  ASSUME RestOK, Maintain
  PROVE  /\ ckpts' = LiveCkpts /\ ckpts' \in [Readers -> Ckpts \cup {NoRow}]
         /\ DOMAIN batches' \subseteq DOMAIN batches /\ batches' \in [DOMAIN batches' -> Batches]
         /\ \A b \in DOMAIN batches' : batches'[b] = batches[b]
<1>1. batches' = [b \in LiveBatches |-> batches[b]] /\ ckpts' = LiveCkpts
  BY DEF Maintain
<1>2. batches \in [DOMAIN batches -> Batches]
  BY DEF RestOK
<1> QED BY <1>1, <1>2, LiveFacts

\* The command at hand and what the worker does when everything is recorded.
Proceeds(u, s, c) ==
  IF c = NoCmd THEN u.pc = "idle" /\ u.cmd = NoCmd /\ u.prev = s.prev
  ELSE IF c.kind = "observe" THEN u.pc = "idle" /\ u.cmd = NoCmd /\ u.prev = c.snap
  ELSE u.cmd = c /\ u.prev = s.prev /\ u.pc = (IF c.kind = "events" THEN "cutoff" ELSE c.kind)

\* After a prune the worker records the next event, goes on with its command, or
\* reads the floor of the page it was asked for.
Pruned(u, s) ==
  /\ Keeps(u, s)
  /\ s.todo = <<>> => u.pc = "floor" /\ Same(u, s)
  /\ s.todo # <<>> /\ Tail(s.todo) # <<>> => u.pc = "insert" /\ u.todo = Tail(s.todo) /\ u.cmd = s.cmd /\ u.prev = s.prev
  /\ s.todo # <<>> /\ Tail(s.todo) = <<>> => u.todo = <<>> /\ Proceeds(u, s, s.cmd)

LEMMA PruneMoves ==
  ASSUME ObsInv, NEW i \in Insts, Prune(i)
  PROVE  Moves(i, svc'[i]) /\ svc[i].pc = "prune" /\ svc[i].ok /\ Pruned(svc'[i], svc[i])
<1> DEFINE s == svc[i]
           t == [s EXCEPT !.todo = Tail(s.todo), !.cutoff = 0]
           u == IF s.todo = <<>> THEN [s EXCEPT !.pc = "floor", !.cutoff = 0]
                ELSE IF t.todo = <<>> THEN Proceed(t) ELSE [t EXCEPT !.pc = "insert"]
<1>0. svc \in [Insts -> Services] /\ s \in Services /\ Sound(s, i) /\ s.pc = "prune" /\ s.ok
  BY ObsParts DEF Prune, Sound
<1>1. svc' = [svc EXCEPT ![i] = u]
  <2>1. svc' = [svc EXCEPT ![i] = AfterPrune(s)]
    BY <1>0 DEF Prune
  <2>2. [s EXCEPT !.todo = Tail(@), !.cutoff = 0] = t
    BY <1>0 DEF Services
  <2>3. AfterPrune(s) = u
    BY <2>2 DEF AfterPrune
  <2> QED BY <2>1, <2>3
<1>2. svc'[i] = u
  BY <1>0, <1>1
<1>3. Sound(u, i) /\ Pruned(u, s)
  <2>1. CASE s.todo = <<>>
    <3> DEFINE p == [s EXCEPT !.pc = "floor"]
               v == [p EXCEPT !.cutoff = 0]
    <3>1. u = v
      BY <1>0, <2>1 DEF Services
    <3>2. p \in Services /\ p.pc = "floor" /\ Same(p, s)
      BY <1>0, PcFacts DEF Pcs
    <3> HIDE DEF p
    <3>3. v \in Services /\ v.pc = p.pc /\ v.queue = p.queue /\ v.prev = p.prev /\ v.cmd = p.cmd /\ v.todo = p.todo
          /\ v.draft = p.draft
      BY <3>2 DEF Services
    <3>4. v.gap = p.gap /\ v.ok = p.ok
      BY <3>2 DEF Services
    <3> HIDE DEF v
    <3>5. v.pc = "floor" /\ Same(v, s) /\ Keeps(v, s) /\ v.todo = <<>> /\ DOMAIN v.todo = {}
      BY <2>1, <3>2, <3>3, <3>4 DEF Same, Keeps
    <3>6. Sound(v, i)
      BY <1>0, <2>1, <3>3, <3>5 DEF Sound, Same, Keeps
    <3>7. Pruned(v, s)
      BY <2>1, <3>5 DEF Pruned
    <3> HIDE DEF u
    <3> QED BY <3>1, <3>6, <3>7
  <2>2. CASE s.todo # <<>>
    <3>1. s.todo \in Seq(Events) /\ Tail(s.todo) \in Seq(Events)
          /\ \A k \in DOMAIN Tail(s.todo) : k + 1 \in DOMAIN s.todo /\ Tail(s.todo)[k] = s.todo[k + 1]
      <4>1. s.todo \in Seq(Events) /\ Len(s.todo) \in Nat \ {0} /\ DOMAIN s.todo = 1..Len(s.todo)
        BY <1>0, <2>2, ServiceFields, LenProperties, EmptySeq
      <4>2. Tail(s.todo) \in Seq(Events) /\ Len(Tail(s.todo)) = Len(s.todo) - 1
            /\ \A k \in 1..Len(Tail(s.todo)) : Tail(s.todo)[k] = s.todo[k + 1]
        BY <2>2, <4>1, HeadTailProperties
      <4>3. DOMAIN Tail(s.todo) = 1..Len(Tail(s.todo))
        BY <4>2, LenProperties
      <4> QED BY <4>1, <4>2, <4>3
    <3>2. t \in Services /\ t.todo = Tail(s.todo) /\ t.queue = s.queue /\ t.prev = s.prev /\ t.cmd = s.cmd
          /\ t.draft = s.draft /\ t.pc = s.pc
      BY <1>0, <3>1 DEF Services
    <3>3. t.gap = s.gap /\ t.ok = s.ok
      BY <1>0 DEF Services
    <3>4. \A k \in DOMAIN t.todo : t.todo[k].inst = i
      BY <1>0, <3>1, <3>2 DEF Sound
    <3> HIDE DEF t
    <3>5. CASE t.todo = <<>>
      <4>1. u = Proceed(t)
        BY <2>2, <3>5
      <4>2. s.cmd # NoCmd => s.cmd \in Commands /\ s.cmd.kind \in {"observe", "events", "inbox", "ack"}
        BY <1>0, ServiceFields, CommandFacts
      <4>3. u \in Services /\ Keeps(u, t) /\ u.todo = <<>>
        BY <3>2, <3>5, <4>1, ProceedFacts
      <4>4. Proceeds(u, s, s.cmd)
        <5> HIDE DEF u
        <5>0. t \in Services /\ t.todo = <<>>
          BY <3>2, <3>5
        <5>2. LET v == Proceed(t)
              IN  /\ t.cmd = NoCmd \/ t.cmd.kind = "observe" => v.pc = "idle" /\ v.cmd = NoCmd /\ v.draft = NoRow
                  /\ t.cmd # NoCmd /\ t.cmd.kind = "observe" => v.prev = t.cmd.snap
                  /\ t.cmd = NoCmd \/ t.cmd.kind # "observe" => v.prev = t.prev
                  /\ t.cmd # NoCmd /\ t.cmd.kind # "observe" => v.cmd = t.cmd /\ v.draft = t.draft
                  /\ t.cmd # NoCmd /\ t.cmd.kind = "events" => v.pc = "cutoff"
                  /\ t.cmd # NoCmd /\ t.cmd.kind \in {"inbox", "ack"} => v.pc = t.cmd.kind
          BY <5>0, ProceedFacts
        <5>1. /\ s.cmd = NoCmd \/ s.cmd.kind = "observe" => u.pc = "idle" /\ u.cmd = NoCmd
              /\ s.cmd # NoCmd /\ s.cmd.kind = "observe" => u.prev = s.cmd.snap
              /\ s.cmd = NoCmd \/ s.cmd.kind # "observe" => u.prev = s.prev
              /\ s.cmd # NoCmd /\ s.cmd.kind # "observe" => u.cmd = s.cmd
              /\ s.cmd # NoCmd /\ s.cmd.kind = "events" => u.pc = "cutoff"
              /\ s.cmd # NoCmd /\ s.cmd.kind \in {"inbox", "ack"} => u.pc = s.cmd.kind
          BY <3>2, <4>1, <5>2
        <5> QED BY <4>2, <5>1 DEF Proceeds
      <4> HIDE DEF u
      <4>5. DOMAIN u.todo = {}
        BY <4>3
      <4>6. Sound(u, i)
        BY <1>0, <3>2, <3>3, <4>2, <4>3, <4>4, <4>5 DEF Sound, Keeps, Proceeds
      <4>7. Pruned(u, s)
        BY <2>2, <3>2, <3>3, <3>5, <4>3, <4>4 DEF Pruned, Keeps
      <4> QED BY <4>6, <4>7
    <3>6. CASE t.todo # <<>>
      <4>1. u = [t EXCEPT !.pc = "insert"]
        BY <2>2, <3>6
      <4>2. u \in Services /\ u.pc = "insert" /\ Same(u, t)
        <5> HIDE DEF u
        <5>1. "insert" \in Pcs
          BY DEF Pcs
        <5> QED BY <3>2, <4>1, <5>1, PcFacts
      <4> HIDE DEF u
      <4>3. Sound(u, i)
        BY <1>0, <3>2, <3>3, <3>4, <3>6, <4>2 DEF Sound, Same, Keeps
      <4>4. Pruned(u, s)
        BY <2>2, <3>2, <3>3, <3>6, <4>2 DEF Pruned, Same, Keeps
      <4> QED BY <4>3, <4>4
    <3> QED BY <3>5, <3>6
  <2> QED BY <2>1, <2>2
<1> HIDE DEF u
<1> QED BY <1>0, <1>1, <1>2, <1>3 DEF Moves

\* What the transaction of prune does to the tables.
LEMMA PruneFacts ==
  ASSUME ObsInv, NEW i \in Insts, Prune(i)
  PROVE  /\ RestOK' /\ ckpts' = LiveCkpts /\ \A b \in DOMAIN batches' : b \in DOMAIN batches /\ batches'[b] = batches[b]
         /\ rows' = rows \ Expired(i) /\ Expired(i) \in SUBSET rows
<1> DEFINE gone == Expired(i)
<1>0. RestOK
  BY ObsParts
<1>1. gone \in SUBSET rows
  BY DEF Expired
<1>2. floors' = Forgotten(Raised(floors, gone, i)) /\ rows' = rows \ gone /\ Maintain
  BY DEF Prune
<1>3. floors' \in [Insts -> [seq : Nat, at : Nat]]
  <2> DEFINE f == Raised(floors, gone, i)
  <2>1. f \in [Insts -> [seq : Nat, at : Nat]]
    BY <1>0, <1>1, RaisedFacts
  <2> HIDE DEF f
  <2>2. Forgotten(f) \in [Insts -> [seq : Nat, at : Nat]]
    BY <2>1 DEF Forgotten
  <2> QED BY <1>2, <2>2 DEF f
<1>4. rows' \subseteq EventRows /\ IsFiniteSet(rows')
  <2>1. rows' \in SUBSET rows /\ IsFiniteSet(rows) /\ rows \subseteq EventRows
    BY <1>0, <1>2 DEF RestOK
  <2> QED BY <2>1, FS_Subset
<1>5. cut' \subseteq Nat
  <2>1. cut' \subseteq cut \cup {r.seq : r \in gone}
    BY DEF Prune
  <2>2. \A r \in gone : r.seq \in Nat
    BY <1>0, <1>1 DEF RestOK, EventRows
  <2>3. cut \subseteq Nat
    BY <1>0 DEF RestOK
  <2> QED BY <2>1, <2>2, <2>3
<1>6. /\ ckpts' = LiveCkpts /\ ckpts' \in [Readers -> Ckpts \cup {NoRow}]
      /\ DOMAIN batches' \subseteq DOMAIN batches /\ batches' \in [DOMAIN batches' -> Batches]
      /\ \A b \in DOMAIN batches' : batches'[b] = batches[b]
  BY <1>0, <1>2, MaintainFacts
<1>7. UNCHANGED <<nextSeq, issued, consumed, client, outside, log, answers>>
  BY DEF Prune
<1>8. DOMAIN batches' \subseteq DOMAIN issued'
  BY <1>0, <1>6, <1>7 DEF RestOK
<1>9. RestOK'
  BY <1>0, <1>3, <1>4, <1>5, <1>6, <1>7, <1>8 DEF RestOK, outside
<1> QED BY <1>1, <1>2, <1>6, <1>9

\* events compares the cursor of the reader with the floor.
FloorTaken(i, u, s) ==
  LET k == client[s.cmd.reader] IN
  \/ /\ k.inst = NoRow \/ Accepts(i, k)
     /\ u.pc = "page" /\ Same(u, s) /\ u.from = (IF k.inst = NoRow THEN floors[i].seq ELSE k.cursor)
     /\ UNCHANGED client
  \/ Resets(u, s) /\ client' = [client EXCEPT ![s.cmd.reader] = Fresh]

LEMMA FreshFacts == Fresh \in Clients /\ Fresh.inst = NoRow /\ Fresh.cursor = 0 /\ Fresh.start = 0 /\ Fresh.seen = {}
BY DEF Fresh, Clients

LEMMA EventsFacts ==
  ASSUME ObsInv, NEW i \in Insts, svc[i].pc \in {"floor", "page"}
  PROVE  /\ svc[i].cmd \in Commands /\ svc[i].cmd.kind = "events" /\ svc[i].cmd.reader \in Readers /\ svc[i].cmd.owed \in Nat
         /\ client[svc[i].cmd.reader] \in Clients /\ svc[i].todo = <<>> /\ svc[i].ok /\ svc[i].from \in Nat
<1>1. svc[i] \in Services /\ Sound(svc[i], i) /\ RestOK
  BY ObsParts
<1>2. svc[i].cmd \in Commands /\ svc[i].cmd.kind = "events" /\ svc[i].todo = <<>> /\ svc[i].ok /\ svc[i].from \in Nat
  BY <1>1, ServiceFields DEF Sound
<1>3. svc[i].cmd.reader \in Readers /\ svc[i].cmd.owed \in Nat
  BY <1>2, CommandFacts
<1> QED BY <1>1, <1>2, <1>3 DEF RestOK

LEMMA FloorFacts ==
  ASSUME ObsInv, NEW i \in Insts, Floor(i)
  PROVE  Moves(i, svc'[i]) /\ svc[i].pc = "floor" /\ FloorTaken(i, svc'[i], svc[i]) /\ RestOK'
<1> DEFINE s == svc[i]
           k == client[s.cmd.reader]
           p == [s EXCEPT !.pc = "page"]
           n == IF k.inst = NoRow THEN floors[i].seq ELSE k.cursor
           m == floors[i].seq
           u == [p EXCEPT !.floor = m, !.from = n]
<1>0. svc \in [Insts -> Services] /\ s \in Services /\ Sound(s, i) /\ s.pc = "floor" /\ RestOK
  BY ObsParts DEF Floor
<1>1. s.cmd \in Commands /\ s.cmd.kind = "events" /\ s.cmd.reader \in Readers /\ k \in Clients /\ s.todo = <<>> /\ s.ok
  BY <1>0, EventsFacts
<1>2. UNCHANGED <<store, inboxes, outside, log, answers, cut>>
  BY DEF Floor
<1>3. CASE /\ k.inst = NoRow \/ Accepts(i, k)
           /\ svc' = [svc EXCEPT ![i].pc = "page", ![i].floor = m, ![i].from = n]
           /\ UNCHANGED client
  <2>1. svc' = [svc EXCEPT ![i] = u]
    BY <1>0, <1>3 DEF Services
  <2>2. n \in Nat /\ m \in Nat
    BY <1>0, <1>1 DEF RestOK, Clients
  <2>3. p \in Services /\ p.pc = "page" /\ Same(p, s)
    BY <1>0, PcFacts DEF Pcs
  <2> HIDE DEF p, n, m
  <2>4. u \in Services /\ u.pc = p.pc /\ u.queue = p.queue /\ u.prev = p.prev /\ u.cmd = p.cmd /\ u.todo = p.todo
        /\ u.draft = p.draft /\ u.from = n
    BY <2>2, <2>3 DEF Services
  <2>5. u.gap = p.gap /\ u.ok = p.ok
    BY <2>3 DEF Services
  <2>6. svc'[i] = u
    BY <1>0, <2>1
  <2> HIDE DEF u
  <2>7. u.pc = "page" /\ Same(u, s)
    BY <2>3, <2>4, <2>5 DEF Same, Keeps
  <2>8. DOMAIN u.todo = {} /\ u.todo = <<>>
    BY <1>1, <2>7 DEF Same
  <2>9. Sound(u, i)
    BY <1>0, <1>1, <2>4, <2>7, <2>8 DEF Sound, Same, Keeps
  <2>10. FloorTaken(i, u, s)
    BY <1>3, <2>4, <2>7 DEF FloorTaken, n
  <2>11. RestOK'
    BY <1>0, <1>2, <1>3 DEF RestOK, store, inboxes, outside
  <2> QED BY <1>0, <2>1, <2>6, <2>9, <2>10, <2>11 DEF Moves
<1>4. CASE client' = [client EXCEPT ![s.cmd.reader] = Fresh] /\ svc' = [svc EXCEPT ![i] = Idle(s)]
  <2>1. Moves(i, svc'[i]) /\ Resets(svc'[i], s)
    BY <1>4, IdleMoves
  <2>2. client' \in [Readers -> Clients]
    BY <1>0, <1>1, <1>4, FreshFacts DEF RestOK
  <2>3. RestOK'
    BY <1>0, <1>2, <2>2 DEF RestOK, store, inboxes, outside
  <2>4. FloorTaken(i, svc'[i], s)
    BY <1>4, <2>1 DEF FloorTaken
  <2> QED BY <1>0, <2>1, <2>3, <2>4
<1>5. \/ /\ k.inst = NoRow \/ Accepts(i, k)
         /\ svc' = [svc EXCEPT ![i].pc = "page", ![i].floor = m, ![i].from = n]
         /\ UNCHANGED client
      \/ client' = [client EXCEPT ![s.cmd.reader] = Fresh] /\ svc' = [svc EXCEPT ![i] = Idle(s)]
  BY <1>0 DEF Floor
<1> QED BY <1>3, <1>4, <1>5

\* The losses that the markers of an instance stand for.
LEMMA DisclosedFacts ==
  ASSUME RestOK, NEW i \in Insts
  PROVE  /\ Disclosed(i) \in Nat /\ \A k \in DOMAIN log[i] : log[i][k].mark <= Disclosed(i)
         /\ Disclosed(i) = 0 \/ \E k \in DOMAIN log[i] : Disclosed(i) = log[i][k].mark
<1> DEFINE D == DOMAIN log[i]
           f == [k \in D |-> log[i][k].mark]
           S == {f[k] : k \in D}
<1>1. log[i] \in Seq(Records) /\ D = 1..Len(log[i]) /\ Len(log[i]) \in Nat
  BY LenProperties DEF RestOK
<1>2. IsFiniteSet(D)
  BY <1>1, FS_Interval
<1>3. \A k \in D : log[i][k] \in Records /\ log[i][k].mark \in Nat
  <2>1. \A k \in D : log[i][k] \in Records
    BY <1>1
  <2> HIDE DEF D
  <2> QED BY <2>1 DEF Records
<1>4. IsFiniteSet(S)
  <2> HIDE DEF f
  <2>1. DOMAIN f = D
    BY DEF f
  <2> QED BY <1>2, <2>1, FiniteValues
<1>5. S = {log[i][k].mark : k \in D} /\ S \in SUBSET Nat
  BY <1>3
<1>6. Disclosed(i) = Largest(S)
  BY <1>5 DEF Disclosed
<1> HIDE DEF S
<1>7. Largest(S) \in Nat /\ (\A n \in S : n <= Largest(S)) /\ (Largest(S) = 0 \/ Largest(S) \in S)
  BY <1>4, <1>5, LargestFacts
<1> QED BY <1>5, <1>6, <1>7

\* events answers the page and moves the cursor of the reader over it.
Answered(i) ==
  LET s == svc[i]
      r == s.cmd.reader
      k == client[r]
      c == client'[r]
  IN  /\ client' = [client EXCEPT ![r] = c] /\ c \in Clients
      /\ \/ c = Fresh
         \/ /\ c.inst = (IF k.inst = NoRow THEN i ELSE k.inst)
            /\ c.start = (IF k.inst = NoRow THEN s.from ELSE k.start)
            /\ c.seen = (IF k.inst = NoRow THEN {} ELSE k.seen) \cup {x.seq : x \in Page(i)}
            /\ s.from <= c.cursor /\ (\A x \in Page(i) : x.seq <= c.cursor)
            /\ c.cursor = s.from \/ \E x \in Page(i) : c.cursor = x.seq
      /\ answers' = answers \cup {[owed |-> s.cmd.owed, told |-> Disclosed(i)]}

LEMMA AnswerFacts ==
  ASSUME ObsInv, NEW i \in Insts, Answer(i)
  PROVE  Moves(i, svc'[i]) /\ svc[i].pc = "page" /\ Resets(svc'[i], svc[i]) /\ Answered(i) /\ RestOK'
<1> DEFINE s == svc[i]
           r == s.cmd.reader
           got == {x.seq : x \in Page(i)}
           k == IF client[r].inst = NoRow THEN [Fresh EXCEPT !.inst = i, !.start = s.from] ELSE client[r]
           n == Largest({s.from} \cup got)
           d == [k EXCEPT !.cursor = n, !.seen = k.seen \cup got]
           c == client'[r]
<1>0. RestOK /\ svc[i].pc = "page"
  BY ObsParts DEF Answer
<1>1. s.cmd \in Commands /\ r \in Readers /\ client[r] \in Clients /\ s.from \in Nat /\ s.cmd.owed \in Nat
  BY <1>0, EventsFacts
<1>2. Page(i) \in SUBSET rows
  BY DEF Page
<1>3. n \in Nat /\ s.from <= n /\ (\A x \in Page(i) : x.seq <= n) /\ (n = s.from \/ \E x \in Page(i) : n = x.seq)
  BY <1>0, <1>1, <1>2, NewestFacts
<1>4. got \subseteq Nat
  BY <1>0, <1>2 DEF RestOK, EventRows
<1>5. /\ k \in Clients
      /\ k.inst = (IF client[r].inst = NoRow THEN i ELSE client[r].inst)
      /\ k.start = (IF client[r].inst = NoRow THEN s.from ELSE client[r].start)
      /\ k.seen = (IF client[r].inst = NoRow THEN {} ELSE client[r].seen)
  <2>1. CASE client[r].inst = NoRow
    <3>1. k = [Fresh EXCEPT !.inst = i, !.start = s.from]
      BY <2>1
    <3> HIDE DEF k
    <3>2. k \in Clients /\ k.inst = i /\ k.start = s.from /\ k.seen = Fresh.seen
      BY <1>1, <3>1, FreshFacts DEF Clients
    <3> QED BY <2>1, <3>2, FreshFacts
  <2>2. CASE client[r].inst # NoRow
    BY <1>1, <2>2
  <2> QED BY <2>1, <2>2
<1>6. client' = [client EXCEPT ![r] = Fresh] \/ client' = [client EXCEPT ![r] = d]
  BY <1>0 DEF Answer
<1> HIDE DEF n, got, k
<1>7. d \in Clients /\ d.inst = k.inst /\ d.start = k.start /\ d.seen = k.seen \cup got /\ d.cursor = n
  BY <1>3, <1>4, <1>5 DEF Clients
<1> HIDE DEF d
<1>8. (c = Fresh \/ c = d) /\ client' = [client EXCEPT ![r] = c]
  BY <1>0, <1>1, <1>6 DEF RestOK
<1>9. c \in Clients
  BY <1>7, <1>8, FreshFacts
<1> HIDE DEF c
<1>10. client' \in [Readers -> Clients]
  BY <1>0, <1>1, <1>8, <1>9 DEF RestOK
<1>11. answers' = answers \cup {[owed |-> s.cmd.owed, told |-> Disclosed(i)]}
  BY <1>0 DEF Answer
<1>12. answers' \subseteq [owed : Nat, told : Nat]
  <2>1. answers \subseteq [owed : Nat, told : Nat] /\ Disclosed(i) \in Nat
    BY <1>0, DisclosedFacts DEF RestOK
  <2> QED BY <1>1, <1>11, <2>1
<1>13. Answered(i)
  BY <1>3, <1>5, <1>7, <1>8, <1>9, <1>11 DEF Answered, got, c
<1>14. RestOK'
  <2>1. UNCHANGED <<store, inboxes, outside, log, cut>>
    BY DEF Answer
  <2> QED BY <1>0, <1>10, <1>12, <2>1 DEF RestOK, store, inboxes, outside
<1>15. svc' = [svc EXCEPT ![i] = Idle(s)]
  BY <1>0 DEF Answer
<1>16. Moves(i, svc'[i]) /\ Resets(svc'[i], s)
  BY <1>15, IdleMoves
<1> QED BY <1>0, <1>13, <1>14, <1>16

-----------------------------------------------------------------------------
(* The inbox *)

LEMMA IntervalLargest ==
  ASSUME NEW n \in Nat, NEW lo \in Nat, NEW hi \in Nat
  PROVE  LET m == Largest({n} \cup lo..hi)
         IN  /\ m \in Nat /\ n <= m
             /\ lo > hi => m = n
             /\ lo <= hi /\ n <= hi => m = hi
<1> DEFINE S == {n} \cup lo..hi
           m == Largest(S)
<1>1. S = (lo..hi) \cup {n} /\ S \in SUBSET Nat /\ n \in S
  OBVIOUS
<1>2. IsFiniteSet(S)
  <2>1. IsFiniteSet(lo..hi)
    BY FS_Interval
  <2> QED BY <1>1, <2>1, FS_AddElement
<1> HIDE DEF m
<1>3. m \in Nat /\ m \in S /\ \A x \in S : x <= m
  <2> HIDE DEF S
  <2> QED BY <1>1, <1>2, LargestFacts DEF m
<1>4. lo > hi => m = n
  BY <1>3
<1>5. ASSUME lo <= hi, n <= hi PROVE m = hi
  <2>1. hi \in S /\ \A x \in S : x <= hi
    BY <1>5
  <2>2. hi <= m /\ m <= hi
    BY <1>3, <2>1
  <2> QED BY <1>3, <2>2
<1> QED BY <1>1, <1>3, <1>4, <1>5 DEF m

\* What a read of a conversation shows, and where it moves the checkpoint to.
LEMMA ShownFacts ==
  ASSUME RestOK, NEW m \in Marks, NEW c \in Convs
  PROVE  LET n == Largest({m[c].cur} \cup Shown(m, c))
         IN  /\ Shown(m, c) \subseteq Nat /\ n \in Nat /\ m[c].cur <= n
             /\ (m[c].first => m[c].cur = 0) =>
                  \/ Shown(m, c) = {} /\ n = m[c].cur
                  \/ \E low \in 1..n : Shown(m, c) = low..n /\ m[c].cur \in {0, low - 1}
<1> DEFINE cur == m[c].cur
           lo == IF m[c].first THEN Monus(files[c], InboxLimit) + 1 ELSE cur + 1
           hi == IF m[c].first THEN files[c] ELSE Lesser(files[c], cur + InboxLimit)
           n == Largest({cur} \cup lo..hi)
<1>1. cur \in Nat /\ files[c] \in Nat /\ m[c].first \in BOOLEAN
  BY DEF RestOK, Marks
<1>2. Shown(m, c) = lo..hi
  BY <1>1 DEF Shown
<1>3. lo \in Nat /\ hi \in Nat /\ 1 <= lo
  <2>1. Monus(files[c], InboxLimit) \in Nat /\ Lesser(files[c], cur + InboxLimit) \in Nat
    BY <1>1, ObservationAssumption DEF Monus, Lesser
  <2> HIDE DEF cur
  <2> QED BY <1>1, <2>1
<1>4. ~m[c].first => lo = cur + 1
  OBVIOUS
<1> HIDE DEF lo, hi, cur
<1>5. /\ n \in Nat /\ cur <= n
      /\ lo > hi => n = cur
      /\ lo <= hi /\ cur <= hi => n = hi
  BY <1>1, <1>3, IntervalLargest
<1> HIDE DEF n
<1>6. lo..hi \subseteq Nat
  BY <1>3
<1>7. ASSUME m[c].first => cur = 0
      PROVE  \/ lo..hi = {} /\ n = cur
             \/ \E low \in 1..n : lo..hi = low..n /\ cur \in {0, low - 1}
  <2>1. CASE lo > hi
    BY <1>3, <1>5, <2>1
  <2>2. CASE ~(lo > hi)
    <3>1. cur \in {0, lo - 1} /\ cur <= hi
      <4>1. CASE m[c].first
        BY <1>3, <1>7, <4>1
      <4>2. CASE ~m[c].first
        BY <1>1, <1>3, <1>4, <2>2, <4>2
      <4> QED BY <4>1, <4>2
    <3>2. n = hi
      BY <1>3, <1>5, <2>2, <3>1
    <3>3. lo \in 1..n
      BY <1>3, <2>2, <3>2
    <3> QED BY <3>1, <3>2, <3>3
  <2> QED BY <2>1, <2>2
<1> QED BY <1>2, <1>5, <1>6, <1>7 DEF n, cur

\* The checkpoints of a batch.
LEMMA AdvancedFacts ==
  ASSUME RestOK, NEW m \in Marks, NEW readable \in SUBSET Convs, NEW kept \in SUBSET Convs
  PROVE  LET a == Advanced(m, readable, kept)
             shown == [c \in Convs |-> IF c \in readable \cap kept THEN Shown(m, c) ELSE {}]
         IN  /\ a \in Marks /\ shown \in [Convs -> SUBSET Nat]
             /\ \A c \in Convs : m[c].cur <= a[c].cur
             /\ MarksSound(m) =>
                  /\ MarksSound(a)
                  /\ \A c \in Convs :
                       \/ shown[c] = {} /\ a[c].cur = m[c].cur
                       \/ \E low \in 1..a[c].cur : shown[c] = low..a[c].cur /\ m[c].cur \in {0, low - 1}
<1> DEFINE a == Advanced(m, readable, kept)
           shown == [c \in Convs |-> IF c \in readable \cap kept THEN Shown(m, c) ELSE {}]
           n(c) == Largest({m[c].cur} \cup Shown(m, c))
           no == FALSE
<1>0. no \in BOOLEAN /\ ~no
  OBVIOUS
<1>1. \A c \in Convs : a[c] = IF c \in readable \cap kept THEN [first |-> no, cur |-> n(c)] ELSE m[c]
  BY DEF Advanced
<1>2. a = [c \in Convs |-> a[c]]
  BY DEF Advanced
<1>3. ASSUME NEW c \in Convs
      PROVE  /\ Shown(m, c) \subseteq Nat /\ n(c) \in Nat /\ m[c].cur <= n(c)
             /\ (m[c].first => m[c].cur = 0) =>
                  \/ Shown(m, c) = {} /\ n(c) = m[c].cur
                  \/ \E low \in 1..n(c) : Shown(m, c) = low..n(c) /\ m[c].cur \in {0, low - 1}
  BY ShownFacts
<1>4. \A c \in Convs : m[c] \in [first : BOOLEAN, cur : Nat]
  BY DEF Marks
<1> HIDE DEF n, a, no
<1>5. ASSUME NEW c \in Convs
      PROVE  /\ a[c] \in [first : BOOLEAN, cur : Nat] /\ shown[c] \in SUBSET Nat /\ m[c].cur <= a[c].cur
             /\ (m[c].first => m[c].cur = 0) =>
                  /\ a[c].first => a[c].cur = 0
                  /\ \/ shown[c] = {} /\ a[c].cur = m[c].cur
                     \/ \E low \in 1..a[c].cur : shown[c] = low..a[c].cur /\ m[c].cur \in {0, low - 1}
  <2>1. CASE c \in readable \cap kept
    <3>1. a[c] = [first |-> no, cur |-> n(c)] /\ shown[c] = Shown(m, c)
      BY <1>1, <2>1
    <3>2. a[c] \in [first : BOOLEAN, cur : Nat] /\ a[c].cur = n(c) /\ a[c].first = no
      BY <1>0, <1>3, <3>1
    <3> HIDE DEF shown
    <3> QED BY <1>0, <1>3, <3>1, <3>2
  <2>2. CASE ~(c \in readable \cap kept)
    <3>1. a[c] = m[c] /\ shown[c] = {}
      BY <1>1, <2>2
    <3>2. m[c].cur \in Nat
      BY <1>4
    <3> HIDE DEF shown
    <3> QED BY <1>4, <3>1, <3>2
  <2> QED BY <2>1, <2>2
<1>6. a \in Marks
  <2>1. \A c \in Convs : a[c] \in [first : BOOLEAN, cur : Nat]
    BY <1>5
  <2> QED BY <1>2, <2>1 DEF Marks
<1>7. shown \in [Convs -> SUBSET Nat]
  BY <1>5
<1> HIDE DEF shown
<1> QED BY <1>5, <1>6, <1>7 DEF a, shown, MarksSound

LEMMA RequestFacts ==
  ASSUME ObsInv, NEW i \in Insts, svc[i].pc \in {"inbox", "batch", "ack"}
  PROVE  /\ svc[i].cmd \in Commands /\ svc[i].cmd.reader \in Readers /\ svc[i].todo = <<>> /\ svc[i].ok
         /\ svc[i].cmd.kind = (IF svc[i].pc = "ack" THEN "ack" ELSE "inbox")
         /\ svc[i].pc = "batch" => svc[i].draft \in Batches
         /\ svc[i].pc = "ack" => svc[i].cmd.batch \in Nat
<1>1. svc[i] \in Services /\ Sound(svc[i], i) /\ RestOK
  BY ObsParts
<1>2. svc[i].cmd \in Commands /\ svc[i].todo = <<>> /\ svc[i].ok /\ (svc[i].pc = "batch" => svc[i].draft \in Batches)
      /\ svc[i].cmd.kind = (IF svc[i].pc = "ack" THEN "ack" ELSE "inbox")
  BY <1>1, ServiceFields DEF Sound
<1>3. svc[i].cmd.reader \in Readers /\ (svc[i].pc = "ack" => svc[i].cmd.batch \in Nat)
  BY <1>2, CommandFacts
<1> QED BY <1>2, <1>3

NoMarksFacts == NoMarks \in Marks /\ MarksSound(NoMarks) /\ \A c \in Convs : NoMarks[c].cur = 0

LEMMA NoMarksHold == NoMarksFacts
<1> DEFINE yes == TRUE
<1>1. NoMarks = [c \in Convs |-> [first |-> yes, cur |-> 0]] /\ yes \in BOOLEAN
  BY DEF NoMarks
<1> HIDE DEF yes
<1>2. NoMarks \in Marks
  BY <1>1 DEF Marks
<1>3. \A c \in Convs : NoMarks[c].cur = 0
  BY <1>1
<1> QED BY <1>2, <1>3 DEF NoMarksFacts, MarksSound

\* The batch that an inbox request has collected.
Drafted(u, s) ==
  /\ u.pc = "batch" /\ Keeps(u, s) /\ u.prev = s.prev /\ u.cmd = s.cmd /\ u.todo = <<>>
  /\ u.draft \in Batches /\ (MarksSound(Before(u.draft)) => BatchSound(u.draft))
  /\ u.draft.before = LiveCkpts[s.cmd.reader]

LEMMA BatchFields ==
  ASSUME NEW d \in Batches
  PROVE  /\ d.reader \in Readers /\ d.before \in Ckpts \cup {NoRow} /\ d.after \in Marks /\ d.acked \in BOOLEAN
         /\ d.at \in Nat /\ d.shown \in [Convs -> SUBSET Nat]
BY DEF Batches

LEMMA InboxReadFacts ==
  ASSUME ObsInv, NEW i \in Insts, InboxRead(i)
  PROVE  /\ Moves(i, svc'[i]) /\ svc[i].pc = "inbox" /\ RestOK'
         /\ Resets(svc'[i], svc[i]) \/ Drafted(svc'[i], svc[i])
         /\ ckpts' = LiveCkpts /\ \A b \in DOMAIN batches' : b \in DOMAIN batches /\ batches'[b] = batches[b]
<1> DEFINE s == svc[i]
           r == s.cmd.reader
           before == LiveCkpts[r]
           m == IF before = NoRow THEN NoMarks ELSE before.marks
           no == FALSE
           shown(readable, kept) == [c \in Convs |-> IF c \in readable \cap kept THEN Shown(m, c) ELSE {}]
           draft(readable, kept) == [reader |-> r, before |-> before, after |-> Advanced(m, readable, kept), acked |-> no,
                                     at |-> now, shown |-> shown(readable, kept)]
<1>0. RestOK /\ svc \in [Insts -> Services] /\ s \in Services /\ Sound(s, i) /\ s.pc = "inbox" /\ no \in BOOLEAN
  BY ObsParts DEF InboxRead
<1>1. s.cmd \in Commands /\ r \in Readers /\ s.todo = <<>> /\ s.ok /\ s.cmd.kind = "inbox"
  BY <1>0, RequestFacts
<1>2. before \in Ckpts \cup {NoRow} /\ now \in Nat
  BY <1>0, <1>1, LiveFacts DEF RestOK
<1>3. m \in Marks
  BY <1>2, NoMarksHold DEF NoMarksFacts, Ckpts
<1>4. PICK readable \in SUBSET Convs, kept \in SUBSET Convs :
        svc' = [svc EXCEPT ![i] =
          IF before # NoRow /\ Advanced(m, readable, kept) = m THEN Idle(s)
          ELSE [s EXCEPT !.pc = "batch", !.draft = draft(readable, kept)]]
  BY <1>0 DEF InboxRead
<1>5. /\ ckpts' = LiveCkpts /\ ckpts' \in [Readers -> Ckpts \cup {NoRow}]
      /\ DOMAIN batches' \subseteq DOMAIN batches /\ batches' \in [DOMAIN batches' -> Batches]
      /\ \A b \in DOMAIN batches' : batches'[b] = batches[b]
  <2>1. Maintain
    BY DEF InboxRead
  <2> QED BY <1>0, <2>1, MaintainFacts
<1>6. RestOK'
  <2>1. UNCHANGED <<store, issued, consumed, client, outside, log, answers, cut>>
    BY DEF InboxRead
  <2>2. DOMAIN batches' \subseteq DOMAIN issued'
    BY <1>0, <1>5, <2>1 DEF RestOK
  <2> QED BY <1>0, <1>5, <2>1, <2>2 DEF RestOK, store, outside
<1>7. CASE before # NoRow /\ Advanced(m, readable, kept) = m
  <2>1. svc' = [svc EXCEPT ![i] = Idle(s)]
    BY <1>4, <1>7
  <2>2. Moves(i, svc'[i]) /\ Resets(svc'[i], s)
    BY <2>1, IdleMoves
  <2> QED BY <1>0, <1>5, <1>6, <2>2
<1>8. CASE ~(before # NoRow /\ Advanced(m, readable, kept) = m)
  <2> DEFINE d == draft(readable, kept)
             a == Advanced(m, readable, kept)
             w == shown(readable, kept)
             p == [s EXCEPT !.pc = "batch"]
             u == [p EXCEPT !.draft = d]
  <2>1. /\ a \in Marks /\ w \in [Convs -> SUBSET Nat]
        /\ MarksSound(m) =>
             /\ MarksSound(a)
             /\ \A c \in Convs : \/ w[c] = {} /\ a[c].cur = m[c].cur
                                 \/ \E low \in 1..a[c].cur : w[c] = low..a[c].cur /\ m[c].cur \in {0, low - 1}
    <3> HIDE DEF m
    <3> QED BY <1>0, <1>3, AdvancedFacts
  <2>2. svc' = [svc EXCEPT ![i] = u]
    BY <1>0, <1>4, <1>8 DEF Services
  <2>3. svc'[i] = u
    BY <1>0, <2>2
  <2> HIDE DEF a, w, no
  <2>4. d = [reader |-> r, before |-> before, after |-> a, acked |-> no, at |-> now, shown |-> w]
    BY DEF a, w
  <2> HIDE DEF d
  <2>5. d \in Batches /\ d.before = before /\ d.after = a /\ d.shown = w
    <3> HIDE DEF before, r
    <3> QED BY <1>0, <1>1, <1>2, <2>1, <2>4 DEF Batches
  <2>6. Before(d) = m
    BY <2>5 DEF Before
  <2>7. MarksSound(m) => BatchSound(d)
    <3> HIDE DEF m
    <3> QED BY <2>1, <2>5, <2>6 DEF BatchSound
  <2>8. p \in Services /\ p.pc = "batch" /\ Same(p, s)
    BY <1>0, PcFacts DEF Pcs
  <2> HIDE DEF p
  <2>9. u \in Services /\ u.pc = p.pc /\ u.queue = p.queue /\ u.prev = p.prev /\ u.cmd = p.cmd /\ u.todo = p.todo
        /\ u.draft = d
    BY <2>5, <2>8 DEF Services
  <2>10. u.gap = p.gap /\ u.ok = p.ok
    BY <2>8 DEF Services
  <2> HIDE DEF u
  <2>11. Drafted(u, s)
    BY <1>1, <2>5, <2>6, <2>7, <2>8, <2>9, <2>10 DEF Drafted, Same, Keeps
  <2>12. d # NoRow /\ DOMAIN u.todo = {}
    BY <2>5, <2>11, ObservationAssumption DEF Drafted
  <2>13. Sound(u, i)
    BY <1>0, <1>1, <2>9, <2>11, <2>12 DEF Sound, Drafted, Keeps
  <2> QED BY <1>0, <1>5, <1>6, <2>2, <2>3, <2>11, <2>13 DEF Moves
<1> QED BY <1>7, <1>8

\* Two copies of a batch.
Copy(x, y) == x.before = y.before /\ x.after = y.after /\ x.shown = y.shown

LEMMA InboxBatchFacts ==
  ASSUME ObsInv, NEW i \in Insts, InboxBatch(i)
  PROVE  /\ Moves(i, svc'[i]) /\ svc[i].pc = "batch" /\ Resets(svc'[i], svc[i]) /\ RestOK' /\ ckpts' = LiveCkpts
         /\ \A b \in DOMAIN batches' : \/ b \in DOMAIN batches /\ batches'[b] = batches[b]
                                       \/ Copy(batches'[b], svc[i].draft)
<1> DEFINE s == svc[i]
           d == [s.draft EXCEPT !.at = now]
           id == Len(issued) + 1
<1>0. RestOK /\ s.pc = "batch"
  BY ObsParts DEF InboxBatch
<1>1. s.draft \in Batches
  BY <1>0, RequestFacts
<1>2. d \in Batches /\ Copy(d, s.draft)
  BY <1>0, <1>1 DEF RestOK, Batches, Copy
<1>3. issued \in Seq(Batches) /\ Len(issued) \in Nat /\ DOMAIN issued = 1..Len(issued)
  BY <1>0, LenProperties DEF RestOK
<1>4. LiveBatches \subseteq DOMAIN batches /\ DOMAIN batches \subseteq DOMAIN issued /\ batches \in [DOMAIN batches -> Batches]
  BY <1>0, LiveFacts DEF RestOK
<1>5. \/ /\ batches' = [b \in LiveBatches \cup {id} |-> IF b = id THEN d ELSE batches[b]]
         /\ issued' = Append(issued, d)
      \/ batches' = [b \in LiveBatches |-> batches[b]] /\ UNCHANGED issued
  BY DEF InboxBatch
<1> HIDE DEF d
<1>6. Append(issued, d) \in Seq(Batches) /\ DOMAIN Append(issued, d) = 1..id
  BY <1>2, <1>3, AppendProperties, LenProperties
<1>7. /\ issued' \in Seq(Batches) /\ DOMAIN batches' \subseteq DOMAIN issued'
      /\ batches' \in [DOMAIN batches' -> Batches]
      /\ \A b \in DOMAIN batches' : \/ b \in DOMAIN batches /\ batches'[b] = batches[b]
                                    \/ Copy(batches'[b], s.draft)
  <2>1. CASE batches' = [b \in LiveBatches |-> batches[b]] /\ UNCHANGED issued
    BY <1>3, <1>4, <2>1
  <2>2. CASE batches' = [b \in LiveBatches \cup {id} |-> IF b = id THEN d ELSE batches[b]] /\ issued' = Append(issued, d)
    <3>1. issued' \in Seq(Batches) /\ DOMAIN issued' = 1..id
      BY <1>6, <2>2
    <3>2. DOMAIN batches' = LiveBatches \cup {id}
      BY <2>2
    <3>3. DOMAIN batches' \subseteq DOMAIN issued'
      <4>1. \A n \in 1..Len(issued) : n \in 1..id
        BY <1>3
      <4>2. id \in 1..id
        BY <1>3
      <4> QED BY <1>3, <1>4, <3>1, <3>2, <4>1, <4>2
    <3>4. batches' \in [DOMAIN batches' -> Batches]
      BY <1>2, <1>4, <2>2, <3>2
    <3>5. \A b \in DOMAIN batches' : \/ b \in DOMAIN batches /\ batches'[b] = batches[b]
                                     \/ Copy(batches'[b], s.draft)
      <4> SUFFICES ASSUME NEW b \in DOMAIN batches'
                   PROVE  (b \in DOMAIN batches /\ batches'[b] = batches[b]) \/ Copy(batches'[b], s.draft)
        OBVIOUS
      <4>1. CASE b = id
        BY <1>2, <2>2, <3>2, <4>1
      <4>2. CASE b # id
        BY <1>4, <2>2, <3>2, <4>2
      <4> QED BY <4>1, <4>2
    <3> QED BY <3>1, <3>3, <3>4, <3>5
  <2> QED BY <1>5, <2>1, <2>2
<1>8. ckpts' = LiveCkpts /\ ckpts' \in [Readers -> Ckpts \cup {NoRow}]
  BY <1>0, LiveFacts DEF InboxBatch
<1>9. RestOK'
  <2>1. UNCHANGED <<store, consumed, client, outside, log, answers, cut>>
    BY DEF InboxBatch
  <2> QED BY <1>0, <1>7, <1>8, <2>1 DEF RestOK, store, outside
<1>10. svc' = [svc EXCEPT ![i] = Idle(s)]
  BY DEF InboxBatch
<1>11. Moves(i, svc'[i]) /\ Resets(svc'[i], s)
  BY <1>10, IdleMoves
<1> QED BY <1>0, <1>7, <1>8, <1>9, <1>11

\* The batch is acknowledged: its reader takes over its checkpoints.
Acked(r, b) ==
  /\ b \in Batches /\ b.reader = r /\ Current(b)
  /\ ckpts' = [LiveCkpts EXCEPT ![r] = [marks |-> b.after, at |-> now]]
  /\ consumed' = [consumed EXCEPT ![r] = [c \in Convs |-> IF b.before = NoRow THEN b.shown[c]
                                                          ELSE consumed[r][c] \cup b.shown[c]]]

LEMMA AckFacts ==
  ASSUME ObsInv, NEW i \in Insts, Ack(i)
  PROVE  /\ Moves(i, svc'[i]) /\ svc[i].pc = "ack" /\ Resets(svc'[i], svc[i]) /\ RestOK'
         /\ \A b \in DOMAIN batches' : b \in DOMAIN batches /\ Copy(batches'[b], batches[b])
         /\ \/ ckpts' = LiveCkpts /\ UNCHANGED consumed
            \/ \E b \in DOMAIN batches : Acked(svc[i].cmd.reader, batches[b])
<1> DEFINE s == svc[i]
           r == s.cmd.reader
           id == s.cmd.batch
           b == batches[id]
           yes == TRUE
           d == [b EXCEPT !.acked = yes, !.at = now]
<1>0. RestOK /\ s.pc = "ack" /\ yes \in BOOLEAN
  BY ObsParts DEF Ack
<1>1. r \in Readers
  BY <1>0, RequestFacts
<1>2. UNCHANGED <<store, issued, client, outside, log, answers, cut>> /\ svc' = [svc EXCEPT ![i] = Idle(s)]
  BY DEF Ack
<1>3. Moves(i, svc'[i]) /\ Resets(svc'[i], s)
  BY <1>2, IdleMoves
<1>4. LiveBatches \subseteq DOMAIN batches /\ batches \in [DOMAIN batches -> Batches] /\ DOMAIN batches \subseteq DOMAIN issued
  BY <1>0, LiveFacts DEF RestOK
<1>5. CASE id \in LiveBatches /\ b.reader = r /\ ~b.acked /\ Current(b)
  <2>1. /\ ckpts' = [LiveCkpts EXCEPT ![r] = [marks |-> b.after, at |-> now]]
        /\ batches' = [x \in LiveBatches |-> IF x = id THEN d ELSE batches[x]]
        /\ consumed' = [consumed EXCEPT ![r] = [c \in Convs |-> IF b.before = NoRow THEN b.shown[c]
                                                                ELSE @[c] \cup b.shown[c]]]
    BY <1>5 DEF Ack
  <2>2. b \in Batches /\ id \in DOMAIN batches
    BY <1>4, <1>5
  <2> HIDE DEF b, yes
  <2>3. d \in Batches /\ Copy(d, b)
    BY <1>0, <2>2 DEF RestOK, Batches, Copy
  <2> HIDE DEF d
  <2>4. /\ DOMAIN batches' \subseteq DOMAIN batches /\ batches' \in [DOMAIN batches' -> Batches]
        /\ \A x \in DOMAIN batches' : x \in DOMAIN batches /\ Copy(batches'[x], batches[x])
    <3>1. DOMAIN batches' = LiveBatches /\ DOMAIN batches' \subseteq DOMAIN batches
      BY <1>4, <2>1
    <3>2. \A x \in LiveBatches : batches'[x] = IF x = id THEN d ELSE batches[x]
      BY <2>1
    <3>3. batches' \in [DOMAIN batches' -> Batches]
      BY <1>4, <2>1, <2>3, <3>1
    <3>4. ASSUME NEW x \in DOMAIN batches' PROVE x \in DOMAIN batches /\ Copy(batches'[x], batches[x])
      <4>1. x \in LiveBatches /\ x \in DOMAIN batches
        BY <3>1
      <4>2. CASE x = id
        <5>1. batches'[x] = d
          BY <3>2, <4>1, <4>2
        <5>2. batches[x] = b
          BY <4>2 DEF b
        <5> QED BY <2>3, <4>1, <5>1, <5>2
      <4>3. CASE x # id
        <5>1. batches'[x] = batches[x]
          BY <3>2, <4>1, <4>3
        <5> QED BY <4>1, <5>1 DEF Copy
      <4> QED BY <4>2, <4>3
    <3> QED BY <3>1, <3>3, <3>4
  <2>5. b.after \in Marks /\ b.shown \in [Convs -> SUBSET Nat]
    BY <2>2, BatchFields
  <2>6. ckpts' \in [Readers -> Ckpts \cup {NoRow}]
    <3>1. [marks |-> b.after, at |-> now] \in Ckpts
      BY <1>0, <2>5 DEF RestOK, Ckpts
    <3> QED BY <1>0, <1>1, <2>1, <3>1, LiveFacts
  <2>7. consumed' = [consumed EXCEPT ![r] = [c \in Convs |-> IF b.before = NoRow THEN b.shown[c]
                                                             ELSE consumed[r][c] \cup b.shown[c]]]
    BY <1>0, <1>1, <2>1 DEF RestOK
  <2>8. consumed' \in [Readers -> [Convs -> SUBSET Nat]]
    <3>1. consumed \in [Readers -> [Convs -> SUBSET Nat]]
      BY <1>0 DEF RestOK
    <3>2. [c \in Convs |-> IF b.before = NoRow THEN b.shown[c] ELSE consumed[r][c] \cup b.shown[c]] \in [Convs -> SUBSET Nat]
      BY <1>1, <2>5, <3>1
    <3> QED BY <1>1, <2>7, <3>1, <3>2
  <2>9. RestOK'
    BY <1>0, <1>2, <1>4, <2>4, <2>6, <2>8 DEF RestOK, store, outside
  <2>10. Acked(r, b)
    BY <1>5, <2>1, <2>2, <2>7 DEF Acked, b
  <2> QED BY <1>0, <1>3, <2>2, <2>4, <2>9, <2>10 DEF b
<1>6. CASE ~(id \in LiveBatches /\ b.reader = r /\ ~b.acked /\ Current(b))
  <2>1. Maintain /\ UNCHANGED consumed
    BY <1>6 DEF Ack
  <2>2. /\ ckpts' = LiveCkpts /\ ckpts' \in [Readers -> Ckpts \cup {NoRow}]
        /\ DOMAIN batches' \subseteq DOMAIN batches /\ batches' \in [DOMAIN batches' -> Batches]
        /\ \A x \in DOMAIN batches' : batches'[x] = batches[x]
    BY <1>0, <2>1, MaintainFacts
  <2>3. RestOK'
    BY <1>0, <1>2, <1>4, <2>1, <2>2 DEF RestOK, store, outside
  <2>4. \A x \in DOMAIN batches' : x \in DOMAIN batches /\ Copy(batches'[x], batches[x])
    BY <2>2 DEF Copy
  <2> QED BY <1>0, <1>3, <2>1, <2>2, <2>3, <2>4
<1> QED BY <1>5, <1>6

-----------------------------------------------------------------------------
(* Types *)

\* A failed statement ends the command; while recording, it ends the collection.
Failed(u, s) ==
  /\ u.queue = s.queue /\ (u.gap <=> s.gap) /\ u.prev = s.prev /\ u.pc = "idle" /\ u.cmd = NoCmd /\ u.todo = <<>>
  /\ (u.ok <=> s.todo = <<>>) /\ s.ok /\ s.pc # "idle" /\ s.pc # "off" /\ s.pc # "gone"

LEMMA FaultFacts ==
  ASSUME ObsInv, NEW i \in Insts, Fault(i)
  PROVE  Moves(i, svc'[i]) /\ Failed(svc'[i], svc[i]) /\ RestOK'
<1> DEFINE s == svc[i]
           k == Idle(s)
           ok == s.todo = <<>>
           u == [k EXCEPT !.ok = ok]
<1>0. RestOK /\ svc \in [Insts -> Services] /\ s \in Services /\ Sound(s, i)
  BY ObsParts
<1>1. svc' = [svc EXCEPT ![i] = u] /\ s.pc \in {"insert", "cutoff", "prune", "floor", "page", "inbox", "batch", "ack"}
  BY DEF Fault
<1>2. ok \in BOOLEAN /\ s.ok
  BY <1>0, <1>1 DEF Sound
<1>3. /\ k \in Services /\ Keeps(k, s) /\ k.prev = s.prev
      /\ k.pc = "idle" /\ k.cmd = NoCmd /\ k.todo = <<>> /\ k.draft = NoRow
  BY <1>0, IdleFacts
<1> DEFINE b == ok
<1> HIDE DEF k, b
<1>4. u = [k EXCEPT !.ok = b] /\ b \in BOOLEAN /\ (b <=> s.todo = <<>>)
  BY <1>2 DEF b
<1> HIDE DEF u
<1>5. u \in Services /\ u.pc = k.pc /\ u.queue = k.queue /\ u.prev = k.prev /\ u.cmd = k.cmd /\ u.todo = k.todo
      /\ u.draft = k.draft
  BY <1>3, <1>4 DEF Services
<1>6. u.gap = k.gap /\ u.ok = b
  BY <1>3, <1>4 DEF Services
<1>7. svc'[i] = u
  BY <1>0, <1>1
<1>8. Failed(u, s)
  <2>1. u.queue = s.queue /\ (u.gap <=> s.gap) /\ u.prev = s.prev /\ u.pc = "idle" /\ u.cmd = NoCmd /\ u.todo = <<>>
    BY <1>3, <1>5, <1>6 DEF Keeps
  <2>2. s.ok /\ s.pc # "idle" /\ s.pc # "off" /\ s.pc # "gone" /\ (u.ok <=> s.todo = <<>>)
    BY <1>1, <1>2, <1>4, <1>6
  <2> HIDE DEF s
  <2> QED BY <2>1, <2>2 DEF Failed
<1>9. DOMAIN u.todo = {}
  BY <1>3, <1>5
<1>10. Sound(u, i)
  BY <1>0, <1>3, <1>5, <1>9 DEF Sound, Keeps
<1>11. RestOK'
  <2>1. UNCHANGED <<store, inboxes, client, world, files, now, asks, lost, log, answers, cut>> /\ faults' = faults + 1
    BY DEF Fault
  <2>2. UNCHANGED <<rows, nextSeq, floors, ckpts, batches, issued, consumed>>
    BY <2>1 DEF store, inboxes
  <2>3. faults' \in Nat
    BY <1>0, <2>1 DEF RestOK
  <2> HIDE DEF s, ok
  <2> QED BY <1>0, <2>1, <2>2, <2>3 DEF RestOK
<1> QED BY <1>1, <1>7, <1>8, <1>10, <1>11 DEF Moves

\* The commands that callers send.
LEMMA AskRest ==
  ASSUME ObsInv, NEW i \in Insts, NEW c, Ask(i, c)
  PROVE  RestOK' /\ UNCHANGED <<store, inboxes, client, world, files, now, faults, lost, log, answers, cut>>
<1>1. RestOK /\ asks \in [obs : Nat, req : Nat]
  BY ObsParts DEF RestOK
<1>2. asks' \in [obs : Nat, req : Nat] /\ UNCHANGED <<store, inboxes, client, world, files, now, faults, lost, log, answers, cut>>
  BY <1>1 DEF Ask
<1> QED BY <1>1, <1>2 DEF RestOK, store, inboxes

\* A request of a reader, whatever it asks for.
Requested(i, r, c) ==
  /\ c \in Commands /\ c.kind \in {"events", "inbox", "ack"} /\ c.reader = r /\ c.owed = lost[i] /\ Ask(i, c)
  /\ c.kind = "events" => ~Waiting(r)

LEMMA AskKinds ==
  ASSUME ObsInv, NEW i \in Insts, NEW r \in Readers,
         AskEvents(i, r) \/ AskInbox(i, r) \/ \E b \in DOMAIN issued : AskAck(i, r, b)
  PROVE  \E c \in Commands : Requested(i, r, c)
<1>1. lost[i] \in Nat /\ issued \in Seq(Batches)
  BY ObsParts DEF RestOK
<1>2. CASE AskEvents(i, r)
  <2> DEFINE c == [kind |-> "events", reader |-> r, owed |-> lost[i]]
  <2>1. c \in Commands
    BY <1>1 DEF Commands
  <2> QED BY <1>2, <2>1 DEF AskEvents, Requested
<1>3. CASE AskInbox(i, r)
  <2> DEFINE c == [kind |-> "inbox", reader |-> r, owed |-> lost[i]]
  <2>1. c \in Commands
    BY <1>1 DEF Commands
  <2> QED BY <1>3, <2>1 DEF AskInbox, Requested
<1>4. ASSUME NEW b \in DOMAIN issued, AskAck(i, r, b) PROVE \E c \in Commands : Requested(i, r, c)
  <2> DEFINE c == [kind |-> "ack", reader |-> r, batch |-> b, owed |-> lost[i]]
  <2>1. b \in Nat
    BY <1>1, <1>4, LenProperties
  <2>2. c \in Commands
    BY <1>1, <2>1 DEF Commands
  <2> QED BY <1>4, <2>2 DEF AskAck, Requested
<1> QED BY <1>2, <1>3, <1>4

\* A change of the workspace.
LEMMA ChangeRest ==
  ASSUME ObsInv, NEW i \in Insts, NEW a \in Agents, NEW v \in Values, NEW signal \in {NoAgent, a}, Change(i, a, v, signal)
  PROVE  RestOK' /\ UNCHANGED <<store, inboxes, client, files, now, faults, log, answers, cut>>
<1>1. RestOK /\ asks \in [obs : Nat, req : Nat] /\ lost \in [Insts -> Nat]
  BY ObsParts DEF RestOK
<1>2. world' \in [Insts -> Snapshots] /\ (UNCHANGED lost \/ lost' = [lost EXCEPT ![i] = @ + 1])
  BY ChangeFacts
<1>3. asks' \in [obs : Nat, req : Nat] /\ UNCHANGED <<store, inboxes, client, files, now, faults, log, answers, cut>>
  BY <1>1 DEF Change
<1>4. lost' \in [Insts -> Nat]
  BY <1>1, <1>2
<1> QED BY <1>1, <1>2, <1>3, <1>4 DEF RestOK, store, inboxes

\* Steps of no worker.
Outside == (\E c \in Convs : Grow(c)) \/ Clock \/ UNCHANGED vars

LEMMA OutsideFacts ==
  ASSUME ObsInv, Outside
  PROVE  /\ RestOK' /\ UNCHANGED <<store, inboxes, svc, client, world, lost, log, answers, cut>>
         /\ now' = now \/ (now' = now + 1 /\ now < MaxTime)
<1>1. RestOK
  BY ObsParts
<1>2. CASE \E c \in Convs : Grow(c)
  <2>1. PICK c \in Convs : Grow(c)
    BY <1>2
  <2>2. files' \in [Convs -> Nat]
    BY <1>1, <2>1 DEF Grow, RestOK
  <2>3. UNCHANGED <<store, inboxes, svc, client, world, now, asks, faults, lost, log, answers, cut>>
    BY <2>1 DEF Grow
  <2> QED BY <1>1, <2>2, <2>3 DEF RestOK, store, inboxes
<1>3. CASE Clock
  <2>1. now' = now + 1 /\ now < MaxTime /\ UNCHANGED <<store, inboxes, svc, client, world, files, asks, faults, lost, log, answers, cut>>
    BY <1>3 DEF Clock
  <2> QED BY <1>1, <2>1 DEF RestOK, store, inboxes
<1>4. CASE UNCHANGED vars
  BY <1>1, <1>4 DEF RestOK, vars, store, inboxes, outside
<1> QED BY <1>2, <1>3, <1>4 DEF Outside

\* Every step is one of these.
LEMMA Steps ==
  ASSUME ObsInv, [Next]_vars
  PROVE  \/ Outside
         \/ \E i \in Insts :
              \/ Start(i) \/ Stop(i) \/ Fault(i)
              \/ Take(i) \/ Insert(i) \/ Cutoff(i) \/ Prune(i) \/ Floor(i) \/ Answer(i)
              \/ InboxRead(i) \/ InboxBatch(i) \/ Ack(i)
              \/ \E a \in Agents, v \in Values : \E signal \in {NoAgent, a} : Change(i, a, v, signal)
              \/ \E r \in Readers : \E c \in Commands : Requested(i, r, c)
<1>1. \A i \in Insts, r \in Readers :
        AskEvents(i, r) \/ AskInbox(i, r) \/ (\E b \in DOMAIN issued : AskAck(i, r, b)) => \E c \in Commands : Requested(i, r, c)
  BY AskKinds
<1> QED BY <1>1 DEF Next, WorkerStep, Outside

LEMMA ObsStep == ObsInv /\ [Next]_vars => ObsInv'
<1> SUFFICES ASSUME ObsInv, [Next]_vars PROVE ObsInv'
  OBVIOUS
<1>1. CASE Outside
  <2>1. RestOK' /\ svc' = svc
    BY <1>1, OutsideFacts
  <2> QED BY <2>1, ObsParts DEF ObsInv, TypeOK, WorkersSound, RestOK, Sound
<1>2. ASSUME NEW i \in Insts, Moves(i, svc'[i]), RestOK' PROVE ObsInv'
  BY <1>2, MovesKeep
<1>3. ASSUME NEW i \in Insts, Start(i) \/ Stop(i) \/ Take(i) PROVE ObsInv'
  <2>1. Moves(i, svc'[i])
    BY <1>3, StartFacts, StopFacts, TakeFacts
  <2>2. RestOK'
    <3>1. RestOK
      BY ObsParts
    <3>2. UNCHANGED <<store, inboxes, client, outside, log, answers, cut>>
      BY <1>3 DEF Start, Stop, Take
    <3> QED BY <3>1, <3>2 DEF RestOK, store, inboxes, outside
  <2> QED BY <1>2, <2>1, <2>2
<1>4. ASSUME NEW i \in Insts,
             Fault(i) \/ Insert(i) \/ Cutoff(i) \/ Prune(i) \/ Floor(i) \/ Answer(i) \/ InboxRead(i) \/ InboxBatch(i) \/ Ack(i)
      PROVE  ObsInv'
  <2>1. Moves(i, svc'[i])
    BY <1>4, FaultFacts, InsertFacts, CutoffFacts, PruneMoves, FloorFacts, AnswerFacts, InboxReadFacts, InboxBatchFacts, AckFacts
  <2>2. RestOK'
    BY <1>4, FaultFacts, InsertFacts, CutoffFacts, PruneFacts, FloorFacts, AnswerFacts, InboxReadFacts, InboxBatchFacts, AckFacts
  <2> QED BY <1>2, <2>1, <2>2
<1>5. ASSUME NEW i \in Insts, NEW a \in Agents, NEW v \in Values, NEW signal \in {NoAgent, a}, Change(i, a, v, signal)
      PROVE  ObsInv'
  BY <1>2, <1>5, ChangeFacts, ChangeRest
<1>6. ASSUME NEW i \in Insts, NEW r \in Readers, NEW c \in Commands, Requested(i, r, c) PROVE ObsInv'
  BY <1>2, <1>6, AskFacts, AskRest DEF Requested
<1> QED BY <1>1, <1>3, <1>4, <1>5, <1>6, Steps

LEMMA ObsInit == Init => ObsInv
<1> SUFFICES ASSUME Init PROVE ObsInv
  OBVIOUS
<1>1. svc = [i \in Insts |-> Off] /\ \A i \in Insts : Sound(Off, i)
  <2>1. DOMAIN Off.todo = {} /\ Len(Off.queue) <= Capacity
    BY OffFacts, ObservationAssumption
  <2>2. \A i \in Insts : Sound(Off, i)
    BY <2>1, OffFacts DEF Sound
  <2> QED BY <2>2 DEF Init
<1>2. svc \in [Insts -> Services] /\ \A i \in Insts : Sound(svc[i], i)
  BY <1>1, OffFacts
<1>3. RestOK
  <2>1. rows \subseteq EventRows /\ IsFiniteSet(rows) /\ nextSeq \in Nat
    BY FS_EmptySet DEF Init
  <2>2. floors \in [Insts -> [seq : Nat, at : Nat]] /\ ckpts \in [Readers -> Ckpts \cup {NoRow}]
    BY DEF Init
  <2>3. issued \in Seq(Batches) /\ DOMAIN batches \subseteq DOMAIN issued /\ batches \in [DOMAIN batches -> Batches]
    BY EmptySeq DEF Init
  <2>4. client \in [Readers -> Clients]
    BY FreshFacts DEF Init
  <2>5. now \in Nat /\ files \in [Convs -> Nat] /\ asks \in [obs : Nat, req : Nat] /\ faults \in Nat /\ lost \in [Insts -> Nat]
    BY DEF Init
  <2>6. world \in [Insts -> Snapshots]
    BY OffFacts, ObservationAssumption DEF Init, Empty, Snapshots
  <2>7. log \in [Insts -> Seq(Records)]
    BY EmptySeq DEF Init
  <2>8. answers \subseteq [owed : Nat, told : Nat] /\ cut \subseteq Nat
    BY DEF Init
  <2>9. consumed \in [Readers -> [Convs -> SUBSET Nat]]
    BY DEF Init
  <2> QED BY <2>1, <2>2, <2>3, <2>4, <2>5, <2>6, <2>7, <2>8, <2>9 DEF RestOK
<1> QED BY <1>2, <1>3, ObsParts

LEMMA ObsAlways == Spec => []ObsInv
BY ObsInit, ObsStep, PTL DEF Spec

\* Types: the queue of observation/mod.rs never exceeds its capacity, and a worker
\* between two statements knows what it is working on.
THEOREM ObservationTypes == Spec => []TypeOK
<1>1. ObsInv => TypeOK
  BY DEF ObsInv
<1> QED BY <1>1, ObsAlways, PTL

-----------------------------------------------------------------------------
(* Checkpoints *)

\* The records of a conversation up to a checkpoint: all of them from the first on.
Covers(seen, cur) == seen \subseteq 1..cur /\ (cur > 0 => cur \in seen) /\ \A n \in seen : (n..cur) \subseteq seen

LEMMA CoverStep ==
  ASSUME NEW seen \in SUBSET Nat, NEW cur \in Nat, NEW new \in Nat, NEW shown \in SUBSET Nat, Covers(seen, cur),
         \/ shown = {} /\ new = cur
         \/ \E low \in 1..new : shown = low..new /\ cur \in {0, low - 1}
  PROVE  cur <= new /\ Covers(seen \cup shown, new)
<1>1. CASE shown = {} /\ new = cur
  <2>1. seen \cup shown = seen
    BY <1>1
  <2> QED BY <1>1, <2>1
<1>2. ASSUME NEW low \in 1..new, shown = low..new, cur \in {0, low - 1}
      PROVE  cur <= new /\ Covers(seen \cup shown, new)
  <2>1. low \in Nat /\ 1 <= low /\ low <= new /\ cur <= new
    BY <1>2
  <2>2. seen \cup shown \subseteq 1..new
    BY <1>2, <2>1 DEF Covers
  <2>3. new \in shown
    BY <1>2, <2>1
  <2>4. ASSUME NEW n \in seen \cup shown PROVE (n..new) \subseteq seen \cup shown
    <3>1. CASE n \in shown
      BY <1>2, <2>1, <3>1
    <3>2. CASE n \in seen
      <4>1. n \in 1..cur /\ (n..cur) \subseteq seen
        BY <3>2 DEF Covers
      <4>2. cur = low - 1
        BY <1>2, <2>1, <4>1
      <4>3. \A x \in n..new : x \in n..cur \/ x \in low..new
        BY <2>1, <4>1, <4>2
      <4> QED BY <1>2, <4>1, <4>3
    <3> QED BY <3>1, <3>2
  <2> QED BY <2>1, <2>2, <2>3, <2>4 DEF Covers
<1> QED BY <1>1, <1>2

\* What InboxInv says of the checkpoints of one reader.
CkptSound(r) ==
  ckpts[r] # NoRow => MarksSound(ckpts[r].marks) /\ \A c \in Convs : Covers(consumed[r][c], ckpts[r].marks[c].cur)

LEMMA InboxParts == InboxInv <=> BatchesSound /\ \A r \in Readers : CkptSound(r)
BY DEF InboxInv, CkptsSound, CheckpointCovered, CkptSound, Covers

LEMMA InboxPrimes == InboxInv' <=> BatchesSound' /\ \A r \in Readers : CkptSound(r)'
BY DEF InboxInv, CkptsSound, CheckpointCovered, CkptSound, Covers

\* Batches stay what they were; a new one is a copy of a draft, or a draft that was
\* read after the reader's checkpoints.
LEMMA BatchesKeep ==
  ASSUME BatchesSound,
         \A b \in DOMAIN batches' : \/ b \in DOMAIN batches /\ Copy(batches'[b], batches[b])
                                    \/ \E i \in Insts : svc[i].pc = "batch" /\ Copy(batches'[b], svc[i].draft),
         \A i \in Insts : svc'[i].pc = "batch" =>
           (svc[i].pc = "batch" /\ svc'[i].draft = svc[i].draft) \/ BatchSound(svc'[i].draft)
  PROVE  BatchesSound'
<1>1. ASSUME NEW x, NEW y, Copy(x, y), BatchSound(y) PROVE BatchSound(x)
  <2>1. Before(x) = Before(y) /\ x.after = y.after /\ x.shown = y.shown
    BY <1>1 DEF Copy, Before
  <2> QED BY <1>1, <2>1 DEF BatchSound
<1>2. \A b \in DOMAIN batches' : BatchSound(batches'[b])
  BY <1>1 DEF BatchesSound
<1>3. \A i \in Insts : svc'[i].pc = "batch" => BatchSound(svc'[i].draft)
  BY DEF BatchesSound
<1> QED BY <1>2, <1>3 DEF BatchesSound

\* Steps that hand out no batch and acknowledge none.
LEMMA CkptsLive ==
  ASSUME ObsInv, InboxInv, BatchesSound', ckpts' = LiveCkpts, UNCHANGED consumed
  PROVE  InboxInv'
<1>1. \A r \in Readers : ckpts'[r] \in {ckpts[r], NoRow}
  BY ObsParts, LiveFacts
<1>2. \A r \in Readers : CkptSound(r)'
  BY <1>1, InboxParts DEF CkptSound
<1> QED BY <1>2, InboxPrimes

\* The checkpoints of a reader only grow until they expire.
Grows(r) == LiveCkpts[r] # NoRow /\ ckpts'[r] # NoRow => \A c \in Convs : ckpts[r].marks[c].cur <= ckpts'[r].marks[c].cur

LEMMA AckCovers ==
  ASSUME ObsInv, InboxInv, NEW r \in Readers, NEW id \in DOMAIN batches, Acked(r, batches[id])
  PROVE  \A q \in Readers : CkptSound(q)' /\ Grows(q)
<1> DEFINE b == batches[id]
           old == Before(b)
<1>0. /\ ckpts \in [Readers -> Ckpts \cup {NoRow}] /\ consumed \in [Readers -> [Convs -> SUBSET Nat]]
      /\ LiveCkpts \in [Readers -> Ckpts \cup {NoRow}] /\ \A q \in Readers : LiveCkpts[q] \in {ckpts[q], NoRow}
  BY ObsParts, LiveFacts DEF RestOK
<1>1. b \in Batches /\ BatchSound(b) /\ Current(b) /\ b.reader = r
  BY InboxParts DEF BatchesSound, Acked
<1>2. b.before \in Ckpts \cup {NoRow} /\ b.after \in Marks /\ b.shown \in [Convs -> SUBSET Nat]
  BY <1>1, BatchFields
<1>3. /\ ckpts' = [LiveCkpts EXCEPT ![r] = [marks |-> b.after, at |-> now]]
      /\ consumed' = [consumed EXCEPT ![r] = [c \in Convs |-> IF b.before = NoRow THEN b.shown[c]
                                                              ELSE consumed[r][c] \cup b.shown[c]]]
  BY DEF Acked
<1> HIDE DEF b
<1>4. old \in Marks
  BY <1>2, NoMarksHold DEF Before, NoMarksFacts, Ckpts
<1>5. ckpts'[r].marks = b.after /\ \A q \in Readers \ {r} : ckpts'[q] = LiveCkpts[q] /\ consumed'[q] = consumed[q]
  BY <1>0, <1>3
<1>6. \A c \in Convs : consumed'[r][c] = IF b.before = NoRow THEN b.shown[c] ELSE consumed[r][c] \cup b.shown[c]
  BY <1>0, <1>3
<1>7. b.before # NoRow => ckpts[r] # NoRow /\ old = ckpts[r].marks
  <2>1. ASSUME b.before # NoRow PROVE ckpts[r] # NoRow /\ old = ckpts[r].marks
    <3>1. old = b.before.marks /\ old # NoRow
      BY <1>4, <2>1, ObservationAssumption DEF Before
    <3>2. (IF LiveCkpts[r] = NoRow THEN NoRow ELSE LiveCkpts[r].marks) = old
      BY <1>1, <2>1, <3>1 DEF Current
    <3>3. LiveCkpts[r] # NoRow /\ LiveCkpts[r].marks = old
      BY <3>1, <3>2
    <3> QED BY <1>0, <3>3
  <2> QED BY <2>1
<1>8. ASSUME NEW c \in Convs
      PROVE  Covers(consumed'[r][c], b.after[c].cur) /\ (b.before # NoRow => old[c].cur <= b.after[c].cur)
  <2>1. /\ old[c].cur \in Nat /\ b.after[c].cur \in Nat /\ b.shown[c] \in SUBSET Nat
    BY <1>2, <1>4, <1>8 DEF Marks
  <2>2. \/ b.shown[c] = {} /\ b.after[c].cur = old[c].cur
        \/ \E low \in 1..b.after[c].cur : b.shown[c] = low..b.after[c].cur /\ old[c].cur \in {0, low - 1}
    BY <1>1, <1>8 DEF BatchSound
  <2> DEFINE seen == IF b.before = NoRow THEN {} ELSE consumed[r][c]
  <2>3. seen \in SUBSET Nat /\ Covers(seen, old[c].cur)
    <3>1. CASE b.before = NoRow
      <4>1. old[c].cur = 0
        BY <1>8, <3>1, NoMarksHold DEF Before, NoMarksFacts
      <4> QED BY <3>1, <4>1 DEF Covers
    <3>2. CASE b.before # NoRow
      <4>1. Covers(consumed[r][c], ckpts[r].marks[c].cur)
        BY <1>7, <1>8, <3>2, InboxParts DEF CkptSound
      <4> QED BY <1>0, <1>7, <1>8, <3>2, <4>1
    <3> QED BY <3>1, <3>2
  <2>4. consumed'[r][c] = seen \cup b.shown[c]
    BY <1>6, <1>8
  <2> HIDE DEF seen, old
  <2>5. old[c].cur <= b.after[c].cur /\ Covers(seen \cup b.shown[c], b.after[c].cur)
    BY <2>1, <2>2, <2>3, CoverStep
  <2> QED BY <2>4, <2>5
<1>9. MarksSound(b.after)
  BY <1>1 DEF BatchSound
<1>10. CkptSound(r)' /\ Grows(r)
  <2>1. CkptSound(r)'
    BY <1>5, <1>8, <1>9 DEF CkptSound
  <2>2. Grows(r)
    <3>1. CASE b.before # NoRow
      <4>1. \A c \in Convs : ckpts[r].marks[c].cur <= ckpts'[r].marks[c].cur
        BY <1>5, <1>7, <1>8, <3>1
      <4> QED BY <4>1 DEF Grows
    <3>2. CASE b.before = NoRow
      <4>1. CASE LiveCkpts[r] = NoRow
        BY <4>1 DEF Grows
      <4>2. CASE LiveCkpts[r] # NoRow
        <5>1. LiveCkpts[r].marks \in Marks
          BY <1>0, <4>2 DEF Ckpts
        <5>2. LiveCkpts[r].marks = NoRow
          BY <1>1, <3>2, <4>2 DEF Current
        <5> QED BY <5>1, <5>2, ObservationAssumption
      <4> QED BY <4>1, <4>2
    <3> QED BY <3>1, <3>2
  <2> QED BY <2>1, <2>2
<1>11. ASSUME NEW q \in Readers \ {r} PROVE CkptSound(q)' /\ Grows(q)
  <2>1. ckpts'[q] = LiveCkpts[q] /\ consumed'[q] = consumed[q] /\ LiveCkpts[q] \in {ckpts[q], NoRow}
    BY <1>0, <1>5, <1>11
  <2>2. CkptSound(q)'
    BY <2>1, InboxParts DEF CkptSound
  <2>3. Grows(q)
    <3>1. SUFFICES ASSUME LiveCkpts[q] # NoRow, NEW c \in Convs PROVE ckpts[q].marks[c].cur <= ckpts'[q].marks[c].cur
      BY DEF Grows
    <3>2. ckpts'[q] = ckpts[q] /\ ckpts[q] \in Ckpts
      BY <1>0, <2>1, <3>1
    <3>3. ckpts[q].marks[c].cur \in Nat
      BY <3>2 DEF Ckpts, Marks
    <3> QED BY <3>2, <3>3
  <2> QED BY <2>2, <2>3
<1> QED BY <1>10, <1>11

\* Steps that touch neither inboxes nor drafts.
LEMMA InboxQuiet ==
  ASSUME ObsInv, InboxInv, UNCHANGED <<ckpts, batches, consumed>>,
         \A i \in Insts : svc'[i].pc = "batch" => svc[i].pc = "batch" /\ svc'[i].draft = svc[i].draft
  PROVE  InboxInv' /\ \A r \in Readers : Grows(r)
<1>1. BatchesSound'
  <2>1. \A b \in DOMAIN batches' : b \in DOMAIN batches /\ Copy(batches'[b], batches[b])
    BY DEF Copy
  <2> QED BY <2>1, InboxParts, BatchesKeep
<1>2. \A r \in Readers : CkptSound(r)'
  BY InboxParts DEF CkptSound
<1>3. ASSUME NEW r \in Readers PROVE Grows(r)
  <2>1. SUFFICES ASSUME LiveCkpts[r] # NoRow, NEW c \in Convs PROVE ckpts[r].marks[c].cur <= ckpts'[r].marks[c].cur
    BY DEF Grows
  <2>2. ckpts[r] \in Ckpts
    BY <2>1, ObsParts, LiveFacts DEF RestOK
  <2>3. ckpts[r].marks[c].cur \in Nat
    BY <2>2 DEF Ckpts, Marks
  <2> QED BY <2>3
<1> QED BY <1>1, <1>2, <1>3, InboxPrimes

\* Steps that delete what expired, and no more.
LEMMA InboxLive ==
  ASSUME ObsInv, InboxInv, ckpts' = LiveCkpts, UNCHANGED consumed, BatchesSound'
  PROVE  InboxInv' /\ \A r \in Readers : Grows(r)
<1>1. ASSUME NEW r \in Readers PROVE Grows(r)
  <2>1. SUFFICES ASSUME LiveCkpts[r] # NoRow, NEW c \in Convs PROVE ckpts[r].marks[c].cur <= ckpts'[r].marks[c].cur
    BY DEF Grows
  <2>2. ckpts[r] \in Ckpts /\ ckpts'[r] = ckpts[r]
    BY <2>1, ObsParts, LiveFacts DEF RestOK
  <2>3. ckpts[r].marks[c].cur \in Nat
    BY <2>2 DEF Ckpts, Marks
  <2> QED BY <2>2, <2>3
<1> QED BY <1>1, CkptsLive

LEMMA InboxStep == ObsInv /\ InboxInv /\ [Next]_vars => InboxInv' /\ \A r \in Readers : Grows(r)
<1> DEFINE Goal1 == InboxInv' /\ \A r \in Readers : Grows(r)
<1> SUFFICES ASSUME ObsInv, InboxInv, [Next]_vars PROVE Goal1
  OBVIOUS
<1>0. svc \in [Insts -> Services] /\ BatchesSound
  BY ObsParts, InboxParts
<1>1. ASSUME NEW i \in Insts, Moves(i, svc'[i]) PROVE \A j \in Insts \ {i} : svc'[j] = svc[j]
  BY <1>0, <1>1 DEF Moves
<1>2. ASSUME NEW i \in Insts, Moves(i, svc'[i]), UNCHANGED <<ckpts, batches, consumed>>,
             svc'[i].pc = "batch" => svc[i].pc = "batch" /\ svc'[i].draft = svc[i].draft
      PROVE  Goal1
  <2>1. \A j \in Insts : svc'[j].pc = "batch" => svc[j].pc = "batch" /\ svc'[j].draft = svc[j].draft
    BY <1>1, <1>2
  <2> QED BY <1>2, <2>1, InboxQuiet
<1>3. ASSUME NEW i \in Insts, Moves(i, svc'[i]), ckpts' = LiveCkpts, UNCHANGED consumed,
             \A b \in DOMAIN batches' : \/ b \in DOMAIN batches /\ Copy(batches'[b], batches[b])
                                        \/ svc[i].pc = "batch" /\ Copy(batches'[b], svc[i].draft),
             svc'[i].pc = "batch" => BatchSound(svc'[i].draft)
      PROVE  Goal1
  <2>1. \A j \in Insts : svc'[j].pc = "batch" =>
          (svc[j].pc = "batch" /\ svc'[j].draft = svc[j].draft) \/ BatchSound(svc'[j].draft)
    BY <1>1, <1>3
  <2>2. BatchesSound'
    BY <1>0, <1>3, <2>1, BatchesKeep
  <2> QED BY <1>3, <2>2, InboxLive
<1>4. CASE Outside
  BY <1>4, OutsideFacts, InboxQuiet DEF inboxes
<1>5. ASSUME NEW i \in Insts, Start(i) \/ Stop(i) \/ Fault(i) \/ Take(i) PROVE Goal1
  <2>1. UNCHANGED inboxes
    BY <1>5 DEF Start, Stop, Fault, Take
  <2>2. Moves(i, svc'[i]) /\ svc'[i].pc # "batch"
    <3>1. CASE Start(i)
      BY <3>1, StartFacts
    <3>2. CASE Stop(i)
      BY <3>2, StopFacts
    <3>3. CASE Fault(i)
      BY <3>3, FaultFacts DEF Failed
    <3>4. CASE Take(i)
      <4>1. PICK c \in Commands, todo \in Seq(Events) : Taken(svc[i], svc'[i], c, todo) /\ Moves(i, svc'[i])
        BY <3>4, TakeFacts
      <4>2. c.kind \in {"observe", "events", "inbox", "ack"}
        BY CommandFacts
      <4> QED BY <4>1, <4>2 DEF Taken
    <3> QED BY <1>5, <3>1, <3>2, <3>3, <3>4
  <2> QED BY <1>2, <2>1, <2>2 DEF inboxes
<1>6. ASSUME NEW i \in Insts, Insert(i) \/ Cutoff(i) \/ Floor(i) \/ Answer(i) PROVE Goal1
  <2>1. UNCHANGED inboxes
    BY <1>6 DEF Insert, Cutoff, Floor, Answer
  <2>2. Moves(i, svc'[i]) /\ svc'[i].pc # "batch"
    BY <1>6, InsertFacts, CutoffFacts, FloorFacts, AnswerFacts DEF FloorTaken, Resets
  <2> QED BY <1>2, <2>1, <2>2 DEF inboxes
<1>7. ASSUME NEW i \in Insts, Prune(i) PROVE Goal1
  <2>1. Moves(i, svc'[i]) /\ Pruned(svc'[i], svc[i])
    BY <1>7, PruneMoves
  <2>2. svc'[i].pc # "batch"
    <3>1. svc[i].cmd # NoCmd => svc[i].cmd.kind \in {"observe", "events", "inbox", "ack"}
      BY <1>0, ServiceFields, CommandFacts
    <3> QED BY <2>1, <3>1 DEF Pruned, Proceeds
  <2>3. ckpts' = LiveCkpts /\ \A b \in DOMAIN batches' : b \in DOMAIN batches /\ Copy(batches'[b], batches[b])
    BY <1>7, PruneFacts DEF Copy
  <2>4. UNCHANGED consumed
    BY <1>7 DEF Prune
  <2> QED BY <1>3, <2>1, <2>2, <2>3, <2>4
<1>8. ASSUME NEW i \in Insts, InboxRead(i) PROVE Goal1
  <2>1. /\ Moves(i, svc'[i]) /\ svc[i].pc = "inbox" /\ ckpts' = LiveCkpts
        /\ Resets(svc'[i], svc[i]) \/ Drafted(svc'[i], svc[i])
        /\ \A b \in DOMAIN batches' : b \in DOMAIN batches /\ Copy(batches'[b], batches[b])
    BY <1>8, InboxReadFacts DEF Copy
  <2>2. svc'[i].pc = "batch" => BatchSound(svc'[i].draft)
    <3>1. CASE Resets(svc'[i], svc[i])
      BY <3>1 DEF Resets
    <3>2. CASE Drafted(svc'[i], svc[i])
      <4>1. svc[i].cmd.reader \in Readers
        BY <2>1, RequestFacts
      <4>2. LiveCkpts[svc[i].cmd.reader] \in {ckpts[svc[i].cmd.reader], NoRow}
        BY <4>1, ObsParts, LiveFacts
      <4>3. MarksSound(Before(svc'[i].draft))
        BY <3>2, <4>1, <4>2, InboxParts, NoMarksHold DEF Drafted, Before, CkptSound, NoMarksFacts
      <4> QED BY <3>2, <4>3 DEF Drafted
    <3> QED BY <2>1, <3>1, <3>2
  <2>3. UNCHANGED consumed
    BY <1>8 DEF InboxRead
  <2> QED BY <1>3, <2>1, <2>2, <2>3
<1>9. ASSUME NEW i \in Insts, InboxBatch(i) PROVE Goal1
  <2>1. /\ Moves(i, svc'[i]) /\ svc[i].pc = "batch" /\ Resets(svc'[i], svc[i]) /\ ckpts' = LiveCkpts
        /\ \A b \in DOMAIN batches' : \/ b \in DOMAIN batches /\ Copy(batches'[b], batches[b])
                                      \/ Copy(batches'[b], svc[i].draft)
    BY <1>9, InboxBatchFacts DEF Copy
  <2>2. UNCHANGED consumed
    BY <1>9 DEF InboxBatch
  <2> QED BY <1>3, <2>1, <2>2 DEF Resets
<1>10. ASSUME NEW i \in Insts, Ack(i) PROVE Goal1
  <2>1. /\ Moves(i, svc'[i]) /\ svc[i].pc = "ack" /\ Resets(svc'[i], svc[i])
        /\ \A b \in DOMAIN batches' : b \in DOMAIN batches /\ Copy(batches'[b], batches[b])
        /\ \/ ckpts' = LiveCkpts /\ UNCHANGED consumed
           \/ \E b \in DOMAIN batches : Acked(svc[i].cmd.reader, batches[b])
    BY <1>10, AckFacts
  <2>2. CASE ckpts' = LiveCkpts /\ UNCHANGED consumed
    BY <1>3, <2>1, <2>2 DEF Resets
  <2>3. ASSUME NEW id \in DOMAIN batches, Acked(svc[i].cmd.reader, batches[id]) PROVE Goal1
    <3>1. svc[i].cmd.reader \in Readers
      BY <2>1, RequestFacts
    <3>2. \A q \in Readers : CkptSound(q)' /\ Grows(q)
      BY <2>3, <3>1, AckCovers
    <3>3. \A j \in Insts : svc'[j].pc = "batch" => svc[j].pc = "batch" /\ svc'[j].draft = svc[j].draft
      BY <1>1, <2>1 DEF Resets
    <3>4. BatchesSound'
      BY <1>0, <2>1, <3>3, BatchesKeep
    <3> QED BY <3>2, <3>4, InboxPrimes
  <2> QED BY <2>1, <2>2, <2>3
<1>11. ASSUME NEW i \in Insts, NEW a \in Agents, NEW v \in Values, NEW signal \in {NoAgent, a}, Change(i, a, v, signal)
       PROVE  Goal1
  BY <1>2, <1>11, ChangeFacts, ChangeRest DEF inboxes
<1>12. ASSUME NEW i \in Insts, NEW r \in Readers, NEW c \in Commands, Requested(i, r, c) PROVE Goal1
  BY <1>2, <1>12, AskFacts, AskRest DEF Requested, inboxes
<1> HIDE DEF Goal1
<1> QED BY <1>4, <1>5, <1>6, <1>7, <1>8, <1>9, <1>10, <1>11, <1>12, Steps

LEMMA InboxInit == Init => InboxInv
<1> SUFFICES ASSUME Init PROVE InboxInv
  OBVIOUS
<1>1. BatchesSound
  <2>1. DOMAIN batches = {} /\ \A i \in Insts : svc[i] = Off
    BY DEF Init
  <2> QED BY <2>1, OffFacts DEF BatchesSound
<1>2. \A r \in Readers : CkptSound(r)
  BY DEF Init, CkptSound
<1> QED BY <1>1, <1>2, InboxParts

LEMMA InboxAlways == Spec => [](ObsInv /\ InboxInv)
<1>1. ObsInv /\ InboxInv /\ [Next]_vars => (ObsInv /\ InboxInv)'
  BY ObsStep, InboxStep
<1> QED BY <1>1, ObsInit, InboxInit, PTL DEF Spec

\* Checkpoints cover only what was shown: from the first record a reader was shown to
\* its checkpoint, every record was in a batch it acknowledged (collect_inbox, Store::ack).
THEOREM CheckpointsCoverWhatWasShown == Spec => []CheckpointCovered
<1>1. InboxInv => CheckpointCovered
  BY DEF InboxInv
<1> QED BY <1>1, InboxAlways, PTL

\* A late or repeated acknowledgment moves no checkpoint back (Store::ack).
THEOREM CheckpointsAdvance == Spec => AckAdvances
<1>1. ObsInv /\ InboxInv /\ [Next]_vars =>
        [\A r \in Readers :
           (LiveCkpts[r] # NoRow /\ ckpts'[r] # NoRow) =>
             \A c \in Convs : ckpts'[r].marks[c].cur >= ckpts[r].marks[c].cur]_vars
  <2> SUFFICES ASSUME ObsInv, InboxInv, [Next]_vars, NEW r \in Readers, LiveCkpts[r] # NoRow, ckpts'[r] # NoRow, NEW c \in Convs
               PROVE  ckpts'[r].marks[c].cur >= ckpts[r].marks[c].cur
    OBVIOUS
  <2>1. ckpts[r].marks[c].cur <= ckpts'[r].marks[c].cur
    BY InboxStep DEF Grows
  <2> QED BY <2>1
<1> QED BY <1>1, InboxAlways, PTL DEF Spec, AckAdvances

-----------------------------------------------------------------------------
(* Sequences *)

LEMMA AppendFacts ==
  ASSUME NEW S, NEW q \in Seq(S), NEW e \in S
  PROVE  /\ Append(q, e) \in Seq(S) /\ Len(q) \in Nat /\ DOMAIN q = 1..Len(q) /\ DOMAIN Append(q, e) = 1..(Len(q) + 1)
         /\ \A k \in DOMAIN q : k \in DOMAIN Append(q, e) /\ Append(q, e)[k] = q[k]
         /\ Append(q, e)[Len(q) + 1] = e
         /\ \A k \in DOMAIN Append(q, e) : k \in DOMAIN q \/ k = Len(q) + 1
<1> DEFINE a == Append(q, e)
<1>1. Len(q) \in Nat /\ DOMAIN q = 1..Len(q)
  BY LenProperties
<1>2. a \in Seq(S) /\ Len(a) = Len(q) + 1 /\ (\A k \in 1..Len(q) : a[k] = q[k]) /\ a[Len(q) + 1] = e
  BY AppendProperties
<1>3. DOMAIN a = 1..(Len(q) + 1)
  BY <1>2, LenProperties
<1> HIDE DEF a
<1>4. \A k \in DOMAIN q : k \in DOMAIN a /\ a[k] = q[k]
  BY <1>1, <1>2, <1>3
<1>5. \A k \in DOMAIN a : k \in DOMAIN q \/ k = Len(q) + 1
  BY <1>1, <1>3
<1> QED BY <1>1, <1>2, <1>3, <1>4, <1>5 DEF a

LEMMA TailFacts ==
  ASSUME NEW S, NEW q \in Seq(S), q # <<>>
  PROVE  /\ Tail(q) \in Seq(S) /\ Head(q) \in S /\ 1 \in DOMAIN q /\ Head(q) = q[1]
         /\ Len(q) \in Nat \ {0} /\ DOMAIN q = 1..Len(q) /\ Len(Tail(q)) = Len(q) - 1 /\ DOMAIN Tail(q) = 1..(Len(q) - 1)
         /\ \A k \in DOMAIN Tail(q) : k + 1 \in DOMAIN q /\ Tail(q)[k] = q[k + 1]
         /\ \A k \in DOMAIN q : k = 1 \/ (k - 1 \in DOMAIN Tail(q) /\ Tail(q)[k - 1] = q[k])
<1> DEFINE t == Tail(q)
<1>1. Len(q) \in Nat \ {0} /\ DOMAIN q = 1..Len(q)
  BY LenProperties, EmptySeq
<1>2. t \in Seq(S) /\ Head(q) \in S /\ Len(t) = Len(q) - 1 /\ (\A k \in 1..Len(t) : t[k] = q[k + 1]) /\ Head(q) = q[1]
  BY <1>1, HeadTailProperties
<1>3. DOMAIN t = 1..(Len(q) - 1)
  BY <1>2, LenProperties
<1> HIDE DEF t
<1>4. \A k \in DOMAIN t : k + 1 \in DOMAIN q /\ t[k] = q[k + 1]
  BY <1>1, <1>2, <1>3
<1>5. ASSUME NEW k \in DOMAIN q PROVE k = 1 \/ (k - 1 \in DOMAIN t /\ t[k - 1] = q[k])
  <2>1. CASE k # 1
    <3>1. k - 1 \in 1..Len(t) /\ (k - 1) + 1 = k
      BY <1>1, <1>2, <1>5, <2>1
    <3>2. t[k - 1] = q[(k - 1) + 1]
      BY <1>2, <3>1
    <3> QED BY <1>1, <1>2, <1>3, <3>1, <3>2
  <2> QED BY <2>1
<1>6. 1 \in DOMAIN q
  BY <1>1
<1> QED BY <1>1, <1>2, <1>3, <1>4, <1>5, <1>6 DEF t

-----------------------------------------------------------------------------
(* Losses *)

\* Told and the parts of LossInv, of a worker s with log l that lost n snapshots.
ToldBy(s, l, n) ==
  n = 0 \/ (\E k \in DOMAIN l : l[k].mark >= n) \/ \E k \in DOMAIN s.todo : s.todo[k].mark >= n

LossOK(s, l, n) ==
  /\ s.pc \in {"cutoff", "prune"} /\ s.todo # <<>> => \E k \in DOMAIN l : l[k].mark = Head(s.todo).mark
  /\ s.pc = "off" => n = 0 /\ l = <<>>
  /\ \A k \in DOMAIN l : l[k].mark <= n
  /\ \A k \in DOMAIN s.todo : s.todo[k].mark <= n
  /\ \A k \in DOMAIN s.queue : s.queue[k].kind # "observe" => s.queue[k].owed <= n
  /\ s.pc \notin {"off", "gone"} /\ s.ok /\ ~s.gap => ToldBy(s, l, n)
  /\ s.cmd # NoCmd /\ s.cmd.kind # "observe" => ToldBy(s, l, s.cmd.owed)

LEMMA LossParts == LossInv <=> LossDisclosed /\ \A i \in Insts : LossOK(svc[i], log[i], lost[i])
BY DEF LossInv, HeadInserted, LossesKnown, Told, Running, ToldBy, LossOK

LEMMA LossPrimes == LossInv' <=> LossDisclosed' /\ \A i \in Insts : LossOK(svc'[i], log'[i], lost'[i])
BY DEF LossInv, HeadInserted, LossesKnown, Told, Running, ToldBy, LossOK

\* The marks and debts are numbers.
LEMMA MarksAreNumbers ==
  ASSUME NEW s \in Services, NEW l \in Seq(Records)
  PROVE  /\ \A k \in DOMAIN l : l[k] \in Records /\ l[k].mark \in Nat
         /\ \A k \in DOMAIN s.todo : s.todo[k] \in Events /\ s.todo[k].mark \in Nat
         /\ \A k \in DOMAIN s.queue : s.queue[k] \in Commands /\ (s.queue[k].kind # "observe" => s.queue[k].owed \in Nat)
         /\ s.cmd # NoCmd /\ s.cmd.kind # "observe" => s.cmd.owed \in Nat
<1>1. s.queue \in Seq(Commands) /\ s.todo \in Seq(Events) /\ s.cmd \in Commands \cup {NoCmd}
  BY ServiceFields
<1>2. \A k \in DOMAIN l : l[k] \in Records
  OBVIOUS
<1>3. \A k \in DOMAIN s.todo : s.todo[k] \in Events
  BY <1>1
<1>4. \A k \in DOMAIN s.queue : s.queue[k] \in Commands
  BY <1>1
<1>5. \A k \in DOMAIN l : l[k].mark \in Nat
  BY <1>2 DEF Records
<1>6. \A k \in DOMAIN s.todo : s.todo[k].mark \in Nat
  BY <1>3 DEF Events
<1> QED BY <1>1, <1>2, <1>3, <1>4, <1>5, <1>6, CommandFacts

LEMMA ToldLess ==
  ASSUME NEW s \in Services, NEW l \in Seq(Records), NEW n \in Nat, NEW m \in Nat, m <= n, ToldBy(s, l, n)
  PROVE  ToldBy(s, l, m)
<1>1. /\ \A k \in DOMAIN l : l[k].mark \in Nat
      /\ \A k \in DOMAIN s.todo : s.todo[k].mark \in Nat
  BY MarksAreNumbers
<1>2. CASE n = 0
  BY <1>2 DEF ToldBy
<1>3. ASSUME NEW k \in DOMAIN l, l[k].mark >= n PROVE ToldBy(s, l, m)
  <2>1. l[k].mark >= m
    BY <1>1, <1>3
  <2> QED BY <2>1 DEF ToldBy
<1>4. ASSUME NEW k \in DOMAIN s.todo, s.todo[k].mark >= n PROVE ToldBy(s, l, m)
  <2>1. s.todo[k].mark >= m
    BY <1>1, <1>4
  <2> QED BY <2>1 DEF ToldBy
<1> QED BY <1>2, <1>3, <1>4 DEF ToldBy

\* Each step of a worker keeps its part.
LEMMA LossTake ==
  ASSUME ObsInv, NEW i \in Insts, Take(i), LossOK(svc[i], log[i], lost[i])
  PROVE  LossOK(svc'[i], log[i], lost[i])
<1> DEFINE s == svc[i]
           u == svc'[i]
           n == lost[i]
           l == log[i]
<1>1. PICK c \in Commands, todo \in Seq(Events) : Moves(i, u) /\ Taken(s, u, c, todo) /\ (s.ok => Due(i, c, s.prev, todo))
  BY TakeFacts
<1>0. s \in Services /\ u \in Services /\ n \in Nat /\ l \in Seq(Records)
  BY <1>1, ObsParts DEF RestOK, Moves, Sound
<1> HIDE DEF s, u, n, l
<1>2. s.queue \in Seq(Commands) /\ s.queue # <<>> /\ c = Head(s.queue) /\ u.queue = Tail(s.queue)
  BY <1>0, <1>1, ServiceFields DEF Taken
<1>3. /\ \A k \in DOMAIN u.queue : u.queue[k].kind # "observe" => u.queue[k].owed <= n
      /\ c.kind # "observe" => c.owed <= n /\ c.owed \in Nat
  <2>1. \A k \in DOMAIN s.queue : s.queue[k].kind # "observe" => s.queue[k].owed <= n
    BY DEF LossOK, s, l, n
  <2>2. /\ 1 \in DOMAIN s.queue /\ Head(s.queue) = s.queue[1]
        /\ \A k \in DOMAIN Tail(s.queue) : k + 1 \in DOMAIN s.queue /\ Tail(s.queue)[k] = s.queue[k + 1]
    BY <1>2, TailFacts
  <2> QED BY <1>2, <2>1, <2>2, CommandFacts
<1>4. \A k \in DOMAIN l : l[k].mark <= n
  BY DEF LossOK, s, l, n
<1>5. CASE ~s.ok
  <2>1. u.pc = "idle" /\ ~u.ok /\ u.cmd = NoCmd /\ u.todo = <<>> /\ DOMAIN u.todo = {}
    BY <1>1, <1>5 DEF Taken
  <2> QED BY <1>3, <1>4, <2>1 DEF LossOK, u, l, n
<1>6. CASE s.ok
  <2>1. Due(i, c, s.prev, todo) /\ u.todo = todo /\ u.ok
    BY <1>1, <1>6 DEF Taken
  <2>2. \A k \in DOMAIN u.todo : u.todo[k].mark <= n
    BY <1>0, <2>1 DEF Due, EventsOf, n
  <2>3. ToldBy(u, l, n)
    <3>1. CASE s.gap
      <4>1. PICK k \in DOMAIN u.todo : u.todo[k].mark = n
        BY <2>1, <3>1 DEF Due, s, n
      <4> QED BY <1>0, <4>1 DEF ToldBy
    <3>2. CASE ~s.gap
      <4>1. ToldBy(s, l, n) /\ s.todo = <<>> /\ DOMAIN s.todo = {}
        BY <1>1, <1>6, <3>2 DEF LossOK, s, l, n, Taken
      <4> QED BY <4>1 DEF ToldBy
    <3> QED BY <3>1, <3>2
  <2>4. u.cmd # NoCmd /\ u.cmd.kind # "observe" => ToldBy(u, l, u.cmd.owed)
    <3>1. u.cmd = NoCmd \/ u.cmd = c
      BY <1>1, <1>6 DEF Taken
    <3> QED BY <1>0, <1>3, <2>3, <3>1, ToldLess
  <2>5. u.pc # "off" /\ (u.pc \in {"cutoff", "prune"} => u.todo = <<>>)
    <3>1. c.kind \in {"observe", "events", "inbox", "ack"}
      BY CommandFacts
    <3> QED BY <1>1, <1>6, <3>1 DEF Taken
  <2> QED BY <1>3, <1>4, <2>2, <2>3, <2>4, <2>5 DEF LossOK, u, l, n
<1> QED BY <1>5, <1>6

\* A worker that records nothing and takes no command.
LEMMA LossKeep ==
  ASSUME NEW s, NEW u, NEW l, NEW n, LossOK(s, l, n), s.pc \notin {"off", "gone"}, u.pc # "off",
         u.queue = s.queue, u.gap = s.gap, u.ok => s.ok, u.todo = s.todo, u.cmd \in {s.cmd, NoCmd},
         u.pc \in {"cutoff", "prune"} => s.pc \in {"cutoff", "prune"} \/ s.todo = <<>>
  PROVE  LossOK(u, l, n)
<1>1. \A m : ToldBy(s, l, m) => ToldBy(u, l, m)
  BY DEF ToldBy
<1> QED BY <1>1 DEF LossOK

LEMMA LossFault ==
  ASSUME ObsInv, NEW i \in Insts, Fault(i), LossOK(svc[i], log[i], lost[i])
  PROVE  LossOK(svc'[i], log[i], lost[i])
<1> DEFINE s == svc[i]
           u == svc'[i]
           n == lost[i]
           l == log[i]
<1>1. Failed(u, s)
  BY FaultFacts
<1> HIDE DEF s, u, n, l
<1>2. LossOK(s, l, n)
  BY DEF s, l, n
<1>3. DOMAIN u.todo = {}
  BY <1>1 DEF Failed
<1>4. ToldBy(s, l, n) /\ s.todo = <<>> => ToldBy(u, l, n)
  BY <1>1 DEF ToldBy, Failed
<1>5. LossOK(u, l, n)
  BY <1>1, <1>2, <1>3, <1>4 DEF LossOK, Failed
<1> QED BY <1>5 DEF u, l, n

LEMMA LossInsert ==
  ASSUME ObsInv, NEW i \in Insts, Insert(i), LossOK(svc[i], log[i], lost[i])
  PROVE  LossOK(svc'[i], log'[i], lost[i])
<1> DEFINE s == svc[i]
           u == svc'[i]
           n == lost[i]
           l == log[i]
           e == Head(s.todo)
           rec == [agent |-> e.agent, value |-> e.value, mark |-> e.mark, seq |-> nextSeq]
<1>1. s.pc = "insert" /\ u.pc = "cutoff" /\ Same(u, s) /\ s.ok /\ s.todo # <<>> /\ e \in Events /\ 1 \in DOMAIN s.todo /\ e = s.todo[1]
  BY InsertFacts
<1>2. l \in Seq(Records) /\ rec \in Records /\ rec.mark = e.mark /\ log'[i] = Append(l, rec)
  <2>1. RestOK
    BY ObsParts
  <2>2. log'[i] = Append(l, rec)
    BY <2>1 DEF Insert, RestOK
  <2> QED BY <1>1, <2>1, <2>2 DEF RestOK, Records, Events
<1> HIDE DEF s, u, n, l, e, rec
<1> DEFINE m == Append(l, rec)
<1>3. /\ \A k \in DOMAIN l : k \in DOMAIN m /\ m[k] = l[k]
      /\ m[Len(l) + 1] = rec /\ Len(l) + 1 \in DOMAIN m
      /\ \A k \in DOMAIN m : k \in DOMAIN l \/ k = Len(l) + 1
  BY <1>2, AppendFacts
<1> HIDE DEF m
<1>4. LossOK(s, l, n)
  BY DEF s, l, n
<1>5. \A x : ToldBy(s, l, x) => ToldBy(u, m, x)
  BY <1>1, <1>3 DEF ToldBy, Same
<1>6. \A k \in DOMAIN m : m[k].mark <= n
  BY <1>1, <1>2, <1>3, <1>4 DEF LossOK
<1>7. \E k \in DOMAIN m : m[k].mark = Head(u.todo).mark
  BY <1>1, <1>2, <1>3 DEF Same, e
<1>8. LossOK(u, m, n)
  BY <1>1, <1>4, <1>5, <1>6, <1>7 DEF LossOK, Same, Keeps
<1> QED BY <1>2, <1>8 DEF u, m, n

LEMMA LossPrune ==
  ASSUME ObsInv, NEW i \in Insts, Prune(i), LossOK(svc[i], log[i], lost[i])
  PROVE  LossOK(svc'[i], log[i], lost[i])
<1> DEFINE s == svc[i]
           u == svc'[i]
           n == lost[i]
           l == log[i]
<1>1. s \in Services /\ s.pc = "prune" /\ s.ok /\ Pruned(u, s)
  BY PruneMoves, ObsParts
<1> HIDE DEF s, u, n, l
<1>2. LossOK(s, l, n)
  BY DEF s, l, n
<1>3. s.cmd # NoCmd => s.cmd.kind \in {"observe", "events", "inbox", "ack"}
  BY <1>1, ServiceFields, CommandFacts
<1>4. CASE s.todo = <<>>
  <2>1. LossOK(u, l, n)
    BY <1>1, <1>2, <1>4, LossKeep DEF Pruned, Same, Keeps
  <2> QED BY <2>1 DEF u, l, n
<1>5. CASE s.todo # <<>>
  <2>1. s.todo \in Seq(Events)
    BY <1>1, ServiceFields
  <2>2. /\ Head(s.todo) = s.todo[1] /\ 1 \in DOMAIN s.todo
        /\ \A k \in DOMAIN Tail(s.todo) : k + 1 \in DOMAIN s.todo /\ Tail(s.todo)[k] = s.todo[k + 1]
        /\ \A k \in DOMAIN s.todo : k = 1 \/ (k - 1 \in DOMAIN Tail(s.todo) /\ Tail(s.todo)[k - 1] = s.todo[k])
    BY <1>5, <2>1, TailFacts
  <2>3. u.todo = Tail(s.todo) /\ u.pc # "off" /\ (u.pc \in {"cutoff", "prune"} => u.todo = <<>>)
        /\ u.cmd \in {s.cmd, NoCmd} /\ Keeps(u, s)
    BY <1>1, <1>3, <1>5 DEF Pruned, Proceeds
  <2>4. \E k \in DOMAIN l : l[k].mark = s.todo[1].mark
    BY <1>1, <1>2, <1>5, <2>2 DEF LossOK
  <2>5. ASSUME NEW x, ToldBy(s, l, x) PROVE ToldBy(u, l, x)
    <3>1. CASE x = 0 \/ \E k \in DOMAIN l : l[k].mark >= x
      BY <3>1 DEF ToldBy
    <3>2. ASSUME NEW k \in DOMAIN s.todo, s.todo[k].mark >= x PROVE ToldBy(u, l, x)
      <4>1. CASE k = 1
        BY <2>4, <3>2, <4>1 DEF ToldBy
      <4>2. CASE k # 1
        <5>1. k - 1 \in DOMAIN u.todo /\ u.todo[k - 1] = s.todo[k]
          BY <2>2, <2>3, <3>2, <4>2
        <5> QED BY <3>2, <5>1 DEF ToldBy
      <4> QED BY <4>1, <4>2
    <3> QED BY <2>5, <3>1, <3>2 DEF ToldBy
  <2>6. \A k \in DOMAIN u.todo : u.todo[k].mark <= n
    BY <1>2, <2>2, <2>3 DEF LossOK
  <2>7. LossOK(u, l, n)
    BY <1>1, <1>2, <2>3, <2>5, <2>6 DEF LossOK, Keeps
  <2> QED BY <2>7 DEF u, l, n
<1> QED BY <1>4, <1>5

LEMMA LossStart ==
  ASSUME ObsInv, NEW i \in Insts, Start(i), LossOK(svc[i], log[i], lost[i])
  PROVE  LossOK(svc'[i], log[i], lost[i])
<1> DEFINE u == svc'[i]
           s == svc[i]
           q == <<First(i)>>
           d == <<Began(i)>>
<1>1. /\ u.pc = "insert" /\ u.queue = q /\ ~u.gap /\ u.ok /\ u.cmd = NoCmd /\ u.todo = d
      /\ First(i).kind = "observe" /\ Began(i).mark = 0
  BY StartFacts DEF First, Began
<1>2. DOMAIN q = {1} /\ q[1] = First(i) /\ DOMAIN d = {1} /\ d[1] = Began(i)
  OBVIOUS
<1>3. s.pc = "off"
  BY DEF Start
<1> HIDE DEF u, q, d, s
<1>4. lost[i] = 0 /\ log[i] = <<>> /\ DOMAIN log[i] = {}
  BY <1>3 DEF LossOK, s
<1>5. LossOK(u, log[i], lost[i])
  BY <1>1, <1>2, <1>4 DEF LossOK, ToldBy
<1> QED BY <1>5 DEF u

LEMMA LossStop ==
  ASSUME ObsInv, NEW i \in Insts, Stop(i), LossOK(svc[i], log[i], lost[i])
  PROVE  LossOK(svc'[i], log[i], lost[i])
<1> DEFINE u == svc'[i]
<1>1. u.pc = "gone" /\ u.queue = <<>> /\ u.cmd = NoCmd /\ u.todo = <<>>
  BY StopFacts
<1>2. DOMAIN u.queue = {} /\ DOMAIN u.todo = {}
  BY <1>1
<1> HIDE DEF u
<1>3. LossOK(u, log[i], lost[i])
  BY <1>1, <1>2 DEF LossOK
<1> QED BY <1>3 DEF u

\* A snapshot that fits is queued; one that does not raises the flag.
LEMMA LossChange ==
  ASSUME ObsInv, NEW i \in Insts, NEW a \in Agents, NEW v \in Values, NEW signal \in {NoAgent, a}, Change(i, a, v, signal),
         LossOK(svc[i], log[i], lost[i])
  PROVE  LossOK(svc'[i], log[i], lost'[i])
<1> DEFINE s == svc[i]
           u == svc'[i]
           n == lost[i]
           m == lost'[i]
           l == log[i]
           c == Snapshot(i, signal)
<1>1. /\ c \in Commands /\ c.kind = "observe" /\ s.pc \notin {"off", "gone"}
      /\ u.pc = s.pc /\ u.cmd = s.cmd /\ u.todo = s.todo /\ u.ok = s.ok
      /\ \/ u.queue = Append(s.queue, c) /\ u.gap = s.gap /\ UNCHANGED lost
         \/ u.queue = s.queue /\ u.gap /\ lost' = [lost EXCEPT ![i] = @ + 1]
  BY ChangeFacts DEF Running
<1>2. s \in Services /\ l \in Seq(Records) /\ n \in Nat /\ lost \in [Insts -> Nat]
  BY ObsParts DEF RestOK
<1>3. m = n \/ m = n + 1
  BY <1>1, <1>2
<1>4. \/ u.queue = Append(s.queue, c) /\ u.gap = s.gap /\ m = n
      \/ u.queue = s.queue /\ u.gap /\ m = n + 1
  BY <1>1, <1>2
<1> HIDE DEF s, u, n, l, c, m
<1>5. LossOK(s, l, n)
  BY DEF s, l, n
<1>6. \A x : ToldBy(s, l, x) => ToldBy(u, l, x)
  BY <1>1 DEF ToldBy
<1>7. /\ \A k \in DOMAIN l : l[k].mark \in Nat
      /\ \A k \in DOMAIN s.todo : s.todo[k].mark \in Nat
      /\ \A k \in DOMAIN s.queue : s.queue[k].kind # "observe" => s.queue[k].owed \in Nat
  BY <1>2, MarksAreNumbers
<1>8. CASE u.queue = Append(s.queue, c) /\ u.gap = s.gap /\ m = n
  <2>1. s.queue \in Seq(Commands)
    BY <1>2, ServiceFields
  <2>2. /\ \A k \in DOMAIN s.queue : k \in DOMAIN u.queue /\ u.queue[k] = s.queue[k]
        /\ u.queue[Len(s.queue) + 1] = c
        /\ \A k \in DOMAIN u.queue : k \in DOMAIN s.queue \/ k = Len(s.queue) + 1
    BY <1>1, <1>8, <2>1, AppendFacts
  <2>3. LossOK(u, l, m)
    BY <1>1, <1>5, <1>6, <1>8, <2>2 DEF LossOK
  <2> QED BY <2>3 DEF u, l, m
<1>9. CASE u.queue = s.queue /\ u.gap /\ m = n + 1
  <2>1. \A x \in Nat : x <= n => x <= m
    BY <1>2, <1>9
  <2>2. \A k \in DOMAIN l : l[k].mark <= m
    BY <1>5, <1>7, <2>1 DEF LossOK
  <2>3. \A k \in DOMAIN u.todo : u.todo[k].mark <= m
    BY <1>1, <1>5, <1>7, <2>1 DEF LossOK
  <2>4. \A k \in DOMAIN u.queue : u.queue[k].kind # "observe" => u.queue[k].owed <= m
    BY <1>5, <1>7, <1>9, <2>1 DEF LossOK
  <2>5. LossOK(u, l, m)
    BY <1>1, <1>5, <1>6, <1>9, <2>2, <2>3, <2>4 DEF LossOK
  <2> QED BY <2>5 DEF u, l, m
<1> QED BY <1>4, <1>8, <1>9

LEMMA LossAsk ==
  ASSUME ObsInv, NEW i \in Insts, NEW r \in Readers, NEW c \in Commands, Requested(i, r, c), LossOK(svc[i], log[i], lost[i])
  PROVE  LossOK(svc'[i], log[i], lost[i])
<1> DEFINE s == svc[i]
           u == svc'[i]
           n == lost[i]
           l == log[i]
<1>1. /\ s.pc \notin {"off", "gone"} /\ c.owed = n
      /\ u.pc = s.pc /\ u.cmd = s.cmd /\ u.todo = s.todo /\ u.ok = s.ok /\ u.gap = s.gap /\ u.queue = Append(s.queue, c)
  BY AskFacts DEF Running, Requested
<1>2. s \in Services /\ n \in Nat
  BY ObsParts DEF RestOK
<1> HIDE DEF s, u, n, l
<1>3. s.queue \in Seq(Commands)
  BY <1>2, ServiceFields
<1>4. /\ \A k \in DOMAIN s.queue : k \in DOMAIN u.queue /\ u.queue[k] = s.queue[k]
      /\ u.queue[Len(s.queue) + 1] = c
      /\ \A k \in DOMAIN u.queue : k \in DOMAIN s.queue \/ k = Len(s.queue) + 1
  BY <1>1, <1>3, AppendFacts
<1>5. LossOK(s, l, n)
  BY DEF s, l, n
<1>6. \A x : ToldBy(s, l, x) => ToldBy(u, l, x)
  BY <1>1 DEF ToldBy
<1>7. LossOK(u, l, n)
  BY <1>1, <1>2, <1>4, <1>5, <1>6 DEF LossOK
<1> QED BY <1>7 DEF u, l, n

\* A page is answered from a log that discloses what it owes.
LEMMA LossAnswer ==
  ASSUME ObsInv, NEW i \in Insts, Answer(i), LossOK(svc[i], log[i], lost[i]), LossDisclosed
  PROVE  LossDisclosed'
<1> DEFINE s == svc[i]
           owed == s.cmd.owed
<1>1. answers' = answers \cup {[owed |-> owed, told |-> Disclosed(i)]} /\ s.pc = "page"
  BY AnswerFacts DEF Answered
<1>2. s.cmd # NoCmd /\ s.cmd.kind = "events" /\ s.todo = <<>> /\ owed \in Nat
  <2>1. s.cmd \in Commands /\ s.cmd.kind = "events" /\ s.todo = <<>> /\ owed \in Nat
    BY <1>1, EventsFacts
  <2> QED BY <2>1, CommandFacts
<1>3. Disclosed(i) \in Nat /\ \A k \in DOMAIN log[i] : log[i][k].mark <= Disclosed(i)
  BY ObsParts, DisclosedFacts
<1>4. \A k \in DOMAIN log[i] : log[i][k].mark \in Nat
  BY ObsParts, MarksAreNumbers DEF RestOK
<1>5. ToldBy(s, log[i], owed) /\ DOMAIN s.todo = {}
  BY <1>2 DEF LossOK
<1>6. owed <= Disclosed(i)
  BY <1>2, <1>3, <1>4, <1>5 DEF ToldBy
<1> HIDE DEF owed
<1> QED BY <1>1, <1>6 DEF LossDisclosed

LEMMA LossStep == ObsInv /\ LossInv /\ [Next]_vars => LossInv'
<1> SUFFICES ASSUME ObsInv, LossInv, [Next]_vars PROVE LossInv'
  OBVIOUS
<1>0. /\ svc \in [Insts -> Services] /\ log \in [Insts -> Seq(Records)] /\ lost \in [Insts -> Nat]
      /\ LossDisclosed /\ \A i \in Insts : LossOK(svc[i], log[i], lost[i]) /\ Sound(svc[i], i)
  BY ObsParts, LossParts DEF RestOK
<1>1. ASSUME NEW i \in Insts, Moves(i, svc'[i]), LossOK(svc'[i], log'[i], lost'[i]), LossDisclosed',
             \A j \in Insts \ {i} : log'[j] = log[j] /\ lost'[j] = lost[j]
      PROVE  LossInv'
  <2>1. \A j \in Insts : LossOK(svc'[j], log'[j], lost'[j])
    BY <1>0, <1>1 DEF Moves
  <2> QED BY <1>1, <2>1, LossPrimes
<1>2. UNCHANGED answers => LossDisclosed'
  BY <1>0 DEF LossDisclosed
<1>3. CASE Outside
  <2>1. UNCHANGED <<svc, log, lost, answers>>
    BY <1>3, OutsideFacts
  <2> QED BY <1>0, <1>2, <2>1, LossPrimes
<1>4. ASSUME NEW i \in Insts, Start(i) \/ Stop(i) \/ Fault(i) \/ Take(i) \/ Prune(i) PROVE LossInv'
  <2>1. UNCHANGED <<log, lost, answers>>
    BY <1>4 DEF Start, Stop, Fault, Take, Prune, outside
  <2>2. Moves(i, svc'[i])
    BY <1>4, StartFacts, StopFacts, FaultFacts, TakeFacts, PruneMoves
  <2>3. LossOK(svc'[i], log[i], lost[i])
    BY <1>0, <1>4, LossStart, LossStop, LossFault, LossTake, LossPrune
  <2> QED BY <1>1, <1>2, <2>1, <2>2, <2>3
<1>5. ASSUME NEW i \in Insts, Insert(i) PROVE LossInv'
  <2>1. UNCHANGED <<lost, answers>> /\ \A j \in Insts \ {i} : log'[j] = log[j]
    BY <1>0, <1>5 DEF Insert, outside
  <2>2. Moves(i, svc'[i]) /\ LossOK(svc'[i], log'[i], lost[i])
    BY <1>0, <1>5, InsertFacts, LossInsert
  <2> QED BY <1>1, <1>2, <2>1, <2>2
<1>6. ASSUME NEW i \in Insts, Cutoff(i) \/ Floor(i) \/ Answer(i) \/ InboxRead(i) \/ InboxBatch(i) \/ Ack(i) PROVE LossInv'
  <2>1. UNCHANGED <<log, lost>>
    BY <1>6 DEF Cutoff, Floor, Answer, InboxRead, InboxBatch, Ack, outside
  <2>2. Moves(i, svc'[i])
    BY <1>6, CutoffFacts, FloorFacts, AnswerFacts, InboxReadFacts, InboxBatchFacts, AckFacts
  <2>3. LossOK(svc'[i], log[i], lost[i])
    <3>1. CASE Cutoff(i)
      BY <1>0, <3>1, CutoffFacts, LossKeep DEF Same, Keeps
    <3>2. CASE Floor(i) \/ Answer(i) \/ InboxRead(i) \/ InboxBatch(i) \/ Ack(i)
      <4>1. /\ svc[i].pc \in {"floor", "page", "inbox", "batch", "ack"} /\ svc[i].todo = <<>>
            /\ svc'[i].queue = svc[i].queue /\ svc'[i].gap = svc[i].gap /\ svc'[i].ok = svc[i].ok
            /\ svc'[i].todo = <<>> /\ svc'[i].cmd \in {svc[i].cmd, NoCmd} /\ svc'[i].pc \in {"page", "batch", "idle"}
        <5>1. CASE Floor(i)
          BY <1>0, <5>1, FloorFacts DEF FloorTaken, Same, Resets, Keeps, Sound
        <5>2. CASE Answer(i) \/ InboxRead(i) \/ InboxBatch(i) \/ Ack(i)
          BY <1>0, <5>2, AnswerFacts, InboxReadFacts, InboxBatchFacts, AckFacts DEF Drafted, Resets, Keeps, Sound
        <5> QED BY <3>2, <5>1, <5>2
      <4> QED BY <1>0, <4>1, LossKeep
    <3> QED BY <1>6, <3>1, <3>2
  <2>4. LossDisclosed'
    <3>1. CASE Answer(i)
      BY <1>0, <3>1, LossAnswer
    <3>2. CASE ~Answer(i)
      <4>1. UNCHANGED answers
        BY <1>6, <3>2 DEF Cutoff, Floor, InboxRead, InboxBatch, Ack
      <4> QED BY <1>2, <4>1
    <3> QED BY <3>1, <3>2
  <2> QED BY <1>1, <2>1, <2>2, <2>3, <2>4
<1>7. ASSUME NEW i \in Insts, NEW a \in Agents, NEW v \in Values, NEW signal \in {NoAgent, a}, Change(i, a, v, signal)
      PROVE  LossInv'
  <2>1. UNCHANGED <<log, answers>>
    BY <1>7, ChangeRest
  <2>2. \A j \in Insts \ {i} : lost'[j] = lost[j]
    <3>1. UNCHANGED lost \/ lost' = [lost EXCEPT ![i] = @ + 1]
      BY <1>7, ChangeFacts
    <3> QED BY <1>0, <3>1
  <2>3. Moves(i, svc'[i]) /\ LossOK(svc'[i], log[i], lost'[i])
    BY <1>0, <1>7, ChangeFacts, LossChange
  <2> QED BY <1>1, <1>2, <2>1, <2>2, <2>3
<1>8. ASSUME NEW i \in Insts, NEW r \in Readers, NEW c \in Commands, Requested(i, r, c) PROVE LossInv'
  <2>1. UNCHANGED <<log, lost, answers>>
    BY <1>8, AskRest DEF Requested
  <2>2. Moves(i, svc'[i]) /\ LossOK(svc'[i], log[i], lost[i])
    BY <1>0, <1>8, AskFacts, LossAsk DEF Requested
  <2> QED BY <1>1, <1>2, <2>1, <2>2
<1> QED BY <1>3, <1>4, <1>5, <1>6, <1>7, <1>8, Steps

LEMMA LossInit == Init => LossInv
<1> SUFFICES ASSUME Init PROVE LossInv
  OBVIOUS
<1>1. LossDisclosed
  BY DEF Init, LossDisclosed
<1>2. DOMAIN Off.todo = {} /\ DOMAIN Off.queue = {}
  BY OffFacts
<1> DEFINE e == <<>>
<1>3. DOMAIN e = {}
  OBVIOUS
<1> HIDE DEF e
<1>4. \A i \in Insts : svc[i] = Off /\ log[i] = e /\ lost[i] = 0
  BY DEF Init, e
<1>5. LossOK(Off, e, 0)
  BY <1>2, <1>3, OffFacts DEF LossOK, e
<1> QED BY <1>1, <1>4, <1>5, LossParts

LEMMA LossAlways == Spec => [](ObsInv /\ LossInv)
<1>1. ObsInv /\ LossInv /\ [Next]_vars => (ObsInv /\ LossInv)'
  BY ObsStep, LossStep
<1> QED BY <1>1, ObsInit, LossInit, PTL DEF Spec

\* An overflow of the capture queue is never silent: a page that was asked for after a
\* snapshot was lost is answered only from a log in which the loss is marked (observe and
\* the worker loop of start).
THEOREM LossesAreDisclosed == Spec => []LossDisclosed
<1>1. LossInv => LossDisclosed
  BY DEF LossInv
<1> QED BY <1>1, LossAlways, PTL

-----------------------------------------------------------------------------
(* Replaying the log *)

\* The parts of ReplayInv, of a worker s with log l.
ReplayedOf(l, a) ==
  LET at == Largest({k \in DOMAIN l : l[k].agent = a}) IN IF at = 0 THEN 0 ELSE l[at].value

GoalOf(s) == IF s.cmd # NoCmd /\ s.cmd.kind = "observe" THEN s.cmd.snap ELSE s.prev

Left(s) == {k \in DOMAIN s.todo : k > 1 \/ s.pc = "insert"}

Shots(s) == {k \in DOMAIN s.queue : s.queue[k].kind = "observe"}

AddsUp(s, l) ==
  s.pc \notin {"off", "gone"} /\ s.ok =>
    \A a \in Agents :
      /\ \A k \in Left(s) : s.todo[k].agent = a => s.todo[k].value = GoalOf(s)[a]
      /\ (\A k \in Left(s) : s.todo[k].agent # a) => ReplayedOf(l, a) = GoalOf(s)[a]

Latest(s, w, n) ==
  s.pc \notin {"off", "gone"} /\ n = 0 =>
    /\ Shots(s) = {} /\ s.ok => GoalOf(s) = w
    /\ \A k \in Shots(s) : (\A j \in Shots(s) : j <= k) => s.queue[k].snap = w

ReplayOK(s, l, w, n) == AddsUp(s, l) /\ Latest(s, w, n)

LEMMA ReplayedIs == \A i \in Insts, a \in Agents : Replayed(i)[a] = ReplayedOf(log[i], a)
BY DEF Replayed, ReplayedOf

LEMMA ReplayedIsNext == \A i \in Insts, a \in Agents : Replayed(i)'[a] = ReplayedOf(log'[i], a)
BY DEF Replayed, ReplayedOf

LEMMA ReplayParts == ReplayInv <=> \A i \in Insts : ReplayOK(svc[i], log[i], world[i], lost[i])
<1>1. \A i \in Insts : Goal(i) = GoalOf(svc[i]) /\ Uninserted(i) = Left(svc[i]) /\ Observes(i) = Shots(svc[i])
                       /\ (Running(i) <=> svc[i].pc \notin {"off", "gone"})
  BY DEF Goal, GoalOf, Uninserted, Left, Observes, Shots, Running
<1>2. LogAddsUp <=> \A i \in Insts : AddsUp(svc[i], log[i])
  BY <1>1, ReplayedIs DEF LogAddsUp, AddsUp
<1>3. LastIsCurrent <=> \A i \in Insts : Latest(svc[i], world[i], lost[i])
  BY <1>1 DEF LastIsCurrent, Latest
<1> QED BY <1>2, <1>3 DEF ReplayInv, ReplayOK

LEMMA ReplayPrimes == ReplayInv' <=> \A i \in Insts : ReplayOK(svc'[i], log'[i], world'[i], lost'[i])
<1>1. \A i \in Insts : Goal(i)' = GoalOf(svc'[i]) /\ Uninserted(i)' = Left(svc'[i]) /\ Observes(i)' = Shots(svc'[i])
                       /\ (Running(i)' <=> svc'[i].pc \notin {"off", "gone"})
  BY DEF Goal, GoalOf, Uninserted, Left, Observes, Shots, Running
<1>2. LogAddsUp' <=> \A i \in Insts : AddsUp(svc'[i], log'[i])
  BY <1>1, ReplayedIsNext DEF LogAddsUp, AddsUp
<1>3. LastIsCurrent' <=> \A i \in Insts : Latest(svc'[i], world'[i], lost'[i])
  BY <1>1 DEF LastIsCurrent, Latest
<1> QED BY <1>2, <1>3 DEF ReplayInv, ReplayOK

\* A new event decides what its agent is replayed to.
LEMMA ReplayedAppend ==
  ASSUME NEW l \in Seq(Records), NEW e \in Records, NEW a \in Agents
  PROVE  ReplayedOf(Append(l, e), a) = IF e.agent = a THEN e.value ELSE ReplayedOf(l, a)
<1> DEFINE m == Append(l, e)
           S == {k \in DOMAIN l : l[k].agent = a}
           T == {k \in DOMAIN m : m[k].agent = a}
           n == Len(l) + 1
<1>1. /\ Len(l) \in Nat /\ DOMAIN l = 1..Len(l) /\ DOMAIN m = 1..n
      /\ \A k \in DOMAIN l : k \in DOMAIN m /\ m[k] = l[k]
      /\ m[n] = e
      /\ \A k \in DOMAIN m : k \in DOMAIN l \/ k = n
  BY AppendFacts
<1> HIDE DEF m
<1>2. IsFiniteSet(S) /\ S \in SUBSET Nat /\ IsFiniteSet(T) /\ T \in SUBSET Nat
  <2>1. IsFiniteSet(1..Len(l)) /\ IsFiniteSet(1..n)
    <3>1. 1 \in Int /\ Len(l) \in Int /\ n \in Int
      BY <1>1
    <3> HIDE DEF n
    <3> QED BY <3>1, FS_Interval
  <2>2. S \in SUBSET (1..Len(l)) /\ T \in SUBSET (1..n)
    BY <1>1
  <2>3. IsFiniteSet(S) /\ IsFiniteSet(T)
    <3> HIDE DEF S, T, n
    <3> QED BY <2>1, <2>2, FS_Subset
  <2>4. S \in SUBSET Nat /\ T \in SUBSET Nat
    BY <1>1
  <2> QED BY <2>3, <2>4
<1>3. CASE e.agent = a
  <2>1. n \in T /\ \A k \in T : k <= n
    BY <1>1, <1>3
  <2>2. Largest(T) \in T /\ n <= Largest(T)
    <3> HIDE DEF T, n
    <3> QED BY <1>2, <2>1, LargestFacts
  <2>3. Largest(T) = n /\ n # 0
    BY <1>1, <2>1, <2>2
  <2> HIDE DEF T, n
  <2>4. ReplayedOf(m, a) = IF Largest(T) = 0 THEN 0 ELSE m[Largest(T)].value
    BY DEF ReplayedOf, T
  <2> QED BY <1>1, <1>3, <2>3, <2>4 DEF m
<1>4. CASE e.agent # a
  <2>1. T = S
    BY <1>1, <1>4
  <2>2. Largest(S) \in S \/ Largest(S) = 0
    <3> HIDE DEF S
    <3> QED BY <1>2, LargestFacts
  <2>3. Largest(S) # 0 => m[Largest(S)] = l[Largest(S)]
    BY <1>1, <2>2
  <2> HIDE DEF S, T
  <2>4. ReplayedOf(m, a) = IF Largest(T) = 0 THEN 0 ELSE m[Largest(T)].value
    BY DEF ReplayedOf, T
  <2>5. ReplayedOf(l, a) = IF Largest(S) = 0 THEN 0 ELSE l[Largest(S)].value
    BY DEF ReplayedOf, S
  <2> QED BY <1>4, <2>1, <2>3, <2>4, <2>5 DEF m
<1> QED BY <1>3, <1>4

\* A worker whose goal, queue and remaining events stay.
LEMMA ReplayKeep ==
  ASSUME NEW s, NEW u, NEW l, NEW w, NEW n, ReplayOK(s, l, w, n), s.pc \notin {"off", "gone"},
         u.queue = s.queue, u.ok => s.ok /\ GoalOf(u) = GoalOf(s),
         u.ok => \A k \in Left(u) : \E j \in Left(s) : s.todo[j] = u.todo[k],
         u.ok => \A j \in Left(s) : \E k \in Left(u) : s.todo[j] = u.todo[k]
  PROVE  ReplayOK(u, l, w, n)
<1>1. AddsUp(u, l)
  BY DEF ReplayOK, AddsUp
<1>2. Latest(u, w, n)
  <2>1. Shots(u) = Shots(s)
    BY DEF Shots
  <2> QED BY <2>1 DEF ReplayOK, Latest
<1> QED BY <1>1, <1>2 DEF ReplayOK

LEMMA ReplayTake ==
  ASSUME ObsInv, NEW i \in Insts, Take(i), ReplayOK(svc[i], log[i], world[i], lost[i])
  PROVE  ReplayOK(svc'[i], log[i], world[i], lost[i])
<1> DEFINE s == svc[i]
           u == svc'[i]
           l == log[i]
           w == world[i]
           n == lost[i]
<1>1. PICK c \in Commands, todo \in Seq(Events) : Moves(i, u) /\ Taken(s, u, c, todo) /\ (s.ok => Due(i, c, s.prev, todo))
  BY TakeFacts
<1>0. s \in Services /\ u \in Services
  BY <1>1, ObsParts DEF Moves, Sound
<1> HIDE DEF s, u, l, w, n
<1>2. AddsUp(s, l) /\ Latest(s, w, n)
  BY DEF ReplayOK, s, l, w, n
<1>3. /\ s.pc = "idle" /\ s.cmd = NoCmd /\ s.todo = <<>> /\ DOMAIN s.todo = {} /\ GoalOf(s) = s.prev /\ Left(s) = {}
      /\ u.queue = Tail(s.queue) /\ c = Head(s.queue) /\ (u.ok <=> s.ok)
  <2>1. s.pc = "idle" /\ s.cmd = NoCmd /\ s.todo = <<>> /\ u.queue = Tail(s.queue) /\ c = Head(s.queue) /\ (u.ok <=> s.ok)
    BY <1>1 DEF Taken
  <2>2. DOMAIN s.todo = {}
    BY <2>1
  <2> QED BY <2>1, <2>2 DEF GoalOf, Left
<1>4. /\ 1 \in DOMAIN s.queue /\ s.queue[1] = c /\ DOMAIN s.queue = 1..Len(s.queue) /\ Len(s.queue) \in Nat
      /\ \A k \in DOMAIN u.queue : k + 1 \in DOMAIN s.queue /\ u.queue[k] = s.queue[k + 1] /\ k \in Nat
      /\ \A k \in DOMAIN s.queue : k = 1 \/ (k - 1 \in DOMAIN u.queue /\ u.queue[k - 1] = s.queue[k])
  <2>1. s.queue \in Seq(Commands) /\ s.queue # <<>>
    BY <1>0, <1>1, ServiceFields DEF Taken
  <2>2. /\ Head(s.queue) = s.queue[1] /\ 1 \in DOMAIN s.queue /\ Len(s.queue) \in Nat \ {0} /\ DOMAIN s.queue = 1..Len(s.queue)
        /\ DOMAIN Tail(s.queue) = 1..(Len(s.queue) - 1)
        /\ \A k \in DOMAIN Tail(s.queue) : k + 1 \in DOMAIN s.queue /\ Tail(s.queue)[k] = s.queue[k + 1]
        /\ \A k \in DOMAIN s.queue : k = 1 \/ (k - 1 \in DOMAIN Tail(s.queue) /\ Tail(s.queue)[k - 1] = s.queue[k])
    BY <2>1, TailFacts
  <2> QED BY <1>3, <2>2
<1>5. s.ok => GoalOf(u) = (IF c.kind = "observe" THEN c.snap ELSE s.prev)
  <2>1. c # NoCmd
    BY CommandFacts
  <2> QED BY <1>1, <2>1 DEF Taken, GoalOf
<1>6. AddsUp(u, l)
  <2> SUFFICES ASSUME u.ok, NEW a \in Agents
               PROVE  /\ \A k \in Left(u) : u.todo[k].agent = a => u.todo[k].value = GoalOf(u)[a]
                      /\ (\A k \in Left(u) : u.todo[k].agent # a) => ReplayedOf(l, a) = GoalOf(u)[a]
    BY DEF AddsUp
  <2>1. s.ok /\ Due(i, c, s.prev, todo) /\ u.todo = todo /\ a # NoAgent
    BY <1>1, <1>3, ObservationAssumption DEF Taken
  <2>2. ReplayedOf(l, a) = s.prev[a]
    BY <1>2, <1>3, <2>1 DEF AddsUp
  <2>3. \A k \in DOMAIN todo : todo[k].agent = a => c.kind = "observe" /\ todo[k].value = c.snap[a]
    BY <2>1 DEF Due
  <2>4. Left(u) \subseteq DOMAIN todo /\ DOMAIN todo \subseteq Left(u)
    <3>1. CASE todo = <<>>
      <4>1. DOMAIN todo = {}
        BY <3>1
      <4> QED BY <2>1, <4>1 DEF Left
    <3>2. CASE todo # <<>>
      BY <1>1, <2>1, <3>2 DEF Taken, Left
    <3> QED BY <3>1, <3>2
  <2>5. \A k \in Left(u) : u.todo[k].agent = a => u.todo[k].value = GoalOf(u)[a]
    BY <1>5, <2>1, <2>3, <2>4
  <2>6. ASSUME \A k \in Left(u) : u.todo[k].agent # a PROVE ReplayedOf(l, a) = GoalOf(u)[a]
    <3>1. CASE c.kind = "observe"
      <4>1. c.snap[a] = s.prev[a]
        BY <2>1, <2>4, <2>6, <3>1 DEF Due
      <4> QED BY <1>5, <2>1, <2>2, <3>1, <4>1
    <3>2. CASE c.kind # "observe"
      BY <1>5, <2>1, <2>2, <3>2
    <3> QED BY <3>1, <3>2
  <2> QED BY <2>5, <2>6
<1>7. Latest(u, w, n)
  <2> SUFFICES ASSUME n = 0
               PROVE  /\ Shots(u) = {} /\ u.ok => GoalOf(u) = w
                      /\ \A k \in Shots(u) : (\A j \in Shots(u) : j <= k) => u.queue[k].snap = w
    BY DEF Latest
  <2>1. /\ Shots(s) = {} /\ s.ok => GoalOf(s) = w
        /\ \A k \in Shots(s) : (\A j \in Shots(s) : j <= k) => s.queue[k].snap = w
    BY <1>2, <1>3 DEF Latest
  <2>2. \A k \in Shots(u) : k + 1 \in Shots(s) /\ u.queue[k] = s.queue[k + 1] /\ k \in Nat
    BY <1>4 DEF Shots
  <2>3. \A k \in Shots(s) : k \in Nat /\ (k = 1 \/ k - 1 \in Shots(u))
    BY <1>4 DEF Shots
  <2>4. ASSUME NEW k \in Shots(u), \A j \in Shots(u) : j <= k PROVE u.queue[k].snap = w
    <3>1. k + 1 \in Shots(s) /\ u.queue[k] = s.queue[k + 1] /\ k \in Nat
      BY <2>2, <2>4
    <3>2. ASSUME NEW j \in Shots(s) PROVE j <= k + 1
      <4>1. j \in Nat /\ (j = 1 \/ j - 1 <= k)
        BY <2>3, <2>4, <3>2
      <4> QED BY <3>1, <4>1
    <3> QED BY <2>1, <3>1, <3>2
  <2>5. ASSUME Shots(u) = {}, u.ok PROVE GoalOf(u) = w
    <3>1. \A k \in Shots(s) : k = 1
      BY <2>3, <2>5
    <3>2. CASE c.kind = "observe"
      <4>1. 1 \in Shots(s) /\ \A j \in Shots(s) : j <= 1
        BY <1>4, <3>1, <3>2 DEF Shots
      <4>2. c.snap = w
        BY <1>4, <2>1, <4>1
      <4> QED BY <1>3, <1>5, <2>5, <3>2, <4>2
    <3>3. CASE c.kind # "observe"
      <4>1. 1 \notin Shots(s)
        BY <1>4, <3>3 DEF Shots
      <4>2. Shots(s) = {}
        BY <3>1, <4>1
      <4> QED BY <1>3, <1>5, <2>1, <2>5, <3>3, <4>2
    <3> QED BY <3>2, <3>3
  <2> QED BY <2>4, <2>5
<1>8. ReplayOK(u, l, w, n)
  BY <1>6, <1>7 DEF ReplayOK
<1> QED BY <1>8 DEF u, l, w, n

LEMMA ReplayInsert ==
  ASSUME ObsInv, NEW i \in Insts, Insert(i), ReplayOK(svc[i], log[i], world[i], lost[i])
  PROVE  ReplayOK(svc'[i], log'[i], world[i], lost[i])
<1> DEFINE s == svc[i]
           u == svc'[i]
           l == log[i]
           w == world[i]
           n == lost[i]
           e == Head(s.todo)
           rec == [agent |-> e.agent, value |-> e.value, mark |-> e.mark, seq |-> nextSeq]
           m == Append(l, rec)
<1>1. s.pc = "insert" /\ u.pc = "cutoff" /\ Same(u, s) /\ s.ok /\ e \in Events /\ 1 \in DOMAIN s.todo /\ e = s.todo[1]
  BY InsertFacts
<1>2. /\ l \in Seq(Records) /\ rec \in Records /\ rec.agent = e.agent /\ rec.value = e.value /\ log'[i] = m
      /\ s.todo \in Seq(Events)
  <2>1. RestOK /\ s \in Services
    BY ObsParts
  <2>2. log'[i] = m
    BY <2>1 DEF Insert, RestOK
  <2>3. s.todo \in Seq(Events)
    BY <2>1, ServiceFields
  <2> QED BY <1>1, <2>1, <2>2, <2>3 DEF RestOK, Records, Events
<1> HIDE DEF s, u, l, w, n, e, rec
<1>3. AddsUp(s, l) /\ Latest(s, w, n)
  BY DEF ReplayOK, s, l, w, n
<1>4. GoalOf(u) = GoalOf(s) /\ u.todo = s.todo /\ u.queue = s.queue /\ Shots(u) = Shots(s)
  BY <1>1 DEF Same, Keeps, GoalOf, Shots
<1>5. Left(s) = DOMAIN s.todo /\ Left(u) = {k \in DOMAIN s.todo : k > 1}
  BY <1>1, <1>4 DEF Left
<1>6. AddsUp(u, m)
  <2> SUFFICES ASSUME NEW a \in Agents
               PROVE  /\ \A k \in Left(u) : u.todo[k].agent = a => u.todo[k].value = GoalOf(u)[a]
                      /\ (\A k \in Left(u) : u.todo[k].agent # a) => ReplayedOf(m, a) = GoalOf(u)[a]
    BY DEF AddsUp
  <2>1. /\ \A k \in Left(s) : s.todo[k].agent = a => s.todo[k].value = GoalOf(s)[a]
        /\ (\A k \in Left(s) : s.todo[k].agent # a) => ReplayedOf(l, a) = GoalOf(s)[a]
    BY <1>1, <1>3 DEF AddsUp
  <2>2. ReplayedOf(m, a) = IF rec.agent = a THEN rec.value ELSE ReplayedOf(l, a)
    BY <1>2, ReplayedAppend
  <2>3. ASSUME \A k \in Left(u) : u.todo[k].agent # a PROVE ReplayedOf(m, a) = GoalOf(u)[a]
    <3>1. CASE e.agent = a
      BY <1>1, <1>2, <1>4, <1>5, <2>1, <2>2, <3>1
    <3>2. CASE e.agent # a
      <4>1. DOMAIN s.todo = 1..Len(s.todo) /\ Len(s.todo) \in Nat
        BY <1>2, LenProperties
      <4>2. \A k \in DOMAIN s.todo : k = 1 \/ k > 1
        BY <4>1
      <4>3. \A k \in Left(s) : s.todo[k].agent # a
        BY <1>1, <1>4, <1>5, <2>3, <3>2, <4>2
      <4> QED BY <1>2, <1>4, <2>1, <2>2, <3>2, <4>3
    <3> QED BY <3>1, <3>2
  <2> QED BY <1>4, <1>5, <2>1, <2>3
<1>7. Latest(u, w, n)
  BY <1>1, <1>3, <1>4 DEF Latest
<1>8. ReplayOK(u, m, w, n)
  BY <1>6, <1>7 DEF ReplayOK
<1> QED BY <1>2, <1>8 DEF u, m, w, n

LEMMA ReplayPrune ==
  ASSUME ObsInv, NEW i \in Insts, Prune(i), ReplayOK(svc[i], log[i], world[i], lost[i])
  PROVE  ReplayOK(svc'[i], log[i], world[i], lost[i])
<1> DEFINE s == svc[i]
           u == svc'[i]
<1>1. s \in Services /\ s.pc = "prune" /\ s.ok /\ Pruned(u, s)
  BY PruneMoves, ObsParts
<1> HIDE DEF s, u
<1>2. ReplayOK(s, log[i], world[i], lost[i])
  BY DEF s
<1>3. s.todo \in Seq(Events) /\ u.queue = s.queue /\ (s.cmd # NoCmd => s.cmd.kind \in {"observe", "events", "inbox", "ack"})
  BY <1>1, ServiceFields, CommandFacts DEF Pruned, Keeps
<1>4. GoalOf(u) = GoalOf(s)
  <2>1. CASE s.todo = <<>>
    BY <1>1, <2>1 DEF Pruned, Same, GoalOf
  <2>2. CASE s.todo # <<>> /\ Tail(s.todo) # <<>>
    BY <1>1, <2>2 DEF Pruned, GoalOf
  <2>3. CASE s.todo # <<>> /\ Tail(s.todo) = <<>>
    <3>1. Proceeds(u, s, s.cmd)
      BY <1>1, <2>3 DEF Pruned
    <3> QED BY <3>1 DEF Proceeds, GoalOf
  <2> QED BY <2>1, <2>2, <2>3
<1>5. /\ \A k \in Left(u) : \E j \in Left(s) : s.todo[j] = u.todo[k]
      /\ \A j \in Left(s) : \E k \in Left(u) : s.todo[j] = u.todo[k]
  <2>1. CASE s.todo = <<>>
    <3>1. u.todo = s.todo /\ DOMAIN s.todo = {}
      BY <1>1, <2>1 DEF Pruned, Same
    <3> QED BY <3>1 DEF Left
  <2>2. CASE s.todo # <<>>
    <3>1. /\ DOMAIN s.todo = 1..Len(s.todo) /\ Len(s.todo) \in Nat \ {0} /\ DOMAIN Tail(s.todo) = 1..(Len(s.todo) - 1)
          /\ \A k \in DOMAIN Tail(s.todo) : k + 1 \in DOMAIN s.todo /\ Tail(s.todo)[k] = s.todo[k + 1]
          /\ \A k \in DOMAIN s.todo : k = 1 \/ (k - 1 \in DOMAIN Tail(s.todo) /\ Tail(s.todo)[k - 1] = s.todo[k])
      BY <1>3, <2>2, TailFacts
    <3>2. u.todo = Tail(s.todo) /\ Left(u) = DOMAIN u.todo
      <4>1. CASE Tail(s.todo) # <<>>
        BY <1>1, <2>2, <4>1 DEF Pruned, Left
      <4>2. CASE Tail(s.todo) = <<>>
        <5>1. u.todo = <<>> /\ DOMAIN u.todo = {}
          BY <1>1, <2>2, <4>2 DEF Pruned
        <5> QED BY <4>2, <5>1 DEF Left
      <4> QED BY <4>1, <4>2
    <3>3. \A k \in Left(u) : k + 1 \in Left(s) /\ s.todo[k + 1] = u.todo[k]
      <4>1. \A k \in Left(u) : k + 1 > 1
        BY <3>1, <3>2
      <4> QED BY <3>1, <3>2, <4>1 DEF Left
    <3>4. \A j \in Left(s) : j - 1 \in Left(u) /\ s.todo[j] = u.todo[j - 1]
      <4>1. \A j \in Left(s) : j \in DOMAIN s.todo /\ j # 1
        BY <1>1, <3>1 DEF Left
      <4> QED BY <3>1, <3>2, <4>1
    <3> QED BY <3>3, <3>4
  <2> QED BY <2>1, <2>2
<1>6. ReplayOK(u, log[i], world[i], lost[i])
  BY <1>1, <1>2, <1>3, <1>4, <1>5, ReplayKeep
<1> QED BY <1>6 DEF u

LEMMA ReplayStart ==
  ASSUME ObsInv, NEW i \in Insts, Start(i), LossOK(svc[i], log[i], lost[i])
  PROVE  ReplayOK(svc'[i], log[i], world[i], lost[i])
<1> DEFINE u == svc'[i]
           s == svc[i]
           q == <<First(i)>>
           d == <<Began(i)>>
           e == <<>>
<1>1. /\ u.pc = "insert" /\ u.queue = q /\ u.ok /\ u.cmd = NoCmd /\ u.todo = d /\ u.prev = Empty
      /\ First(i).kind = "observe" /\ First(i).snap = world[i] /\ Began(i).agent = NoAgent
  BY StartFacts DEF First, Began
<1>2. DOMAIN q = {1} /\ q[1] = First(i) /\ DOMAIN d = {1} /\ d[1] = Began(i) /\ DOMAIN e = {}
  OBVIOUS
<1>3. s.pc = "off"
  BY DEF Start
<1> HIDE DEF u, q, d, s, e
<1>4. log[i] = e
  BY <1>3 DEF LossOK, s, e
<1>5. ASSUME NEW a \in Agents PROVE ReplayedOf(e, a) = Empty[a]
  <2>1. {k \in DOMAIN e : e[k].agent = a} = {}
    BY <1>2
  <2>2. Largest({k \in DOMAIN e : e[k].agent = a}) = 0
    BY <2>1 DEF Largest
  <2> QED BY <2>2 DEF ReplayedOf, Empty
<1>6. AddsUp(u, e)
  <2>1. \A k \in Left(u) : u.todo[k].agent = NoAgent
    BY <1>1, <1>2 DEF Left
  <2>2. GoalOf(u) = Empty
    BY <1>1 DEF GoalOf
  <2> QED BY <1>5, <2>1, <2>2, ObservationAssumption DEF AddsUp
<1>7. Latest(u, world[i], lost[i])
  <2>1. Shots(u) = {1} /\ u.queue[1].snap = world[i]
    BY <1>1, <1>2 DEF Shots
  <2> QED BY <2>1 DEF Latest
<1>8. ReplayOK(u, e, world[i], lost[i])
  BY <1>6, <1>7 DEF ReplayOK
<1> QED BY <1>4, <1>8 DEF u

\* The workspace changes, and its snapshot is the last of the queue.
LEMMA ReplayChange ==
  ASSUME ObsInv, NEW i \in Insts, NEW a \in Agents, NEW v \in Values, NEW signal \in {NoAgent, a}, Change(i, a, v, signal),
         ReplayOK(svc[i], log[i], world[i], lost[i])
  PROVE  ReplayOK(svc'[i], log[i], world'[i], lost'[i])
<1> DEFINE s == svc[i]
           u == svc'[i]
           n == lost[i]
           m == lost'[i]
           l == log[i]
           c == Snapshot(i, signal)
<1>1. /\ c \in Commands /\ c.kind = "observe" /\ c.snap = world'[i] /\ s.pc \notin {"off", "gone"}
      /\ u.pc = s.pc /\ u.cmd = s.cmd /\ u.todo = s.todo /\ u.ok = s.ok /\ u.prev = s.prev
      /\ \/ u.queue = Append(s.queue, c) /\ u.gap = s.gap /\ UNCHANGED lost
         \/ u.queue = s.queue /\ u.gap /\ lost' = [lost EXCEPT ![i] = @ + 1]
  BY ChangeFacts DEF Running
<1>2. s \in Services /\ n \in Nat /\ lost \in [Insts -> Nat]
  BY ObsParts DEF RestOK
<1>3. u.queue = Append(s.queue, c) \/ m # 0
  BY <1>1, <1>2
<1> HIDE DEF s, u, n, l, c, m
<1>4. AddsUp(u, l)
  <2>1. AddsUp(s, l)
    BY DEF ReplayOK, s, l
  <2>2. Left(u) = Left(s) /\ GoalOf(u) = GoalOf(s)
    BY <1>1 DEF Left, GoalOf
  <2> QED BY <1>1, <2>1, <2>2 DEF AddsUp
<1>5. Latest(u, world'[i], m)
  <2>1. CASE m # 0
    BY <2>1 DEF Latest
  <2>2. CASE u.queue = Append(s.queue, c)
    <3>1. s.queue \in Seq(Commands)
      BY <1>2, ServiceFields
    <3>2. /\ Len(s.queue) \in Nat /\ DOMAIN s.queue = 1..Len(s.queue) /\ DOMAIN u.queue = 1..(Len(s.queue) + 1)
          /\ u.queue[Len(s.queue) + 1] = c
      BY <1>1, <2>2, <3>1, AppendFacts
    <3>3. Len(s.queue) + 1 \in Shots(u) /\ \A k \in Shots(u) : k \in 1..(Len(s.queue) + 1)
      BY <1>1, <3>2 DEF Shots
    <3>4. ASSUME NEW k \in Shots(u), \A j \in Shots(u) : j <= k PROVE u.queue[k].snap = world'[i]
      <4>1. k = Len(s.queue) + 1
        BY <3>2, <3>3, <3>4
      <4> QED BY <1>1, <3>2, <4>1
    <3> QED BY <3>3, <3>4 DEF Latest
  <2> QED BY <1>3, <2>1, <2>2
<1>6. ReplayOK(u, l, world'[i], m)
  BY <1>4, <1>5 DEF ReplayOK
<1> QED BY <1>6 DEF u, l, m

LEMMA ReplayAsk ==
  ASSUME ObsInv, NEW i \in Insts, NEW r \in Readers, NEW c \in Commands, Requested(i, r, c),
         ReplayOK(svc[i], log[i], world[i], lost[i])
  PROVE  ReplayOK(svc'[i], log[i], world[i], lost[i])
<1> DEFINE s == svc[i]
           u == svc'[i]
           n == lost[i]
           l == log[i]
           w == world[i]
<1>1. /\ s.pc \notin {"off", "gone"} /\ c.kind # "observe"
      /\ u.pc = s.pc /\ u.cmd = s.cmd /\ u.todo = s.todo /\ u.ok = s.ok /\ u.prev = s.prev /\ u.queue = Append(s.queue, c)
  BY AskFacts DEF Running, Requested
<1>2. s \in Services
  BY ObsParts
<1> HIDE DEF s, u, n, l, w
<1>3. s.queue \in Seq(Commands)
  BY <1>2, ServiceFields
<1>4. /\ \A k \in DOMAIN s.queue : k \in DOMAIN u.queue /\ u.queue[k] = s.queue[k]
      /\ u.queue[Len(s.queue) + 1] = c
      /\ \A k \in DOMAIN u.queue : k \in DOMAIN s.queue \/ k = Len(s.queue) + 1
  BY <1>1, <1>3, AppendFacts
<1>5. AddsUp(s, l) /\ Latest(s, w, n)
  BY DEF ReplayOK, s, l, w, n
<1>6. Shots(u) = Shots(s) /\ (\A k \in Shots(s) : u.queue[k] = s.queue[k]) /\ Left(u) = Left(s) /\ GoalOf(u) = GoalOf(s)
  BY <1>1, <1>4 DEF Shots, Left, GoalOf
<1>7. AddsUp(u, l) /\ Latest(u, w, n)
  <2>1. AddsUp(u, l)
    BY <1>1, <1>5, <1>6 DEF AddsUp
  <2>2. Latest(u, w, n)
    BY <1>1, <1>5, <1>6 DEF Latest
  <2> QED BY <2>1, <2>2
<1>8. ReplayOK(u, l, w, n)
  BY <1>7 DEF ReplayOK
<1> QED BY <1>8 DEF u, l, w, n

\* A worker that has nothing to record and ends a request, or only moves on with it.
LEMMA ReplayRest ==
  ASSUME NEW s, NEW u, NEW l, NEW w, NEW n, ReplayOK(s, l, w, n), s.pc \notin {"off", "gone"},
         u.queue = s.queue, u.prev = s.prev, u.ok => s.ok,
         \/ s.pc # "insert" /\ u.pc # "insert" /\ u.todo = s.todo /\ u.cmd = s.cmd
         \/ u.ok => s.todo = <<>> /\ u.todo = <<>> /\ u.cmd = NoCmd /\ (s.cmd = NoCmd \/ s.cmd.kind # "observe")
  PROVE  ReplayOK(u, l, w, n)
<1>1. CASE s.pc # "insert" /\ u.pc # "insert" /\ u.todo = s.todo /\ u.cmd = s.cmd
  <2>1. Left(u) = Left(s) /\ GoalOf(u) = GoalOf(s)
    BY <1>1 DEF Left, GoalOf
  <2> QED BY <1>1, <2>1, ReplayKeep
<1>2. CASE u.ok => s.todo = <<>> /\ u.todo = <<>> /\ u.cmd = NoCmd /\ (s.cmd = NoCmd \/ s.cmd.kind # "observe")
  <2>1. ASSUME u.ok PROVE GoalOf(u) = GoalOf(s) /\ Left(u) = {} /\ Left(s) = {}
    <3>1. DOMAIN s.todo = {} /\ DOMAIN u.todo = {}
      BY <1>2, <2>1
    <3> QED BY <1>2, <2>1, <3>1 DEF GoalOf, Left
  <2> QED BY <2>1, ReplayKeep
<1> QED BY <1>1, <1>2

LEMMA ReplayStep == ObsInv /\ LossInv /\ ReplayInv /\ [Next]_vars => ReplayInv'
<1> SUFFICES ASSUME ObsInv, LossInv, ReplayInv, [Next]_vars PROVE ReplayInv'
  OBVIOUS
<1>0. /\ svc \in [Insts -> Services] /\ log \in [Insts -> Seq(Records)] /\ lost \in [Insts -> Nat]
      /\ world \in [Insts -> Snapshots]
      /\ \A i \in Insts : /\ LossOK(svc[i], log[i], lost[i]) /\ Sound(svc[i], i)
                          /\ ReplayOK(svc[i], log[i], world[i], lost[i])
  BY ObsParts, LossParts, ReplayParts DEF RestOK
<1>1. ASSUME NEW i \in Insts, Moves(i, svc'[i]), ReplayOK(svc'[i], log'[i], world'[i], lost'[i]),
             \A j \in Insts \ {i} : log'[j] = log[j] /\ lost'[j] = lost[j] /\ world'[j] = world[j]
      PROVE  ReplayInv'
  <2>1. \A j \in Insts : ReplayOK(svc'[j], log'[j], world'[j], lost'[j])
    BY <1>0, <1>1 DEF Moves
  <2> QED BY <2>1, ReplayPrimes
<1>2. CASE Outside
  <2>1. UNCHANGED <<svc, log, lost, world>>
    BY <1>2, OutsideFacts
  <2> QED BY <1>0, <2>1, ReplayPrimes
<1>3. ASSUME NEW i \in Insts, Start(i) \/ Stop(i) \/ Take(i) \/ Prune(i) PROVE ReplayInv'
  <2>1. UNCHANGED <<log, lost, world>>
    BY <1>3 DEF Start, Stop, Take, Prune, outside
  <2>2. Moves(i, svc'[i])
    BY <1>3, StartFacts, StopFacts, TakeFacts, PruneMoves
  <2>3. ReplayOK(svc'[i], log[i], world[i], lost[i])
    <3>1. CASE Start(i)
      BY <1>0, <3>1, ReplayStart
    <3>2. CASE Stop(i)
      BY <3>2, StopFacts DEF ReplayOK, AddsUp, Latest
    <3>3. CASE Take(i)
      BY <1>0, <3>3, ReplayTake
    <3>4. CASE Prune(i)
      BY <1>0, <3>4, ReplayPrune
    <3> QED BY <1>3, <3>1, <3>2, <3>3, <3>4
  <2> QED BY <1>1, <2>1, <2>2, <2>3
<1>4. ASSUME NEW i \in Insts, Insert(i) PROVE ReplayInv'
  <2>1. UNCHANGED <<lost, world>> /\ \A j \in Insts \ {i} : log'[j] = log[j]
    BY <1>0, <1>4 DEF Insert, outside
  <2>2. Moves(i, svc'[i]) /\ ReplayOK(svc'[i], log'[i], world[i], lost[i])
    BY <1>0, <1>4, InsertFacts, ReplayInsert
  <2> QED BY <1>1, <2>1, <2>2
<1>5. ASSUME NEW i \in Insts, Fault(i) \/ Cutoff(i) \/ Floor(i) \/ Answer(i) \/ InboxRead(i) \/ InboxBatch(i) \/ Ack(i)
      PROVE  ReplayInv'
  <2>1. UNCHANGED <<log, lost, world>>
    BY <1>5 DEF Fault, Cutoff, Floor, Answer, InboxRead, InboxBatch, Ack, outside
  <2>2. Moves(i, svc'[i])
    BY <1>5, FaultFacts, CutoffFacts, FloorFacts, AnswerFacts, InboxReadFacts, InboxBatchFacts, AckFacts
  <2>3. ReplayOK(svc'[i], log[i], world[i], lost[i])
    <3>1. CASE Fault(i)
      <4>1. Failed(svc'[i], svc[i]) /\ svc[i].pc \in {"insert", "cutoff", "prune", "floor", "page", "inbox", "batch", "ack"}
        BY <3>1, FaultFacts DEF Fault
      <4>2. svc[i].todo = <<>> => svc[i].cmd # NoCmd /\ svc[i].cmd.kind # "observe"
        BY <1>0, <4>1 DEF Sound
      <4> QED BY <1>0, <4>1, <4>2, ReplayRest DEF Failed
    <3>2. CASE Cutoff(i)
      <4>1. svc[i].pc = "cutoff" /\ svc'[i].pc = "prune" /\ Same(svc'[i], svc[i]) /\ svc[i].ok
        BY <3>2, CutoffFacts
      <4> QED BY <1>0, <4>1, ReplayRest DEF Same, Keeps
    <3>3. CASE Floor(i) \/ Answer(i) \/ InboxRead(i) \/ InboxBatch(i) \/ Ack(i)
      <4>1. /\ svc[i].pc \in {"floor", "page", "inbox", "batch", "ack"} /\ svc[i].todo = <<>>
            /\ svc'[i].queue = svc[i].queue /\ svc'[i].ok = svc[i].ok /\ svc'[i].prev = svc[i].prev
            /\ svc'[i].todo = <<>> /\ svc'[i].cmd \in {svc[i].cmd, NoCmd} /\ svc'[i].pc \in {"page", "batch", "idle"}
        <5>1. CASE Floor(i)
          BY <1>0, <5>1, FloorFacts DEF FloorTaken, Same, Resets, Keeps, Sound
        <5>2. CASE Answer(i) \/ InboxRead(i) \/ InboxBatch(i) \/ Ack(i)
          BY <1>0, <5>2, AnswerFacts, InboxReadFacts, InboxBatchFacts, AckFacts DEF Drafted, Resets, Keeps, Sound
        <5> QED BY <3>3, <5>1, <5>2
      <4>2. svc[i].cmd # NoCmd /\ svc[i].cmd.kind # "observe"
        BY <1>0, <4>1 DEF Sound
      <4> QED BY <1>0, <4>1, <4>2, ReplayRest
    <3> QED BY <1>5, <3>1, <3>2, <3>3
  <2> QED BY <1>1, <2>1, <2>2, <2>3
<1>6. ASSUME NEW i \in Insts, NEW a \in Agents, NEW v \in Values, NEW signal \in {NoAgent, a}, Change(i, a, v, signal)
      PROVE  ReplayInv'
  <2>1. UNCHANGED log /\ \A j \in Insts \ {i} : world'[j] = world[j]
    BY <1>0, <1>6 DEF Change
  <2>2. \A j \in Insts \ {i} : lost'[j] = lost[j]
    <3>1. UNCHANGED lost \/ lost' = [lost EXCEPT ![i] = @ + 1]
      BY <1>6, ChangeFacts
    <3> QED BY <1>0, <3>1
  <2>3. Moves(i, svc'[i]) /\ ReplayOK(svc'[i], log[i], world'[i], lost'[i])
    BY <1>0, <1>6, ChangeFacts, ReplayChange
  <2> QED BY <1>1, <2>1, <2>2, <2>3
<1>7. ASSUME NEW i \in Insts, NEW r \in Readers, NEW c \in Commands, Requested(i, r, c) PROVE ReplayInv'
  <2>1. UNCHANGED <<log, lost, world>>
    BY <1>7, AskRest DEF Requested
  <2>2. Moves(i, svc'[i]) /\ ReplayOK(svc'[i], log[i], world[i], lost[i])
    BY <1>0, <1>7, AskFacts, ReplayAsk DEF Requested
  <2> QED BY <1>1, <2>1, <2>2
<1> QED BY <1>2, <1>3, <1>4, <1>5, <1>6, <1>7, Steps

LEMMA ReplayInit == Init => ReplayInv
<1> SUFFICES ASSUME Init PROVE ReplayInv
  OBVIOUS
<1>1. \A i \in Insts : svc[i].pc = "off"
  BY OffFacts DEF Init
<1> QED BY <1>1, ReplayParts DEF ReplayOK, AddsUp, Latest

\* When a worker has caught up, replaying its events gives the workspace as it is, or the
\* snapshot that is missing was lost and the loss is or will be marked (process,
\* record_changes and the gap flag together).
THEOREM ReplaysGiveTheWorkspace == Spec => []ReplayOrGap
<1>1. ObsInv /\ LossInv /\ ReplayInv => ReplayOrGap
  <2> SUFFICES ASSUME ObsInv, LossInv, ReplayInv, NEW i \in Insts,
                      svc[i].pc = "idle", svc[i].ok, svc[i].queue = <<>>, Replayed(i) # world[i], ~svc[i].gap
               PROVE  lost[i] > 0 /\ Disclosed(i) = lost[i]
    BY DEF ReplayOrGap
  <2>1. /\ Sound(svc[i], i) /\ LossOK(svc[i], log[i], lost[i]) /\ AddsUp(svc[i], log[i]) /\ Latest(svc[i], world[i], lost[i])
        /\ RestOK /\ svc[i] \in Services
    BY ObsParts, LossParts, ReplayParts DEF ReplayOK
  <2>2. svc[i].cmd = NoCmd /\ svc[i].todo = <<>> /\ DOMAIN svc[i].todo = {} /\ DOMAIN svc[i].queue = {}
    BY <2>1 DEF Sound
  <2>3. GoalOf(svc[i]) = svc[i].prev /\ Left(svc[i]) = {} /\ Shots(svc[i]) = {} /\ svc[i].prev \in Snapshots
    BY <2>1, <2>2, ServiceFields DEF GoalOf, Left, Shots
  <2>4. \A a \in Agents : Replayed(i)[a] = svc[i].prev[a]
    BY <2>1, <2>3, ReplayedIs DEF AddsUp
  <2>5. Replayed(i) = svc[i].prev
    <3>1. Replayed(i) = [a \in Agents |-> Replayed(i)[a]]
      BY DEF Replayed
    <3>2. svc[i].prev = [a \in Agents |-> svc[i].prev[a]]
      BY <2>3 DEF Snapshots
    <3> HIDE DEF Replayed
    <3> QED BY <2>4, <3>1, <3>2
  <2>6. lost[i] # 0 /\ lost[i] \in Nat
    BY <2>1, <2>3, <2>5 DEF Latest, RestOK
  <2>7. ToldBy(svc[i], log[i], lost[i])
    BY <2>1 DEF LossOK
  <2>8. PICK k \in DOMAIN log[i] : log[i][k].mark >= lost[i]
    BY <2>2, <2>6, <2>7 DEF ToldBy
  <2>9. \A j \in DOMAIN log[i] : log[i][j].mark \in Nat /\ log[i][j].mark <= lost[i]
    BY <2>1, MarksAreNumbers DEF RestOK, LossOK
  <2>10. /\ Disclosed(i) \in Nat /\ log[i][k].mark <= Disclosed(i)
         /\ Disclosed(i) = 0 \/ \E j \in DOMAIN log[i] : Disclosed(i) = log[i][j].mark
    BY <2>1, DisclosedFacts
  <2> QED BY <2>6, <2>8, <2>9, <2>10
<1>2. ObsInv /\ LossInv /\ ReplayInv /\ [Next]_vars => (ObsInv /\ LossInv /\ ReplayInv)'
  BY ObsStep, LossStep, ReplayStep
<1> QED BY <1>1, <1>2, ObsInit, LossInit, ReplayInit, PTL DEF Spec


-----------------------------------------------------------------------------
(* Pages *)

\* The position p of a worker asks for a page for r: 0 is the command at hand.
AsksOf(s, p, r) ==
  LET c == IF p = 0 THEN s.cmd ELSE s.queue[p] IN c # NoCmd /\ c.kind = "events" /\ c.reader = r

LEMMA OneAskParts ==
  OneAsk <=> \A r \in Readers, i, j \in Insts : \A p \in 0..Len(svc[i].queue), q \in 0..Len(svc[j].queue) :
               AsksOf(svc[i], p, r) /\ AsksOf(svc[j], q, r) => i = j /\ p = q
BY DEF OneAsk, Asks, Held, AsksOf

LEMMA OneAskPrimes ==
  OneAsk' <=> \A r \in Readers, i, j \in Insts : \A p \in 0..Len(svc'[i].queue), q \in 0..Len(svc'[j].queue) :
                AsksOf(svc'[i], p, r) /\ AsksOf(svc'[j], q, r) => i = j /\ p = q
BY DEF OneAsk, Asks, Held, AsksOf

\* A worker whose requests for pages are requests that it had, each once.
LEMMA OneAskMoves ==
  ASSUME ObsInv, OneAsk, NEW i \in Insts, Moves(i, svc'[i]), NEW n \in Nat,
         \A p \in 0..Len(svc'[i].queue), r \in Readers : AsksOf(svc'[i], p, r) =>
           p + n \in 0..Len(svc[i].queue) /\ AsksOf(svc[i], p + n, r)
  PROVE  OneAsk'
<1>1. \A r \in Readers, j, k \in Insts : \A p \in 0..Len(svc[j].queue), q \in 0..Len(svc[k].queue) :
        AsksOf(svc[j], p, r) /\ AsksOf(svc[k], q, r) => j = k /\ p = q
  BY OneAskParts
<1>2. svc' = [svc EXCEPT ![i] = svc'[i]] /\ \A j \in Insts \ {i} : svc'[j] = svc[j]
  BY ObsParts DEF Moves
<1>3. SUFFICES ASSUME NEW r \in Readers, NEW j \in Insts, NEW k \in Insts,
                      NEW p \in 0..Len(svc'[j].queue), NEW q \in 0..Len(svc'[k].queue),
                      AsksOf(svc'[j], p, r), AsksOf(svc'[k], q, r)
               PROVE  j = k /\ p = q
  BY OneAskPrimes
<1>4. p \in Int /\ q \in Int
  OBVIOUS
<1>5. PICK v \in {0, n} : p + v \in 0..Len(svc[j].queue) /\ AsksOf(svc[j], p + v, r) /\ v = (IF j = i THEN n ELSE 0)
  <2>1. CASE j = i
    BY <1>3, <2>1
  <2>2. CASE j # i
    <3>1. svc'[j] = svc[j] /\ p + 0 = p
      BY <1>2, <1>4, <2>2
    <3> QED BY <1>3, <2>2, <3>1
  <2> QED BY <2>1, <2>2
<1>6. PICK w \in {0, n} : q + w \in 0..Len(svc[k].queue) /\ AsksOf(svc[k], q + w, r) /\ w = (IF k = i THEN n ELSE 0)
  <2>1. CASE k = i
    BY <1>3, <2>1
  <2>2. CASE k # i
    <3>1. svc'[k] = svc[k] /\ q + 0 = q
      BY <1>2, <1>4, <2>2
    <3> QED BY <1>3, <2>2, <3>1
  <2> QED BY <2>1, <2>2
<1>7. j = k /\ p + v = q + w
  BY <1>1, <1>5, <1>6
<1> QED BY <1>4, <1>5, <1>6, <1>7

\* A worker whose queue stays and that goes on with its command or ends it.
LEMMA OneAskQuiet ==
  ASSUME ObsInv, OneAsk, NEW i \in Insts, Moves(i, svc'[i]), svc'[i].queue = svc[i].queue, svc'[i].cmd \in {svc[i].cmd, NoCmd}
  PROVE  OneAsk'
<1>1. ASSUME NEW p \in 0..Len(svc'[i].queue), NEW r \in Readers, AsksOf(svc'[i], p, r)
      PROVE  p + 0 \in 0..Len(svc[i].queue) /\ AsksOf(svc[i], p + 0, r)
  <2>1. p + 0 = p
    OBVIOUS
  <2>2. AsksOf(svc[i], p, r)
    BY <1>1 DEF AsksOf
  <2> QED BY <2>1, <2>2
<1> QED BY <1>1, OneAskMoves

LEMMA OneAskTake ==
  ASSUME ObsInv, OneAsk, NEW i \in Insts, Take(i)
  PROVE  OneAsk'
<1> DEFINE s == svc[i]
           u == svc'[i]
<1>1. PICK c \in Commands, todo \in Seq(Events) : Moves(i, u) /\ Taken(s, u, c, todo)
  BY TakeFacts
<1>2. s.queue \in Seq(Commands) /\ s.queue # <<>> /\ u.queue = Tail(s.queue) /\ c = Head(s.queue) /\ u.cmd \in {c, NoCmd}
  <2>1. s \in Services
    BY ObsParts
  <2>2. u.cmd \in {c, NoCmd}
    BY <1>1 DEF Taken
  <2> QED BY <1>1, <2>1, <2>2, ServiceFields DEF Taken
<1>3. /\ Head(s.queue) = s.queue[1] /\ Len(s.queue) \in Nat \ {0} /\ Len(u.queue) = Len(s.queue) - 1
      /\ DOMAIN u.queue = 1..(Len(s.queue) - 1)
      /\ \A k \in DOMAIN u.queue : u.queue[k] = s.queue[k + 1]
  BY <1>2, TailFacts
<1>4. ASSUME NEW p \in 0..Len(u.queue), NEW r \in Readers, AsksOf(u, p, r)
      PROVE  p + 1 \in 0..Len(s.queue) /\ AsksOf(s, p + 1, r)
  <2>1. p \in Nat /\ p + 1 \in 0..Len(s.queue) /\ p + 1 # 0
    BY <1>3
  <2>2. CASE p = 0
    <3>1. u.cmd = c /\ p + 1 = 1
      BY <1>2, <1>4, <2>2 DEF AsksOf
    <3> HIDE DEF s, u
    <3> QED BY <1>2, <1>3, <1>4, <2>1, <2>2, <3>1 DEF AsksOf
  <2>3. CASE p # 0
    <3>1. p \in DOMAIN u.queue
      BY <1>3, <2>1, <2>3
    <3> HIDE DEF s, u
    <3> QED BY <1>3, <1>4, <2>1, <2>3, <3>1 DEF AsksOf
  <2> QED BY <2>2, <2>3
<1>5. 1 \in Nat
  OBVIOUS
<1> QED BY <1>1, <1>4, <1>5, OneAskMoves

\* A worker that gets another command; one that asks for a page is the only one of its
\* reader.
LEMMA OneAskJoins ==
  ASSUME ObsInv, OneAsk, NEW i \in Insts, Moves(i, svc'[i]), NEW c \in Commands, svc'[i].queue = Append(svc[i].queue, c),
         svc'[i].cmd = svc[i].cmd, c.kind = "events" => ~Waiting(c.reader)
  PROVE  OneAsk'
<1> DEFINE s == svc[i]
           u == svc'[i]
           n == Len(s.queue)
<1>0. s \in Services
  BY ObsParts
<1>1. /\ n \in Nat /\ DOMAIN s.queue = 1..n /\ DOMAIN u.queue = 1..(n + 1) /\ Len(u.queue) = n + 1
      /\ (\A k \in DOMAIN s.queue : u.queue[k] = s.queue[k]) /\ u.queue[n + 1] = c
  <2>1. s.queue \in Seq(Commands)
    BY <1>0, ServiceFields
  <2>2. u.queue \in Seq(Commands)
    BY <2>1, AppendFacts
  <2>3. DOMAIN u.queue = 1..Len(u.queue) /\ Len(u.queue) \in Nat
    BY <2>2, LenProperties
  <2>4. Len(u.queue) = n + 1
    BY <2>1, AppendProperties
  <2>5. /\ n \in Nat /\ DOMAIN s.queue = 1..n
        /\ (\A k \in DOMAIN s.queue : Append(s.queue, c)[k] = s.queue[k]) /\ Append(s.queue, c)[n + 1] = c
    BY <2>1, AppendFacts
  <2> QED BY <2>3, <2>4, <2>5
<1>2. \A p \in 0..(n + 1), r \in Readers : AsksOf(u, p, r) =>
        (p \in 0..n /\ AsksOf(s, p, r)) \/ (p = n + 1 /\ c.kind = "events" /\ c.reader = r)
  <2> SUFFICES ASSUME NEW p \in 0..(n + 1), NEW r \in Readers, AsksOf(u, p, r)
               PROVE  (p \in 0..n /\ AsksOf(s, p, r)) \/ (p = n + 1 /\ c.kind = "events" /\ c.reader = r)
    OBVIOUS
  <2> HIDE DEF s, u, n
  <2>1. CASE p = 0
    <3>1. u.cmd = s.cmd
      BY DEF s, u
    <3> QED BY <1>1, <2>1, <3>1 DEF AsksOf
  <2>2. CASE p \in 1..n
    BY <1>1, <2>2 DEF AsksOf
  <2>3. CASE p = n + 1
    <3>1. p # 0
      BY <1>1, <2>3
    <3> QED BY <1>1, <2>3, <3>1 DEF AsksOf
  <2> QED BY <1>1, <2>1, <2>2, <2>3
<1>3. \A r \in Readers, j \in Insts : \A p \in 0..Len(svc[j].queue) : AsksOf(svc[j], p, r) => Waiting(r)
  <2> SUFFICES ASSUME NEW r \in Readers, NEW j \in Insts, NEW p \in 0..Len(svc[j].queue), AsksOf(svc[j], p, r) PROVE Waiting(r)
    OBVIOUS
  <2>1. svc[j].queue \in Seq(Commands)
    BY ObsParts, ServiceFields
  <2>2. DOMAIN svc[j].queue = 1..Len(svc[j].queue) /\ Len(svc[j].queue) \in Nat
    BY <2>1, LenProperties
  <2>3. CASE p = 0
    BY <2>3 DEF AsksOf, Waiting
  <2>4. CASE p # 0
    <3>1. p \in DOMAIN svc[j].queue
      BY <2>2, <2>4
    <3> QED BY <2>4, <3>1 DEF AsksOf, Waiting
  <2> QED BY <2>3, <2>4
<1>4. \A j \in Insts \ {i} : svc'[j] = svc[j]
  BY ObsParts DEF Moves
<1>5. \A r \in Readers, j, k \in Insts : \A p \in 0..Len(svc[j].queue), q \in 0..Len(svc[k].queue) :
        AsksOf(svc[j], p, r) /\ AsksOf(svc[k], q, r) => j = k /\ p = q
  BY OneAskParts
<1>6. ASSUME NEW r \in Readers, NEW j \in Insts, NEW p \in 0..Len(svc'[j].queue), AsksOf(svc'[j], p, r)
      PROVE  \/ p \in 0..Len(svc[j].queue) /\ AsksOf(svc[j], p, r) /\ Waiting(r)
             \/ j = i /\ p = n + 1 /\ c.kind = "events" /\ c.reader = r /\ ~Waiting(r)
  <2>1. CASE j = i
    <3>1. p \in 0..(n + 1) /\ AsksOf(u, p, r)
      BY <1>1, <1>6, <2>1
    <3>2. (p \in 0..n /\ AsksOf(s, p, r)) \/ (p = n + 1 /\ c.kind = "events" /\ c.reader = r)
      BY <1>2, <3>1
    <3> QED BY <1>3, <2>1, <3>2
  <2>2. CASE j # i
    <3>1. svc'[j] = svc[j]
      BY <1>4, <2>2
    <3> QED BY <1>3, <1>6, <3>1
  <2> QED BY <2>1, <2>2
<1> HIDE DEF s, u, n
<1> SUFFICES ASSUME NEW r \in Readers, NEW j \in Insts, NEW k \in Insts,
                    NEW p \in 0..Len(svc'[j].queue), NEW q \in 0..Len(svc'[k].queue),
                    AsksOf(svc'[j], p, r), AsksOf(svc'[k], q, r)
             PROVE  j = k /\ p = q
  BY OneAskPrimes
<1>7. \/ p \in 0..Len(svc[j].queue) /\ AsksOf(svc[j], p, r) /\ Waiting(r)
      \/ j = i /\ p = n + 1 /\ ~Waiting(r)
  BY <1>6
<1>8. \/ q \in 0..Len(svc[k].queue) /\ AsksOf(svc[k], q, r) /\ Waiting(r)
      \/ k = i /\ q = n + 1 /\ ~Waiting(r)
  BY <1>6
<1> QED BY <1>5, <1>7, <1>8


LEMMA OneAskStep == ObsInv /\ OneAsk /\ [Next]_vars => OneAsk'
<1> SUFFICES ASSUME ObsInv, OneAsk, [Next]_vars PROVE OneAsk'
  OBVIOUS
<1>1. CASE Outside
  <2>1. svc' = svc
    BY <1>1, OutsideFacts
  <2> QED BY <2>1, OneAskParts, OneAskPrimes
<1>2. ASSUME NEW i \in Insts, Start(i) \/ Stop(i) PROVE OneAsk'
  <2> DEFINE u == svc'[i]
             q == <<First(i)>>
             e == <<>>
  <2>1. Moves(i, u) /\ u.cmd = NoCmd /\ (u.queue = q \/ u.queue = e)
    BY <1>2, StartFacts, StopFacts
  <2>2. Len(q) = 1 /\ Len(e) = 0 /\ q[1] = First(i) /\ First(i).kind = "observe"
    BY DEF First
  <2>3. ASSUME NEW p \in 0..Len(u.queue), NEW r \in Readers PROVE ~AsksOf(u, p, r)
    <3>1. p = 0 \/ (p = 1 /\ u.queue = q)
      <4> HIDE DEF u, q, e
      <4>1. CASE u.queue = q
        <5>1. p \in 0..1
          BY <2>2, <4>1
        <5>2. p = 0 \/ p = 1
          BY <5>1
        <5> QED BY <4>1, <5>2
      <4>2. CASE u.queue = e
        BY <2>2, <2>3, <4>2
      <4> QED BY <2>1, <4>1, <4>2
    <3> HIDE DEF u, q
    <3> QED BY <2>1, <2>2, <3>1 DEF AsksOf
  <2>4. 0 \in Nat
    OBVIOUS
  <2> HIDE DEF q
  <2> QED BY <2>1, <2>3, <2>4, OneAskMoves
<1>3. ASSUME NEW i \in Insts, Take(i) PROVE OneAsk'
  BY <1>3, OneAskTake
<1>4. ASSUME NEW i \in Insts,
             Fault(i) \/ Insert(i) \/ Cutoff(i) \/ Prune(i) \/ Floor(i) \/ Answer(i) \/ InboxRead(i) \/ InboxBatch(i) \/ Ack(i)
      PROVE  OneAsk'
  <2> DEFINE u == svc'[i]
             s == svc[i]
  <2>1. Moves(i, u)
    BY <1>4, FaultFacts, InsertFacts, CutoffFacts, PruneMoves, FloorFacts, AnswerFacts, InboxReadFacts, InboxBatchFacts, AckFacts
  <2>2. u.queue = s.queue /\ u.cmd \in {s.cmd, NoCmd}
    <3>1. CASE Fault(i)
      BY <3>1, FaultFacts DEF Failed
    <3>2. CASE Insert(i) \/ Cutoff(i)
      BY <3>2, InsertFacts, CutoffFacts DEF Same, Keeps
    <3>3. CASE Prune(i)
      <4>1. Pruned(u, s)
        BY <3>3, PruneMoves
      <4> HIDE DEF u, s
      <4> QED BY <4>1 DEF Pruned, Proceeds, Same, Keeps
    <3>4. CASE Floor(i)
      BY <3>4, FloorFacts DEF FloorTaken, Same, Resets, Keeps
    <3>5. CASE Answer(i) \/ InboxRead(i) \/ InboxBatch(i) \/ Ack(i)
      BY <3>5, AnswerFacts, InboxReadFacts, InboxBatchFacts, AckFacts DEF Drafted, Resets, Keeps
    <3> QED BY <1>4, <3>1, <3>2, <3>3, <3>4, <3>5
  <2> QED BY <2>1, <2>2, OneAskQuiet
<1>5. ASSUME NEW i \in Insts, NEW a \in Agents, NEW v \in Values, NEW signal \in {NoAgent, a}, Change(i, a, v, signal)
      PROVE  OneAsk'
  <2> DEFINE c == Snapshot(i, signal)
  <2>1. /\ Moves(i, svc'[i]) /\ c \in Commands /\ c.kind = "observe" /\ svc'[i].cmd = svc[i].cmd
        /\ svc'[i].queue = Append(svc[i].queue, c) \/ svc'[i].queue = svc[i].queue
    BY <1>5, ChangeFacts
  <2> HIDE DEF c
  <2> QED BY <2>1, OneAskQuiet, OneAskJoins
<1>6. ASSUME NEW i \in Insts, NEW r \in Readers, NEW c \in Commands, Requested(i, r, c) PROVE OneAsk'
  <2>1. Moves(i, svc'[i]) /\ svc'[i].cmd = svc[i].cmd /\ svc'[i].queue = Append(svc[i].queue, c)
    BY <1>6, AskFacts DEF Requested
  <2>2. c.kind = "events" => ~Waiting(c.reader)
    BY <1>6 DEF Requested
  <2> QED BY <2>1, <2>2, OneAskJoins
<1> QED BY <1>1, <1>2, <1>3, <1>4, <1>5, <1>6, Steps

\* The floors that are deleted after FloorLife lie outside the bound on time.
FloorsLast == MaxTime \in Nat /\ MaxTime <= FloorLife

LEMMA RowFacts == \A x \in rows : RestOK => x.inst \in Insts /\ x.seq \in Nat /\ x.created \in Nat
BY DEF RestOK, EventRows

LEMMA LogFacts ==
  ASSUME RestOK, NEW i \in Insts
  PROVE  log[i] \in Seq(Records) /\ \A n \in DOMAIN log[i] : log[i][n].seq \in Nat
<1>1. log[i] \in Seq(Records)
  BY DEF RestOK
<1>2. \A n \in DOMAIN log[i] : log[i][n] \in Records
  BY <1>1
<1> QED BY <1>1, <1>2 DEF Records

\* An insert gives the row and the record the same new number.
LEMMA InsertRows ==
  ASSUME ObsInv, NEW i \in Insts, Insert(i)
  PROVE  /\ rows \subseteq rows' /\ nextSeq' = nextSeq + 1 /\ nextSeq \in Nat
         /\ \A x \in rows' : x \in rows \/ x.seq = nextSeq
         /\ \E x \in rows' : x.inst = i /\ x.seq = nextSeq
         /\ \A j \in Insts : \A n \in DOMAIN log[j] : n \in DOMAIN log'[j] /\ log'[j][n] = log[j][n]
         /\ \A j \in Insts : \A n \in DOMAIN log'[j] :
              n \in DOMAIN log[j] \/ (j = i /\ log'[j][n].seq = nextSeq)
<1> DEFINE e == Head(svc[i].todo)
           row == [inst |-> e.inst, agent |-> e.agent, value |-> e.value, mark |-> e.mark,
                   seq |-> nextSeq, created |-> now]
           rec == [agent |-> e.agent, value |-> e.value, mark |-> e.mark, seq |-> nextSeq]
<1>1. /\ rows' = rows \cup {row} /\ nextSeq' = nextSeq + 1
      /\ log' = [log EXCEPT ![i] = Append(log[i], rec)]
  BY DEF Insert
<1>2. e \in Events /\ e.inst = i
  BY InsertFacts
<1>3. nextSeq \in Nat /\ log \in [Insts -> Seq(Records)]
  BY ObsParts DEF RestOK
<1>4. row.inst = i /\ row.seq = nextSeq /\ rec \in Records /\ rec.seq = nextSeq
  BY <1>2, <1>3 DEF Events, Records
<1> HIDE DEF row, rec, e
<1>5. /\ \A n \in DOMAIN log[i] : n \in DOMAIN log'[i] /\ log'[i][n] = log[i][n]
      /\ \A n \in DOMAIN log'[i] : n \in DOMAIN log[i] \/ log'[i][n].seq = nextSeq
  <2>1. log'[i] = Append(log[i], rec) /\ log[i] \in Seq(Records)
    BY <1>1, <1>3
  <2> QED BY <1>4, <2>1, AppendFacts
<1>6. \A j \in Insts \ {i} : log'[j] = log[j]
  BY <1>1, <1>3
<1> QED BY <1>1, <1>3, <1>4, <1>5, <1>6


LEMMA FloorsStep ==
  ASSUME FloorsLast, ObsInv, FloorsSound, [Next]_vars
  PROVE  FloorsSound'
<1>0. RestOK /\ now \in Nat /\ floors \in [Insts -> [seq : Nat, at : Nat]] /\ nextSeq \in Nat /\ rows \subseteq EventRows
  BY ObsParts DEF RestOK
<1>1. now' <= MaxTime
  <2>1. CASE Outside
    <3>1. now' = now \/ (now' = now + 1 /\ now < MaxTime)
      BY <2>1, OutsideFacts
    <3> QED BY <1>0, <3>1 DEF FloorsLast, FloorsSound
  <2>2. CASE now' = now
    BY <2>2 DEF FloorsSound
  <2>3. ASSUME NEW i \in Insts, \/ Start(i) \/ Stop(i) \/ Fault(i) \/ Take(i) \/ Insert(i) \/ Cutoff(i) \/ Prune(i)
                                \/ Floor(i) \/ Answer(i) \/ InboxRead(i) \/ InboxBatch(i) \/ Ack(i)
        PROVE  now' = now
    BY <2>3 DEF Start, Stop, Fault, Take, Insert, Cutoff, Prune, Floor, Answer, InboxRead, InboxBatch, Ack, outside
  <2>4. ASSUME NEW i \in Insts, NEW a \in Agents, NEW v \in Values, NEW signal \in {NoAgent, a}, Change(i, a, v, signal)
        PROVE  now' = now
    BY <2>4, ChangeRest
  <2>5. ASSUME NEW i \in Insts, NEW r \in Readers, NEW c \in Commands, Requested(i, r, c) PROVE now' = now
    BY <2>5, AskRest DEF Requested
  <2> QED BY <2>1, <2>2, <2>3, <2>4, <2>5, Steps
<1>2. CASE UNCHANGED <<rows, floors, nextSeq, log>>
  BY <1>1, <1>2 DEF FloorsSound
<1>3. ASSUME NEW i \in Insts, Insert(i) PROVE FloorsSound'
  <2>1. floors' = floors
    BY <1>3 DEF Insert
  <2>2. \A x \in rows' : x.seq < nextSeq'
    BY <1>0, <1>3, InsertRows, RowFacts DEF FloorsSound
  <2>3. \A j \in Insts : floors'[j].seq < nextSeq'
    BY <1>0, <1>3, <2>1, InsertRows DEF FloorsSound
  <2>4. ASSUME NEW j \in Insts, NEW k \in DOMAIN log'[j]
        PROVE  /\ log'[j][k].seq < nextSeq'
               /\ (\E x \in rows' : x.inst = j /\ x.seq = log'[j][k].seq) \/ log'[j][k].seq <= floors'[j].seq
    <3>1. CASE k \in DOMAIN log[j]
      <4>1. log'[j][k] = log[j][k] /\ log[j][k].seq \in Nat /\ rows \subseteq rows' /\ nextSeq' = nextSeq + 1
        BY <1>0, <1>3, <3>1, InsertRows, LogFacts
      <4>2. /\ log[j][k].seq < nextSeq
            /\ (\E x \in rows : x.inst = j /\ x.seq = log[j][k].seq) \/ log[j][k].seq <= floors[j].seq
        BY <3>1 DEF FloorsSound
      <4> QED BY <1>0, <2>1, <4>1, <4>2
    <3>2. CASE k \notin DOMAIN log[j]
      <4>1. j = i /\ log'[j][k].seq = nextSeq /\ (\E x \in rows' : x.inst = i /\ x.seq = nextSeq) /\ nextSeq' = nextSeq + 1
        BY <1>3, <3>2, InsertRows
      <4> QED BY <1>0, <4>1
    <3> QED BY <3>1, <3>2
  <2> QED BY <1>1, <2>2, <2>3, <2>4 DEF FloorsSound
<1>4. ASSUME NEW i \in Insts, Prune(i) PROVE FloorsSound'
  <2> DEFINE gone == Expired(i)
             f == Raised(floors, gone, i)
  <2>1. /\ rows' = rows \ gone /\ gone \in SUBSET rows /\ floors' = Forgotten(f)
        /\ log' = log /\ nextSeq' = nextSeq
    BY <1>4, PruneFacts DEF Prune
  <2>2. /\ f \in [Insts -> [seq : Nat, at : Nat]]
        /\ \A j \in Insts : /\ floors[j].seq <= f[j].seq
                            /\ \A x \in gone : x.inst = j => x.seq <= f[j].seq
                            /\ f[j].seq = floors[j].seq \/ \E x \in gone : f[j].seq = x.seq
    BY <1>0, <2>1, RaisedFacts
  <2> HIDE DEF gone, f
  <2>3. floors' = f
    <3>1. \A j \in Insts : ~(f[j].at + FloorLife < now)
      <4>1. \A j \in Insts : f[j].at \in Nat
        BY <2>2
      <4>2. FloorLife \in Nat /\ MaxTime \in Nat /\ MaxTime <= FloorLife /\ now <= MaxTime
        BY ObservationAssumption DEF FloorsLast, FloorsSound
      <4> QED BY <1>0, <4>1, <4>2
    <3>2. Forgotten(f) = [j \in Insts |-> f[j]]
      BY <3>1 DEF Forgotten
    <3> QED BY <2>1, <2>2, <3>2
  <2>4. \A x \in rows' : x.seq < nextSeq'
    BY <2>1 DEF FloorsSound
  <2>5. \A j \in Insts : floors'[j].seq < nextSeq'
    BY <2>1, <2>2, <2>3 DEF FloorsSound
  <2>6. ASSUME NEW j \in Insts, NEW k \in DOMAIN log[j]
        PROVE  (\E x \in rows' : x.inst = j /\ x.seq = log[j][k].seq) \/ log[j][k].seq <= floors'[j].seq
    <3>1. log[j][k].seq \in Nat /\ floors[j].seq \in Nat /\ floors'[j].seq \in Nat /\ floors[j].seq <= floors'[j].seq
      <4>1. f[j].seq \in Nat /\ floors[j].seq \in Nat
        BY <1>0, <2>2
      <4> QED BY <1>0, <2>2, <2>3, <2>6, <4>1, LogFacts
    <3>2. CASE log[j][k].seq <= floors[j].seq
      BY <3>1, <3>2
    <3>3. ASSUME NEW x \in rows, x.inst = j, x.seq = log[j][k].seq
          PROVE  (\E y \in rows' : y.inst = j /\ y.seq = log[j][k].seq) \/ log[j][k].seq <= floors'[j].seq
      <4>1. CASE x \in gone
        BY <2>2, <2>3, <3>3, <4>1
      <4>2. CASE x \notin gone
        BY <2>1, <3>3, <4>2
      <4> QED BY <4>1, <4>2
    <3> QED BY <2>6, <3>2, <3>3 DEF FloorsSound
  <2>7. \A j \in Insts : \A k \in DOMAIN log[j] : log[j][k].seq < nextSeq
    BY DEF FloorsSound
  <2> QED BY <1>1, <2>1, <2>4, <2>5, <2>6, <2>7 DEF FloorsSound
<1>5. ASSUME NEW i \in Insts, \/ Start(i) \/ Stop(i) \/ Fault(i) \/ Take(i) \/ Cutoff(i) \/ Floor(i) \/ Answer(i)
                              \/ InboxRead(i) \/ InboxBatch(i) \/ Ack(i)
      PROVE  FloorsSound'
  BY <1>2, <1>5 DEF Start, Stop, Fault, Take, Cutoff, Floor, Answer, InboxRead, InboxBatch, Ack, store
<1>6. ASSUME NEW i \in Insts, NEW a \in Agents, NEW v \in Values, NEW signal \in {NoAgent, a}, Change(i, a, v, signal)
      PROVE  FloorsSound'
  BY <1>2, <1>6, ChangeRest DEF store
<1>7. ASSUME NEW i \in Insts, NEW r \in Readers, NEW c \in Commands, Requested(i, r, c) PROVE FloorsSound'
  BY <1>2, <1>7, AskRest DEF store, Requested
<1>8. CASE Outside
  BY <1>2, <1>8, OutsideFacts DEF store
<1> QED BY <1>3, <1>4, <1>5, <1>6, <1>7, <1>8, Steps


\* What a reader k was not shown was cut.
SkipOK(k, logs, gone) ==
  k.inst # NoRow => \A n \in DOMAIN logs[k.inst] :
    logs[k.inst][n].seq > k.start /\ logs[k.inst][n].seq <= k.cursor =>
      logs[k.inst][n].seq \in k.seen \/ logs[k.inst][n].seq \in gone

LEMMA SkipParts == SkippedOnlyMidPage <=> \A r \in Readers : SkipOK(client[r], log, cut)
<1>1. \A r \in Readers : Skipped(r) \subseteq cut <=> SkipOK(client[r], log, cut)
  BY DEF Skipped, SkipOK
<1> QED BY <1>1 DEF SkippedOnlyMidPage

LEMMA SkipPrimes == SkippedOnlyMidPage' <=> \A r \in Readers : SkipOK(client'[r], log', cut')
<1>1. \A r \in Readers : (Skipped(r) \subseteq cut)' <=> SkipOK(client'[r], log', cut')
  BY DEF Skipped, SkipOK
<1> QED BY <1>1 DEF SkippedOnlyMidPage

\* The part of PageInv that reading pages is about.
ReadSound == PagesSound /\ CursorsSound /\ SkippedOnlyMidPage

\* Steps that neither read nor write the log.
LEMMA ReadCalm ==
  ASSUME ReadSound, UNCHANGED <<rows, nextSeq, client, log, cut>>,
         \A i \in Insts : svc'[i].pc = "page" =>
           svc[i].pc = "page" /\ svc'[i].from = svc[i].from /\ svc'[i].cmd = svc[i].cmd
  PROVE  ReadSound'
<1>1. PagesSound'
  BY DEF ReadSound, PagesSound
<1>2. CursorsSound'
  BY DEF ReadSound, CursorsSound
<1>3. SkippedOnlyMidPage'
  BY SkipParts, SkipPrimes DEF ReadSound
<1> QED BY <1>1, <1>2, <1>3 DEF ReadSound

LEMMA ReadInsert ==
  ASSUME ObsInv, ReadSound, NEW i \in Insts, Insert(i)
  PROVE  ReadSound'
<1>0. /\ nextSeq \in Nat /\ client \in [Readers -> Clients] /\ UNCHANGED <<client, cut>> /\ nextSeq' = nextSeq + 1
      /\ rows \subseteq rows' /\ svc' = [svc EXCEPT ![i] = svc'[i]] /\ svc'[i].pc = "cutoff" /\ svc \in [Insts -> Services]
  BY ObsParts, InsertFacts, InsertRows DEF Insert, RestOK, Moves
<1>1. \A r \in Readers : client[r].cursor \in Nat /\ client[r].inst \in Insts \cup {NoRow}
  BY <1>0 DEF Clients
<1>2. CursorsSound'
  BY <1>0, <1>1 DEF CursorsSound, ReadSound
<1>3. \A j \in Insts : svc'[j].pc = "page" => j # i /\ svc'[j] = svc[j]
  BY <1>0
<1>4. \A j \in Insts \ {i} : \A n \in DOMAIN log'[j] : n \in DOMAIN log[j] /\ log'[j][n] = log[j][n]
  BY InsertRows
<1>5. PagesSound'
  <2> SUFFICES ASSUME NEW j \in Insts, svc'[j].pc = "page"
               PROVE  LET k == client[svc[j].cmd.reader] IN
                      /\ svc[j].from < nextSeq'
                      /\ k.inst = NoRow \/ (k.inst = j /\ k.cursor = svc[j].from)
                      /\ \A n \in DOMAIN log'[j] : log'[j][n].seq > svc[j].from =>
                           (\E x \in rows' : x.inst = j /\ x.seq = log'[j][n].seq) \/ log'[j][n].seq \in cut
    BY <1>0, <1>3 DEF PagesSound
  <2>1. svc[j].pc = "page" /\ j # i /\ svc[j].from \in Nat
    BY <1>3, EventsFacts
  <2> QED BY <1>0, <1>4, <2>1 DEF ReadSound, PagesSound
<1>6. ASSUME NEW r \in Readers PROVE SkipOK(client[r], log', cut)
  <2>1. SkipOK(client[r], log, cut) /\ client[r].cursor < nextSeq
    BY SkipParts DEF ReadSound, CursorsSound
  <2> DEFINE k == client[r]
  <2> SUFFICES ASSUME k.inst # NoRow, NEW n \in DOMAIN log'[k.inst], log'[k.inst][n].seq > k.start, log'[k.inst][n].seq <= k.cursor
               PROVE  log'[k.inst][n].seq \in k.seen \/ log'[k.inst][n].seq \in cut
    BY DEF SkipOK
  <2>2. k.inst \in Insts /\ k.cursor \in Nat
    BY <1>1
  <2>3. CASE n \in DOMAIN log[k.inst]
    <3>1. log'[k.inst][n] = log[k.inst][n]
      BY <2>2, <2>3, InsertRows
    <3> QED BY <2>1, <2>3, <3>1 DEF SkipOK
  <2>4. CASE n \notin DOMAIN log[k.inst]
    <3>1. log'[k.inst][n].seq = nextSeq
      BY <2>2, <2>4, InsertRows
    <3> QED BY <1>0, <2>1, <2>2, <3>1
  <2> QED BY <2>3, <2>4
<1>7. SkippedOnlyMidPage'
  BY <1>0, <1>6, SkipPrimes
<1> QED BY <1>2, <1>5, <1>7 DEF ReadSound

\* Whoever deletes rows under a page that another worker has begun cuts them.
LEMMA ReadPrune ==
  ASSUME ObsInv, ReadSound, NEW i \in Insts, Prune(i)
  PROVE  ReadSound'
<1> DEFINE gone == Expired(i)
<1>0. /\ rows' = rows \ gone /\ gone \in SUBSET rows /\ UNCHANGED <<client, log, nextSeq>>
      /\ cut' = cut \cup {x.seq : x \in {y \in gone : \E j \in Insts \ {i} :
                                           svc[j].pc = "page" /\ y.inst = j /\ y.seq > svc[j].from}}
      /\ svc' = [svc EXCEPT ![i] = svc'[i]] /\ svc \in [Insts -> Services]
  BY ObsParts, PruneFacts, PruneMoves DEF Prune, Moves
<1>1. svc'[i].pc # "page"
  <2> DEFINE u == svc'[i]
             s == svc[i]
  <2>1. Pruned(u, s) /\ (s.cmd # NoCmd => s.cmd.kind \in {"observe", "events", "inbox", "ack"})
    BY PruneMoves, ObsParts, ServiceFields, CommandFacts
  <2> HIDE DEF u, s
  <2>2. u.pc # "page"
    BY <2>1 DEF Pruned, Proceeds
  <2> QED BY <2>2 DEF u
<1> HIDE DEF gone
<1>2. \A j \in Insts : svc'[j].pc = "page" => j # i /\ svc'[j] = svc[j]
  BY <1>0, <1>1
<1>3. CursorsSound'
  BY <1>0 DEF CursorsSound, ReadSound
<1>4. PagesSound'
  <2> SUFFICES ASSUME NEW j \in Insts, svc'[j].pc = "page"
               PROVE  LET k == client[svc[j].cmd.reader] IN
                      /\ svc[j].from < nextSeq
                      /\ k.inst = NoRow \/ (k.inst = j /\ k.cursor = svc[j].from)
                      /\ \A n \in DOMAIN log[j] : log[j][n].seq > svc[j].from =>
                           (\E x \in rows' : x.inst = j /\ x.seq = log[j][n].seq) \/ log[j][n].seq \in cut'
    BY <1>0, <1>2 DEF PagesSound
  <2>1. svc[j].pc = "page" /\ j # i
    BY <1>2
  <2>2. ASSUME NEW n \in DOMAIN log[j], log[j][n].seq > svc[j].from
        PROVE  (\E x \in rows' : x.inst = j /\ x.seq = log[j][n].seq) \/ log[j][n].seq \in cut'
    <3>1. CASE log[j][n].seq \in cut
      BY <1>0, <3>1
    <3>2. ASSUME NEW x \in rows, x.inst = j, x.seq = log[j][n].seq
          PROVE  (\E y \in rows' : y.inst = j /\ y.seq = log[j][n].seq) \/ log[j][n].seq \in cut'
      <4>1. CASE x \in gone
        BY <1>0, <2>1, <2>2, <3>2, <4>1
      <4>2. CASE x \notin gone
        BY <1>0, <3>2, <4>2
      <4> QED BY <4>1, <4>2
    <3> QED BY <2>1, <2>2, <3>1, <3>2 DEF ReadSound, PagesSound
  <2> QED BY <2>1, <2>2 DEF ReadSound, PagesSound
<1>5. ASSUME NEW r \in Readers PROVE SkipOK(client[r], log, cut')
  <2>1. SkipOK(client[r], log, cut)
    BY SkipParts DEF ReadSound
  <2>2. cut \subseteq cut'
    BY <1>0
  <2> QED BY <2>1, <2>2 DEF SkipOK
<1>6. SkippedOnlyMidPage'
  BY <1>0, <1>5, SkipPrimes
<1> QED BY <1>3, <1>4, <1>6 DEF ReadSound


\* Two workers never answer one reader.
LEMMA ReadersApart ==
  ASSUME ObsInv, OneAsk, NEW i \in Insts, NEW j \in Insts, svc[i].pc \in {"floor", "page"}, svc[j].pc \in {"floor", "page"},
         svc[i].cmd.reader = svc[j].cmd.reader
  PROVE  i = j
<1>1. \A k \in {i, j} : svc[k].cmd \in Commands /\ svc[k].cmd.kind = "events" /\ svc[k].cmd.reader \in Readers
  BY EventsFacts
<1>2. \A k \in {i, j} : 0 \in 0..Len(svc[k].queue)
  <2>1. \A k \in {i, j} : svc[k].queue \in Seq(Commands)
    BY ObsParts, ServiceFields
  <2>2. \A k \in {i, j} : Len(svc[k].queue) \in Nat
    BY <2>1, LenProperties
  <2> QED BY <2>2
<1>3. AsksOf(svc[i], 0, svc[i].cmd.reader) /\ AsksOf(svc[j], 0, svc[i].cmd.reader)
  BY <1>1, CommandFacts DEF AsksOf
<1> QED BY <1>1, <1>2, <1>3, OneAskParts

\* A step of the worker of i that ends no page but its own.
LEMMA ReadOthers ==
  ASSUME ObsInv, OneAsk, ReadSound, NEW i \in Insts, svc[i].pc \in {"floor", "page"}, Moves(i, svc'[i]),
         UNCHANGED <<rows, nextSeq, log, cut>>,
         client' = [client EXCEPT ![svc[i].cmd.reader] = client'[svc[i].cmd.reader]], svc'[i].pc # "page"
  PROVE  PagesSound'
<1>1. svc' = [svc EXCEPT ![i] = svc'[i]] /\ svc \in [Insts -> Services] /\ client \in [Readers -> Clients]
  BY ObsParts DEF Moves, RestOK
<1>2. \A j \in Insts : svc'[j].pc = "page" => j # i /\ svc'[j] = svc[j]
  BY <1>1
<1>3. ASSUME NEW j \in Insts, svc'[j].pc = "page" PROVE client'[svc[j].cmd.reader] = client[svc[j].cmd.reader]
  <2>1. svc[j].pc = "page" /\ j # i
    BY <1>2, <1>3
  <2>2. svc[j].cmd.reader \in Readers /\ svc[j].cmd.reader # svc[i].cmd.reader
    BY <2>1, EventsFacts, ReadersApart
  <2> QED BY <1>1, <2>2
<1> QED BY <1>2, <1>3 DEF ReadSound, PagesSound

LEMMA ReadFloor ==
  ASSUME ObsInv, OneAsk, FloorsSound, ReadSound, NEW i \in Insts, Floor(i)
  PROVE  ReadSound'
<1> DEFINE s == svc[i]
           u == svc'[i]
           r == s.cmd.reader
           k == client[r]
<1>0. /\ Moves(i, u) /\ s.pc = "floor" /\ FloorTaken(i, u, s) /\ UNCHANGED <<rows, nextSeq, floors, log, cut>>
      /\ r \in Readers /\ k \in Clients /\ client \in [Readers -> Clients] /\ svc \in [Insts -> Services]
      /\ floors[i].seq \in Nat /\ nextSeq \in Nat
  BY FloorFacts, EventsFacts, ObsParts DEF Floor, store, RestOK
<1>1. k.cursor \in Nat /\ \A p \in Readers : client[p].cursor \in Nat
  BY <1>0 DEF Clients
<1>2. CASE /\ k.inst = NoRow \/ Accepts(i, k)
           /\ u.pc = "page" /\ Same(u, s) /\ u.from = (IF k.inst = NoRow THEN floors[i].seq ELSE k.cursor)
           /\ UNCHANGED client
  <2>1. u.cmd = s.cmd /\ floors[i].seq <= u.from /\ u.from \in Nat /\ u.from < nextSeq
        /\ (k.inst = NoRow \/ (k.inst = i /\ k.cursor = u.from))
    BY <1>0, <1>1, <1>2 DEF Same, Accepts, FloorsSound, ReadSound, CursorsSound
  <2>2. \A n \in DOMAIN log[i] : log[i][n].seq > u.from => \E x \in rows : x.inst = i /\ x.seq = log[i][n].seq
    <3> SUFFICES ASSUME NEW n \in DOMAIN log[i], log[i][n].seq > u.from
                 PROVE  \E x \in rows : x.inst = i /\ x.seq = log[i][n].seq
      OBVIOUS
    <3>1. log[i][n].seq \in Nat
      BY ObsParts, LogFacts
    <3>2. ~(log[i][n].seq <= floors[i].seq)
      BY <1>0, <2>1, <3>1
    <3> QED BY <3>2 DEF FloorsSound
  <2>3. \A j \in Insts \ {i} : svc'[j] = svc[j]
    BY <1>0 DEF Moves
  <2>4. PagesSound'
    <3> SUFFICES ASSUME NEW j \in Insts, svc'[j].pc = "page"
                 PROVE  LET d == client[svc'[j].cmd.reader] IN
                        /\ svc'[j].from < nextSeq
                        /\ d.inst = NoRow \/ (d.inst = j /\ d.cursor = svc'[j].from)
                        /\ \A n \in DOMAIN log[j] : log[j][n].seq > svc'[j].from =>
                             (\E x \in rows : x.inst = j /\ x.seq = log[j][n].seq) \/ log[j][n].seq \in cut
      BY <1>0, <1>2 DEF PagesSound
    <3>1. CASE j = i
      BY <2>1, <2>2, <3>1
    <3>2. CASE j # i
      BY <2>3, <3>2 DEF ReadSound, PagesSound
    <3> QED BY <3>1, <3>2
  <2>5. CursorsSound'
    BY <1>0, <1>2 DEF ReadSound, CursorsSound
  <2>6. SkippedOnlyMidPage'
    BY <1>0, <1>2, SkipParts, SkipPrimes DEF ReadSound
  <2> QED BY <2>4, <2>5, <2>6 DEF ReadSound
<1>3. CASE Resets(u, s) /\ client' = [client EXCEPT ![r] = Fresh]
  <2>1. client'[r] = Fresh /\ \A p \in Readers \ {r} : client'[p] = client[p]
    BY <1>0, <1>3
  <2>2. PagesSound'
    <3>1. client' = [client EXCEPT ![r] = client'[r]]
      BY <1>3, <2>1
    <3>2. u.pc # "page"
      BY <1>3 DEF Resets
    <3> QED BY <1>0, <3>1, <3>2, ReadOthers
  <2>3. CursorsSound'
    <3>1. \A p \in Readers : client[p].cursor < nextSeq
      BY DEF ReadSound, CursorsSound
    <3>2. 0 < nextSeq
      BY <1>0, <1>1, <3>1
    <3> QED BY <1>0, <2>1, <3>1, <3>2, FreshFacts DEF CursorsSound
  <2>4. SkippedOnlyMidPage'
    <3>1. \A p \in Readers : SkipOK(client[p], log, cut)
      BY SkipParts DEF ReadSound
    <3>2. SkipOK(Fresh, log, cut)
      BY FreshFacts DEF SkipOK
    <3>3. \A p \in Readers : SkipOK(client'[p], log', cut')
      BY <1>0, <2>1, <3>1, <3>2
    <3> QED BY <3>3, SkipPrimes
  <2> QED BY <2>2, <2>3, <2>4 DEF ReadSound
<1> QED BY <1>0, <1>2, <1>3 DEF FloorTaken

\* A page has no holes: what comes before one of its rows is on it.
LEMMA PageDown ==
  ASSUME RestOK, NEW i \in Insts, NEW y \in Page(i), NEW x \in rows, x.inst = i, svc[i].from \in Nat, x.seq > svc[i].from,
         x.seq <= y.seq
  PROVE  x \in Page(i)
<1> DEFINE upto(n) == {z \in rows : z.inst = i /\ z.seq > svc[i].from /\ z.seq <= n}
<1>1. y \in rows /\ Cardinality(upto(y.seq)) <= PageLimit /\ PageLimit \in Nat
  BY ObservationAssumption DEF Page
<1>2. upto(x.seq) \subseteq upto(y.seq) /\ IsFiniteSet(upto(y.seq))
  <2>1. x.seq \in Nat /\ y.seq \in Nat /\ \A z \in rows : z.seq \in Nat
    BY <1>1, RowFacts
  <2>2. IsFiniteSet(rows) /\ upto(y.seq) \in SUBSET rows
    BY DEF RestOK
  <2> QED BY <2>1, <2>2, FS_Subset
<1>3. /\ Cardinality(upto(x.seq)) <= Cardinality(upto(y.seq))
      /\ Cardinality(upto(x.seq)) \in Nat /\ Cardinality(upto(y.seq)) \in Nat
  <2> HIDE DEF upto
  <2> QED BY <1>2, FS_Subset, FS_CardinalityType
<1>4. Cardinality(upto(x.seq)) <= PageLimit
  <2> HIDE DEF upto
  <2> QED BY <1>1, <1>3
<1> QED BY <1>4 DEF Page

LEMMA ReadAnswer ==
  ASSUME ObsInv, OneAsk, FloorsSound, ReadSound, NEW i \in Insts, Answer(i)
  PROVE  ReadSound'
<1> DEFINE s == svc[i]
           u == svc'[i]
           r == s.cmd.reader
           k == client[r]
           c == client'[r]
<1>0. /\ Moves(i, u) /\ s.pc = "page" /\ Resets(u, s) /\ Answered(i) /\ UNCHANGED <<rows, nextSeq, floors, log, cut>>
      /\ r \in Readers /\ k \in Clients /\ client \in [Readers -> Clients] /\ svc \in [Insts -> Services]
      /\ s.from \in Nat /\ nextSeq \in Nat /\ RestOK
  BY AnswerFacts, EventsFacts, ObsParts DEF Answer, store, RestOK
<1>1. client' = [client EXCEPT ![r] = c] /\ c \in Clients /\ \A p \in Readers \ {r} : client'[p] = client[p]
  BY <1>0 DEF Answered
<1>2. k.cursor \in Nat /\ k.inst \in Insts \cup {NoRow} /\ c.cursor \in Nat /\ \A p \in Readers : client[p].cursor \in Nat
  BY <1>0, <1>1 DEF Clients
<1>3. PagesSound'
  <2>1. u.pc # "page"
    BY <1>0 DEF Resets
  <2> QED BY <1>0, <1>1, <2>1, ReadOthers
<1>4. \/ c = Fresh
      \/ /\ c.inst = (IF k.inst = NoRow THEN i ELSE k.inst)
         /\ c.start = (IF k.inst = NoRow THEN s.from ELSE k.start)
         /\ c.seen = (IF k.inst = NoRow THEN {} ELSE k.seen) \cup {x.seq : x \in Page(i)}
         /\ c.cursor = s.from \/ \E x \in Page(i) : c.cursor = x.seq
  BY <1>0 DEF Answered
<1>5. /\ s.from < nextSeq
      /\ k.inst = NoRow \/ (k.inst = i /\ k.cursor = s.from)
      /\ \A n \in DOMAIN log[i] : log[i][n].seq > s.from =>
           (\E x \in rows : x.inst = i /\ x.seq = log[i][n].seq) \/ log[i][n].seq \in cut
  BY <1>0 DEF ReadSound, PagesSound
<1>6. CursorsSound'
  <2>1. \A p \in Readers : client[p].cursor < nextSeq
    BY DEF ReadSound, CursorsSound
  <2>2. c.cursor < nextSeq
    <3>1. \A x \in Page(i) : x.seq < nextSeq
      BY DEF Page, FloorsSound
    <3>2. 0 < nextSeq
      BY <1>0, <1>2, <2>1
    <3>3. s.from < nextSeq
      BY <1>0 DEF ReadSound, PagesSound
    <3> QED BY <1>4, <3>1, <3>2, <3>3, FreshFacts
  <2> QED BY <1>0, <1>1, <2>1, <2>2 DEF CursorsSound
<1>7. SkipOK(c, log, cut)
  <2>1. CASE c = Fresh
    BY <2>1, FreshFacts DEF SkipOK
  <2>2. CASE c # Fresh
    <3>1. c.inst = i
      BY <1>4, <1>5, <2>2
    <3> SUFFICES ASSUME NEW n \in DOMAIN log[i], log[i][n].seq > c.start, log[i][n].seq <= c.cursor
                 PROVE  log[i][n].seq \in c.seen \/ log[i][n].seq \in cut
      BY <3>1 DEF SkipOK
    <3> DEFINE m == log[i][n].seq
    <3>2. m \in Nat
      BY <1>0, LogFacts
    <3>3. CASE m > s.from
      <4>1. PICK y \in Page(i) : c.cursor = y.seq
        BY <1>0, <1>4, <2>2, <3>2, <3>3
      <4>2. CASE m \in cut
        BY <4>2
      <4>3. ASSUME NEW x \in rows, x.inst = i, x.seq = m PROVE m \in c.seen
        <5>1. x \in Page(i)
          BY <1>0, <3>3, <4>1, <4>3, PageDown
        <5> QED BY <1>4, <2>2, <4>3, <5>1
      <4> QED BY <1>5, <3>3, <4>2, <4>3
    <3>4. CASE ~(m > s.from)
      <4>1. k.inst = i /\ k.cursor = s.from /\ c.start = k.start /\ k.seen \subseteq c.seen
        <5>1. k.inst # NoRow
          BY <1>0, <1>4, <2>2, <3>2, <3>4
        <5> QED BY <1>4, <1>5, <2>2, <5>1
      <4>2. k.inst # NoRow /\ m <= k.cursor /\ m > k.start
        BY <1>0, <3>2, <3>4, <4>1, ObservationAssumption
      <4>3. SkipOK(k, log, cut)
        BY <1>0, SkipParts DEF ReadSound
      <4> QED BY <4>1, <4>2, <4>3 DEF SkipOK
    <3> QED BY <3>3, <3>4
  <2> QED BY <2>1, <2>2
<1>8. SkippedOnlyMidPage'
  <2>1. \A p \in Readers : SkipOK(client[p], log, cut)
    BY SkipParts DEF ReadSound
  <2>2. \A p \in Readers : SkipOK(client'[p], log', cut')
    BY <1>0, <1>1, <1>7, <2>1
  <2> QED BY <2>2, SkipPrimes
<1> QED BY <1>3, <1>6, <1>8 DEF ReadSound


LEMMA ReadStep ==
  ASSUME ObsInv, OneAsk, FloorsSound, ReadSound, [Next]_vars
  PROVE  ReadSound'
<1>0. svc \in [Insts -> Services]
  BY ObsParts
<1>1. CASE Outside
  <2>1. UNCHANGED <<rows, nextSeq, client, log, cut, svc>>
    BY <1>1, OutsideFacts DEF store
  <2> QED BY <2>1, ReadCalm
<1>2. ASSUME NEW i \in Insts, Moves(i, svc'[i]), UNCHANGED <<rows, nextSeq, client, log, cut>>,
             svc'[i].pc = "page" => svc[i].pc = "page" /\ svc'[i].from = svc[i].from /\ svc'[i].cmd = svc[i].cmd
      PROVE  ReadSound'
  <2>1. \A j \in Insts \ {i} : svc'[j] = svc[j]
    BY <1>0, <1>2 DEF Moves
  <2> QED BY <1>2, <2>1, ReadCalm
<1>3. ASSUME NEW i \in Insts, \/ Start(i) \/ Stop(i) \/ Take(i) \/ Fault(i) \/ Cutoff(i) \/ InboxRead(i) \/ InboxBatch(i) \/ Ack(i)
      PROVE  ReadSound'
  <2>1. UNCHANGED <<rows, nextSeq, client, log, cut>>
    BY <1>3 DEF Start, Stop, Take, Fault, Cutoff, InboxRead, InboxBatch, Ack, store
  <2>2. Moves(i, svc'[i])
    BY <1>3, StartFacts, StopFacts, TakeFacts, FaultFacts, CutoffFacts, InboxReadFacts, InboxBatchFacts, AckFacts
  <2>3. svc'[i].pc # "page"
    <3>1. CASE Take(i)
      <4>1. PICK c \in Commands, todo \in Seq(Events) : Taken(svc[i], svc'[i], c, todo)
        BY <3>1, TakeFacts
      <4>2. c.kind \in {"observe", "events", "inbox", "ack"}
        BY CommandFacts
      <4> DEFINE u == svc'[i]
                 s == svc[i]
      <4>3. Taken(s, u, c, todo) /\ (s.ok \in BOOLEAN)
        BY <1>0, <4>1, ServiceFields
      <4> HIDE DEF u, s
      <4>4. u.pc # "page"
        BY <4>2, <4>3 DEF Taken
      <4> QED BY <4>4 DEF u
    <3>2. CASE Start(i) \/ Stop(i) \/ Fault(i)
      BY <3>2, StartFacts, StopFacts, FaultFacts DEF Failed
    <3>3. CASE Cutoff(i) \/ InboxRead(i) \/ InboxBatch(i) \/ Ack(i)
      BY <3>3, CutoffFacts, InboxReadFacts, InboxBatchFacts, AckFacts DEF Resets, Drafted
    <3> QED BY <1>3, <3>1, <3>2, <3>3
  <2> QED BY <1>2, <2>1, <2>2, <2>3
<1>4. ASSUME NEW i \in Insts, Insert(i) \/ Prune(i) \/ Floor(i) \/ Answer(i) PROVE ReadSound'
  BY <1>4, ReadInsert, ReadPrune, ReadFloor, ReadAnswer
<1>5. ASSUME NEW i \in Insts, NEW a \in Agents, NEW v \in Values, NEW signal \in {NoAgent, a}, Change(i, a, v, signal)
      PROVE  ReadSound'
  <2>1. Moves(i, svc'[i]) /\ svc'[i].pc = svc[i].pc /\ svc'[i].from = svc[i].from /\ svc'[i].cmd = svc[i].cmd
    BY <1>5, ChangeFacts
  <2>2. UNCHANGED <<rows, nextSeq, client, log, cut>>
    BY <1>5, ChangeRest DEF store
  <2> QED BY <1>2, <2>1, <2>2
<1>6. ASSUME NEW i \in Insts, NEW r \in Readers, NEW c \in Commands, Requested(i, r, c) PROVE ReadSound'
  <2>1. Moves(i, svc'[i]) /\ svc'[i].pc = svc[i].pc /\ svc'[i].from = svc[i].from /\ svc'[i].cmd = svc[i].cmd
    BY <1>6, AskFacts DEF Requested
  <2>2. UNCHANGED <<rows, nextSeq, client, log, cut>>
    BY <1>6, AskRest DEF store, Requested
  <2> QED BY <1>2, <2>1, <2>2
<1> QED BY <1>1, <1>3, <1>4, <1>5, <1>6, Steps

LEMMA PageInit ==
  ASSUME FloorsLast, Init
  PROVE  OneAsk /\ FloorsSound /\ ReadSound
<1>1. \A i \in Insts : svc[i].pc = "off" /\ svc[i].cmd = NoCmd /\ Len(svc[i].queue) = 0
  BY OffFacts DEF Init
<1>2. \A i \in Insts : log[i] = <<>> /\ DOMAIN log[i] = {}
  BY DEF Init
<1>3. rows = {} /\ nextSeq = 1 /\ now = 0 /\ \A i \in Insts : floors[i].seq = 0
  BY DEF Init
<1>4. \A r \in Readers : client[r].inst = NoRow /\ client[r].cursor = 0
  BY FreshFacts DEF Init
<1>5. OneAsk
  <2>1. \A i \in Insts, r \in Readers : \A p \in 0..Len(svc[i].queue) : ~AsksOf(svc[i], p, r)
    <3> SUFFICES ASSUME NEW i \in Insts, NEW r \in Readers, NEW p \in 0..Len(svc[i].queue) PROVE ~AsksOf(svc[i], p, r)
      OBVIOUS
    <3>1. p = 0
      BY <1>1
    <3> QED BY <1>1, <3>1 DEF AsksOf
  <2> QED BY <2>1, OneAskParts
<1>6. FloorsSound
  BY <1>2, <1>3 DEF FloorsSound, FloorsLast
<1>7. ReadSound
  <2>1. PagesSound /\ CursorsSound
    BY <1>1, <1>3, <1>4 DEF PagesSound, CursorsSound
  <2>2. SkippedOnlyMidPage
    BY <1>4, SkipParts DEF SkipOK
  <2> QED BY <2>1, <2>2 DEF ReadSound
<1> QED BY <1>5, <1>6, <1>7

LEMMA PageParts == PageInv <=> OneAsk /\ FloorsSound /\ ReadSound
BY DEF PageInv, ReadSound

\* The only events a reader may miss are those another process pruned between the reads
\* of floor and rows of one page (Store::events is not a transaction), as long as no
\* floor is deleted for its age.
THEOREM PagesSkipOnlyWhatIsCut ==
  ASSUME FloorsLast
  PROVE  Spec => []SkippedOnlyMidPage
<1>1. Init => ObsInv /\ PageInv
  BY ObsInit, PageInit, PageParts
<1>2. ObsInv /\ PageInv /\ [Next]_vars => (ObsInv /\ PageInv)'
  BY ObsStep, OneAskStep, FloorsStep, ReadStep, PageParts DEF PageInv, ReadSound
<1>3. PageInv => SkippedOnlyMidPage
  BY DEF PageInv
<1> QED BY <1>1, <1>2, <1>3, PTL DEF Spec
=============================================================================
