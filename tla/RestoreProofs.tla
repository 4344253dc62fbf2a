---------------------------- MODULE RestoreProofs ----------------------------
(***************************************************************************)
(* Proofs about RestoreQueue, for any number of tabs, conversations,       *)
(* starts and restarts.                                                    *)
(***************************************************************************)
EXTENDS RestoreQueue, FiniteSetTheorems, WellFoundedInduction, TLAPS

-----------------------------------------------------------------------------
(* What the operations of a tab change *)

\* What neither starting nor cancelling a command touches.
Keeps(v, w) ==
  /\ v.open = w.open /\ v.boot = w.boot /\ v.agent = w.agent /\ v.keyOk = w.keyOk /\ v.typed = w.typed
  /\ v.stalled = w.stalled /\ v.managed = w.managed

LEMMA WriteFacts ==
  ASSUME NEW w \in TabRecords
  PROVE  /\ Write(w) \in TabRecords /\ Keeps(Write(w), w) /\ Write(w).cmd \in {"written", "parked"}
         /\ Write(w).stash = w.stash /\ Write(w).settle = w.settle /\ Write(w).start = w.start
<1> DEFINE no == FALSE
<1>1. no \in BOOLEAN
  OBVIOUS
<1>2. CASE w.editor
  <2>1. Write(w) = [w EXCEPT !.cmd = "written", !.editor = no]
    BY <1>2 DEF Write
  <2> HIDE DEF no
  <2>2. Write(w) \in TabRecords
    BY <1>1, <2>1 DEF TabRecords, Commands
  <2>3. Keeps(Write(w), w)
    BY <2>1 DEF TabRecords, Keeps
  <2>4. Write(w).cmd = "written"
    BY <2>1 DEF TabRecords
  <2>5. Write(w).stash = w.stash /\ Write(w).settle = w.settle /\ Write(w).start = w.start
    BY <2>1 DEF TabRecords
  <2> QED BY <2>2, <2>3, <2>4, <2>5
<1>3. CASE ~w.editor
  <2>1. Write(w) = [w EXCEPT !.cmd = "parked"]
    BY <1>3 DEF Write
  <2> QED BY <2>1 DEF TabRecords, Commands, Keeps
<1> QED BY <1>2, <1>3

LEMMA RunFacts ==
  ASSUME NEW w \in TabRecords
  PROVE  /\ RunPending(w) \in TabRecords /\ Keeps(RunPending(w), w)
         /\ RunPending(w).cmd \in {"written", "parked", "none"}
         /\ RunPending(w).stash = w.stash /\ RunPending(w).settle = w.settle /\ RunPending(w).start = w.start
<1>1. CASE w.boot = "known"
  BY <1>1, WriteFacts DEF RunPending
<1>2. CASE w.boot # "known"
  <2>1. RunPending(w) = [w EXCEPT !.cmd = "none"]
    BY <1>2 DEF RunPending
  <2> QED BY <2>1 DEF TabRecords, Commands, Keeps
<1> QED BY <1>1, <1>2

LEMMA ReleaseFacts ==
  ASSUME NEW w \in TabRecords
  PROVE  /\ Release(w) \in TabRecords /\ Keeps(Release(w), w)
         /\ Release(w).stash = w.stash /\ Release(w).settle = w.settle /\ Release(w).start = w.start
         /\ w.cmd # "held" => Release(w) = w
         /\ w.cmd = "held" => Release(w).cmd \in {"written", "parked", "released", "none"}
<1>1. CASE w.cmd # "held"
  BY <1>1 DEF Release, Keeps
<1>2. CASE w.cmd = "held" /\ w.boot # "no"
  BY <1>2, RunFacts DEF Release
<1>3. CASE w.cmd = "held" /\ w.boot = "no"
  <2>1. Release(w) = [w EXCEPT !.cmd = "released"]
    BY <1>3 DEF Release
  <2> QED BY <1>3, <2>1 DEF TabRecords, Commands, Keeps
<1> QED BY <1>1, <1>2, <1>3

LEMMA RetryFacts ==
  ASSUME NEW w \in TabRecords, w.stash
  PROVE  /\ Retry(w) \in TabRecords /\ Keeps(Retry(w), w) /\ Retry(w).start = w.start
         /\ ~Retry(w).stash /\ Retry(w).settle
         /\ Retry(w).cmd = IF w.cmd = "stalled" THEN "none" ELSE w.cmd
<1> DEFINE no == FALSE
           yes == TRUE
<1>1. no \in BOOLEAN /\ yes \in BOOLEAN /\ ~no /\ yes
  OBVIOUS
<1>2. Retry(w) = [w EXCEPT !.stash = no, !.settle = yes, !.cmd = IF w.cmd = "stalled" THEN "none" ELSE w.cmd]
  BY DEF Retry
<1> HIDE DEF no, yes
<1>3. Retry(w) \in TabRecords
  BY <1>1, <1>2 DEF TabRecords, Commands
<1>4. Keeps(Retry(w), w)
  BY <1>2 DEF TabRecords, Keeps
<1>5. /\ Retry(w).cmd = IF w.cmd = "stalled" THEN "none" ELSE w.cmd
      /\ Retry(w).start = w.start
  BY <1>2 DEF TabRecords
<1>6. Retry(w).stash = no /\ Retry(w).settle = yes
  BY <1>2 DEF TabRecords
<1> QED BY <1>1, <1>3, <1>4, <1>5, <1>6

\* release_deferred_agent
LEMMA StartedFacts ==
  ASSUME NEW w \in TabRecords, w.start = "retry" => w.stash
  PROVE  /\ Started(w) \in TabRecords /\ Keeps(Started(w), w) /\ Started(w).start = "none"
         /\ w.start = "first" =>
              /\ Started(w).stash = w.stash /\ Started(w).settle = w.settle
              /\ w.cmd # "held" => Started(w).cmd = w.cmd
              /\ w.cmd = "held" => Started(w).cmd \in {"written", "parked", "released", "none"}
         /\ w.start = "retry" =>
              /\ ~Started(w).stash /\ Started(w).settle
              /\ Started(w).cmd = IF w.cmd = "stalled" THEN "none" ELSE w.cmd
<1> DEFINE v == [w EXCEPT !.start = "none"]
<1>1. /\ v \in TabRecords /\ Keeps(v, w) /\ v.start = "none" /\ v.stash = w.stash /\ v.settle = w.settle
      /\ v.cmd = w.cmd
  BY DEF TabRecords, Keeps
<1>2. Started(w) = IF w.start = "first" THEN Release(v) ELSE Retry(v)
  BY DEF Started
<1> HIDE DEF v
<1>3. CASE w.start = "first"
  BY <1>1, <1>2, <1>3, ReleaseFacts DEF Keeps
<1>4. CASE w.start # "first" /\ w.stash
  BY <1>1, <1>2, <1>4, RetryFacts DEF Keeps
<1>5. CASE w.start # "first" /\ ~w.stash
  <2>1. Started(w) = v /\ w.start # "retry"
    BY <1>1, <1>2, <1>5 DEF Retry
  <2> QED BY <1>1, <1>5, <2>1
<1> QED BY <1>3, <1>4, <1>5

LEMMA CancelFacts ==
  ASSUME NEW w \in TabRecords
  PROVE  /\ Cancel(w) \in TabRecords /\ Keeps(Cancel(w), w) /\ ~Waiting(Cancel(w))
         /\ Cancel(w).stash = w.stash /\ Cancel(w).settle = w.settle /\ Cancel(w).start = w.start
         /\ Cancel(w).cmd = IF Waiting(w) THEN "none" ELSE w.cmd
<1>1. CASE Waiting(w)
  <2>1. Cancel(w) = [w EXCEPT !.cmd = "none"]
    BY <1>1 DEF Cancel
  <2> QED BY <1>1, <2>1 DEF TabRecords, Commands, Keeps, Waiting
<1>2. CASE ~Waiting(w)
  BY <1>2 DEF Cancel, Keeps
<1> QED BY <1>1, <1>2


-----------------------------------------------------------------------------
(* What a tick makes of an entry and its tab *)

LEMMA StateNames ==
  /\ "queued" \in States /\ "starting" \in States /\ "restored" \in States /\ "closed" \in States
  /\ Attention \subseteq States /\ {"queued", "starting", "restored", "closed"} \cap Attention = {}
  /\ "paused" \in Attention /\ "didNotStart" \in Attention /\ "stopped" \in Attention /\ "timedOut" \in Attention
  /\ "couldNotStart" \in Attention /\ "continueFailed" \in Attention /\ "duplicate" \in Attention
BY DEF States, Attention

\* The verdict on a starting entry.
LEMMA VerdictFacts ==
  ASSUME NEW e \in Entries, NEW w \in TabRecords
  PROVE  /\ Verdict(e, w) \in {"restored", "didNotStart", "stopped", "paused", "timedOut", "starting"}
         /\ Verdict(e, w) = "restored" <=> Ready(w)
         /\ Verdict(e, w) = "didNotStart" => w.stalled
         /\ Verdict(e, w) = "starting" =>
              ~w.stalled /\ w.keyOk /\ ~e.slow /\ ~(w.typed /\ e.cancel /\ Waiting(w))
<1>1. CASE Ready(w)
  BY <1>1 DEF Verdict
<1>2. CASE ~Ready(w) /\ w.stalled
  <2>1. Verdict(e, w) = "didNotStart"
    BY <1>2 DEF Verdict
  <2> QED BY <1>2, <2>1
<1>3. CASE ~Ready(w) /\ ~w.stalled /\ ~w.keyOk
  <2>1. Verdict(e, w) = "stopped"
    BY <1>3 DEF Verdict
  <2> QED BY <1>3, <2>1
<1>4. CASE ~Ready(w) /\ ~w.stalled /\ w.keyOk
  <2>1. Verdict(e, w) = IF w.typed /\ e.cancel /\ Waiting(w) THEN "paused" ELSE IF e.slow THEN "timedOut" ELSE "starting"
    BY <1>4 DEF Verdict
  <2> QED BY <1>4, <2>1
<1> QED BY <1>1, <1>2, <1>3, <1>4

LEMMA CheckedFacts ==
  ASSUME NEW e \in Entries, NEW w \in TabRecords
  PROVE  /\ Checked(e, w) \in States
         /\ Checked(e, w) = "closed" => ~w.open \/ e.st = "closed"
         /\ Checked(e, w) # "closed" => w.open
         /\ Checked(e, w) = "restored" => e.st = "restored" \/ Ready(w)
         /\ Checked(e, w) = "queued" => e.st = "queued"
         /\ Checked(e, w) = "duplicate" => e.st = "duplicate"
         /\ Checked(e, w) = "didNotStart" => e.st = "didNotStart" \/ w.stalled
         /\ Checked(e, w) = "starting" =>
              /\ e.st = "starting" /\ ~Ready(w) /\ ~w.stalled /\ w.keyOk /\ ~e.slow
              /\ ~(w.typed /\ e.cancel /\ Waiting(w))
         /\ e.st # "starting" => Checked(e, w) \in {e.st, "closed", "restored"}
         /\ w.open /\ e.st \in {"queued", "restored", "closed"} => Checked(e, w) = e.st
         /\ w.open /\ e.st = "duplicate" /\ ~Ready(w) => Checked(e, w) = "duplicate"
<1>0. e.st \in States
  BY DEF Entries
<1>1. CASE ~w.open
  <2>1. Checked(e, w) = "closed"
    BY <1>1 DEF Checked
  <2> QED BY <1>1, <2>1, StateNames
<1>2. CASE w.open /\ e.st = "starting"
  <2>1. Checked(e, w) = Verdict(e, w)
    BY <1>2, StateNames DEF Checked
  <2> QED BY <1>2, <2>1, VerdictFacts, StateNames
<1>3. CASE w.open /\ e.st \in Attention \ {"continueFailed"} /\ Ready(w)
  <2>1. Checked(e, w) = "restored"
    BY <1>3, StateNames DEF Checked
  <2> QED BY <1>3, <2>1, StateNames
<1>4. CASE w.open /\ e.st # "starting" /\ ~(e.st \in Attention \ {"continueFailed"} /\ Ready(w))
  <2>1. Checked(e, w) = e.st
    BY <1>4 DEF Checked
  <2> QED BY <1>0, <1>4, <2>1, StateNames
<1> QED BY <1>1, <1>2, <1>3, <1>4

\* The turn of an entry was continued, or is given up.
Done(e, w, seen) == Step(e, w, seen) \in {"finished", "giveUp"} \/ (Step(e, w, seen) = "send" /\ seen = "free")

LEMMA StepFacts ==
  ASSUME NEW e \in Entries, NEW w \in TabRecords, NEW seen
  PROVE  /\ Step(e, w, seen) # "none" => Continues(e, w)
         /\ Step(e, w, seen) = "send" => ~w.typed
<1>1. "finished" # "none" /\ "send" # "none" /\ "giveUp" # "none" /\ "wait" # "none"
  OBVIOUS
<1> QED BY <1>1 DEF Step, ContinueStep

\* The first loop.
LEMMA EntryChecked ==
  ASSUME NEW e \in Entries, NEW w \in TabRecords, NEW seen
  PROVE  LET d == CheckedEntry(e, w, seen)
             k == Checked(e, w)
         IN  /\ d \in Entries /\ d.retrying = e.retrying /\ d.slow = e.slow
             /\ d.st = k \/ (d.st = "continueFailed" /\ k = "restored")
             /\ d.cancel <=> e.cancel /\ KeepsCancel(e, w)
             /\ d.pending <=> e.pending /\ w.open /\ ~Done(e, w, seen)
<1> DEFINE st == IF Step(e, w, seen) = "giveUp" THEN "continueFailed" ELSE Checked(e, w)
           cancel == e.cancel /\ KeepsCancel(e, w)
           pending == e.pending /\ w.open /\ ~Done(e, w, seen)
           wait == IF Continues(e, w) /\ e.wait = "unset" THEN "fresh" ELSE e.wait
<1>1. CheckedEntry(e, w, seen) = [e EXCEPT !.st = st, !.cancel = cancel, !.pending = pending, !.wait = wait]
  BY DEF CheckedEntry, Done
<1>2. st \in States /\ (st = Checked(e, w) \/ (st = "continueFailed" /\ Checked(e, w) = "restored"))
  BY CheckedFacts, StepFacts, StateNames DEF Continues
<1>3. cancel \in BOOLEAN /\ pending \in BOOLEAN
  BY DEF Entries
<1>4. wait \in Waits
  BY DEF Entries, Waits
<1> HIDE DEF st, cancel, pending, wait
<1>5. CheckedEntry(e, w, seen) \in Entries
  BY <1>1, <1>2, <1>3, <1>4 DEF Entries
<1>6. CheckedEntry(e, w, seen).retrying = e.retrying /\ CheckedEntry(e, w, seen).slow = e.slow
  BY <1>1 DEF Entries
<1>7. CheckedEntry(e, w, seen).st = st
  BY <1>1 DEF Entries
<1>8. CheckedEntry(e, w, seen).cancel = cancel /\ CheckedEntry(e, w, seen).pending = pending
  BY <1>1 DEF Entries
<1> QED BY <1>2, <1>5, <1>6, <1>7, <1>8 DEF cancel, pending


LEMMA TabChecked ==
  ASSUME NEW e \in Entries, NEW w \in TabRecords
  PROVE  LET v == CheckedTab(e, w)
         IN  /\ v \in TabRecords /\ Keeps(v, w) /\ v.stash = w.stash /\ v.settle = w.settle /\ v.start = w.start
             /\ v.cmd = IF CheckCancels(e, w) /\ Waiting(w) THEN "none" ELSE w.cmd
<1>1. CASE CheckCancels(e, w)
  BY <1>1, CancelFacts DEF CheckedTab
<1>2. CASE ~CheckCancels(e, w)
  BY <1>2 DEF CheckedTab, Keeps
<1> QED BY <1>1, <1>2

\* The four ways in which the second loop leaves an entry d and its tab v.
Passed(d, v, e, w) == e = d /\ w = v

Pauses(d, v, e, w) ==
  /\ d.st = "queued" /\ Paused(d, v)
  /\ e = [d EXCEPT !.st = "paused", !.cancel = FALSE] /\ w = IF d.cancel THEN Cancel(v) ELSE v

Starts(d, v, e, w) ==
  /\ d.st = "queued" /\ ~Paused(d, v) /\ v.start # "none"
  /\ e = [d EXCEPT !.st = "starting", !.slow = FALSE] /\ w = Started(v)

Fails(d, v, e, w) ==
  /\ d.st = "queued" /\ v.start = "none" /\ e = [d EXCEPT !.st = "couldNotStart"] /\ w = v

LEMMA PausesFacts ==
  ASSUME NEW d \in Entries, NEW v \in TabRecords, NEW e, NEW w, Pauses(d, v, e, w)
  PROVE  /\ e \in Entries /\ w \in TabRecords /\ e.st = "paused" /\ ~e.cancel
         /\ e.retrying = d.retrying /\ e.pending = d.pending
         /\ Keeps(w, v) /\ w.stash = v.stash /\ w.settle = v.settle /\ w.start = v.start
         /\ w.cmd = IF d.cancel /\ Waiting(v) THEN "none" ELSE v.cmd
<1> DEFINE no == FALSE
<1>1. no \in BOOLEAN /\ ~no
  OBVIOUS
<1>2. e = [d EXCEPT !.st = "paused", !.cancel = no]
  BY DEF Pauses
<1> HIDE DEF no
<1>3. e \in Entries
  BY <1>1, <1>2, StateNames DEF Entries
<1>4. e.st = "paused" /\ e.retrying = d.retrying /\ e.pending = d.pending
  BY <1>2 DEF Entries
<1>5. e.cancel = no
  BY <1>2 DEF Entries
<1>6. /\ w \in TabRecords /\ Keeps(w, v) /\ w.stash = v.stash /\ w.settle = v.settle /\ w.start = v.start
      /\ w.cmd = IF d.cancel /\ Waiting(v) THEN "none" ELSE v.cmd
  <2>1. CASE d.cancel
    BY <2>1, CancelFacts DEF Pauses
  <2>2. CASE ~d.cancel
    BY <2>2 DEF Pauses, Keeps
  <2> QED BY <2>1, <2>2
<1> QED BY <1>1, <1>3, <1>4, <1>5, <1>6

LEMMA StartsFacts ==
  ASSUME NEW d \in Entries, NEW v \in TabRecords, NEW e, NEW w, Starts(d, v, e, w)
  PROVE  /\ e \in Entries /\ e.st = "starting" /\ e.cancel = d.cancel
         /\ e.retrying = d.retrying /\ e.pending = d.pending /\ w = Started(v)
<1> DEFINE no == FALSE
<1>1. no \in BOOLEAN
  OBVIOUS
<1>2. e = [d EXCEPT !.st = "starting", !.slow = no] /\ w = Started(v)
  BY DEF Starts
<1> HIDE DEF no
<1>3. e \in Entries
  BY <1>1, <1>2, StateNames DEF Entries
<1>4. e.st = "starting" /\ e.cancel = d.cancel /\ e.retrying = d.retrying /\ e.pending = d.pending
  BY <1>2 DEF Entries
<1> QED BY <1>2, <1>3, <1>4

LEMMA FailsFacts ==
  ASSUME NEW d \in Entries, NEW v \in TabRecords, NEW e, NEW w, Fails(d, v, e, w)
  PROVE  /\ e \in Entries /\ e.st = "couldNotStart" /\ e.cancel = d.cancel
         /\ e.retrying = d.retrying /\ e.pending = d.pending /\ w = v
<1>1. e = [d EXCEPT !.st = "couldNotStart"] /\ w = v
  BY DEF Fails
<1>2. e \in Entries
  BY <1>1, StateNames DEF Entries
<1>3. e.st = "couldNotStart" /\ e.cancel = d.cancel /\ e.retrying = d.retrying /\ e.pending = d.pending
  BY <1>1 DEF Entries
<1> QED BY <1>1, <1>2, <1>3

LEMMA SecondLoop ==
  ASSUME NEW es, NEW ws, NEW t
  PROVE  \/ Passed(es[t], ws[t], StartedEntry(es, ws, t), StartedTab(es, ws, t))
         \/ Pauses(es[t], ws[t], StartedEntry(es, ws, t), StartedTab(es, ws, t))
         \/ Starts(es[t], ws[t], StartedEntry(es, ws, t), StartedTab(es, ws, t))
         \/ Fails(es[t], ws[t], StartedEntry(es, ws, t), StartedTab(es, ws, t))
<1> DEFINE r == Reached(es, ws, t)
           p == Paused(es[t], ws[t])
           s == WillStart(es, ws, t)
<1>1. r => es[t].st = "queued"
  BY DEF Reached
<1>2. s <=> es[t].st = "queued" /\ ~p /\ ws[t].start # "none"
  BY DEF WillStart
<1>3. /\ StartedEntry(es, ws, t) = CASE ~r -> es[t]
                                     [] r /\ p -> [es[t] EXCEPT !.st = "paused", !.cancel = FALSE]
                                     [] r /\ s -> [es[t] EXCEPT !.st = "starting", !.slow = FALSE]
                                     [] OTHER -> [es[t] EXCEPT !.st = "couldNotStart"]
      /\ StartedTab(es, ws, t) = CASE ~r -> ws[t]
                                   [] r /\ p -> IF es[t].cancel THEN Cancel(ws[t]) ELSE ws[t]
                                   [] r /\ s -> Started(ws[t])
                                   [] OTHER -> ws[t]
  BY DEF StartedEntry, StartedTab
<1> HIDE DEF r, p, s
<1>4. CASE ~r
  BY <1>3, <1>4 DEF Passed
<1>5. CASE r /\ p
  <2>1. ~s
    BY <1>2, <1>5
  <2>2. StartedEntry(es, ws, t) = [es[t] EXCEPT !.st = "paused", !.cancel = FALSE]
    BY <1>3, <1>5, <2>1
  <2>3. StartedTab(es, ws, t) = IF es[t].cancel THEN Cancel(ws[t]) ELSE ws[t]
    BY <1>3, <1>5, <2>1
  <2> QED BY <1>1, <1>5, <2>2, <2>3 DEF Pauses, p
<1>6. CASE r /\ ~p /\ s
  <2>1. StartedEntry(es, ws, t) = [es[t] EXCEPT !.st = "starting", !.slow = FALSE] /\ StartedTab(es, ws, t) = Started(ws[t])
    BY <1>3, <1>6
  <2> QED BY <1>2, <1>6, <2>1 DEF Starts, p
<1>7. CASE r /\ ~p /\ ~s
  <2>1. StartedEntry(es, ws, t) = [es[t] EXCEPT !.st = "couldNotStart"] /\ StartedTab(es, ws, t) = ws[t]
    BY <1>3, <1>7
  <2> QED BY <1>1, <1>2, <1>7, <2>1 DEF Fails
<1> QED BY <1>4, <1>5, <1>6, <1>7


-----------------------------------------------------------------------------
(* StartInv, for one tab w and its entry e *)

TabSound(w) ==
  /\ ~w.open => w.cmd = "none" /\ w.agent = "none" /\ ~w.settle
  /\ w.stash => w.cmd \in {"stalled", "none"} /\ ~w.settle
  /\ w.settle => w.cmd = "none"
  /\ w.stalled => w.stash
  /\ w.start = "retry" => w.stash /\ ~w.stalled

EntrySound(e, w) ==
  /\ e.st = "closed" => ~w.open
  /\ e.st = "restored" => ~e.cancel
  /\ w.open /\ e.st = "duplicate" => w.cmd = "held" /\ w.agent = "none"
  /\ w.open /\ e.st = "didNotStart" => w.stash
  /\ w.open /\ e.retrying /\ e.st = "queued" => w.stash /\ w.start = "retry"
  /\ w.open /\ ~e.retrying =>
       /\ ~w.settle /\ w.start # "retry"
       /\ w.agent # "none" => w.cmd = "none"
       /\ ~e.cancel \/ e.st \in Attention \ {"duplicate"} => ~Waiting(w)
       /\ e.st = "queued" => w.start = "first" /\ w.cmd = "held" /\ w.agent = "none"

LEMMA SoundParts ==
  /\ TabsSound <=> \A t \in Tabs : (tab[t].managed <=> t \in Managed) /\ TabSound(tab[t])
  /\ EntriesSound <=> \A t \in Managed : EntrySound(entry[t], tab[t])
BY DEF TabsSound, EntriesSound, TabSound, EntrySound

\* The first loop keeps both.
LEMMA FirstSound ==
  ASSUME NEW e \in Entries, NEW w \in TabRecords, TabSound(w), EntrySound(e, w), NEW seen
  PROVE  TabSound(CheckedTab(e, w)) /\ EntrySound(CheckedEntry(e, w, seen), CheckedTab(e, w))
<1> DEFINE d == CheckedEntry(e, w, seen)
           v == CheckedTab(e, w)
           k == Checked(e, w)
<1>1. /\ d \in Entries /\ d.retrying = e.retrying
      /\ d.st = k \/ (d.st = "continueFailed" /\ k = "restored")
      /\ d.cancel <=> e.cancel /\ KeepsCancel(e, w)
  BY EntryChecked
<1>2. /\ v \in TabRecords /\ Keeps(v, w) /\ v.stash = w.stash /\ v.settle = w.settle /\ v.start = w.start
      /\ v.cmd = IF CheckCancels(e, w) /\ Waiting(w) THEN "none" ELSE w.cmd
  BY TabChecked
<1>3. KeepsCancel(e, w) <=> (e.st = "starting" => k = "starting" /\ ~w.typed) /\ k # "restored"
  BY DEF KeepsCancel
<1>4. CheckCancels(e, w) <=> e.st = "starting" /\ e.cancel /\ k \in Attention
  BY DEF CheckCancels
<1>5. Ready(w) => w.agent # "none"
  BY DEF Ready
<1>6. /\ k = "closed" => ~w.open \/ e.st = "closed"
      /\ k = "restored" => e.st = "restored" \/ Ready(w)
      /\ k = "queued" => e.st = "queued"
      /\ k = "duplicate" => e.st = "duplicate"
      /\ k = "didNotStart" => e.st = "didNotStart" \/ w.stalled
      /\ k = "starting" => e.st = "starting" /\ ~(w.typed /\ e.cancel /\ Waiting(w))
      /\ e.st # "starting" => k \in {e.st, "closed", "restored"}
      /\ k \in States
  BY CheckedFacts
<1>7. /\ v.open = w.open /\ v.agent = w.agent /\ v.stalled = w.stalled
  BY <1>2 DEF Keeps
<1>8. w.cmd \in Commands /\ (Waiting(w) <=> w.cmd \in {"held", "released", "parked"}) /\ (Waiting(v) <=> v.cmd \in {"held", "released", "parked"})
  BY DEF TabRecords, Waiting
<1> HIDE DEF d, v, k
<1>9. TabSound(v)
  BY <1>2, <1>7, <1>8 DEF TabSound
<1>10. d.st = "closed" => ~v.open
  BY <1>1, <1>6, <1>7 DEF EntrySound
<1>11. d.st = "restored" => ~d.cancel
  BY <1>1, <1>3
<1>12. v.open /\ d.st = "duplicate" => v.cmd = "held" /\ v.agent = "none"
  BY <1>1, <1>2, <1>4, <1>6, <1>7, StateNames DEF EntrySound
<1>13. v.open /\ d.st = "didNotStart" => v.stash
  BY <1>1, <1>2, <1>6, <1>7 DEF EntrySound, TabSound
<1>14. v.open /\ d.retrying /\ d.st = "queued" => v.stash /\ v.start = "retry"
  BY <1>1, <1>2, <1>6, <1>7 DEF EntrySound
<1>15. ASSUME v.open, ~d.retrying
       PROVE  /\ ~v.settle /\ v.start # "retry"
              /\ v.agent # "none" => v.cmd = "none"
              /\ ~d.cancel \/ d.st \in Attention \ {"duplicate"} => ~Waiting(v)
              /\ d.st = "queued" => v.start = "first" /\ v.cmd = "held" /\ v.agent = "none"
  <2>0. w.open /\ ~e.retrying
    BY <1>1, <1>7, <1>15
  <2>1. /\ ~w.settle /\ w.start # "retry"
        /\ w.agent # "none" => w.cmd = "none"
        /\ ~e.cancel \/ e.st \in Attention \ {"duplicate"} => ~Waiting(w)
        /\ e.st = "queued" => w.start = "first" /\ w.cmd = "held" /\ w.agent = "none"
    BY <2>0 DEF EntrySound
  <2>2. ASSUME ~d.cancel \/ d.st \in Attention \ {"duplicate"} PROVE ~Waiting(v)
    <3>1. CASE ~Waiting(w)
      BY <1>2, <1>8, <3>1
    <3>2. CASE Waiting(w)
      <4>1. e.cancel /\ e.st \notin Attention \ {"duplicate"} /\ ~Ready(w)
        BY <1>5, <1>8, <2>1, <3>2
      <4>2. e.st # "restored"
        BY <4>1 DEF EntrySound
      <4>3. k # "restored"
        BY <1>6, <4>1, <4>2
      <4>4. d.st = k
        BY <1>1, <4>3
      <4>5. CASE e.st = "starting"
        <5>1. k # "closed" /\ k \notin {"queued", "duplicate"}
          BY <1>6, <2>0, <4>5
        <5>2. k # "starting" => k \in Attention
          BY <1>6, <4>3, <5>1 DEF States
        <5>3. k # "starting"
          BY <1>1, <1>3, <1>6, <2>2, <3>2, <4>1, <4>3, <4>4, <4>5, StateNames
        <5>4. CheckCancels(e, w)
          BY <1>4, <4>1, <4>5, <5>2, <5>3
        <5> QED BY <1>2, <1>8, <3>2, <5>4
      <4>6. CASE e.st # "starting"
        <5>1. KeepsCancel(e, w) /\ d.cancel
          BY <1>1, <1>3, <4>1, <4>3, <4>6
        <5>2. k \in {e.st, "closed"}
          BY <1>6, <4>3, <4>6
        <5> QED BY <2>2, <4>1, <4>4, <5>1, <5>2, StateNames
      <4> QED BY <4>5, <4>6
    <3> QED BY <3>1, <3>2
  <2>3. d.st = "queued" => v.start = "first" /\ v.cmd = "held" /\ v.agent = "none"
    <3> SUFFICES ASSUME d.st = "queued" PROVE v.start = "first" /\ v.cmd = "held" /\ v.agent = "none"
      OBVIOUS
    <3>1. k = "queued" /\ e.st = "queued" /\ ~CheckCancels(e, w)
      BY <1>1, <1>4, <1>6
    <3> QED BY <1>2, <1>7, <2>1, <3>1
  <2> QED BY <1>2, <1>7, <2>1, <2>2, <2>3
<1> QED BY <1>9, <1>10, <1>11, <1>12, <1>13, <1>14, <1>15 DEF EntrySound, d, v


\* So does the second.
LEMMA SecondSound ==
  ASSUME NEW d \in Entries, NEW v \in TabRecords, TabSound(v), EntrySound(d, v), d.st = "queued" => v.open,
         NEW e, NEW w,
         Passed(d, v, e, w) \/ Pauses(d, v, e, w) \/ Starts(d, v, e, w) \/ Fails(d, v, e, w)
  PROVE  /\ e \in Entries /\ w \in TabRecords /\ TabSound(w) /\ EntrySound(e, w)
         /\ Keeps(w, v) /\ e.pending = d.pending
<1>0. v.cmd \in Commands /\ d.retrying \in BOOLEAN /\ d.cancel \in BOOLEAN
  BY DEF TabRecords, Entries
<1>1. CASE Passed(d, v, e, w)
  BY <1>1 DEF Passed, Keeps
<1>2. CASE Pauses(d, v, e, w)
  <2>1. /\ e \in Entries /\ w \in TabRecords /\ e.st = "paused" /\ ~e.cancel
        /\ e.retrying = d.retrying /\ e.pending = d.pending
        /\ Keeps(w, v) /\ w.stash = v.stash /\ w.settle = v.settle /\ w.start = v.start
        /\ w.cmd = IF d.cancel /\ Waiting(v) THEN "none" ELSE v.cmd
    BY <1>2, PausesFacts
  <2>2. w.open = v.open /\ w.agent = v.agent /\ w.stalled = v.stalled
    BY <2>1 DEF Keeps
  <2>3. TabSound(w)
    BY <1>0, <2>1, <2>2 DEF TabSound, Waiting
  <2>4. EntrySound(e, w)
    BY <1>0, <2>1, <2>2, StateNames DEF EntrySound, Waiting
  <2> QED BY <2>1, <2>3, <2>4
<1>3. CASE Starts(d, v, e, w)
  <2>0. d.st = "queued" /\ v.start # "none"
    BY <1>3 DEF Starts
  <2>1. /\ e \in Entries /\ e.st = "starting" /\ e.cancel = d.cancel
        /\ e.retrying = d.retrying /\ e.pending = d.pending /\ w = Started(v)
    BY <1>3, StartsFacts
  <2>2. v.start = "retry" => v.stash
    BY DEF TabSound
  <2>3. /\ w \in TabRecords /\ Keeps(w, v) /\ w.start = "none"
        /\ v.start = "first" =>
             /\ w.stash = v.stash /\ w.settle = v.settle
             /\ v.cmd # "held" => w.cmd = v.cmd
             /\ v.cmd = "held" => w.cmd \in {"written", "parked", "released", "none"}
        /\ v.start = "retry" =>
             /\ ~w.stash /\ w.settle /\ w.cmd = IF v.cmd = "stalled" THEN "none" ELSE v.cmd
    BY <2>1, <2>2, StartedFacts
  <2>4. w.open = v.open /\ w.agent = v.agent /\ w.stalled = v.stalled /\ v.start \in {"first", "retry"}
    BY <2>0, <2>3 DEF Keeps, TabRecords
  <2>5. v.open
    BY <2>0
  <2>6. /\ v.stash => v.cmd \in {"stalled", "none"} /\ ~v.settle
        /\ v.settle => v.cmd = "none"
        /\ v.stalled => v.stash
        /\ v.start = "retry" => v.stash /\ ~v.stalled
    BY DEF TabSound
  <2>7. TabSound(w)
    <3>1. CASE v.start = "first"
      BY <2>3, <2>4, <2>5, <2>6, <3>1 DEF TabSound
    <3>2. CASE v.start = "retry"
      BY <2>3, <2>4, <2>5, <2>6, <3>2 DEF TabSound
    <3> QED BY <2>4, <3>1, <3>2
  <2>8. EntrySound(e, w)
    <3>1. CASE d.retrying
      BY <2>1, <3>1, StateNames DEF EntrySound
    <3>2. CASE ~d.retrying
      <4>1. /\ ~v.settle /\ v.start = "first" /\ v.cmd = "held" /\ v.agent = "none" /\ d.cancel
        BY <2>0, <2>5, <3>2 DEF EntrySound, Waiting
      <4> QED BY <2>1, <2>3, <2>4, <3>2, <4>1, StateNames DEF EntrySound
    <3> QED BY <3>1, <3>2
  <2> QED BY <2>1, <2>3, <2>7, <2>8
<1>4. CASE Fails(d, v, e, w)
  <2>1. /\ e \in Entries /\ e.st = "couldNotStart" /\ e.cancel = d.cancel
        /\ e.retrying = d.retrying /\ e.pending = d.pending /\ w = v
    BY <1>4, FailsFacts
  <2>2. d.st = "queued" /\ v.start = "none"
    BY <1>4 DEF Fails
  <2>3. EntrySound(e, w)
    BY <1>0, <2>1, <2>2, StateNames DEF EntrySound, Waiting
  <2> QED BY <2>1, <2>3 DEF Keeps
<1> QED BY <1>1, <1>2, <1>3, <1>4


\* The entries and the tabs after the first loop.
FirstEntries(seen) == [t \in Tabs |-> IF t \in Managed THEN CheckedEntry(entry[t], tab[t], seen[t]) ELSE NoEntry]

FirstTabs == [t \in Tabs |-> IF t \in Managed THEN CheckedTab(entry[t], tab[t]) ELSE tab[t]]

Told(seen) == {t \in Managed : Step(entry[t], tab[t], seen[t]) = "send" /\ seen[t] = "free"}

TickBy(seen) ==
  /\ entry' = [t \in Tabs |-> IF t \in Managed THEN StartedEntry(FirstEntries(seen), FirstTabs, t) ELSE NoEntry]
  /\ tab' = [t \in Tabs |-> IF t \in Managed THEN StartedTab(FirstEntries(seen), FirstTabs, t) ELSE tab[t]]
  /\ sent' = [t \in Tabs |-> IF t \in Told(seen) THEN sent[t] + 1 ELSE sent[t]]
  /\ owed' = owed \ {t \in Managed : Done(entry[t], tab[t], seen[t])}
  /\ UNCHANGED <<file, stale, recorded, key, clean, restarts, faults>>

LEMMA TickForm ==
  ASSUME Tick
  PROVE  /\ \E seen \in Seen : TickBy(seen)
         /\ ticks > 0 /\ \E notice \in BOOLEAN : ticks' = ticks - 1 + (IF Unfinished(entry') \/ notice THEN 1 ELSE 0)
<1>1. PICK seen \in Seen :
        LET es   == FirstEntries(seen)
            ws   == FirstTabs
            told == Told(seen)
        IN  /\ entry' = [t \in Tabs |-> IF t \in Managed THEN StartedEntry(es, ws, t) ELSE NoEntry]
            /\ tab' = [t \in Tabs |-> IF t \in Managed THEN StartedTab(es, ws, t) ELSE tab[t]]
            /\ sent' = [t \in Tabs |-> IF t \in told THEN sent[t] + 1 ELSE sent[t]]
            /\ owed' = owed \ {t \in Managed : Step(entry[t], tab[t], seen[t]) \in {"finished", "giveUp"}
                                               \/ t \in told}
            /\ \E notice \in BOOLEAN :
                 ticks' = ticks - 1 + (IF Unfinished(entry') \/ notice THEN 1 ELSE 0)
  BY DEF Tick, FirstEntries, FirstTabs, Told
<1>2. {t \in Managed : Step(entry[t], tab[t], seen[t]) \in {"finished", "giveUp"} \/ t \in Told(seen)}
        = {t \in Managed : Done(entry[t], tab[t], seen[t])}
  BY DEF Done, Told
<1>3. TickBy(seen)
  BY <1>1, <1>2 DEF TickBy, Tick
<1> QED BY <1>1, <1>3 DEF Tick

\* What a tick does to one tab of the queue.
LEMMA TickOf ==
  ASSUME StartInv, NEW seen \in Seen, TickBy(seen), NEW t \in Managed
  PROVE  LET d == CheckedEntry(entry[t], tab[t], seen[t])
             v == CheckedTab(entry[t], tab[t])
         IN  /\ t \in Tabs /\ entry[t] \in Entries /\ tab[t] \in TabRecords /\ d \in Entries /\ v \in TabRecords
             /\ FirstEntries(seen)[t] = d /\ FirstTabs[t] = v
             /\ entry'[t] = StartedEntry(FirstEntries(seen), FirstTabs, t)
             /\ tab'[t] = StartedTab(FirstEntries(seen), FirstTabs, t)
             /\ Passed(d, v, entry'[t], tab'[t]) \/ Pauses(d, v, entry'[t], tab'[t])
                  \/ Starts(d, v, entry'[t], tab'[t]) \/ Fails(d, v, entry'[t], tab'[t])
             /\ entry'[t] \in Entries /\ tab'[t] \in TabRecords /\ entry'[t].pending = d.pending
             /\ Keeps(tab'[t], tab[t]) /\ TabSound(tab'[t]) /\ EntrySound(entry'[t], tab'[t])
<1> DEFINE d == CheckedEntry(entry[t], tab[t], seen[t])
           v == CheckedTab(entry[t], tab[t])
<1>1. t \in Tabs /\ entry[t] \in Entries /\ tab[t] \in TabRecords
  BY DEF StartInv, TypeOK, Managed
<1>2. FirstEntries(seen)[t] = d /\ FirstTabs[t] = v
  BY <1>1 DEF FirstEntries, FirstTabs
<1>3. /\ entry'[t] = StartedEntry(FirstEntries(seen), FirstTabs, t)
      /\ tab'[t] = StartedTab(FirstEntries(seen), FirstTabs, t)
  BY <1>1 DEF TickBy
<1>4. \/ Passed(d, v, entry'[t], tab'[t]) \/ Pauses(d, v, entry'[t], tab'[t])
      \/ Starts(d, v, entry'[t], tab'[t]) \/ Fails(d, v, entry'[t], tab'[t])
  BY <1>2, <1>3, SecondLoop
<1>5. d \in Entries /\ v \in TabRecords /\ Keeps(v, tab[t])
  BY <1>1, EntryChecked, TabChecked
<1>6. TabSound(tab[t]) /\ EntrySound(entry[t], tab[t])
  BY <1>1, SoundParts DEF StartInv
<1>7. TabSound(v) /\ EntrySound(d, v)
  BY <1>1, <1>6, FirstSound
<1>8. d.st = "queued" => v.open
  <2>1. d.st = "queued" => Checked(entry[t], tab[t]) = "queued"
    BY <1>1, EntryChecked
  <2>2. Checked(entry[t], tab[t]) = "queued" => tab[t].open
    BY <1>1, CheckedFacts
  <2> QED BY <1>5, <2>1, <2>2 DEF Keeps
<1> HIDE DEF d, v
<1>9. /\ entry'[t] \in Entries /\ tab'[t] \in TabRecords /\ TabSound(tab'[t]) /\ EntrySound(entry'[t], tab'[t])
      /\ Keeps(tab'[t], v) /\ entry'[t].pending = d.pending
  BY <1>4, <1>5, <1>7, <1>8, SecondSound
<1>10. Keeps(tab'[t], tab[t])
  BY <1>5, <1>9 DEF Keeps
<1> QED BY <1>1, <1>2, <1>3, <1>4, <1>5, <1>9, <1>10 DEF d, v


-----------------------------------------------------------------------------
(* StartInv is inductive *)

LEMMA PartsOf ==
  ASSUME StartInv
  PROVE  /\ TypeOK
         /\ \A t \in Tabs : /\ (tab[t].managed <=> t \in Managed) /\ TabSound(tab[t]) /\ tab[t] \in TabRecords
                            /\ entry[t] \in Entries \cup {NoEntry}
         /\ \A t \in Managed : t \in Tabs /\ EntrySound(entry[t], tab[t]) /\ entry[t] \in Entries
BY SoundParts DEF StartInv, TypeOK, Managed

LEMMA TickManaged ==
  ASSUME StartInv, NEW seen \in Seen, TickBy(seen)
  PROVE  Managed' = Managed
<1>1. \A t \in Managed : entry'[t] \in Entries
  BY TickOf
<1>2. \A t \in Tabs \ Managed : entry'[t] = NoEntry
  BY DEF TickBy
<1> QED BY <1>1, <1>2, RestoreAssumption DEF Managed

LEMMA TickInv ==
  ASSUME StartInv, Tick
  PROVE  StartInv'
<1>1. PICK seen \in Seen : TickBy(seen)
  BY TickForm
<1>2. Managed' = Managed
  BY <1>1, TickManaged
<1>3. \A t \in Managed : /\ t \in Tabs /\ entry'[t] \in Entries /\ tab'[t] \in TabRecords
                         /\ tab'[t].managed = tab[t].managed /\ TabSound(tab'[t]) /\ EntrySound(entry'[t], tab'[t])
  BY <1>1, TickOf DEF Keeps
<1>4. \A t \in Tabs \ Managed : entry'[t] = NoEntry /\ tab'[t] = tab[t]
  BY <1>1 DEF TickBy
<1>5. tab' = [t \in Tabs |-> tab'[t]] /\ entry' = [t \in Tabs |-> entry'[t]]
  BY <1>1 DEF TickBy
<1>6. \A t \in Tabs : tab'[t] \in TabRecords /\ entry'[t] \in Entries \cup {NoEntry}
  BY <1>3, <1>4, PartsOf
<1>7. tab' \in [Tabs -> TabRecords] /\ entry' \in [Tabs -> Entries \cup {NoEntry}]
  BY <1>5, <1>6
<1>8. ticks' \in Nat
  BY TickForm DEF StartInv, TypeOK
<1>9. sent' \in [Tabs -> Nat] /\ owed' \in SUBSET Tabs
  BY <1>1 DEF TickBy, StartInv, TypeOK
<1>10. TypeOK'
  BY <1>1, <1>7, <1>8, <1>9 DEF TickBy, StartInv, TypeOK
<1>11. \A t \in Tabs : (tab'[t].managed <=> t \in Managed') /\ TabSound(tab'[t])
  BY <1>2, <1>3, <1>4, PartsOf
<1> QED BY <1>2, <1>3, <1>10, <1>11 DEF StartInv, TabsSound, EntriesSound, TabSound, EntrySound

\* A step of one tab that leaves the queue alone.
LEMMA TabInv ==
  ASSUME StartInv, NEW t \in Tabs, NEW w \in TabRecords, tab' = [tab EXCEPT ![t] = w],
         UNCHANGED <<entry, ticks, file, stale, recorded, key, sent, clean, restarts, faults>>, owed' \in SUBSET Tabs,
         w.managed = tab[t].managed, TabSound(w), t \in Managed => EntrySound(entry[t], w)
  PROVE  StartInv'
<1>1. Managed' = Managed
  BY DEF Managed
<1>2. TypeOK'
  BY DEF StartInv, TypeOK
<1>3. \A u \in Tabs : tab'[u] = IF u = t THEN w ELSE tab[u]
  BY DEF StartInv, TypeOK
<1>4. \A u \in Tabs : (tab'[u].managed <=> u \in Managed') /\ TabSound(tab'[u])
  BY <1>1, <1>3, PartsOf
<1>5. \A u \in Managed' : EntrySound(entry'[u], tab'[u])
  BY <1>1, <1>3, PartsOf
<1> QED BY <1>2, <1>4, <1>5 DEF StartInv, TabsSound, EntriesSound, TabSound, EntrySound


LEMMA WriteSound ==
  ASSUME NEW w \in TabRecords, w.open, TabSound(w), ~w.settle, ~w.stash
  PROVE  TabSound(Write(w))
BY WriteFacts DEF TabSound, Keeps

LEMMA StartedSound ==
  ASSUME NEW v \in TabRecords, v.open, TabSound(v), v.start # "none"
  PROVE  Started(v) \in TabRecords /\ Keeps(Started(v), v) /\ TabSound(Started(v))
<1> DEFINE w == Started(v)
<1>1. /\ v.stash => v.cmd \in {"stalled", "none"} /\ ~v.settle
      /\ v.settle => v.cmd = "none"
      /\ v.stalled => v.stash
      /\ v.start = "retry" => v.stash /\ ~v.stalled
  BY DEF TabSound
<1>2. /\ w \in TabRecords /\ Keeps(w, v) /\ w.start = "none"
      /\ v.start = "first" =>
           /\ w.stash = v.stash /\ w.settle = v.settle
           /\ v.cmd # "held" => w.cmd = v.cmd
           /\ v.cmd = "held" => w.cmd \in {"written", "parked", "released", "none"}
      /\ v.start = "retry" =>
           /\ ~w.stash /\ w.settle /\ w.cmd = IF v.cmd = "stalled" THEN "none" ELSE v.cmd
  BY <1>1, StartedFacts
<1>3. w.open = v.open /\ w.agent = v.agent /\ w.stalled = v.stalled /\ v.start \in {"first", "retry"}
  BY <1>2 DEF Keeps, TabRecords
<1> HIDE DEF w
<1>4. TabSound(w)
  <2>1. CASE v.start = "first"
    BY <1>1, <1>2, <1>3, <2>1 DEF TabSound
  <2>2. CASE v.start = "retry"
    BY <1>1, <1>2, <1>3, <2>2 DEF TabSound
  <2> QED BY <1>3, <2>1, <2>2
<1> QED BY <1>2, <1>4 DEF w

LEMMA FocusInv ==
  ASSUME StartInv, NEW t \in Tabs, Focus(t)
  PROVE  StartInv'
<1>1. /\ tab[t] \in TabRecords /\ TabSound(tab[t]) /\ (tab[t].managed <=> t \in Managed) /\ tab[t].open
      /\ tab[t].start # "none" /\ tab' = [tab EXCEPT ![t] = StartDeferred(tab[t])] /\ TypeOK
  BY PartsOf DEF Focus
<1>2. CASE tab[t].managed
  <2>1. StartDeferred(tab[t]) = tab[t]
    BY <1>2 DEF StartDeferred
  <2> QED BY <1>1, <2>1, PartsOf, TabInv DEF Focus, OnlyTab, history, TypeOK
<1>3. CASE ~tab[t].managed
  <2>1. StartDeferred(tab[t]) = Started(tab[t])
    BY <1>1, <1>3 DEF StartDeferred
  <2>2. Started(tab[t]).managed = tab[t].managed /\ Started(tab[t]) \in TabRecords /\ TabSound(Started(tab[t]))
    BY <1>1, StartedSound DEF Keeps
  <2> QED BY <1>1, <1>3, <2>1, <2>2, TabInv DEF Focus, OnlyTab, history, TypeOK
<1> QED BY <1>2, <1>3

LEMMA RunSound ==
  ASSUME NEW w \in TabRecords, w.open, TabSound(w), ~w.settle, ~w.stash
  PROVE  TabSound(RunPending(w))
BY RunFacts DEF TabSound, Keeps

LEMMA BootstrappedInv ==
  ASSUME StartInv, NEW t \in Tabs, Bootstrapped(t)
  PROVE  StartInv'
<1> DEFINE e == entry[t]
<1>0. /\ tab[t] \in TabRecords /\ TabSound(tab[t]) /\ tab[t].open /\ TypeOK
      /\ t \in Managed => EntrySound(e, tab[t]) /\ e \in Entries
      /\ UNCHANGED <<entry, ticks, file, stale, recorded, key, sent, clean, restarts, faults>> /\ owed' \in SUBSET Tabs
  BY PartsOf DEF Bootstrapped, OnlyTab, history, TypeOK
<1>1. PICK b \in {"known", "unknown"} :
        LET w == [tab[t] EXCEPT !.boot = b]
        IN  tab' = [tab EXCEPT ![t] = IF w.cmd = "released" THEN RunPending(w) ELSE w]
  BY DEF Bootstrapped
<1> DEFINE w == [tab[t] EXCEPT !.boot = b]
<1>3. /\ w \in TabRecords /\ w.cmd = tab[t].cmd /\ w.settle = tab[t].settle /\ w.stash = tab[t].stash
      /\ w.start = tab[t].start
  BY <1>0 DEF TabRecords
<1>4. w.open = tab[t].open /\ w.agent = tab[t].agent /\ w.managed = tab[t].managed /\ w.stalled = tab[t].stalled
  BY <1>0 DEF TabRecords
<1>5. tab' = [tab EXCEPT ![t] = IF w.cmd = "released" THEN RunPending(w) ELSE w]
  BY <1>1
<1> HIDE DEF w, e
<1>6. CASE w.cmd # "released"
  <2>1. TabSound(w)
    BY <1>0, <1>3, <1>4 DEF TabSound
  <2>2. t \in Managed => EntrySound(e, w)
    BY <1>0, <1>3, <1>4 DEF EntrySound, Waiting
  <2> QED BY <1>0, <1>3, <1>4, <1>5, <1>6, <2>1, <2>2, TabInv DEF e
<1>7. CASE w.cmd = "released"
  <2>1. /\ RunPending(w) \in TabRecords /\ Keeps(RunPending(w), w) /\ RunPending(w).cmd \in {"written", "parked", "none"}
        /\ RunPending(w).stash = w.stash /\ RunPending(w).settle = w.settle /\ RunPending(w).start = w.start
    BY <1>3, RunFacts
  <2>2. ~w.settle /\ ~w.stash /\ TabSound(w)
    BY <1>0, <1>3, <1>4, <1>7 DEF TabSound
  <2>3. TabSound(RunPending(w))
    BY <1>0, <1>3, <1>4, <2>2, RunSound
  <2>4. t \in Managed => EntrySound(e, RunPending(w))
    BY <1>0, <1>3, <1>4, <1>7, <2>1 DEF EntrySound, Waiting, Keeps
  <2> QED BY <1>0, <1>4, <1>5, <1>7, <2>1, <2>3, <2>4, TabInv DEF e, Keeps
<1> QED BY <1>6, <1>7


\* The facts that every step of one open tab starts from.
LEMMA TabFacts ==
  ASSUME StartInv, NEW t \in Tabs, OnlyTab
  PROVE  /\ tab[t] \in TabRecords /\ TabSound(tab[t])
         /\ t \in Managed => EntrySound(entry[t], tab[t]) /\ entry[t] \in Entries
         /\ UNCHANGED <<entry, ticks, file, stale, recorded, key, sent, clean, restarts, faults>> /\ owed' \in SUBSET Tabs
BY PartsOf DEF OnlyTab, history, TypeOK

LEMMA EditorInv ==
  ASSUME StartInv, NEW t \in Tabs, EditorOpens(t)
  PROVE  StartInv'
<1> DEFINE yes == TRUE
           w == [tab[t] EXCEPT !.editor = yes, !.cmd = IF tab[t].cmd = "stalled" THEN "none" ELSE tab[t].cmd]
<1>0. OnlyTab /\ tab[t].open /\ tab[t].agent = "none"
  BY DEF EditorOpens
<1>1. tab' = [tab EXCEPT ![t] = IF w.cmd = "parked" THEN Write(w) ELSE w]
  BY DEF EditorOpens
<1>2. yes \in BOOLEAN /\ tab[t] \in TabRecords
  BY <1>0, TabFacts
<1> HIDE DEF yes
<1>3. w \in TabRecords /\ w.cmd = IF tab[t].cmd = "stalled" THEN "none" ELSE tab[t].cmd
  BY <1>2 DEF TabRecords, Commands
<1>4. /\ w.settle = tab[t].settle /\ w.stash = tab[t].stash /\ w.stalled = tab[t].stalled
      /\ w.open = tab[t].open /\ w.managed = tab[t].managed
  BY <1>2 DEF TabRecords
<1>5. w.start = tab[t].start /\ w.agent = tab[t].agent
  BY <1>2 DEF TabRecords
<1> HIDE DEF w
<1>6. TabSound(w) /\ (t \in Managed => EntrySound(entry[t], w))
  <2>1. TabSound(w)
    BY <1>0, <1>3, <1>4, <1>5, TabFacts DEF TabSound
  <2>2. t \in Managed => EntrySound(entry[t], w)
    BY <1>0, <1>3, <1>4, <1>5, TabFacts DEF EntrySound, Waiting
  <2> QED BY <2>1, <2>2
<1>7. CASE w.cmd # "parked"
  BY <1>0, <1>1, <1>3, <1>4, <1>6, <1>7, TabFacts, TabInv
<1>8. CASE w.cmd = "parked"
  <2>1. /\ Write(w) \in TabRecords /\ Keeps(Write(w), w) /\ Write(w).cmd \in {"written", "parked"}
        /\ Write(w).stash = w.stash /\ Write(w).settle = w.settle /\ Write(w).start = w.start
    BY <1>3, WriteFacts
  <2>2. ~w.settle /\ ~w.stash
    BY <1>6, <1>8 DEF TabSound
  <2>3. TabSound(Write(w))
    BY <1>0, <1>3, <1>4, <1>6, <2>2, WriteSound
  <2>4. t \in Managed => EntrySound(entry[t], Write(w))
    BY <1>5, <1>6, <1>8, <2>1 DEF EntrySound, Waiting, Keeps
  <2> QED BY <1>0, <1>1, <1>4, <1>8, <2>1, <2>3, <2>4, TabFacts, TabInv DEF Keeps
<1> QED BY <1>7, <1>8

LEMMA PreexecInv ==
  ASSUME StartInv, NEW t \in Tabs, Preexec(t)
  PROVE  StartInv'
<1> DEFINE w == [tab[t] EXCEPT !.cmd = "none", !.agent = "loading"]
<1>0. OnlyTab /\ tab[t].open /\ tab[t].cmd \in {"written", "stalled"}
  BY DEF Preexec
<1>1. tab[t] \in TabRecords
  BY <1>0, TabFacts
<1>2. tab' = [tab EXCEPT ![t] = w]
  BY <1>1 DEF Preexec, TabRecords, StartInv, TypeOK
<1>3. w \in TabRecords /\ w.cmd = "none" /\ w.agent = "loading" /\ w.start = tab[t].start
  BY <1>1 DEF TabRecords, Commands, Agents
<1>4. /\ w.settle = tab[t].settle /\ w.stash = tab[t].stash /\ w.stalled = tab[t].stalled
      /\ w.open = tab[t].open /\ w.managed = tab[t].managed
  BY <1>1 DEF TabRecords
<1> HIDE DEF w
<1>5. TabSound(w)
  BY <1>0, <1>3, <1>4, TabFacts DEF TabSound
<1>6. t \in Managed => EntrySound(entry[t], w)
  BY <1>0, <1>3, <1>4, TabFacts DEF EntrySound, Waiting
<1> QED BY <1>0, <1>2, <1>3, <1>4, <1>5, <1>6, TabFacts, TabInv

LEMMA DidNotStartInv ==
  ASSUME StartInv, NEW t \in Tabs, DidNotStart(t)
  PROVE  StartInv'
<1> DEFINE yes == TRUE
           w == [tab[t] EXCEPT !.cmd = "stalled", !.stash = yes, !.stalled = yes]
<1>0. OnlyTab /\ tab[t].open /\ tab[t].cmd = "written"
  BY DEF DidNotStart
<1>1. tab[t] \in TabRecords /\ yes \in BOOLEAN /\ yes
  BY <1>0, TabFacts
<1>2. tab' = [tab EXCEPT ![t] = w]
  BY <1>1 DEF DidNotStart, TabRecords, StartInv, TypeOK
<1> HIDE DEF yes
<1>3. w \in TabRecords
  BY <1>1 DEF TabRecords, Commands
<1>4. w.cmd = "stalled" /\ w.agent = tab[t].agent /\ w.start = tab[t].start
  BY <1>1 DEF TabRecords
<1>5. w.settle = tab[t].settle /\ w.open = tab[t].open /\ w.managed = tab[t].managed
  BY <1>1 DEF TabRecords
<1>6. w.stash = yes /\ w.stalled = yes
  BY <1>1 DEF TabRecords
<1> HIDE DEF w
<1>7. TabSound(w)
  BY <1>0, <1>1, <1>4, <1>5, <1>6, TabFacts DEF TabSound
<1>8. t \in Managed => EntrySound(entry[t], w)
  BY <1>0, <1>1, <1>4, <1>5, <1>6, TabFacts DEF EntrySound, Waiting
<1> QED BY <1>0, <1>2, <1>3, <1>5, <1>7, <1>8, TabFacts, TabInv

LEMMA SettledInv ==
  ASSUME StartInv, NEW t \in Tabs, RetrySettled(t)
  PROVE  StartInv'
<1> DEFINE no == FALSE
           w == [tab[t] EXCEPT !.settle = no]
<1>0. OnlyTab /\ tab[t].open /\ tab[t].settle
  BY DEF RetrySettled
<1>1. tab[t] \in TabRecords /\ no \in BOOLEAN /\ ~no
  BY <1>0, TabFacts
<1>2. tab' = [tab EXCEPT ![t] = Write(w)]
  BY DEF RetrySettled
<1> HIDE DEF no
<1>3. w \in TabRecords /\ w.cmd = tab[t].cmd /\ w.agent = tab[t].agent /\ w.start = tab[t].start
  BY <1>1 DEF TabRecords
<1>4. w.settle = no
  BY <1>1 DEF TabRecords
<1>5. w.stash = tab[t].stash /\ w.stalled = tab[t].stalled /\ w.open = tab[t].open /\ w.managed = tab[t].managed
  BY <1>1 DEF TabRecords
<1> HIDE DEF w
<1>6. ~w.stash /\ TabSound(w)
  BY <1>0, <1>1, <1>3, <1>4, <1>5, TabFacts DEF TabSound
<1>7. TabSound(Write(w))
  BY <1>0, <1>1, <1>3, <1>4, <1>5, <1>6, WriteSound
<1>8. /\ Write(w) \in TabRecords /\ Keeps(Write(w), w)
      /\ Write(w).stash = w.stash /\ Write(w).settle = w.settle /\ Write(w).start = w.start
  BY <1>3, WriteFacts
<1>9. t \in Managed => EntrySound(entry[t], Write(w))
  <2>1. tab[t].cmd = "none"
    BY <1>0, TabFacts DEF TabSound
  <2>2. t \in Managed => entry[t].retrying /\ entry[t].st \notin {"duplicate", "didNotStart", "closed", "queued"}
    BY <1>0, <1>5, <1>6, <2>1, TabFacts DEF EntrySound
  <2> QED BY <2>2, TabFacts, <1>0 DEF EntrySound
<1> QED BY <1>0, <1>2, <1>5, <1>7, <1>8, <1>9, TabFacts, TabInv DEF Keeps


\* The agent, the session and the user.
LEMMA AgentInv ==
  ASSUME StartInv, NEW t \in Tabs, AgentChanges(t) \/ AgentExits(t) \/ SessionChanges(t) \/ UserTypes(t)
  PROVE  StartInv'
<1> DEFINE no == FALSE
           yes == TRUE
<1>0. OnlyTab /\ tab[t].open /\ TypeOK
  BY PartsOf DEF AgentChanges, AgentExits, SessionChanges, UserTypes
<1>1. tab[t] \in TabRecords /\ no \in BOOLEAN /\ yes \in BOOLEAN /\ tab \in [Tabs -> TabRecords]
  BY <1>0, TabFacts DEF TypeOK
<1>2. PICK w \in {[tab[t] EXCEPT !.agent = a] : a \in {"ready", "working"}}
                   \cup {[tab[t] EXCEPT !.agent = "none", !.keyOk = no], [tab[t] EXCEPT !.keyOk = no]}
                   \cup {[tab[t] EXCEPT !.typed = yes, !.cmd = c] :
                           c \in {tab[t].cmd, IF tab[t].cmd = "parked" THEN "none" ELSE tab[t].cmd}} :
          tab' = [tab EXCEPT ![t] = w] /\ (tab[t].agent # "none" \/ w.agent = tab[t].agent)
  <2>1. CASE AgentChanges(t)
    <3>1. PICK a \in {"ready", "working"} : tab' = [tab EXCEPT ![t].agent = a]
      BY <2>1 DEF AgentChanges
    <3>2. tab' = [tab EXCEPT ![t] = [tab[t] EXCEPT !.agent = a]]
      BY <1>1, <3>1
    <3> QED BY <2>1, <3>2 DEF AgentChanges
  <2>2. CASE AgentExits(t)
    <3>1. tab' = [tab EXCEPT ![t] = [tab[t] EXCEPT !.agent = "none", !.keyOk = no]]
      BY <1>1, <2>2 DEF AgentExits
    <3> QED BY <2>2, <3>1 DEF AgentExits
  <2>3. CASE SessionChanges(t)
    <3>1. tab' = [tab EXCEPT ![t] = [tab[t] EXCEPT !.keyOk = no]]
      BY <1>1, <2>3 DEF SessionChanges
    <3> QED BY <2>3, <3>1 DEF SessionChanges
  <2>4. CASE UserTypes(t)
    <3>1. PICK c \in {tab[t].cmd, IF tab[t].cmd = "parked" THEN "none" ELSE tab[t].cmd} :
            tab' = [tab EXCEPT ![t].typed = TRUE, ![t].cmd = c]
      BY <2>4 DEF UserTypes
    <3>2. tab' = [tab EXCEPT ![t] = [tab[t] EXCEPT !.typed = yes, !.cmd = c]]
      BY <1>1, <3>1
    <3>3. [tab[t] EXCEPT !.typed = yes, !.cmd = c].agent = tab[t].agent
      BY <1>1 DEF TabRecords
    <3> QED BY <3>2, <3>3
  <2> QED BY <2>1, <2>2, <2>3, <2>4
<1> HIDE DEF no, yes
<1>3. /\ w \in TabRecords /\ w.cmd \in {tab[t].cmd, IF tab[t].cmd = "parked" THEN "none" ELSE tab[t].cmd}
      /\ w.start = tab[t].start
  <2>1. CASE w \in {[tab[t] EXCEPT !.agent = a] : a \in {"ready", "working"}}
    BY <1>1, <2>1 DEF TabRecords, Agents
  <2>2. CASE w \in {[tab[t] EXCEPT !.agent = "none", !.keyOk = no], [tab[t] EXCEPT !.keyOk = no]}
    BY <1>1, <2>2 DEF TabRecords, Agents
  <2>3. CASE w \in {[tab[t] EXCEPT !.typed = yes, !.cmd = c] :
                      c \in {tab[t].cmd, IF tab[t].cmd = "parked" THEN "none" ELSE tab[t].cmd}}
    <3>1. PICK c \in {tab[t].cmd, IF tab[t].cmd = "parked" THEN "none" ELSE tab[t].cmd} :
            w = [tab[t] EXCEPT !.typed = yes, !.cmd = c]
      BY <2>3
    <3>2. c \in Commands
      BY <1>1 DEF TabRecords, Commands
    <3>3. w \in TabRecords
      BY <1>1, <3>1, <3>2 DEF TabRecords
    <3>4. w.cmd = c /\ w.start = tab[t].start
      BY <1>1, <3>1 DEF TabRecords
    <3> QED BY <3>3, <3>4
  <2> QED BY <2>1, <2>2, <2>3
<1>4. /\ w.settle = tab[t].settle /\ w.stash = tab[t].stash /\ w.stalled = tab[t].stalled
      /\ w.open = tab[t].open /\ w.managed = tab[t].managed
  BY <1>1 DEF TabRecords
<1>5. TabSound(w)
  BY <1>0, <1>3, <1>4, TabFacts DEF TabSound
<1>6. t \in Managed => EntrySound(entry[t], w)
  BY <1>0, <1>2, <1>3, <1>4, TabFacts DEF EntrySound, Waiting
<1> QED BY <1>0, <1>2, <1>3, <1>4, <1>5, <1>6, TabFacts, TabInv

LEMMA NewTabFacts ==
  ASSUME NEW open \in BOOLEAN, NEW managed \in BOOLEAN
  PROVE  LET w == NewTab(open, managed)
         IN  /\ w \in TabRecords /\ w.open = open /\ w.managed = managed /\ w.agent = "none" /\ ~w.settle
             /\ ~w.stash /\ ~w.stalled /\ w.cmd = (IF open THEN "held" ELSE "none")
             /\ w.start = (IF open THEN "first" ELSE "none")
<1>1. (IF open THEN "held" ELSE "none") \in Commands
  BY DEF Commands
<1>2. "none" \in Agents
  BY DEF Agents
<1> QED BY <1>1, <1>2 DEF NewTab, TabRecords

LEMMA CloseInv ==
  ASSUME StartInv, NEW t \in Tabs, CloseTab(t)
  PROVE  StartInv'
<1> DEFINE no == FALSE
           v == NewTab(no, tab[t].managed)
           w == [v EXCEPT !.boot = "known"]
<1>0. /\ tab[t] \in TabRecords /\ TabSound(tab[t]) /\ TypeOK
      /\ t \in Managed => EntrySound(entry[t], tab[t])
  BY PartsOf
<1>1. /\ tab' = [tab EXCEPT ![t] = w] /\ owed' \in SUBSET Tabs
      /\ UNCHANGED <<entry, ticks, file, stale, recorded, key, sent, clean, restarts, faults>>
  BY <1>0 DEF CloseTab, TypeOK
<1>2. no \in BOOLEAN /\ ~no /\ tab[t].managed \in BOOLEAN
  BY <1>0 DEF TabRecords
<1> HIDE DEF no
<1>3. /\ v \in TabRecords /\ v.open = no /\ v.managed = tab[t].managed /\ v.agent = "none" /\ ~v.settle
      /\ ~v.stash /\ ~v.stalled /\ v.cmd = "none" /\ v.start = "none"
  BY <1>2, NewTabFacts
<1> HIDE DEF v
<1>4. w \in TabRecords /\ w.agent = "none" /\ w.cmd = "none" /\ w.start = "none"
  BY <1>2, <1>3 DEF TabRecords
<1>5. w.open = v.open /\ w.settle = v.settle /\ w.stash = v.stash /\ w.stalled = v.stalled /\ w.managed = v.managed
  BY <1>3 DEF TabRecords
<1> HIDE DEF w
<1>6. TabSound(w)
  BY <1>2, <1>3, <1>4, <1>5 DEF TabSound
<1>7. t \in Managed => EntrySound(entry[t], w)
  BY <1>0, <1>2, <1>3, <1>4, <1>5 DEF EntrySound
<1> QED BY <1>1, <1>3, <1>4, <1>5, <1>6, <1>7, TabInv

\* Time passes for an entry: nothing that the invariant reads.
LEMMA ElapseInv ==
  ASSUME StartInv, NEW t \in Tabs, Elapse(t)
  PROVE  /\ StartInv' /\ Managed' = Managed
         /\ \A u \in Managed : entry'[u].st = entry[u].st /\ entry'[u].pending = entry[u].pending
<1> DEFINE yes == TRUE
<1>0. /\ t \in Managed /\ entry[t] \in Entries /\ entry \in [Tabs -> Entries \cup {NoEntry}] /\ yes \in BOOLEAN
      /\ TypeOK /\ UNCHANGED <<tab, ticks, file, stale, recorded, key, owed, sent, clean, restarts, faults>>
  BY PartsOf DEF Elapse, TypeOK, history
<1>1. PICK e \in {[entry[t] EXCEPT !.slow = yes]} \cup {[entry[t] EXCEPT !.wait = x] : x \in {"settled", "timedOut"}} :
        entry' = [entry EXCEPT ![t] = e]
  BY <1>0 DEF Elapse
<1> HIDE DEF yes
<1>2. e \in Entries /\ e.st = entry[t].st
  BY <1>0, <1>1 DEF Entries, Waits
<1>3. e.cancel = entry[t].cancel /\ e.retrying = entry[t].retrying /\ e.pending = entry[t].pending
  BY <1>0, <1>1 DEF Entries
<1>4. \A u \in Tabs : entry'[u] = IF u = t THEN e ELSE entry[u]
  BY <1>0, <1>1
<1>5. TypeOK'
  BY <1>0, <1>1, <1>2 DEF TypeOK
<1>6. Managed' = Managed
  BY <1>0, <1>2, <1>4, RestoreAssumption DEF Managed
<1>7. \A u \in Managed' : EntrySound(entry'[u], tab'[u])
  BY <1>0, <1>2, <1>3, <1>4, <1>6, PartsOf DEF EntrySound, Managed
<1>8. \A u \in Tabs : (tab'[u].managed <=> u \in Managed') /\ TabSound(tab'[u])
  BY <1>0, <1>6, PartsOf
<1>9. StartInv'
  BY <1>5, <1>7, <1>8 DEF StartInv, TabsSound, EntriesSound, TabSound, EntrySound
<1>10. \A u \in Managed : entry'[u].st = entry[u].st /\ entry'[u].pending = entry[u].pending
  BY <1>2, <1>3, <1>4 DEF Managed
<1> QED BY <1>6, <1>9, <1>10


\* A retry puts stalled starts back into the queue.
LEMMA RetryStalledInv ==
  ASSUME StartInv, RetryStalled
  PROVE  /\ StartInv' /\ Managed' = Managed
         /\ \A u \in Managed : /\ entry'[u].st = entry[u].st \/ (entry[u].st = "didNotStart" /\ entry'[u].st = "queued")
                               /\ entry'[u].pending = entry[u].pending /\ tab'[u].open = tab[u].open
<1> DEFINE no == FALSE
           yes == TRUE
           again == {t \in Managed : entry[t].st = "didNotStart" /\ tab[t].open}
           w(t) == [tab[t] EXCEPT !.stalled = no, !.start = "retry"]
           e(t) == [entry[t] EXCEPT !.st = "queued", !.slow = no, !.retrying = yes]
<1>0. /\ TypeOK /\ no \in BOOLEAN /\ yes \in BOOLEAN /\ ~no /\ yes
      /\ tab' = [t \in Tabs |-> IF t \in again THEN w(t) ELSE tab[t]]
      /\ entry' = [t \in Tabs |-> IF t \in again THEN e(t) ELSE entry[t]]
      /\ ticks' \in Nat /\ UNCHANGED <<file, stale, recorded, key, owed, sent, clean, restarts, faults>>
  <2>1. TypeOK /\ ticks \in Nat /\ RetryTick \in Nat
    BY PartsOf DEF RetryTick, TypeOK
  <2>2. /\ tab' = [t \in Tabs |-> IF t \in again THEN w(t) ELSE tab[t]]
        /\ entry' = [t \in Tabs |-> IF t \in again THEN e(t) ELSE entry[t]]
    BY DEF RetryStalled
  <2>3. ticks' = ticks + RetryTick /\ UNCHANGED <<file, stale, recorded, key, owed, sent, clean, restarts, faults>>
    BY DEF RetryStalled, history
  <2>4. no \in BOOLEAN /\ yes \in BOOLEAN /\ ~no /\ yes
    OBVIOUS
  <2>5. ticks' \in Nat
    BY <2>1, <2>3
  <2> HIDE DEF no, yes, w, e, again
  <2> QED BY <2>1, <2>2, <2>3, <2>4, <2>5
<1>1. \A t \in again : t \in Tabs /\ t \in Managed /\ entry[t].st = "didNotStart" /\ tab[t].open
                       /\ tab[t] \in TabRecords /\ entry[t] \in Entries
  BY PartsOf
<1> HIDE DEF no, yes, again
<1>2. ASSUME NEW t \in again
      PROVE  /\ w(t) \in TabRecords /\ e(t) \in Entries
             /\ w(t).cmd = tab[t].cmd /\ w(t).agent = tab[t].agent /\ w(t).start = "retry"
             /\ w(t).settle = tab[t].settle /\ w(t).stash = tab[t].stash /\ w(t).stalled = no
             /\ w(t).open = tab[t].open /\ w(t).managed = tab[t].managed
             /\ e(t).st = "queued" /\ e(t).retrying = yes /\ e(t).pending = entry[t].pending
  <2>1. tab[t] \in TabRecords /\ entry[t] \in Entries
    BY <1>1
  <2>2. w(t) \in TabRecords /\ w(t).cmd = tab[t].cmd /\ w(t).agent = tab[t].agent /\ w(t).start = "retry"
    BY <1>0, <2>1 DEF TabRecords
  <2>3. /\ w(t).settle = tab[t].settle /\ w(t).stash = tab[t].stash /\ w(t).open = tab[t].open
        /\ w(t).managed = tab[t].managed
    BY <2>1 DEF TabRecords
  <2>4. w(t).stalled = no
    BY <2>1 DEF TabRecords
  <2>5. e(t) \in Entries /\ e(t).st = "queued"
    BY <1>0, <2>1, StateNames DEF Entries
  <2>6. e(t).retrying = yes /\ e(t).pending = entry[t].pending
    BY <2>1 DEF Entries
  <2> QED BY <2>2, <2>3, <2>4, <2>5, <2>6
<1>3. \A t \in Tabs : /\ t \in again => tab'[t] = w(t) /\ entry'[t] = e(t)
                      /\ t \notin again => tab'[t] = tab[t] /\ entry'[t] = entry[t]
  BY <1>0
<1> HIDE DEF w, e
<1>4. TypeOK'
  BY <1>0, <1>2 DEF TypeOK
<1>5. Managed' = Managed
  <2>1. \A t \in again : entry[t] # NoEntry /\ e(t) # NoEntry
    BY <1>1, <1>2, RestoreAssumption
  <2>2. \A t \in Tabs : entry'[t] # NoEntry <=> entry[t] # NoEntry
    BY <1>3, <2>1
  <2> QED BY <2>2 DEF Managed
<1>6. ASSUME NEW t \in again PROVE TabSound(w(t)) /\ EntrySound(e(t), w(t)) /\ (w(t).managed <=> t \in Managed)
  <2>1. /\ TabSound(tab[t]) /\ EntrySound(entry[t], tab[t]) /\ tab[t].open /\ entry[t].st = "didNotStart"
        /\ (tab[t].managed <=> t \in Managed)
    BY <1>1, PartsOf
  <2>2. tab[t].stash
    BY <2>1 DEF EntrySound
  <2>3. TabSound(w(t))
    BY <1>0, <1>2, <2>1, <2>2 DEF TabSound
  <2>4. EntrySound(e(t), w(t))
    BY <1>0, <1>2, <2>2 DEF EntrySound
  <2> QED BY <1>2, <2>1, <2>3, <2>4
<1>7. \A t \in Tabs : (tab'[t].managed <=> t \in Managed') /\ TabSound(tab'[t])
  BY <1>3, <1>5, <1>6, PartsOf
<1>8. \A t \in Managed' : EntrySound(entry'[t], tab'[t])
  BY <1>3, <1>5, <1>6, PartsOf
<1>9. StartInv'
  BY <1>4, <1>7, <1>8 DEF StartInv, TabsSound, EntriesSound, TabSound, EntrySound
<1>10. \A u \in Managed : /\ entry'[u].st = entry[u].st \/ (entry[u].st = "didNotStart" /\ entry'[u].st = "queued")
                          /\ entry'[u].pending = entry[u].pending /\ tab'[u].open = tab[u].open
  BY <1>1, <1>2, <1>3 DEF Managed
<1> QED BY <1>5, <1>9, <1>10

\* What the entries and the tabs of a launch l are.
LaunchSound(l, k, R, panes) ==
  /\ l.tab \in [Tabs -> TabRecords] /\ l.entry \in [Tabs -> Entries \cup {NoEntry}] /\ l.ticks \in Nat
  /\ \A t \in Tabs : (t \in R /\ k[t] # NoKey) <=> l.entry[t] # NoEntry
  /\ \A t \in Tabs : /\ l.tab[t].open <=> t \in R
                     /\ l.tab[t].managed <=> l.entry[t] # NoEntry
                     /\ TabSound(l.tab[t])
  /\ \A t \in Tabs : l.entry[t] # NoEntry =>
       /\ l.entry[t].st = (IF Duplicate(k, R, t) THEN "duplicate" ELSE "queued")
       /\ l.entry[t].pending <=> t \in panes
       /\ EntrySound(l.entry[t], l.tab[t])
  /\ l.ticks <= 1 /\ ((\E t \in Tabs : l.entry[t] # NoEntry) => l.ticks = 1)

LEMMA LaunchFacts ==
  ASSUME NEW k \in [Tabs -> Keys \cup {NoKey}], NEW R \in SUBSET Tabs, NEW panes \in SUBSET Tabs
  PROVE  LaunchSound(Launched(k, R, panes), k, R, panes)
<1> DEFINE l == Launched(k, R, panes)
<1>1. /\ l.tab = [t \in Tabs |-> NewTab(t \in R, t \in Enqueued(k, R))]
      /\ l.entry = [t \in Tabs |-> IF t \in Enqueued(k, R) THEN NewEntry(k, R, panes, t) ELSE NoEntry]
      /\ l.ticks = IF Enqueued(k, R) # {} THEN 1 ELSE 0
  BY DEF Launched
<1>2. \A t \in Tabs : t \in Enqueued(k, R) <=> t \in R /\ k[t] # NoKey
  BY DEF Enqueued
<1>3. \A t \in Tabs : LET w == NewTab(t \in R, t \in Enqueued(k, R))
                      IN  /\ w \in TabRecords /\ (w.open <=> t \in R) /\ (w.managed <=> t \in Enqueued(k, R))
                          /\ w.agent = "none" /\ ~w.settle /\ ~w.stash /\ ~w.stalled
                          /\ w.cmd = (IF t \in R THEN "held" ELSE "none")
                          /\ w.start = (IF t \in R THEN "first" ELSE "none")
  <2> SUFFICES ASSUME NEW t \in Tabs
               PROVE  LET w == NewTab(t \in R, t \in Enqueued(k, R))
                      IN  /\ w \in TabRecords /\ (w.open <=> t \in R) /\ (w.managed <=> t \in Enqueued(k, R))
                          /\ w.agent = "none" /\ ~w.settle /\ ~w.stash /\ ~w.stalled
                          /\ w.cmd = (IF t \in R THEN "held" ELSE "none")
                          /\ w.start = (IF t \in R THEN "first" ELSE "none")
    OBVIOUS
  <2> DEFINE o == t \in R
             m == t \in Enqueued(k, R)
  <2>1. o \in BOOLEAN /\ m \in BOOLEAN
    OBVIOUS
  <2> HIDE DEF o, m
  <2>2. LET w == NewTab(o, m)
        IN  /\ w \in TabRecords /\ w.open = o /\ w.managed = m /\ w.agent = "none" /\ ~w.settle
            /\ ~w.stash /\ ~w.stalled /\ w.cmd = (IF o THEN "held" ELSE "none")
            /\ w.start = (IF o THEN "first" ELSE "none")
    BY <2>1, NewTabFacts
  <2> QED BY <2>2 DEF o, m
<1>4. ASSUME NEW t \in Tabs
      PROVE  LET e == NewEntry(k, R, panes, t)
             IN  /\ e \in Entries /\ e.st = (IF Duplicate(k, R, t) THEN "duplicate" ELSE "queued")
                 /\ e.cancel /\ ~e.retrying /\ (e.pending <=> t \in panes)
  <2> DEFINE st == IF Duplicate(k, R, t) THEN "duplicate" ELSE "queued"
             p == t \in panes
             yes == TRUE
             no == FALSE
  <2>1. st \in States /\ p \in BOOLEAN /\ yes \in BOOLEAN /\ no \in BOOLEAN /\ yes /\ ~no
    BY StateNames
  <2>2. NewEntry(k, R, panes, t) = [st |-> st, cancel |-> yes, retrying |-> no, pending |-> p, slow |-> no, wait |-> "unset"]
    BY DEF NewEntry
  <2> HIDE DEF st, p, yes, no
  <2>3. NewEntry(k, R, panes, t) \in Entries
    BY <2>1, <2>2 DEF Entries, Waits
  <2>4. NewEntry(k, R, panes, t).st = st
    BY <2>2
  <2>5. NewEntry(k, R, panes, t).cancel = yes
    BY <2>2
  <2>6. NewEntry(k, R, panes, t).retrying = no
    BY <2>2
  <2>7. NewEntry(k, R, panes, t).pending = p
    BY <2>2
  <2> QED BY <2>1, <2>3, <2>4, <2>5, <2>6, <2>7 DEF st, p
<1> DEFINE en == Enqueued(k, R)
           w(t) == NewTab(t \in R, t \in en)
           e(t) == NewEntry(k, R, panes, t)
<1>5. \A t \in Tabs : /\ l.tab[t] = w(t)
                      /\ t \in en => l.entry[t] = e(t)
                      /\ t \notin en => l.entry[t] = NoEntry
  BY <1>1
<1>6. \A t \in Tabs : TabSound(w(t))
  BY <1>3 DEF TabSound
<1>7. \A t \in Tabs : t \in en => EntrySound(e(t), w(t))
  BY <1>2, <1>3, <1>4, StateNames DEF EntrySound
<1>8. \A t \in Tabs : e(t) # NoEntry
  BY <1>4, RestoreAssumption
<1>9. l.tab \in [Tabs -> TabRecords] /\ l.entry \in [Tabs -> Entries \cup {NoEntry}] /\ l.ticks \in Nat
  BY <1>1, <1>3, <1>4
<1>10. en \subseteq Tabs
  BY DEF Enqueued
<1> HIDE DEF l, en, w, e
<1>11. l.ticks <= 1 /\ ((\E t \in Tabs : l.entry[t] # NoEntry) => l.ticks = 1)
  BY <1>1, <1>5 DEF en
<1>12. \A t \in Tabs : (t \in R /\ k[t] # NoKey) <=> l.entry[t] # NoEntry
  BY <1>2, <1>5, <1>8 DEF en
<1>13. \A t \in Tabs : /\ l.tab[t].open <=> t \in R
                       /\ l.tab[t].managed <=> l.entry[t] # NoEntry
                       /\ TabSound(l.tab[t])
  BY <1>3, <1>5, <1>6, <1>8 DEF en, w
<1>14. \A t \in Tabs : l.entry[t] # NoEntry =>
         /\ l.entry[t].st = (IF Duplicate(k, R, t) THEN "duplicate" ELSE "queued")
         /\ l.entry[t].pending <=> t \in panes
         /\ EntrySound(l.entry[t], l.tab[t])
  BY <1>4, <1>5, <1>7 DEF e
<1>15. LaunchSound(l, k, R, panes)
  BY <1>9, <1>11, <1>12, <1>13, <1>14 DEF LaunchSound
<1> QED BY <1>15 DEF l


LEMMA RelaunchFacts ==
  ASSUME StartInv, Quit \/ Crash
  PROVE  \E R \in SUBSET Open, disk \in SUBSET Tabs, saved \in BOOLEAN, old \in BOOLEAN :
           /\ Relaunch(R, disk, saved, old) /\ disk = (IF saved THEN Interrupted ELSE file)
           /\ faults' = faults \/ (faults < MaxFaults /\ faults' = faults + 1)
<1>1. file \in SUBSET Tabs /\ Interrupted \in SUBSET Tabs
  BY PartsOf DEF TypeOK, Interrupted, Pending, Managed
<1>2. CASE Quit
  BY <1>1, <1>2 DEF Quit
<1>3. CASE Crash
  BY <1>1, <1>3 DEF Crash
<1> QED BY <1>2, <1>3

\* The panes that a start reads are tabs.
LEMMA ReadFacts == ASSUME NEW disk \in SUBSET Tabs, NEW old PROVE Read(disk, old) \in SUBSET Tabs
BY DEF Read

\* What a restart leaves of the queue.
LEMMA RelaunchForm ==
  ASSUME StartInv, Quit \/ Crash
  PROVE  \E R \in SUBSET Open, panes \in SUBSET Tabs :
           LET l == Launched(key, R, panes)
           IN  tab' = l.tab /\ entry' = l.entry /\ ticks' = l.ticks /\ key' = key
<1>1. PICK R \in SUBSET Open, disk \in SUBSET Tabs, saved \in BOOLEAN, old \in BOOLEAN :
        Relaunch(R, disk, saved, old)
  BY RelaunchFacts
<1>2. Read(disk, old) \in SUBSET Tabs
  BY ReadFacts
<1> QED BY <1>1, <1>2 DEF Relaunch

LEMMA RelaunchInv ==
  ASSUME StartInv, Quit \/ Crash
  PROVE  StartInv'
<1>f. PICK R \in SUBSET Open, disk \in SUBSET Tabs, saved \in BOOLEAN, old \in BOOLEAN :
        /\ Relaunch(R, disk, saved, old)
        /\ faults' = faults \/ (faults < MaxFaults /\ faults' = faults + 1)
  BY RelaunchFacts
<1> DEFINE panes == Read(disk, old)
           l == Launched(key, R, panes)
<1>0. TypeOK /\ R \in SUBSET Tabs /\ key \in [Tabs -> Keys \cup {NoKey}] /\ panes \in SUBSET Tabs
  BY PartsOf, ReadFacts DEF Open, TypeOK
<1>1. /\ tab' = l.tab /\ entry' = l.entry /\ ticks' = l.ticks /\ file' \in SUBSET Tabs /\ recorded' = Unwritten
      /\ key' = key /\ restarts < MaxRestarts /\ restarts' = restarts + 1
      /\ sent' = [t \in Tabs |-> 0] /\ owed' \in SUBSET Tabs
  BY <1>f, <1>0 DEF Relaunch
<1> HIDE DEF panes
<1>2. clean' \in BOOLEAN /\ stale' \in BOOLEAN
  BY <1>f, <1>0 DEF Relaunch, TypeOK
<1>l. LaunchSound(l, key, R, panes)
  BY <1>0, LaunchFacts
<1> HIDE DEF l
<1>3. /\ l.tab \in [Tabs -> TabRecords] /\ l.entry \in [Tabs -> Entries \cup {NoEntry}] /\ l.ticks \in Nat
      /\ \A t \in Tabs : (l.tab[t].managed <=> l.entry[t] # NoEntry) /\ TabSound(l.tab[t])
      /\ \A t \in Tabs : l.entry[t] # NoEntry => EntrySound(l.entry[t], l.tab[t])
  BY <1>l DEF LaunchSound
<1>4. restarts' \in 0..MaxRestarts /\ faults' \in 0..MaxFaults
  BY <1>0, <1>1, <1>f, RestoreAssumption DEF TypeOK
<1>5. TypeOK'
  BY <1>0, <1>1, <1>2, <1>3, <1>4 DEF TypeOK
<1>6. \A t \in Tabs : (tab'[t].managed <=> t \in Managed') /\ TabSound(tab'[t])
  BY <1>1, <1>3 DEF Managed
<1>7. \A t \in Managed' : EntrySound(entry'[t], tab'[t])
  BY <1>1, <1>3 DEF Managed
<1> QED BY <1>5, <1>6, <1>7 DEF StartInv, TabsSound, EntriesSound, TabSound, EntrySound

LEMMA RecordInv ==
  ASSUME StartInv, Record
  PROVE  StartInv'
<1>1. TypeOK /\ Interrupted \in SUBSET Tabs
  BY PartsOf DEF TypeOK, Interrupted, Pending, Managed
<1>2. UNCHANGED <<tab, entry, ticks, key, owed, sent, clean, restarts>> /\ recorded' \in SUBSET Tabs
  BY <1>1 DEF Record, history
<1>3. file' \in SUBSET Tabs /\ stale' \in BOOLEAN /\ faults' \in 0..MaxFaults
  <2>1. file \in SUBSET Tabs /\ faults \in 0..MaxFaults /\ MaxFaults \in Nat
    BY <1>1, RestoreAssumption DEF TypeOK
  <2>2. (file' = Interrupted /\ faults' = faults) \/ (faults < MaxFaults /\ faults' = faults + 1 /\ file' = file)
    BY DEF Record
  <2>3. stale' \in BOOLEAN
    BY <1>1 DEF Record, TypeOK
  <2> QED BY <1>1, <2>1, <2>2, <2>3
<1>4. TypeOK'
  BY <1>1, <1>2, <1>3 DEF TypeOK
<1>5. TabsSound' /\ EntriesSound'
  BY <1>2 DEF StartInv, TabsSound, EntriesSound, Managed, Waiting
<1> QED BY <1>4, <1>5 DEF StartInv

LEMMA ClockInv ==
  ASSUME StartInv, ClockMoves
  PROVE  StartInv' /\ UNCHANGED <<tab, entry, ticks, file, recorded, key, owed, sent, clean, restarts, faults>>
<1>1. UNCHANGED <<tab, entry, ticks, file, recorded, key, owed, sent, clean, restarts, faults>> /\ stale' \in BOOLEAN
  BY DEF ClockMoves, history
<1>2. TypeOK'
  BY <1>1 DEF StartInv, TypeOK
<1>3. TabsSound' /\ EntriesSound'
  BY <1>1 DEF StartInv, TabsSound, EntriesSound, Managed, Waiting
<1> QED BY <1>1, <1>2, <1>3 DEF StartInv

LEMMA StartInit == Init => StartInv
<1> SUFFICES ASSUME Init PROVE StartInv
  OBVIOUS
<1> DEFINE panes == Read(file, stale)
           l == Launched(key, Tabs, panes)
<1>0. panes \in SUBSET Tabs /\ owed \in SUBSET Tabs
  BY ReadFacts DEF Init
<1>1. /\ tab = l.tab /\ entry = l.entry /\ ticks = l.ticks /\ key \in [Tabs -> Keys \cup {NoKey}]
      /\ file \in SUBSET Tabs /\ stale \in BOOLEAN /\ recorded = Unwritten /\ sent = [t \in Tabs |-> 0]
      /\ restarts = 0 /\ faults = 0
  BY DEF Init
<1> HIDE DEF panes
<1>2. clean \in BOOLEAN
  BY DEF Init
<1>l. LaunchSound(l, key, Tabs, panes)
  <2>1. PICK R \in SUBSET Tabs : R = Tabs
    OBVIOUS
  <2>2. LaunchSound(Launched(key, R, panes), key, R, panes)
    BY <1>0, <1>1, LaunchFacts
  <2> QED BY <2>1, <2>2
<1> HIDE DEF l
<1>3. /\ l.tab \in [Tabs -> TabRecords] /\ l.entry \in [Tabs -> Entries \cup {NoEntry}] /\ l.ticks \in Nat
      /\ \A t \in Tabs : (l.tab[t].managed <=> l.entry[t] # NoEntry) /\ TabSound(l.tab[t])
      /\ \A t \in Tabs : l.entry[t] # NoEntry => EntrySound(l.entry[t], l.tab[t])
  BY <1>l DEF LaunchSound
<1>4. TypeOK
  BY <1>0, <1>1, <1>2, <1>3, RestoreAssumption DEF TypeOK
<1>5. \A t \in Tabs : (tab[t].managed <=> t \in Managed) /\ TabSound(tab[t])
  BY <1>1, <1>3 DEF Managed
<1>6. \A t \in Managed : EntrySound(entry[t], tab[t])
  BY <1>1, <1>3 DEF Managed
<1> QED BY <1>4, <1>5, <1>6, SoundParts DEF StartInv

LEMMA StartStep == StartInv /\ [Next]_vars => StartInv'
<1> SUFFICES ASSUME StartInv, [Next]_vars PROVE StartInv'
  OBVIOUS
<1>1. CASE Tick
  BY <1>1, TickInv
<1>2. CASE RetryStalled
  BY <1>2, RetryStalledInv
<1>3. CASE Record
  BY <1>3, RecordInv
<1>4. CASE Quit \/ Crash
  BY <1>4, RelaunchInv
<1>7. CASE ClockMoves
  BY <1>7, ClockInv
<1>5. ASSUME NEW t \in Tabs, TabNext(t) PROVE StartInv'
  BY <1>5, FocusInv, BootstrappedInv, EditorInv, PreexecInv, DidNotStartInv, SettledInv, AgentInv, CloseInv, ElapseInv
     DEF TabNext
<1>6. CASE UNCHANGED vars
  BY <1>6 DEF vars, history, StartInv, TypeOK, TabsSound, EntriesSound, Managed, Waiting
<1> QED BY <1>1, <1>2, <1>3, <1>4, <1>5, <1>6, <1>7 DEF Next

\* Every variable keeps its type, and what the parts of StartInv say of each restored tab
\* and its entry holds however ticks, focus, retries, shells, agents, the user, quits and
\* crashes follow each other.
THEOREM RestoreSound == Spec => []StartInv
  BY StartInit, StartStep, PTL DEF Spec

\* A tab that the queue flagged, and that the user has not retried, has no command left
\* that the shell or the line editor could still type.
THEOREM FlaggedTabsStayQuiet == Spec => []FlaggedNeverTypes
<1>1. StartInv => FlaggedNeverTypes
  BY DEF StartInv, EntriesSound, FlaggedNeverTypes
<1> QED BY <1>1, RestoreSound, PTL


-----------------------------------------------------------------------------
(* The chain of ticks *)

\* Only a tick, a retry or a launch can put an entry where the queue has work.
LEMMA TicksStep == StartInv /\ OneTickChain /\ [Next]_vars => OneTickChain'
<1> SUFFICES ASSUME StartInv, OneTickChain, [Next]_vars PROVE OneTickChain'
  OBVIOUS
<1>0. ticks \in Nat
  BY DEF StartInv, TypeOK
<1>1. CASE Tick
  <2>1. ticks = 1
    BY <1>0, <1>1 DEF OneTickChain, Tick
  <2>2. PICK notice \in BOOLEAN : ticks' = ticks - 1 + (IF Unfinished(entry') \/ notice THEN 1 ELSE 0)
    BY <1>1, TickForm
  <2>3. PICK seen \in Seen : TickBy(seen)
    BY <1>1, TickForm
  <2>4. Managed' = Managed
    BY <2>3, TickManaged
  <2>5. Unfinished(entry)' <=> Unfinished(entry')
    BY <2>4 DEF Unfinished
  <2> QED BY <2>1, <2>2, <2>5 DEF OneTickChain
<1>2. CASE RetryStalled
  <2>0. ticks' = ticks + RetryTick /\ ticks <= 1
    BY <1>2 DEF RetryStalled, OneTickChain
  <2>1. ticks' = 1
    BY <1>0, <2>0 DEF RetryTick
  <2> QED BY <2>1 DEF OneTickChain
<1>3. CASE Quit \/ Crash
  <2>1. PICK R \in SUBSET Open, panes \in SUBSET Tabs :
          LET l == Launched(key, R, panes)
          IN  tab' = l.tab /\ entry' = l.entry /\ ticks' = l.ticks /\ key' = key
    BY <1>3, RelaunchForm
  <2>2. LET l == Launched(key, R, panes)
        IN  ticks' = l.ticks /\ entry' = l.entry
    BY <2>1
  <2>3. LET l == Launched(key, R, panes)
        IN  l.ticks <= 1 /\ ((\E t \in Tabs : l.entry[t] # NoEntry) => l.ticks = 1)
    <3>1. R \in SUBSET Tabs /\ key \in [Tabs -> Keys \cup {NoKey}]
      BY DEF Open, StartInv, TypeOK
    <3> QED BY <3>1, LaunchFacts DEF LaunchSound
  <2>4. Unfinished(entry)' => \E t \in Tabs : entry'[t] # NoEntry
    BY DEF Unfinished, Managed
  <2> QED BY <2>2, <2>3, <2>4 DEF OneTickChain
<1>4. ASSUME NEW t \in Tabs, Elapse(t) PROVE OneTickChain'
  <2>1. /\ Managed' = Managed
        /\ \A u \in Managed : entry'[u].st = entry[u].st /\ entry'[u].pending = entry[u].pending
    BY <1>4, ElapseInv
  <2>2. Unfinished(entry)' => Unfinished(entry)
    BY <2>1 DEF Unfinished
  <2>3. ticks' = ticks
    BY <1>4 DEF Elapse
  <2> QED BY <2>2, <2>3 DEF OneTickChain
<1>5. ASSUME entry' = entry, ticks' = ticks PROVE OneTickChain'
  BY <1>5 DEF OneTickChain, Unfinished, Managed
<1>6. ASSUME NEW t \in Tabs, TabNext(t) PROVE OneTickChain'
  BY <1>4, <1>5, <1>6 DEF TabNext, Focus, Bootstrapped, EditorOpens, Preexec, DidNotStart, RetrySettled, AgentChanges,
                          AgentExits, SessionChanges, UserTypes, CloseTab, OnlyTab
<1>7. CASE Record \/ ClockMoves \/ UNCHANGED vars
  BY <1>5, <1>7 DEF Record, ClockMoves, vars
<1> QED BY <1>1, <1>2, <1>3, <1>6, <1>7 DEF Next

LEMMA TicksInit == Init => OneTickChain
<1> SUFFICES ASSUME Init PROVE OneTickChain
  OBVIOUS
<1> DEFINE panes == Read(file, stale)
<1>1. LET l == Launched(key, Tabs, panes)
      IN  ticks = l.ticks /\ entry = l.entry
  BY DEF Init
<1>2. key \in [Tabs -> Keys \cup {NoKey}] /\ panes \in SUBSET Tabs /\ Tabs \in SUBSET Tabs
  BY ReadFacts DEF Init
<1> HIDE DEF panes
<1>3. LET l == Launched(key, Tabs, panes)
      IN  l.ticks <= 1 /\ ((\E t \in Tabs : l.entry[t] # NoEntry) => l.ticks = 1)
  BY <1>2, LaunchFacts DEF LaunchSound
<1>4. Unfinished(entry) => \E t \in Tabs : entry[t] # NoEntry
  BY DEF Unfinished, Managed
<1> QED BY <1>1, <1>3, <1>4 DEF OneTickChain

\* The polling of the queue never dies and never doubles: while an entry waits, starts,
\* is flagged or has a turn to continue there is exactly one timer for the next tick.
THEOREM PollingIsOne == Spec => []OneTickChain
  BY TicksInit, TicksStep, RestoreSound, PTL DEF Spec

-----------------------------------------------------------------------------
(* One writer per conversation *)

LEMMA SecondsTick ==
  ASSUME StartInv, SecondsHeld, Tick
  PROVE  SecondsHeld'
<1>1. PICK seen \in Seen : TickBy(seen)
  BY TickForm
<1>2. Managed' = Managed /\ key' = key
  BY <1>1, TickManaged DEF TickBy
<1>3. ASSUME NEW t \in Managed, entry[t].st \in {"duplicate", "closed"}
      PROVE  entry'[t].st \in {"duplicate", "closed"}
  <2> DEFINE d == CheckedEntry(entry[t], tab[t], seen[t])
             v == CheckedTab(entry[t], tab[t])
             k == Checked(entry[t], tab[t])
  <2>1. /\ entry[t] \in Entries /\ tab[t] \in TabRecords /\ d \in Entries
        /\ Passed(d, v, entry'[t], tab'[t]) \/ Pauses(d, v, entry'[t], tab'[t])
             \/ Starts(d, v, entry'[t], tab'[t]) \/ Fails(d, v, entry'[t], tab'[t])
    BY <1>1, TickOf
  <2>2. EntrySound(entry[t], tab[t])
    BY PartsOf
  <2>3. k \in {"duplicate", "closed"}
    <3>1. CASE ~tab[t].open
      BY <2>1, <3>1, CheckedFacts
    <3>2. CASE tab[t].open
      <4>1. entry[t].st = "duplicate" /\ tab[t].agent = "none"
        BY <1>3, <2>2, <3>2 DEF EntrySound
      <4>2. ~Ready(tab[t])
        BY <4>1 DEF Ready
      <4> QED BY <2>1, <3>2, <4>1, <4>2, CheckedFacts
    <3> QED BY <3>1, <3>2
  <2>4. d.st = k
    BY <2>1, <2>3, EntryChecked
  <2>5. entry'[t] = d
    BY <2>1, <2>3, <2>4 DEF Passed, Pauses, Starts, Fails
  <2> QED BY <2>3, <2>4, <2>5
<1> QED BY <1>2, <1>3 DEF SecondsHeld

LEMMA SecondsStep == StartInv /\ SecondsHeld /\ [Next]_vars => SecondsHeld'
<1> SUFFICES ASSUME StartInv, SecondsHeld, [Next]_vars PROVE SecondsHeld'
  OBVIOUS
<1>1. CASE Tick
  BY <1>1, SecondsTick
<1>2. CASE RetryStalled
  <2>1. /\ Managed' = Managed
        /\ \A u \in Managed : entry'[u].st = entry[u].st \/ (entry[u].st = "didNotStart" /\ entry'[u].st = "queued")
    BY <1>2, RetryStalledInv
  <2>2. key' = key
    BY <1>2 DEF RetryStalled
  <2> QED BY <2>1, <2>2 DEF SecondsHeld
<1>3. CASE Quit \/ Crash
  <2>1. PICK R \in SUBSET Open, panes \in SUBSET Tabs :
          LET l == Launched(key, R, panes)
          IN  tab' = l.tab /\ entry' = l.entry /\ ticks' = l.ticks /\ key' = key
    BY <1>3, RelaunchForm
  <2>2. entry' = Launched(key, R, panes).entry /\ key' = key
    BY <2>1
  <2>3. R \in SUBSET Tabs /\ key \in [Tabs -> Keys \cup {NoKey}]
    BY DEF Open, StartInv, TypeOK
  <2>4. \A t \in Managed' : /\ t \in R
                            /\ entry'[t].st = (IF Duplicate(key, R, t) THEN "duplicate" ELSE "queued")
    <3> DEFINE l == Launched(key, R, panes)
    <3>1. LaunchSound(l, key, R, panes) /\ entry' = l.entry
      BY <2>2, <2>3, LaunchFacts
    <3> HIDE DEF l
    <3> QED BY <3>1 DEF Managed, LaunchSound
  <2>5. \A t, u \in Managed' : t < u /\ key'[t] = key'[u] => Duplicate(key, R, u)
    BY <2>2, <2>4 DEF Duplicate
  <2> QED BY <2>4, <2>5 DEF SecondsHeld
<1>4. ASSUME NEW t \in Tabs, Elapse(t) PROVE SecondsHeld'
  <2>1. Managed' = Managed /\ key' = key /\ \A u \in Managed : entry'[u].st = entry[u].st
    BY <1>4, ElapseInv DEF Elapse
  <2> QED BY <2>1 DEF SecondsHeld
<1>5. ASSUME entry' = entry, key' = key PROVE SecondsHeld'
  BY <1>5 DEF SecondsHeld, Managed
<1>6. ASSUME NEW t \in Tabs, TabNext(t) PROVE SecondsHeld'
  BY <1>4, <1>5, <1>6 DEF TabNext, Focus, Bootstrapped, EditorOpens, Preexec, DidNotStart, RetrySettled, AgentChanges,
                          AgentExits, SessionChanges, UserTypes, CloseTab, OnlyTab
<1>7. CASE Record \/ ClockMoves \/ UNCHANGED vars
  BY <1>5, <1>7 DEF Record, ClockMoves, vars
<1> QED BY <1>1, <1>2, <1>3, <1>6, <1>7 DEF Next

LEMMA SecondsInit == Init => SecondsHeld
<1> SUFFICES ASSUME Init PROVE SecondsHeld
  OBVIOUS
<1> DEFINE panes == Read(file, stale)
<1>1. entry = Launched(key, Tabs, panes).entry
  BY DEF Init
<1>2. key \in [Tabs -> Keys \cup {NoKey}] /\ panes \in SUBSET Tabs /\ Tabs \in SUBSET Tabs
  BY ReadFacts DEF Init
<1> HIDE DEF panes
<1>3. \A t \in Managed : t \in Tabs /\ entry[t].st = (IF Duplicate(key, Tabs, t) THEN "duplicate" ELSE "queued")
  <2>1. PICK R \in SUBSET Tabs : R = Tabs
    OBVIOUS
  <2>2. LET l == Launched(key, R, panes)
        IN  \A t \in Tabs : l.entry[t] # NoEntry =>
              l.entry[t].st = (IF Duplicate(key, R, t) THEN "duplicate" ELSE "queued")
    BY <1>2, LaunchFacts DEF LaunchSound
  <2> QED BY <1>1, <2>1, <2>2 DEF Managed
<1>4. \A t, u \in Managed : t < u /\ key[t] = key[u] => Duplicate(key, Tabs, u)
  BY <1>3 DEF Duplicate
<1> QED BY <1>3, <1>4 DEF SecondsHeld

\* A second writer of the same conversation is never started automatically, whatever is
\* focused, retried or restarted: of two tabs that resume one conversation the later one
\* holds its command back.
THEOREM ConversationsHaveOneWriter == Spec => []OneWriterPerConversation
<1>1. Spec => []SecondsHeld
  BY SecondsInit, SecondsStep, RestoreSound, PTL DEF Spec
<1>2. StartInv /\ SecondsHeld => OneWriterPerConversation
  <2> SUFFICES ASSUME StartInv, SecondsHeld, NEW t \in Managed, NEW u \in Managed, t # u, key[t] = key[u],
                      tab[t].open, tab[u].open
               PROVE  "held" \in {tab[t].cmd, tab[u].cmd}
    BY DEF OneWriterPerConversation
  <2>1. t \in Nat /\ u \in Nat
    BY RestoreAssumption DEF Managed
  <2>2. t < u \/ u < t
    BY <2>1
  <2>3. \A s \in Managed : tab[s].open /\ entry[s].st \in {"duplicate", "closed"} => tab[s].cmd = "held"
    BY DEF StartInv, EntriesSound
  <2> QED BY <2>2, <2>3 DEF SecondsHeld
<1> QED BY <1>1, <1>2, RestoreSound, PTL


-----------------------------------------------------------------------------
(* Interrupted turns *)

\* Only closing it closes a tab.
LEMMA WriteOpen ==
  ASSUME NEW w \in TabRecords
  PROVE  Write(w).open = w.open
BY WriteFacts DEF Keeps

LEMMA OpenKept ==
  ASSUME StartInv, NEW t \in Tabs, TabNext(t), ~CloseTab(t)
  PROVE  \A u \in Tabs : tab'[u].open = tab[u].open
<1> DEFINE no == FALSE
           yes == TRUE
<1>0. /\ tab[t] \in TabRecords /\ TabSound(tab[t]) /\ tab \in [Tabs -> TabRecords] /\ no \in BOOLEAN /\ yes \in BOOLEAN
  BY PartsOf DEF TypeOK
<1>1. ASSUME NEW w, tab' = [tab EXCEPT ![t] = w], w.open = tab[t].open
      PROVE  \A u \in Tabs : tab'[u].open = tab[u].open
  BY <1>0, <1>1
<1>2. CASE Focus(t)
  <2>1. tab' = [tab EXCEPT ![t] = StartDeferred(tab[t])] /\ tab[t].open /\ tab[t].start # "none"
    BY <1>2 DEF Focus
  <2>2. StartDeferred(tab[t]).open = tab[t].open
    BY <1>0, <2>1, StartedSound DEF StartDeferred, Keeps
  <2> QED BY <1>1, <2>1, <2>2
<1>3. CASE Bootstrapped(t)
  <2>1. PICK b \in {"known", "unknown"} :
          LET w == [tab[t] EXCEPT !.boot = b]
          IN  tab' = [tab EXCEPT ![t] = IF w.cmd = "released" THEN RunPending(w) ELSE w]
    BY <1>3 DEF Bootstrapped
  <2> DEFINE w == [tab[t] EXCEPT !.boot = b]
  <2>2. w \in TabRecords
    BY <1>0 DEF TabRecords
  <2>3. w.open = tab[t].open
    BY <1>0 DEF TabRecords
  <2>5. tab' = [tab EXCEPT ![t] = IF w.cmd = "released" THEN RunPending(w) ELSE w]
    BY <2>1
  <2> HIDE DEF w
  <2>4. RunPending(w).open = tab[t].open
    BY <2>2, <2>3, RunFacts DEF Keeps
  <2> QED BY <1>1, <2>3, <2>4, <2>5
<1>4. CASE EditorOpens(t)
  <2> DEFINE w == [tab[t] EXCEPT !.editor = yes, !.cmd = IF tab[t].cmd = "stalled" THEN "none" ELSE tab[t].cmd]
  <2>1. tab' = [tab EXCEPT ![t] = IF w.cmd = "parked" THEN Write(w) ELSE w]
    BY <1>4 DEF EditorOpens
  <2> HIDE DEF yes
  <2>2. w \in TabRecords
    BY <1>0 DEF TabRecords, Commands
  <2>3. w.open = tab[t].open
    BY <1>0 DEF TabRecords
  <2> HIDE DEF w
  <2>4. Write(w).open = tab[t].open
    BY <2>2, <2>3, WriteOpen
  <2> QED BY <1>1, <2>1, <2>3, <2>4
<1>5. CASE RetrySettled(t)
  <2> DEFINE w == [tab[t] EXCEPT !.settle = no]
  <2>1. tab' = [tab EXCEPT ![t] = Write(w)]
    BY <1>5 DEF RetrySettled
  <2> HIDE DEF no
  <2>2. w \in TabRecords
    BY <1>0 DEF TabRecords
  <2>3. w.open = tab[t].open
    BY <1>0 DEF TabRecords
  <2> HIDE DEF w
  <2>4. Write(w).open = tab[t].open
    BY <2>2, <2>3, WriteOpen
  <2> QED BY <1>1, <2>1, <2>4
<1>6. CASE Preexec(t) \/ DidNotStart(t) \/ AgentChanges(t) \/ AgentExits(t) \/ SessionChanges(t) \/ UserTypes(t)
  BY <1>0, <1>6 DEF Preexec, DidNotStart, AgentChanges, AgentExits, SessionChanges, UserTypes, TabRecords
<1>7. CASE Elapse(t)
  BY <1>7 DEF Elapse
<1> QED BY <1>2, <1>3, <1>4, <1>5, <1>6, <1>7 DEF TabNext

\* What a tick does to the turns.
LEMMA TickTurns ==
  ASSUME StartInv, NEW seen \in Seen, TickBy(seen)
  PROVE  /\ Managed' = Managed /\ owed' = owed \ {t \in Managed : Done(entry[t], tab[t], seen[t])}
         /\ UNCHANGED <<file, stale, recorded, key, clean, restarts, faults>>
         /\ \A t \in Tabs : tab'[t].open = tab[t].open
         /\ \A t \in Managed : entry'[t].pending <=>
                                 entry[t].pending /\ tab[t].open /\ ~Done(entry[t], tab[t], seen[t])
         /\ \A t \in Tabs : sent'[t] = IF t \in Told(seen) THEN sent[t] + 1 ELSE sent[t]
         /\ \A t \in Told(seen) : /\ Done(entry[t], tab[t], seen[t]) /\ entry[t].pending /\ tab[t].open
                                  /\ tab[t].agent = "ready" /\ ~tab[t].typed
<1>1. Managed' = Managed
  BY TickManaged
<1>2. \A t \in Managed : /\ t \in Tabs /\ entry[t] \in Entries /\ tab[t] \in TabRecords
                         /\ entry'[t].pending = CheckedEntry(entry[t], tab[t], seen[t]).pending
                         /\ tab'[t].open = tab[t].open
  BY TickOf DEF Keeps
<1>3. \A t \in Tabs : tab'[t].open = tab[t].open
  <2>1. \A t \in Tabs \ Managed : tab'[t] = tab[t]
    BY DEF TickBy
  <2> QED BY <1>2, <2>1
<1>4. \A t \in Managed : entry'[t].pending <=>
                           entry[t].pending /\ tab[t].open /\ ~Done(entry[t], tab[t], seen[t])
  BY <1>2, EntryChecked
<1>5. ASSUME NEW t \in Told(seen)
      PROVE  /\ Done(entry[t], tab[t], seen[t]) /\ entry[t].pending /\ tab[t].open
             /\ tab[t].agent = "ready" /\ ~tab[t].typed
  <2>1. t \in Managed /\ Step(entry[t], tab[t], seen[t]) = "send" /\ seen[t] = "free"
    BY DEF Told
  <2>2. Continues(entry[t], tab[t]) /\ ~tab[t].typed
    BY <1>2, <2>1, StepFacts
  <2>3. seen[t] \in Readings(tab[t])
    BY <2>1, <2>2 DEF Seen
  <2>4. tab[t].agent = "ready"
    <3>1. tab[t].agent \in Agents
      BY <1>2, <2>1 DEF TabRecords
    <3> QED BY <2>1, <2>3, <3>1 DEF Readings, Agents
  <2>5. entry[t].pending /\ tab[t].open
    BY <1>2, <2>1, <2>2, CheckedFacts DEF Continues
  <2> QED BY <2>1, <2>2, <2>4, <2>5 DEF Done
<1>6. \A t \in Tabs : sent'[t] = IF t \in Told(seen) THEN sent[t] + 1 ELSE sent[t]
  BY DEF TickBy
<1> QED BY <1>1, <1>3, <1>4, <1>5, <1>6 DEF TickBy


LEMMA CloseFacts ==
  ASSUME StartInv, NEW t \in Tabs, CloseTab(t)
  PROVE  /\ ~tab'[t].open /\ \A u \in Tabs : u # t => tab'[u] = tab[u]
         /\ owed' = owed \ {t} /\ UNCHANGED <<entry, ticks, file, stale, recorded, key, sent, clean, restarts, faults>>
<1> DEFINE no == FALSE
           v == NewTab(no, tab[t].managed)
<1>0. tab \in [Tabs -> TabRecords] /\ tab[t].managed \in BOOLEAN /\ no \in BOOLEAN /\ ~no
  BY PartsOf DEF TypeOK, TabRecords
<1>1. tab' = [tab EXCEPT ![t] = [v EXCEPT !.boot = "known"]]
  BY DEF CloseTab
<1> HIDE DEF no
<1>2. v \in TabRecords /\ v.open = no
  BY <1>0, NewTabFacts
<1> HIDE DEF v
<1>3. [v EXCEPT !.boot = "known"].open = v.open
  BY <1>2 DEF TabRecords
<1> QED BY <1>0, <1>1, <1>2, <1>3 DEF CloseTab

\* The turns that are still to be continued, and what the file on disk knows of them.
TurnsKept == TurnsInv /\ CutTurnsKept

LEMMA TurnsTick ==
  ASSUME StartInv, TurnsKept, Tick
  PROVE  TurnsKept'
<1>1. PICK seen \in Seen : TickBy(seen)
  BY TickForm
<1>2. /\ Managed' = Managed /\ owed' = owed \ {t \in Managed : Done(entry[t], tab[t], seen[t])}
      /\ UNCHANGED <<file, stale, recorded, key, clean, restarts, faults>>
      /\ \A t \in Tabs : tab'[t].open = tab[t].open
      /\ \A t \in Managed : entry'[t].pending <=>
                              entry[t].pending /\ tab[t].open /\ ~Done(entry[t], tab[t], seen[t])
      /\ \A t \in Tabs : sent'[t] = IF t \in Told(seen) THEN sent[t] + 1 ELSE sent[t]
      /\ \A t \in Told(seen) : Done(entry[t], tab[t], seen[t])
  BY <1>1, TickTurns
<1>3. Managed \subseteq Tabs /\ Told(seen) \subseteq Managed
  BY DEF Managed, Told
<1>4. owed' \subseteq Open'
  BY <1>2 DEF TurnsKept, TurnsInv, Open
<1>5. \A t \in Managed' : entry'[t].pending => sent'[t] = 0 /\ (tab'[t].open /\ clean' => t \in owed')
  BY <1>2, <1>3 DEF TurnsKept, TurnsInv
<1>6. CutTurnsKept'
  <2> SUFFICES ASSUME faults' = 0, NEW t \in owed' PROVE t \in Managed' /\ entry'[t].pending /\ t \in file'
    BY DEF CutTurnsKept
  <2>1. t \in owed /\ t \in Managed /\ entry[t].pending /\ t \in file
    BY <1>2 DEF TurnsKept, CutTurnsKept
  <2>2. tab[t].open /\ ~Done(entry[t], tab[t], seen[t])
    BY <1>2, <2>1 DEF TurnsKept, TurnsInv, Open
  <2> QED BY <1>2, <2>1, <2>2
<1> QED BY <1>4, <1>5, <1>6 DEF TurnsKept, TurnsInv

LEMMA TurnsRelaunch ==
  ASSUME StartInv, TurnsKept, Quit \/ Crash
  PROVE  TurnsKept'
<1>1. PICK R \in SUBSET Open, disk \in SUBSET Tabs, saved \in BOOLEAN, old \in BOOLEAN :
        /\ Relaunch(R, disk, saved, old) /\ disk = (IF saved THEN Interrupted ELSE file)
        /\ faults' = faults \/ (faults < MaxFaults /\ faults' = faults + 1)
  BY RelaunchFacts
<1> DEFINE panes == Read(disk, old)
           l == Launched(key, R, panes)
<1>2. /\ tab' = l.tab /\ entry' = l.entry /\ file' = disk /\ sent' = [t \in Tabs |-> 0]
      /\ clean' = (clean /\ saved)
      /\ owed' = IF old THEN {} ELSE {t \in R : key[t] # NoKey /\ (t \in owed \/ (saved /\ MidTurn(t)))}
  BY <1>1 DEF Relaunch
<1>p. panes = (IF old THEN {} ELSE disk) /\ panes \in SUBSET Tabs
  BY ReadFacts DEF Read
<1>3. R \in SUBSET Tabs /\ key \in [Tabs -> Keys \cup {NoKey}]
  BY DEF Open, StartInv, TypeOK
<1> HIDE DEF panes
<1>4. LaunchSound(l, key, R, panes)
  BY <1>3, <1>p, LaunchFacts
<1> HIDE DEF l
<1>5. /\ \A t \in Tabs : /\ t \in Managed' <=> t \in R /\ key[t] # NoKey
                         /\ tab'[t].open <=> t \in R
      /\ \A t \in Managed' : t \in Tabs /\ (entry'[t].pending <=> t \in panes)
  BY <1>2, <1>4 DEF LaunchSound, Managed
<1>6. owed' \subseteq Open'
  BY <1>2, <1>3, <1>5 DEF Open
<1>7. \A t \in R : t \in Pending /\ clean => t \in owed
  BY DEF Pending, Open, TurnsKept, TurnsInv
<1>8. \A t \in Managed' : entry'[t].pending => sent'[t] = 0 /\ (tab'[t].open /\ clean' => t \in owed')
  <2> SUFFICES ASSUME NEW t \in Managed', entry'[t].pending
               PROVE  sent'[t] = 0 /\ (tab'[t].open /\ clean' => t \in owed')
    OBVIOUS
  <2>1. t \in Tabs /\ t \in panes /\ ~old /\ t \in disk /\ key[t] # NoKey /\ t \in R
    BY <1>5, <1>p
  <2>2. clean' => saved /\ clean /\ (t \in Pending \/ MidTurn(t))
    BY <1>1, <1>2, <2>1 DEF Interrupted
  <2> QED BY <1>2, <1>7, <2>1, <2>2
<1>9. CutTurnsKept'
  <2> SUFFICES ASSUME faults' = 0, NEW t \in owed' PROVE t \in Managed' /\ entry'[t].pending /\ t \in file'
    BY DEF CutTurnsKept
  <2>1. ~old /\ t \in R /\ t \in Tabs /\ key[t] # NoKey /\ (t \in owed \/ (saved /\ MidTurn(t)))
    BY <1>2, <1>3
  <2>0. faults = 0
    <3>1. faults \in Nat
      BY DEF StartInv, TypeOK
    <3> QED BY <1>1, <3>1
  <2>2. t \in owed => t \in Pending /\ t \in file
    BY <2>0 DEF TurnsKept, CutTurnsKept, Pending
  <2>3. t \in disk
    BY <1>1, <2>1, <2>2 DEF Interrupted
  <2> QED BY <1>2, <1>5, <1>p, <2>1, <2>3
<1> QED BY <1>6, <1>8, <1>9 DEF TurnsKept, TurnsInv

LEMMA TurnsStep == StartInv /\ TurnsKept /\ [Next]_vars => TurnsKept'
<1> SUFFICES ASSUME StartInv, TurnsKept, [Next]_vars PROVE TurnsKept'
  OBVIOUS
<1>1. CASE Tick
  BY <1>1, TurnsTick
<1>2. CASE Quit \/ Crash
  BY <1>2, TurnsRelaunch
<1>3. ASSUME Managed' = Managed, \A t \in Managed : entry'[t].pending = entry[t].pending,
             \A t \in Tabs : tab'[t].open = tab[t].open, UNCHANGED <<sent, clean, owed>>,
             faults' = 0 => faults = 0 /\ owed \cap file \subseteq file'
      PROVE  TurnsKept'
  <2>1. Managed \subseteq Tabs
    BY DEF Managed
  <2>2. TurnsInv'
    BY <1>3, <2>1 DEF TurnsKept, TurnsInv, Open
  <2>3. CutTurnsKept'
    BY <1>3 DEF TurnsKept, CutTurnsKept
  <2> QED BY <2>2, <2>3 DEF TurnsKept
<1>4. CASE RetryStalled
  <2>1. /\ Managed' = Managed
        /\ \A u \in Managed : entry'[u].pending = entry[u].pending /\ tab'[u].open = tab[u].open
    BY <1>4, RetryStalledInv
  <2>2. \A u \in Tabs \ Managed : tab'[u] = tab[u]
    BY <1>4 DEF RetryStalled
  <2>3. UNCHANGED <<sent, clean, owed, file, faults>>
    BY <1>4 DEF RetryStalled, history
  <2> QED BY <1>3, <2>1, <2>2, <2>3
<1>5. CASE Record
  <2>1. UNCHANGED <<tab, entry, sent, clean, owed>>
    BY <1>5 DEF Record, history
  <2>2. ASSUME faults' = 0 PROVE faults = 0 /\ owed \cap file \subseteq file'
    <3>1. faults \in Nat
      BY DEF StartInv, TypeOK
    <3>2. faults' = faults /\ file' = Interrupted
      BY <1>5, <2>2, <3>1 DEF Record
    <3>3. owed \subseteq Pending
      BY <2>2, <3>2 DEF TurnsKept, CutTurnsKept, Pending
    <3> QED BY <2>2, <3>2, <3>3 DEF Interrupted
  <2>3. Managed' = Managed
    BY <2>1 DEF Managed
  <2> QED BY <1>3, <2>1, <2>2, <2>3
<1>6. ASSUME NEW t \in Tabs, CloseTab(t) PROVE TurnsKept'
  <2>1. /\ ~tab'[t].open /\ \A u \in Tabs : u # t => tab'[u] = tab[u]
        /\ owed' = owed \ {t} /\ UNCHANGED <<entry, file, sent, clean, faults>>
    BY <1>6, CloseFacts
  <2>2. Managed' = Managed /\ Managed \subseteq Tabs
    BY <2>1 DEF Managed
  <2>3. TurnsInv'
    BY <2>1, <2>2 DEF TurnsKept, TurnsInv, Open
  <2>4. CutTurnsKept'
    BY <2>1, <2>2 DEF TurnsKept, CutTurnsKept
  <2> QED BY <2>3, <2>4 DEF TurnsKept
<1>7. ASSUME NEW t \in Tabs, TabNext(t), ~CloseTab(t) PROVE TurnsKept'
  <2>1. \A u \in Tabs : tab'[u].open = tab[u].open
    BY <1>7, OpenKept
  <2>2. UNCHANGED <<sent, clean, owed, file, faults>>
    BY <1>7 DEF TabNext, Focus, Bootstrapped, EditorOpens, Preexec, DidNotStart, RetrySettled, AgentChanges,
                AgentExits, SessionChanges, UserTypes, Elapse, OnlyTab, history
  <2>3. entry' = entry \/ Elapse(t)
    BY <1>7 DEF TabNext, Focus, Bootstrapped, EditorOpens, Preexec, DidNotStart, RetrySettled, AgentChanges,
                AgentExits, SessionChanges, UserTypes, OnlyTab
  <2>4. Managed' = Managed /\ \A u \in Managed : entry'[u].pending = entry[u].pending
    BY <2>3, ElapseInv DEF Managed
  <2> QED BY <1>3, <2>1, <2>2, <2>4
<1>8. CASE ClockMoves \/ UNCHANGED vars
  BY <1>3, <1>8 DEF ClockMoves, vars, history, Managed
<1> QED BY <1>1, <1>2, <1>4, <1>5, <1>6, <1>7, <1>8 DEF Next

LEMMA TurnsInit == Init => TurnsKept
<1> SUFFICES ASSUME Init PROVE TurnsKept
  OBVIOUS
<1> DEFINE panes == Read(file, stale)
           l == Launched(key, Tabs, panes)
<1>1. /\ tab = l.tab /\ entry = l.entry /\ key \in [Tabs -> Keys \cup {NoKey}] /\ panes \in SUBSET Tabs
      /\ owed = {t \in panes : key[t] # NoKey} /\ sent = [t \in Tabs |-> 0]
  BY ReadFacts DEF Init
<1>p. panes \subseteq file
  BY DEF Read
<1> HIDE DEF panes
<1>2. LaunchSound(l, key, Tabs, panes)
  <2>1. PICK R \in SUBSET Tabs : R = Tabs
    OBVIOUS
  <2>2. LaunchSound(Launched(key, R, panes), key, R, panes)
    BY <1>1, LaunchFacts
  <2> QED BY <2>1, <2>2
<1> HIDE DEF l
<1>3. /\ \A t \in Tabs : tab[t].open /\ (t \in Managed <=> key[t] # NoKey)
      /\ \A t \in Managed : t \in Tabs /\ (entry[t].pending <=> t \in panes)
  BY <1>1, <1>2 DEF LaunchSound, Managed
<1>4. TurnsInv
  BY <1>1, <1>3 DEF TurnsInv, Open
<1>5. CutTurnsKept
  BY <1>1, <1>3, <1>p DEF CutTurnsKept
<1> QED BY <1>4, <1>5 DEF TurnsKept

LEMMA TurnsAlways == Spec => []TurnsKept
  BY TurnsInit, TurnsStep, RestoreSound, PTL DEF Spec

\* The turn of an agent that a quit or a crash cut off is not forgotten, over any number
\* of them, until it was continued, given up on or taken over by the user, or a start
\* refused the record because of its date, unless a write of the record failed.
THEOREM CutTurnsSurvive == Spec => []CutTurnsKept
<1>1. TurnsKept => CutTurnsKept
  BY DEF TurnsKept
<1> QED BY <1>1, TurnsAlways, PTL

LEMMA ContinueStepOnly ==
  StartInv /\ TurnsKept /\ [Next]_vars =>
    [\A t \in Tabs : sent'[t] > sent[t] =>
       sent[t] = 0 /\ Ready(tab[t]) /\ ~tab[t].typed /\ (t \in owed \/ ~clean)]_vars
<1> SUFFICES ASSUME StartInv, TurnsKept, [Next]_vars, NEW t \in Tabs, sent'[t] > sent[t]
             PROVE  sent[t] = 0 /\ Ready(tab[t]) /\ ~tab[t].typed /\ (t \in owed \/ ~clean)
  OBVIOUS
<1>0. sent[t] \in Nat
  BY DEF StartInv, TypeOK
<1>1. CASE Tick
  <2>1. PICK seen \in Seen : TickBy(seen)
    BY <1>1, TickForm
  <2>2. /\ sent'[t] = IF t \in Told(seen) THEN sent[t] + 1 ELSE sent[t]
        /\ \A u \in Told(seen) : /\ entry[u].pending /\ tab[u].open /\ tab[u].agent = "ready" /\ ~tab[u].typed
    BY <2>1, TickTurns
  <2>3. t \in Told(seen)
    BY <1>0, <2>2
  <2>4. t \in Managed
    BY <2>3 DEF Told
  <2> QED BY <2>2, <2>3, <2>4 DEF TurnsKept, TurnsInv, Ready
<1>2. CASE Quit \/ Crash
  <2>1. sent'[t] = 0
    BY <1>2 DEF Quit, Crash, Relaunch
  <2> QED BY <1>0, <2>1
<1>3. CASE sent' = sent
  BY <1>0, <1>3
<1>4. ASSUME NEW u \in Tabs, TabNext(u) PROVE sent' = sent
  BY <1>4 DEF TabNext, Focus, Bootstrapped, EditorOpens, Preexec, DidNotStart, RetrySettled, AgentChanges,
              AgentExits, SessionChanges, UserTypes, CloseTab, Elapse, OnlyTab, history
<1>5. ASSUME Record \/ ClockMoves \/ RetryStalled \/ UNCHANGED vars PROVE sent' = sent
  BY <1>5 DEF Record, ClockMoves, RetryStalled, vars, history
<1> QED BY <1>1, <1>2, <1>3, <1>4, <1>5 DEF Next

\* A Continue is sent once, only to an agent that is back and was cut off, and only while
\* the user has not typed, as long as every run wrote its record when it ended.
THEOREM ContinuesAreOwed == Spec => ContinueOnlyCut
  BY ContinueStepOnly, TurnsAlways, RestoreSound, PTL DEF Spec, ContinueOnlyCut


-----------------------------------------------------------------------------
(* Taking the first A of a finite set W in an order P *)

Below(W, P, t) == {u \in W : <<u, t>> \in P}

FirstOf(W, P, A) == {u \in W : Cardinality(Below(W, P, u)) < A}

\* A set of numbers has a smallest one.
LEMMA SmallestOf ==
  ASSUME NEW T \in SUBSET Nat, T # {}
  PROVE  \E x \in T : \A y \in T : x <= y
<1> DEFINE R == {ss \in Nat \X Nat : ss[1] < ss[2]}
<1>1. IsWellFoundedOn(R, Nat)
  BY NatLessThanWellFounded DEF OpToRel
<1>2. ASSUME NEW x \in Nat, NEW y \in Nat, y < x PROVE <<y, x>> \in R
  BY <1>2
<1> HIDE DEF R
<1>3. PICK x \in T : \A y \in T : ~(<<y, x>> \in R)
  BY <1>1, WFMin
<1>4. \A y \in T : ~(y < x)
  BY <1>2, <1>3
<1>5. \A y \in T : x <= y
  BY <1>4
<1> QED BY <1>5

\* Elements that come later have more before them.
LEMMA RankGrows ==
  ASSUME NEW W, IsFiniteSet(W), NEW P, NEW u \in W, NEW t, <<u, t>> \in P, <<u, u>> \notin P,
         \A x \in W : <<x, u>> \in P => <<x, t>> \in P
  PROVE  /\ Cardinality(Below(W, P, u)) \in Nat /\ Cardinality(Below(W, P, t)) \in Nat
         /\ Cardinality(Below(W, P, u)) < Cardinality(Below(W, P, t))
<1> DEFINE U == Below(W, P, u)
           T == Below(W, P, t)
<1>1. U \subseteq T /\ T \subseteq W /\ u \in T /\ u \notin U
  BY DEF Below
<1> HIDE DEF U, T
<1>2. IsFiniteSet(T) /\ Cardinality(T) \in Nat
  BY <1>1, FS_Subset, FS_CardinalityType
<1>3. IsFiniteSet(U) /\ Cardinality(U) \in Nat /\ Cardinality(U) <= Cardinality(T) /\ (Cardinality(T) = Cardinality(U) => T = U)
  BY <1>1, <1>2, FS_Subset, FS_CardinalityType
<1> QED BY <1>1, <1>2, <1>3 DEF U, T

\* No more than A are taken.
LEMMA FirstAtMost ==
  ASSUME NEW W, IsFiniteSet(W), NEW P, NEW A \in Nat,
         \A x \in W : <<x, x>> \notin P,
         \A x, y, z \in W : <<x, y>> \in P /\ <<y, z>> \in P => <<x, z>> \in P,
         \A x, y \in W : x = y \/ <<x, y>> \in P \/ <<y, x>> \in P
  PROVE  IsFiniteSet(FirstOf(W, P, A)) /\ Cardinality(FirstOf(W, P, A)) \in Nat /\ Cardinality(FirstOf(W, P, A)) <= A
<1> DEFINE R == FirstOf(W, P, A)
           T == {A - Cardinality(Below(W, P, u)) : u \in R}
<1>1. R \subseteq W /\ \A u \in R : Cardinality(Below(W, P, u)) < A
  BY DEF FirstOf
<1>2. \A u \in W : IsFiniteSet(Below(W, P, u)) /\ Cardinality(Below(W, P, u)) \in Nat
  <2> TAKE u \in W
  <2>1. Below(W, P, u) \in SUBSET W
    BY DEF Below
  <2> QED BY <2>1, FS_Subset, FS_CardinalityType
<1>3. T \subseteq Nat
  BY <1>1, <1>2
<1> HIDE DEF R
<1>4. IsFiniteSet(R) /\ Cardinality(R) \in Nat
  BY <1>1, FS_Subset, FS_CardinalityType
<1>5. ASSUME R = {} PROVE Cardinality(R) <= A
  <2>1. Cardinality(R) = 0
    BY <1>5, FS_EmptySet
  <2> QED BY <2>1
<1>6. ASSUME R # {} PROVE Cardinality(R) <= A
  <2>1. T # {}
    BY <1>6
  <2>2. PICK x \in T : \A y \in T : x <= y
    BY <1>3, <2>1, SmallestOf
  <2>3. PICK m \in R : x = A - Cardinality(Below(W, P, m))
    BY <2>2
  <2>4. ASSUME NEW u \in R PROVE Cardinality(Below(W, P, u)) <= Cardinality(Below(W, P, m))
    <3>1. A - Cardinality(Below(W, P, u)) \in T
      OBVIOUS
    <3>2. A - Cardinality(Below(W, P, m)) <= A - Cardinality(Below(W, P, u))
      BY <2>2, <2>3, <3>1
    <3> QED BY <1>1, <1>2, <3>2
  <2>5. ASSUME NEW u \in R, u # m PROVE u \in Below(W, P, m)
    <3>1. CASE <<m, u>> \in P
      <4>1. Cardinality(Below(W, P, m)) < Cardinality(Below(W, P, u))
        BY <1>1, <3>1, RankGrows
      <4> QED BY <1>1, <1>2, <2>4, <4>1
    <3>2. CASE <<u, m>> \in P
      BY <1>1, <3>2 DEF Below
    <3> QED BY <1>1, <2>5, <3>1, <3>2
  <2>6. R \subseteq Below(W, P, m) \cup {m}
    BY <2>5
  <2>7. /\ IsFiniteSet(Below(W, P, m) \cup {m})
        /\ Cardinality(Below(W, P, m) \cup {m}) <= Cardinality(Below(W, P, m)) + 1
        /\ Cardinality(Below(W, P, m) \cup {m}) \in Nat
    <3>1. IsFiniteSet(Below(W, P, m)) /\ Cardinality(Below(W, P, m)) \in Nat
      BY <1>1, <1>2
    <3>2. /\ IsFiniteSet(Below(W, P, m) \cup {m})
          /\ Cardinality(Below(W, P, m) \cup {m})
               = IF m \in Below(W, P, m) THEN Cardinality(Below(W, P, m)) ELSE Cardinality(Below(W, P, m)) + 1
      BY <3>1, FS_AddElement
    <3> QED BY <3>1, <3>2
  <2>8. Cardinality(R) <= Cardinality(Below(W, P, m) \cup {m})
    BY <2>6, <2>7, FS_Subset
  <2> QED BY <1>1, <1>2, <1>4, <2>7, <2>8
<1>7. Cardinality(R) <= A
  BY <1>5, <1>6
<1> QED BY <1>4, <1>7 DEF R

\* A are taken when somebody with A before it is not.
LEMMA FirstAtLeast ==
  ASSUME NEW W, IsFiniteSet(W), NEW P, NEW A \in Nat, NEW t,
         \A x \in W : <<x, x>> \notin P,
         \A x, y \in W : \A z \in W \cup {t} : <<x, y>> \in P /\ <<y, z>> \in P => <<x, z>> \in P,
         ~(Cardinality(Below(W, P, t)) < A)
  PROVE  A <= Cardinality(FirstOf(W, P, A))
<1> DEFINE R == FirstOf(W, P, A)
           D == Below(W, P, t)
           T == {Cardinality(Below(W, P, u)) : u \in D \ R}
<1>1. R \subseteq W /\ D \subseteq W /\ \A u \in W : u \in R <=> Cardinality(Below(W, P, u)) < A
  BY DEF FirstOf, Below
<1>2. \A u : IsFiniteSet(Below(W, P, u)) /\ Cardinality(Below(W, P, u)) \in Nat
  <2> TAKE u
  <2>1. Below(W, P, u) \in SUBSET W
    BY DEF Below
  <2> QED BY <2>1, FS_Subset, FS_CardinalityType
<1>3. \A x : x \in D <=> x \in W /\ <<x, t>> \in P
  BY DEF Below
<1>4. Cardinality(D) \in Nat /\ A <= Cardinality(D)
  BY <1>2
<1>5. T \subseteq Nat
  BY <1>2
<1> HIDE DEF R, D
<1>6. IsFiniteSet(R) /\ Cardinality(R) \in Nat
  BY <1>1, FS_Subset, FS_CardinalityType
<1>7. ASSUME Cardinality(R) < A PROVE FALSE
  <2>1. D \ R # {}
    <3>1. D \subseteq R => Cardinality(D) <= Cardinality(R)
      BY <1>6, FS_Subset
    <3> QED BY <1>4, <1>6, <1>7, <3>1
  <2>2. PICK n \in T : \A y \in T : n <= y
    <3>1. T # {}
      BY <2>1
    <3> QED BY <1>5, <3>1, SmallestOf
  <2>3. PICK m \in D \ R : n = Cardinality(Below(W, P, m))
    BY <2>2
  <2>4. m \in W /\ <<m, t>> \in P
    BY <1>3
  <2>5. Below(W, P, m) \subseteq R
    <3> SUFFICES ASSUME NEW x \in Below(W, P, m), x \notin R PROVE FALSE
      OBVIOUS
    <3>1. x \in W /\ <<x, m>> \in P
      BY DEF Below
    <3>2. x \in D
      BY <1>3, <2>4, <3>1
    <3>3. Cardinality(Below(W, P, x)) \in T
      BY <3>2
    <3>4. Cardinality(Below(W, P, x)) < Cardinality(Below(W, P, m))
      BY <2>4, <3>1, RankGrows
    <3> QED BY <1>2, <2>2, <2>3, <3>3, <3>4
  <2>6. Cardinality(Below(W, P, m)) <= Cardinality(R)
    BY <1>6, <2>5, FS_Subset
  <2>7. Cardinality(Below(W, P, m)) < A
    BY <1>2, <1>6, <1>7, <2>6
  <2> QED BY <1>1, <2>4, <2>7
<1>8. A <= Cardinality(R)
  BY <1>6, <1>7
<1> QED BY <1>8 DEF R


-----------------------------------------------------------------------------
(* The slots of a tick *)

\* What the first loop left starting; what the second loop would start, in which order;
\* and how many it may start.
Early(seen) == {t \in Managed : FirstEntries(seen)[t].st = "starting"}

Able(seen) == {t \in Managed : WillStart(FirstEntries(seen), FirstTabs, t)}

Order(seen) == {p \in Managed \X Managed : Before(FirstEntries(seen), p[1], p[2])}

Slots(seen) == Available(FirstEntries(seen))

\* Tab order with the interrupted agents in front is a strict total order.
LEMMA OrderFacts ==
  ASSUME StartInv, NEW seen \in Seen, TickBy(seen)
  PROVE  /\ \A x \in Managed : <<x, x>> \notin Order(seen)
         /\ \A x, y, z \in Managed : <<x, y>> \in Order(seen) /\ <<y, z>> \in Order(seen) => <<x, z>> \in Order(seen)
         /\ \A x, y \in Managed : x = y \/ <<x, y>> \in Order(seen) \/ <<y, x>> \in Order(seen)
<1> DEFINE p(x) == FirstEntries(seen)[x].pending
<1>1. \A x \in Managed : x \in Nat /\ p(x) \in BOOLEAN
  <2> TAKE x \in Managed
  <2>1. FirstEntries(seen)[x] \in Entries /\ x \in Tabs
    BY TickOf
  <2> QED BY <2>1, RestoreAssumption DEF Entries
<1>2. \A x, y \in Managed : <<x, y>> \in Order(seen) <=> IF p(x) = p(y) THEN x < y ELSE p(x)
  BY DEF Order, Before
<1> HIDE DEF p
<1>3. ASSUME NEW x \in Managed PROVE <<x, x>> \notin Order(seen)
  <2>1. ~(x < x)
    BY <1>1
  <2> QED BY <1>2, <2>1
<1>4. ASSUME NEW x \in Managed, NEW y \in Managed, NEW z \in Managed,
             <<x, y>> \in Order(seen), <<y, z>> \in Order(seen)
      PROVE  <<x, z>> \in Order(seen)
  <2>1. x \in Nat /\ y \in Nat /\ z \in Nat /\ p(x) \in BOOLEAN /\ p(y) \in BOOLEAN /\ p(z) \in BOOLEAN
    BY <1>1
  <2>2. (IF p(x) = p(y) THEN x < y ELSE p(x)) /\ (IF p(y) = p(z) THEN y < z ELSE p(y))
    BY <1>2, <1>4
  <2>3. x < y /\ y < z => x < z
    BY <2>1
  <2>4. IF p(x) = p(z) THEN x < z ELSE p(x)
    BY <2>1, <2>2, <2>3
  <2> QED BY <1>2, <2>4
<1>5. ASSUME NEW x \in Managed, NEW y \in Managed, x # y
      PROVE  <<x, y>> \in Order(seen) \/ <<y, x>> \in Order(seen)
  <2>1. x \in Nat /\ y \in Nat /\ p(x) \in BOOLEAN /\ p(y) \in BOOLEAN
    BY <1>1
  <2>2. x < y \/ y < x
    BY <1>5, <2>1
  <2> QED BY <1>2, <2>1, <2>2
<1> QED BY <1>3, <1>4, <1>5

\* What the second loop makes of an entry that it does not reach, starts, or flags.
LEMMA StartedPassed ==
  ASSUME NEW es, NEW ws, NEW t, ~Reached(es, ws, t)
  PROVE  StartedEntry(es, ws, t) = es[t]
BY DEF StartedEntry

LEMMA StartedStarts ==
  ASSUME NEW es, NEW ws, NEW t, es[t] \in Entries, Reached(es, ws, t), WillStart(es, ws, t), ~Paused(es[t], ws[t])
  PROVE  StartedEntry(es, ws, t).st = "starting"
<1>1. StartedEntry(es, ws, t) = [es[t] EXCEPT !.st = "starting", !.slow = FALSE]
  BY DEF StartedEntry
<1> DEFINE no == FALSE
<1>2. StartedEntry(es, ws, t) = [es[t] EXCEPT !.st = "starting", !.slow = no]
  BY <1>1
<1> HIDE DEF no
<1> QED BY <1>2 DEF Entries

LEMMA StartedFails ==
  ASSUME NEW es, NEW ws, NEW t, es[t] \in Entries, Reached(es, ws, t), ~WillStart(es, ws, t)
  PROVE  StartedEntry(es, ws, t).st \in {"paused", "couldNotStart"}
<1>1. CASE Paused(es[t], ws[t])
  <2>1. StartedEntry(es, ws, t) = [es[t] EXCEPT !.st = "paused", !.cancel = FALSE]
    BY <1>1 DEF StartedEntry
  <2> DEFINE no == FALSE
  <2>2. StartedEntry(es, ws, t) = [es[t] EXCEPT !.st = "paused", !.cancel = no]
    BY <2>1
  <2> HIDE DEF no
  <2> QED BY <2>2 DEF Entries
<1>2. CASE ~Paused(es[t], ws[t])
  <2>1. StartedEntry(es, ws, t) = [es[t] EXCEPT !.st = "couldNotStart"]
    BY <1>2 DEF StartedEntry
  <2> QED BY <2>1 DEF Entries
<1> QED BY <1>1, <1>2

\* The second loop starts the first of those it could start, as many as there are slots,
\* and leaves queued only what has too many before it.
LEMMA TickStarts ==
  ASSUME StartInv, NEW seen \in Seen, TickBy(seen)
  PROVE  /\ Starting' = Early(seen) \cup FirstOf(Able(seen), Order(seen), Slots(seen))
         /\ Early(seen) \cap Able(seen) = {} /\ Early(seen) \subseteq Starting
         /\ Able(seen) \subseteq Managed /\ IsFiniteSet(Managed)
         /\ \A t \in Managed : entry'[t].st = "queued" =>
              ~(Cardinality(Below(Able(seen), Order(seen), t)) < Slots(seen))
<1> DEFINE es == FirstEntries(seen)
           ws == FirstTabs
           W == Able(seen)
           P == Order(seen)
           A == Slots(seen)
<1>1. Managed' = Managed /\ Managed \subseteq Tabs
  BY TickManaged DEF Managed
<1>2. IsFiniteSet(Managed)
  BY <1>1, RestoreAssumption, FS_Subset
<1>3. ASSUME NEW t \in Managed
      PROVE  /\ es[t] \in Entries /\ entry'[t] = StartedEntry(es, ws, t)
             /\ es[t].st = "starting" => entry[t].st = "starting"
  <2>1. /\ es[t] = CheckedEntry(entry[t], tab[t], seen[t]) /\ es[t] \in Entries /\ entry'[t] = StartedEntry(es, ws, t)
        /\ entry[t] \in Entries /\ tab[t] \in TabRecords
    BY TickOf
  <2>2. es[t].st = Checked(entry[t], tab[t]) \/ es[t].st = "continueFailed"
    BY <2>1, EntryChecked
  <2> QED BY <2>1, <2>2, CheckedFacts
<1>4. ASSUME NEW t \in Managed
      PROVE  Reached(es, ws, t) <=> es[t].st = "queued" /\ Cardinality(Below(W, P, t)) < A
  <2>1. {u \in Managed : WillStart(es, ws, u) /\ Before(es, u, t)} = Below(W, P, t)
    BY DEF Below, Able, Order
  <2> QED BY <2>1 DEF Reached, Slots
<1>5. ASSUME NEW t \in Managed
      PROVE  /\ entry'[t].st = "starting" <=> es[t].st = "starting" \/ (Reached(es, ws, t) /\ WillStart(es, ws, t))
             /\ entry'[t].st = "queued" => es[t].st = "queued" /\ ~Reached(es, ws, t)
  <2>1. es[t] \in Entries /\ entry'[t] = StartedEntry(es, ws, t)
    BY <1>3
  <2>2. Reached(es, ws, t) => es[t].st = "queued"
    BY DEF Reached
  <2>3. WillStart(es, ws, t) => ~Paused(es[t], ws[t])
    BY DEF WillStart
  <2>4. CASE ~Reached(es, ws, t)
    BY <2>1, <2>4, StartedPassed
  <2>5. CASE Reached(es, ws, t) /\ WillStart(es, ws, t)
    BY <2>1, <2>3, <2>5, StartedStarts
  <2>6. CASE Reached(es, ws, t) /\ ~WillStart(es, ws, t)
    BY <2>1, <2>2, <2>6, StartedFails
  <2> QED BY <2>4, <2>5, <2>6
<1>6. \A t \in Managed : WillStart(es, ws, t) => es[t].st = "queued"
  BY DEF WillStart
<1>7. \A t \in Managed : t \in W <=> WillStart(es, ws, t)
  BY DEF Able
<1>8. \A t \in Managed : t \in Early(seen) <=> es[t].st = "starting"
  BY DEF Early
<1>9. \A t \in Managed : entry'[t].st = "starting" <=> t \in Early(seen) \/ t \in FirstOf(W, P, A)
  BY <1>4, <1>5, <1>6, <1>7, <1>8 DEF FirstOf
<1>10. Starting' = {t \in Managed : entry'[t].st = "starting"}
  BY <1>1 DEF Starting
<1>11. Early(seen) \subseteq Managed /\ W \subseteq Managed /\ FirstOf(W, P, A) \subseteq Managed
  BY DEF Early, Able, FirstOf
<1>12. Starting' = Early(seen) \cup FirstOf(W, P, A)
  BY <1>9, <1>10, <1>11
<1>13. Early(seen) \cap W = {}
  BY <1>6, <1>7, <1>8, <1>11
<1>14. Early(seen) \subseteq Starting
  BY <1>3, <1>8, <1>11 DEF Starting
<1> QED BY <1>2, <1>4, <1>5, <1>11, <1>12, <1>13, <1>14


\* The slots of a tick are what the starts it keeps leave free.
LEMMA SlotFacts ==
  ASSUME StartInv, StartsCounted, NEW seen \in Seen, TickBy(seen)
  PROVE  /\ IsFiniteSet(Early(seen)) /\ Cardinality(Early(seen)) \in Nat
         /\ Slots(seen) \in Nat /\ Slots(seen) = MaxStarts - Cardinality(Early(seen))
<1>1. Early(seen) \subseteq Starting /\ Starting \subseteq Managed /\ IsFiniteSet(Managed)
  BY TickStarts DEF Starting
<1>2. IsFiniteSet(Starting) /\ Cardinality(Starting) \in Nat
  BY <1>1, FS_Subset, FS_CardinalityType
<1>3. IsFiniteSet(Early(seen)) /\ Cardinality(Early(seen)) \in Nat /\ Cardinality(Early(seen)) <= Cardinality(Starting)
  BY <1>1, <1>2, FS_Subset, FS_CardinalityType
<1>4. Slots(seen) = MaxStarts - Cardinality(Early(seen))
  BY DEF Slots, Available, Early
<1> QED BY <1>2, <1>3, <1>4, RestoreAssumption DEF StartsCounted

\* A tick never starts more than it has slots for.
LEMMA CountTick ==
  ASSUME StartInv, StartsCounted, Tick
  PROVE  StartsCounted'
<1>1. PICK seen \in Seen : TickBy(seen)
  BY TickForm
<1> DEFINE W == Able(seen)
           P == Order(seen)
           A == Slots(seen)
           F == FirstOf(W, P, A)
<1>2. /\ Starting' = Early(seen) \cup F /\ Early(seen) \cap W = {} /\ W \subseteq Managed /\ IsFiniteSet(Managed)
  BY <1>1, TickStarts
<1>3. IsFiniteSet(W) /\ F \subseteq W
  BY <1>2, FS_Subset DEF FirstOf
<1>4. /\ IsFiniteSet(Early(seen)) /\ Cardinality(Early(seen)) \in Nat
      /\ A \in Nat /\ A = MaxStarts - Cardinality(Early(seen))
  BY <1>1, SlotFacts
<1>5. /\ \A x \in W : <<x, x>> \notin P
      /\ \A x, y, z \in W : <<x, y>> \in P /\ <<y, z>> \in P => <<x, z>> \in P
      /\ \A x, y \in W : x = y \/ <<x, y>> \in P \/ <<y, x>> \in P
  BY <1>1, <1>2, OrderFacts
<1> HIDE DEF W, P, A
<1>6. IsFiniteSet(F) /\ Cardinality(F) \in Nat /\ Cardinality(F) <= A
  BY <1>3, <1>4, <1>5, FirstAtMost
<1>7. Early(seen) \cap F = {}
  BY <1>2, <1>3
<1> HIDE DEF F
<1>8. Cardinality(Early(seen) \cup F) = Cardinality(Early(seen)) + Cardinality(F)
  <2>1. Cardinality(Early(seen) \cup F)
          = Cardinality(Early(seen)) + Cardinality(F) - Cardinality(Early(seen) \cap F)
    BY <1>4, <1>6, FS_Union
  <2>2. Cardinality(Early(seen) \cap F) = 0
    BY <1>7, FS_EmptySet
  <2> QED BY <1>4, <1>6, <2>1, <2>2
<1>9. Cardinality(Early(seen) \cup F) <= MaxStarts
  BY <1>4, <1>6, <1>8, RestoreAssumption
<1> QED BY <1>2, <1>9 DEF StartsCounted

\* Nothing but a tick starts an agent, and a launch begins with none.
LEMMA CountStep == StartInv /\ StartsCounted /\ [Next]_vars => StartsCounted'
<1> SUFFICES ASSUME StartInv, StartsCounted, [Next]_vars PROVE StartsCounted'
  OBVIOUS
<1>1. IsFiniteSet(Starting) /\ Cardinality(Starting) \in Nat
  <2>1. Starting \subseteq Tabs
    BY DEF Starting, Managed
  <2> QED BY <2>1, RestoreAssumption, FS_Subset, FS_CardinalityType
<1>2. ASSUME Starting' \subseteq Starting PROVE StartsCounted'
  <2>1. IsFiniteSet(Starting') /\ Cardinality(Starting') <= Cardinality(Starting) /\ Cardinality(Starting') \in Nat
    BY <1>1, <1>2, FS_Subset, FS_CardinalityType
  <2> QED BY <1>1, <2>1, RestoreAssumption DEF StartsCounted
<1>3. ASSUME entry' = entry PROVE StartsCounted'
  BY <1>2, <1>3 DEF Starting, Managed
<1>4. CASE Tick
  BY <1>4, CountTick
<1>5. CASE RetryStalled
  <2>1. /\ Managed' = Managed
        /\ \A u \in Managed : entry'[u].st = entry[u].st \/ (entry[u].st = "didNotStart" /\ entry'[u].st = "queued")
    BY <1>5, RetryStalledInv
  <2> QED BY <1>2, <2>1 DEF Starting
<1>6. CASE Record \/ ClockMoves
  BY <1>3, <1>6 DEF Record, ClockMoves
<1>7. CASE Quit \/ Crash
  <2>1. PICK R \in SUBSET Open, panes \in SUBSET Tabs :
          LET l == Launched(key, R, panes)
          IN  tab' = l.tab /\ entry' = l.entry /\ ticks' = l.ticks /\ key' = key
    BY <1>7, RelaunchForm
  <2>3. entry' = Launched(key, R, panes).entry
    BY <2>1
  <2>4. key \in [Tabs -> Keys \cup {NoKey}] /\ R \in SUBSET Tabs
    BY DEF StartInv, TypeOK, Open
  <2>5. LaunchSound(Launched(key, R, panes), key, R, panes)
    BY <2>4, LaunchFacts
  <2>6. \A t \in Tabs : entry'[t] # NoEntry => entry'[t].st \in {"duplicate", "queued"}
    BY <2>3, <2>5 DEF LaunchSound
  <2>7. Starting' = {}
    BY <2>6 DEF Starting, Managed
  <2> QED BY <1>2, <2>7
<1>8. ASSUME NEW t \in Tabs, TabNext(t) PROVE StartsCounted'
  <2>1. CASE Elapse(t)
    <3>1. Managed' = Managed /\ \A u \in Managed : entry'[u].st = entry[u].st
      BY <2>1, ElapseInv
    <3> QED BY <1>2, <3>1 DEF Starting
  <2>2. CASE ~Elapse(t)
    BY <1>3, <1>8, <2>2 DEF TabNext, Focus, Bootstrapped, EditorOpens, Preexec, DidNotStart, RetrySettled,
         AgentChanges, AgentExits, SessionChanges, UserTypes, CloseTab, OnlyTab
  <2> QED BY <2>1, <2>2
<1>9. CASE UNCHANGED vars
  BY <1>3, <1>9 DEF vars
<1> QED BY <1>4, <1>5, <1>6, <1>7, <1>8, <1>9 DEF Next

LEMMA CountInit == Init => StartsCounted
<1> SUFFICES ASSUME Init PROVE StartsCounted
  OBVIOUS
<1>1. PICK R \in SUBSET Tabs : R = Tabs
  OBVIOUS
<1> DEFINE panes == Read(file, stale)
<1>2. entry = Launched(key, R, panes).entry /\ key \in [Tabs -> Keys \cup {NoKey}] /\ panes \in SUBSET Tabs
  BY <1>1, ReadFacts DEF Init
<1> HIDE DEF panes
<1>3. LaunchSound(Launched(key, R, panes), key, R, panes)
  BY <1>2, LaunchFacts
<1>4. \A t \in Tabs : entry[t] # NoEntry => entry[t].st \in {"duplicate", "queued"}
  BY <1>2, <1>3 DEF LaunchSound
<1>5. Starting = {}
  BY <1>4 DEF Starting, Managed
<1> QED BY <1>5, FS_EmptySet, RestoreAssumption DEF StartsCounted

LEMMA StartsAlwaysCounted == Spec => []StartsCounted
  BY CountInit, CountStep, RestoreSound, PTL DEF Spec

\* The restore commands that are under way, and that the queue counts on, are never more
\* than CONCURRENT_STARTS, for any number of tabs and whatever the user does: a tab that
\* still waits in the queue holds its command, so each of them belongs to a start.
THEOREM StartsStayBounded == Spec => []StartsBounded
<1>1. StartInv /\ StartsCounted => StartsBounded
  <2> SUFFICES ASSUME StartInv, StartsCounted PROVE StartsBounded
    OBVIOUS
  <2>1. ASSUME NEW t \in Managed, UnderWay(t) PROVE entry[t].st = "starting"
    <3>1. /\ EntrySound(entry[t], tab[t]) /\ TabSound(tab[t]) /\ entry[t].retrying \in BOOLEAN
      BY PartsOf DEF Entries
    <3>2. ~tab[t].stash /\ entry[t].st \in {"queued", "starting"}
          /\ (tab[t].cmd \in {"released", "parked", "written"} \/ tab[t].settle \/ tab[t].agent = "loading")
      BY <2>1 DEF UnderWay
    <3>3. tab[t].open
      BY <3>1, <3>2 DEF TabSound
    <3>4. entry[t].st # "queued"
      <4>1. CASE entry[t].retrying
        BY <3>1, <3>2, <3>3, <4>1 DEF EntrySound
      <4>2. CASE ~entry[t].retrying
        BY <3>1, <3>2, <3>3, <4>2 DEF EntrySound
      <4> QED BY <4>1, <4>2
    <3> QED BY <3>2, <3>4
  <2>2. {t \in Managed : UnderWay(t)} \subseteq Starting
    BY <2>1 DEF Starting
  <2>3. IsFiniteSet(Starting) /\ Cardinality(Starting) \in Nat
    <3>1. Starting \subseteq Tabs
      BY DEF Starting, Managed
    <3> QED BY <3>1, RestoreAssumption, FS_Subset, FS_CardinalityType
  <2>4. /\ IsFiniteSet({t \in Managed : UnderWay(t)})
        /\ Cardinality({t \in Managed : UnderWay(t)}) <= Cardinality(Starting)
    BY <2>2, <2>3, FS_Subset
  <2>5. Cardinality({t \in Managed : UnderWay(t)}) \in Nat
    BY <2>4, FS_CardinalityType
  <2> QED BY <2>3, <2>4, <2>5, RestoreAssumption DEF StartsBounded, StartsCounted
<1> QED BY <1>1, RestoreSound, StartsAlwaysCounted, PTL

\* No slot is wasted: a tick that leaves an agent in the queue leaves every slot taken,
\* and none of them by a start that can no longer succeed.
THEOREM NoSlotIsWasted == Spec => SlotsNotWasted
<1> DEFINE waiting == \E t \in Managed' : entry'[t].st = "queued"
           wasted == \/ Cardinality({t \in Managed' : entry'[t].st = "starting"}) < MaxStarts
                     \/ \E t \in Managed' : entry'[t].st = "starting" /\ t \in Managed /\ Hopeless(t)
<1>1. ASSUME StartInv, StartsCounted, Tick, waiting PROVE ~wasted
  <2>1. PICK seen \in Seen : TickBy(seen)
    BY <1>1, TickForm
  <2> DEFINE W == Able(seen)
             P == Order(seen)
             A == Slots(seen)
             F == FirstOf(W, P, A)
  <2>2. /\ Starting' = Early(seen) \cup F /\ Early(seen) \cap W = {} /\ W \subseteq Managed /\ IsFiniteSet(Managed)
        /\ Early(seen) \subseteq Starting /\ Managed' = Managed
        /\ \A t \in Managed : entry'[t].st = "queued" => ~(Cardinality(Below(W, P, t)) < A)
    BY <1>1, <2>1, TickStarts, TickManaged
  <2>3. IsFiniteSet(W) /\ F \subseteq W
    BY <2>2, FS_Subset DEF FirstOf
  <2>4. /\ IsFiniteSet(Early(seen)) /\ Cardinality(Early(seen)) \in Nat
        /\ A \in Nat /\ A = MaxStarts - Cardinality(Early(seen))
    BY <1>1, <2>1, SlotFacts
  <2>5. /\ \A x \in Managed : <<x, x>> \notin P
        /\ \A x, y, z \in Managed : <<x, y>> \in P /\ <<y, z>> \in P => <<x, z>> \in P
    BY <1>1, <2>1, OrderFacts
  <2>6. PICK t \in Managed : entry'[t].st = "queued"
    BY <1>1, <2>2
  <2>7. ~(Cardinality(Below(W, P, t)) < A)
    BY <2>2, <2>6
  <2>8. Starting' = {u \in Managed : entry'[u].st = "starting"}
    BY <2>2 DEF Starting
  <2> HIDE DEF W, P, A
  <2>9. A <= Cardinality(F)
    <3>1. /\ \A x \in W : <<x, x>> \notin P
          /\ \A x, y \in W : \A z \in W \cup {t} : <<x, y>> \in P /\ <<y, z>> \in P => <<x, z>> \in P
      BY <2>2, <2>5
    <3> QED BY <2>3, <2>4, <2>7, <3>1, FirstAtLeast
  <2>10. IsFiniteSet(F) /\ Cardinality(F) \in Nat /\ Early(seen) \cap F = {}
    BY <2>2, <2>3, FS_Subset, FS_CardinalityType
  <2> HIDE DEF F
  <2>11. Cardinality(Early(seen) \cup F) = Cardinality(Early(seen)) + Cardinality(F)
    <3>1. Cardinality(Early(seen) \cup F)
            = Cardinality(Early(seen)) + Cardinality(F) - Cardinality(Early(seen) \cap F)
      BY <2>4, <2>10, FS_Union
    <3>2. Cardinality(Early(seen) \cap F) = 0
      BY <2>10, FS_EmptySet
    <3> QED BY <2>4, <2>10, <3>1, <3>2
  <2>12. ~(Cardinality(Starting') < MaxStarts)
    BY <2>2, <2>4, <2>9, <2>10, <2>11, RestoreAssumption
  <2>13. ASSUME NEW u \in Managed, entry'[u].st = "starting", Hopeless(u) PROVE FALSE
    <3>1. u \in Early(seen)
      <4>1. entry[u].st = "starting"
        BY <2>13 DEF Hopeless
      <4>2. FirstEntries(seen)[u].st # "queued"
        <5>1. /\ FirstEntries(seen)[u] = CheckedEntry(entry[u], tab[u], seen[u])
              /\ entry[u] \in Entries /\ tab[u] \in TabRecords
          BY <1>1, <2>1, TickOf
        <5>2. FirstEntries(seen)[u].st = Checked(entry[u], tab[u]) \/ FirstEntries(seen)[u].st = "continueFailed"
          BY <5>1, EntryChecked
        <5> QED BY <4>1, <5>1, <5>2, CheckedFacts
      <4>3. u \notin W
        BY <4>2 DEF W, Able, WillStart
      <4>4. u \in Starting'
        BY <2>8, <2>13
      <4> QED BY <2>2, <2>3, <4>3, <4>4
    <3>2. FirstEntries(seen)[u].st = "starting"
      BY <3>1 DEF Early
    <3>3. /\ FirstEntries(seen)[u] = CheckedEntry(entry[u], tab[u], seen[u])
          /\ entry[u] \in Entries /\ tab[u] \in TabRecords
      BY <1>1, <2>1, TickOf
    <3>4. Checked(entry[u], tab[u]) = "starting"
      BY <3>2, <3>3, EntryChecked
    <3>5. tab[u].open /\ ~Ready(tab[u]) /\ ~tab[u].stalled /\ tab[u].keyOk /\ ~entry[u].slow
      BY <3>3, <3>4, CheckedFacts
    <3> QED BY <2>13, <3>5 DEF Hopeless
  <2> QED BY <2>2, <2>8, <2>12, <2>13
<1>2. StartInv /\ StartsCounted /\ [Next]_vars =>
        [(/\ \E t \in Managed' : entry'[t].st = "queued"
          /\ \/ Cardinality({t \in Managed' : entry'[t].st = "starting"}) < MaxStarts
             \/ \E t \in Managed' : entry'[t].st = "starting" /\ t \in Managed /\ Hopeless(t)) => ~Tick]_vars
  BY <1>1
<1> QED BY <1>2, RestoreSound, StartsAlwaysCounted, PTL DEF Spec, SlotsNotWasted
=============================================================================
