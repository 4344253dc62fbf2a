----------------------------- MODULE WakeProofs -----------------------------
(***************************************************************************)
(* Proofs about WakePlanner, for any number of sessions and any intervals  *)
(* with BatchWindow <= RetryDelay.                                         *)
(*                                                                         *)
(* OutstandingOnTime is not inductive: it speaks of a timer only while     *)
(* something is outstanding, but a timer that outlives what it was started *)
(* for is the one a later update finds.  The invariant therefore bounds    *)
(* every timer, by the retry interval or by the distance from the last     *)
(* wakeup.                                                                 *)
(***************************************************************************)
EXTENDS WakePlanner, TLAPS

\* The history variable is the planner's own clock.
Linked == since = last

\* Whatever is outstanding has a timer.
TimerRuns == Outstanding => timer # Never

\* first_pending_at is set exactly while updates wait.
Anchored == HasPending <=> first # Never

\* No timer runs longer than the retry interval or the minimum distance asks for.
TimerShort == timer # Never => (timer <= RetryDelay \/ (last # Never /\ timer <= MinWake - last))

IInv == TypeOK /\ Linked /\ TimerRuns /\ Anchored /\ TimerShort

\* The part of the type invariant that an attempt can disturb.
CoreTypeOK ==
  /\ pending \in [Sessions -> Updates \cup {NoUpdate}]
  /\ first \in 0..BatchWindow \cup {Never}
  /\ last \in 0..MinWake \cup {Never} /\ since \in 0..MinWake \cup {Never}
  /\ timer \in Nat \cup {Never}
  /\ requested \in BOOLEAN /\ agent \in Agents

\* A due time lies within the batch window or is the rest of the minimum distance, and
\* is never less than that rest (WakePlanner::due_at).
LEMMA DueInBounds ==
  ASSUME NEW f \in 0..BatchWindow, NEW l \in 0..MinWake \cup {Never}
  PROVE  /\ DueIn(f, l) \in Nat
         /\ DueIn(f, l) <= BatchWindow \/ (l # Never /\ DueIn(f, l) <= MinWake - l)
         /\ l # Never => DueIn(f, l) >= MinWake - l
<1>1. CASE l = Never
  BY <1>1, WakeAssumption DEF DueIn, MaxOf
<1>2. CASE l # Never
  <2>1. l \in 0..MinWake
    BY <1>2
  <2>2. QED
    BY <1>2, <2>1, WakeAssumption DEF DueIn, MaxOf
<1>3. QED
  BY <1>1, <1>2

\* An attempt keeps the invariant, whether the timer makes it (left = Never) or
\* somebody else beside a timer (attempt_auto_coordinate_wakeup and hold).
LEMMA AttemptInv ==
  ASSUME IInv, NEW STATE left, left = Never \/ left = timer, NEW asked \in BOOLEAN,
         Attempt(left, asked)
  PROVE  CoreTypeOK' /\ Linked' /\ TimerRuns' /\ Anchored' /\ TimerShort'
<1> USE WakeAssumption
<1>1. CASE DropAll(left)
  <2>1. pending' = Nothing /\ first' = Never /\ requested' = FALSE /\ timer' = left
        /\ last' = last /\ since' = since /\ agent' = agent
    BY <1>1 DEF DropAll, Drop
  <2>2. ~HasPending'
    BY <2>1 DEF HasPending, Nothing
  <2>3. QED
    BY <2>1, <2>2 DEF IInv, TypeOK, CoreTypeOK, Linked, TimerRuns, Anchored, TimerShort, Outstanding, Nothing
<1>2. CASE NotDue /\ Schedule(left, DueIn(first, last)) /\ UNCHANGED <<planner, requested, since, agent>>
  <2>1. first \in 0..BatchWindow /\ last \in 0..MinWake \cup {Never}
    BY <1>2 DEF IInv, TypeOK, NotDue
  <2>2. timer' = IF left = Never THEN DueIn(first, last) ELSE left
    BY <1>2 DEF Schedule
  <2>3. timer' \in Nat
    BY <2>1, <2>2, DueInBounds DEF IInv, TypeOK
  <2>4. timer' <= RetryDelay \/ (last # Never /\ timer' <= MinWake - last)
    BY <2>1, <2>2, DueInBounds DEF IInv, TypeOK, TimerShort
  <2>5. HasPending' <=> HasPending
    BY <1>2 DEF HasPending, planner
  <2>6. QED
    BY <1>2, <2>3, <2>4, <2>5
       DEF IInv, TypeOK, CoreTypeOK, Linked, TimerRuns, Anchored, TimerShort, Outstanding, planner
<1>3. CASE Hold(left, asked)
  <2>1. timer' = IF left = Never THEN RetryDelay ELSE left
    BY <1>3 DEF Hold, Schedule
  <2>2. timer' \in Nat /\ (timer' <= RetryDelay \/ (last # Never /\ timer' <= MinWake - last))
    <3>1. CASE left = Never
      BY <2>1, <3>1
    <3>2. CASE left # Never
      BY <2>1, <3>2 DEF IInv, TypeOK, TimerShort
    <3>3. QED
      BY <3>1, <3>2
  <2>3. HasPending' <=> HasPending
    BY <1>3 DEF Hold, HasPending
  <2>4. first' \in 0..BatchWindow \cup {Never} /\ (first' # Never <=> HasPending)
    BY <1>3 DEF Hold
  <2>5. agent' \in Agents /\ requested' \in BOOLEAN
    BY <1>3 DEF Hold, IInv, TypeOK, Agents
  <2>6. QED
    BY <1>3, <2>2, <2>3, <2>4, <2>5
       DEF Hold, IInv, TypeOK, CoreTypeOK, Linked, TimerRuns, Anchored, TimerShort, Outstanding
<1>4. CASE Wake(left)
  <2>1. pending' = Nothing /\ first' = Never /\ requested' = FALSE /\ timer' = left
        /\ last' = 0 /\ since' = 0 /\ agent' = agent
    BY <1>4 DEF Wake, Drop
  <2>2. ~HasPending'
    BY <2>1 DEF HasPending, Nothing
  <2>3. CoreTypeOK'
    <3>1. Nothing \in [Sessions -> Updates \cup {NoUpdate}]
      BY DEF Nothing
    <3>2. 0 \in 0..MinWake /\ left \in Nat \cup {Never} /\ agent \in Agents
      BY DEF IInv, TypeOK
    <3>3. QED
      BY <2>1, <3>1, <3>2 DEF CoreTypeOK
  <2>4. TimerShort'
    <3>1. CASE left = Never
      BY <2>1, <3>1 DEF TimerShort
    <3>2. CASE left # Never /\ last = Never
      BY <2>1, <3>2 DEF TimerShort, IInv
    <3>3. CASE left # Never /\ last # Never
      <4>1. left \in Nat /\ last \in 0..MinWake
        BY <3>3 DEF IInv, TypeOK
      <4>2. left <= RetryDelay \/ left <= MinWake - last
        BY <3>3 DEF IInv, TimerShort
      <4>3. left <= RetryDelay \/ left <= MinWake - 0
        BY <4>1, <4>2
      <4>4. QED
        BY <2>1, <4>3 DEF TimerShort
    <3>4. QED
      BY <3>1, <3>2, <3>3
  <2>5. QED
    BY <2>1, <2>2, <2>3, <2>4 DEF Linked, TimerRuns, Anchored, Outstanding
<1>5. QED
  BY <1>1, <1>2, <1>3, <1>4 DEF Attempt

LEMMA InitInv == Init => IInv
  BY WakeAssumption
     DEF Init, IInv, TypeOK, Linked, TimerRuns, Anchored, TimerShort, Outstanding, HasPending, Nothing, Agents

\* Every step keeps the invariant.
LEMMA NextInv ==
  ASSUME IInv, [Next]_vars
  PROVE  IInv'
<1> USE WakeAssumption
<1>1. CASE TimerFires
  <2>1. CASE Outstanding /\ Attempt(Never, requested)
    <3>1. requested \in BOOLEAN
      BY DEF IInv, TypeOK
    <3>2. CoreTypeOK' /\ Linked' /\ TimerRuns' /\ Anchored' /\ TimerShort'
      BY <2>1, <3>1, AttemptInv
    <3>3. QED
      BY <1>1, <3>2 DEF TimerFires, IInv, TypeOK, CoreTypeOK
  <2>2. CASE ~Outstanding /\ timer' = Never /\ UNCHANGED <<planner, requested, since, agent>>
    <3>1. ~Outstanding' /\ (HasPending' <=> HasPending)
      BY <2>2 DEF Outstanding, HasPending, planner
    <3>2. QED
      BY <1>1, <2>2, <3>1
         DEF TimerFires, IInv, TypeOK, Linked, TimerRuns, Anchored, TimerShort, planner
  <2>3. QED
    BY <1>1, <2>1, <2>2 DEF TimerFires
<1>2. CASE RunNow
  <2>1. CoreTypeOK' /\ Linked' /\ TimerRuns' /\ Anchored' /\ TimerShort'
    BY <1>2, AttemptInv DEF RunNow
  <2>2. QED
    BY <1>2, <2>1 DEF RunNow, IInv, TypeOK, CoreTypeOK
<1>3. CASE SwitchOn
  <2>1. CASE Attempt(timer, TRUE)
    <3>1. CoreTypeOK' /\ Linked' /\ TimerRuns' /\ Anchored' /\ TimerShort'
      BY <2>1, AttemptInv
    <3>2. QED
      BY <1>3, <3>1 DEF SwitchOn, IInv, TypeOK, CoreTypeOK
  <2>2. CASE UNCHANGED <<planner, timer, requested, since, agent>>
    BY <1>3, <2>2 DEF SwitchOn, IInv, TypeOK, Linked, TimerRuns, Anchored, TimerShort,
                      Outstanding, HasPending, planner
  <2>3. QED
    BY <1>3, <2>1, <2>2 DEF SwitchOn
<1>4. CASE SwitchOff
  <2>1. ~HasPending'
    BY <1>4 DEF SwitchOff, Drop, HasPending, Nothing
  <2>2. QED
    BY <1>4, <2>1 DEF SwitchOff, Drop, IInv, TypeOK, Linked, TimerRuns, Anchored, TimerShort,
                      Outstanding, Nothing
<1>5. CASE SetDefault \/ SetTactics \/ CloseCoordinator \/ AgentChanges
  <2>1. UNCHANGED <<planner, timer, requested, since>>
    BY <1>5 DEF SetDefault, SetTactics, CloseCoordinator, AgentChanges
  <2>2. agent' \in Agents /\ choice' \in {"unset", "on", "off"}
    BY <1>5 DEF SetDefault, SetTactics, CloseCoordinator, AgentChanges, IInv, TypeOK, Agents
  <2>3. default' \in BOOLEAN /\ tactics' \in BOOLEAN
    BY <1>5 DEF SetDefault, SetTactics, CloseCoordinator, AgentChanges, IInv, TypeOK
  <2>4. HasPending' <=> HasPending
    BY <2>1 DEF HasPending, planner
  <2>5. QED
    BY <2>1, <2>2, <2>3, <2>4
       DEF IInv, TypeOK, Linked, TimerRuns, Anchored, TimerShort, Outstanding, planner
<1>6. CASE Clock
  <2>1. timer # 0 /\ pending' = pending /\ requested' = requested /\ UNCHANGED switches
        /\ timer' = IF timer = Never THEN Never ELSE timer - 1
    BY <1>6 DEF Clock
  <2>2. timer' \in Nat \cup {Never} /\ (timer' = Never <=> timer = Never)
    BY <2>1 DEF IInv, TypeOK
  <2>3. first' \in 0..BatchWindow \cup {Never} /\ (first' = Never <=> first = Never)
    BY <1>6 DEF Clock, Older, IInv, TypeOK
  <2>4. last' \in 0..MinWake \cup {Never} /\ since' = last'
    BY <1>6 DEF Clock, Older, IInv, TypeOK, Linked
  <2>5. TimerShort'
    <3>1. SUFFICES ASSUME timer # Never
                   PROVE  timer - 1 <= RetryDelay \/ (last' # Never /\ timer - 1 <= MinWake - last')
      BY <2>1, <2>2 DEF TimerShort
    <3>2. timer \in Nat \ {0}
      BY <2>1, <3>1 DEF IInv, TypeOK
    <3>3. CASE timer <= RetryDelay
      BY <3>2, <3>3
    <3>4. CASE last # Never /\ timer <= MinWake - last
      <4>1. last \in 0..MinWake /\ last < MinWake
        BY <3>2, <3>4 DEF IInv, TypeOK
      <4>2. last' = last + 1
        BY <1>6, <3>4, <4>1 DEF Clock, Older
      <4>3. QED
        BY <3>2, <3>4, <4>1, <4>2
    <3>5. QED
      BY <3>1, <3>3, <3>4 DEF IInv, TimerShort
  <2>6. HasPending' <=> HasPending
    BY <2>1 DEF HasPending
  <2>7. QED
    BY <2>1, <2>2, <2>3, <2>4, <2>5, <2>6
       DEF IInv, TypeOK, Linked, TimerRuns, Anchored, Outstanding, switches
<1>7. ASSUME NEW s \in Sessions, NEW u \in Updates, Note(s, u)
      PROVE  IInv'
  <2>1. first' \in 0..BatchWindow /\ first' # Never
    BY <1>7 DEF Note, IInv, TypeOK
  <2>2. pending' \in [Sessions -> Updates \cup {NoUpdate}] /\ HasPending'
    BY <1>7 DEF Note, IInv, TypeOK, HasPending
  <2>3. timer' = IF timer = Never THEN DueIn(first', last) ELSE timer
    BY <1>7 DEF Note, Schedule
  <2>4. last \in 0..MinWake \cup {Never} /\ last' = last
    BY <1>7 DEF Note, IInv, TypeOK
  <2>5. timer' \in Nat
    BY <2>1, <2>3, <2>4, DueInBounds DEF IInv, TypeOK
  <2>6. timer' <= RetryDelay \/ (last # Never /\ timer' <= MinWake - last)
    BY <2>1, <2>3, <2>4, DueInBounds DEF IInv, TypeOK, TimerShort
  <2>7. QED
    BY <1>7, <2>1, <2>2, <2>4, <2>5, <2>6
       DEF Note, IInv, TypeOK, Linked, TimerRuns, Anchored, TimerShort, switches
<1>8. CASE UNCHANGED vars
  BY <1>8 DEF vars, planner, switches, IInv, TypeOK, Linked, TimerRuns, Anchored, TimerShort,
              Outstanding, HasPending
<1>9. QED
  BY <1>1, <1>2, <1>3, <1>4, <1>5, <1>6, <1>7, <1>8 DEF Next

\* The planner, its timer and the switches keep their types (auto_coordinate.rs).
THEOREM WakeTypeCorrect == Spec => []TypeOK
<1>1. IInv => TypeOK
  BY DEF IInv
<1>2. QED
  BY InitInv, NextInv, <1>1, PTL DEF Spec

\* Whatever is outstanding is tried when it is due or within the retry interval,
\* although the one timer is never moved (schedule_auto_coordinate_timer and hold).
THEOREM WakeOnTime == Spec => []OutstandingOnTime
<1>1. IInv => OutstandingOnTime
  <2>1. SUFFICES ASSUME IInv PROVE OutstandingOnTime
    OBVIOUS
  <2>2. Outstanding => timer # Never
    BY <2>1 DEF IInv, TimerRuns
  <2>3. ASSUME HasPending PROVE first # Never /\ timer <= MaxOf(DueIn(first, last), RetryDelay)
    <3>1. first \in 0..BatchWindow /\ last \in 0..MinWake \cup {Never} /\ timer \in Nat
      BY <2>1, <2>2, <2>3 DEF IInv, TypeOK, Anchored, Outstanding
    <3>2. DueIn(first, last) \in Nat /\ (last # Never => DueIn(first, last) >= MinWake - last)
      BY <3>1, DueInBounds
    <3>3. timer <= RetryDelay \/ (last # Never /\ timer <= MinWake - last)
      BY <2>1, <3>1, WakeAssumption DEF IInv, TimerShort
    <3>4. timer <= RetryDelay \/ timer <= DueIn(first, last)
      <4>1. CASE timer <= RetryDelay
        BY <4>1
      <4>2. CASE last # Never /\ timer <= MinWake - last
        <5>1. last \in 0..MinWake /\ DueIn(first, last) >= MinWake - last
          BY <3>1, <3>2, <4>2
        <5>2. QED
          BY <3>1, <3>2, <4>2, <5>1, WakeAssumption
      <4>3. QED
        BY <3>3, <4>1, <4>2
    <3>5. timer <= MaxOf(DueIn(first, last), RetryDelay)
      BY <3>1, <3>2, <3>4, WakeAssumption DEF MaxOf
    <3>6. QED
      BY <2>1, <2>3, <3>5 DEF IInv, Anchored
  <2>4. QED
    BY <2>2, <2>3 DEF OutstandingOnTime
<1>2. QED
  BY InitInv, NextInv, <1>1, PTL DEF Spec

\* A wakeup that nobody asked for keeps MIN_WAKE_INTERVAL from every wakeup before it
\* (WakePlanner::due_at and mark_woken).
THEOREM WakeSpacing == Spec => WakesSpaced
<1> DEFINE Spaced == (timer = 0 /\ timer' # 0 /\ HasPending /\ ~HasPending' /\ ~requested /\ Enabled /\ tactics)
                       => since = Never \/ since = MinWake
<1>1. ASSUME IInv, Next PROVE Spaced
  <2> USE WakeAssumption
  <2>1. SUFFICES ASSUME timer = 0, timer' # 0, HasPending, ~HasPending', ~requested, Enabled, tactics
                 PROVE  since = Never \/ since = MinWake
    OBVIOUS
  <2>2. timer # Never
    BY <2>1
  <2>3. CASE TimerFires
    <3>1. Attempt(Never, requested)
      BY <2>1, <2>3 DEF TimerFires, Outstanding
    <3>2. ~DropAll(Never) \/ ~((~requested /\ ~Enabled) \/ agent = "none" \/ ~tactics)
      BY <2>1 DEF Enabled
    <3>3. pending' # pending
      BY <2>1 DEF HasPending
    <3>4. ~NotDue
      BY <2>1, <3>1, <3>3 DEF Attempt, Enabled, planner, Hold
    <3>5. first \in 0..BatchWindow /\ last \in 0..MinWake \cup {Never}
      BY <1>1, <2>1 DEF IInv, TypeOK, Anchored
    <3>6. ~(DueIn(first, last) > 0)
      BY <3>4, <3>5 DEF NotDue
    <3>7. last = Never \/ last = MinWake
      BY <3>5, <3>6, DueInBounds
    <3>8. QED
      BY <1>1, <3>7 DEF IInv, Linked
  <2>4. CASE RunNow
    <3>1. Attempt(timer, TRUE)
      BY <2>4 DEF RunNow
    <3>2. timer' = timer
      BY <2>2, <3>1 DEF Attempt, DropAll, Schedule, Hold, Wake
    <3>3. QED
      BY <2>1, <3>2
  <2>5. CASE SwitchOn
    <3>1. timer' = timer
      BY <2>2, <2>5 DEF SwitchOn, Attempt, DropAll, Schedule, Hold, Wake
    <3>2. QED
      BY <2>1, <3>1
  <2>6. CASE SwitchOff \/ SetDefault \/ SetTactics \/ CloseCoordinator \/ AgentChanges
    <3>1. timer' = timer
      BY <2>6 DEF SwitchOff, SetDefault, SetTactics, CloseCoordinator, AgentChanges
    <3>2. QED
      BY <2>1, <3>1
  <2>7. CASE Clock
    BY <2>1, <2>7 DEF Clock
  <2>8. ASSUME NEW s \in Sessions, NEW u \in Updates, Note(s, u) PROVE FALSE
    <3>1. timer' = timer
      BY <2>2, <2>8 DEF Note, Schedule
    <3>2. QED
      BY <2>1, <3>1
  <2>9. QED
    BY <1>1, <2>3, <2>4, <2>5, <2>6, <2>7, <2>8 DEF Next
<1>2. ASSUME IInv, [Next]_vars PROVE [Spaced]_vars
  BY <1>1, <1>2
<1>3. QED
  BY InitInv, NextInv, <1>2, PTL DEF Spec, WakesSpaced
=============================================================================
