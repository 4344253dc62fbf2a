----------------------------- MODULE MCDelivery -----------------------------
(***************************************************************************)
(* Small instances of Delivery for TLC.  Spec is checked in full for one   *)
(* message; the other instances have more messages, instances or processes *)
(* and leave out the events their question does not turn on.               *)
(***************************************************************************)
EXTENDS Delivery

CONSTANTS p1, p2, i1, i2, t1, t2

OneProcess == [i \in Instances |-> p1]

TermsInP1 == [t \in Terms |-> p1]

OwnProcess == [i \in Instances |-> IF i = i1 THEN p1 ELSE p2]

AnyWorker == \E i \in Instances : WorkerStep(i)

Timers(t) == \E f \in flight[t] : EnterFires(t, f)

Begin == \E i \in Instances : StartControl(InstHome[i], i)

\* Everything but storage errors and plain input (see MCDeliveryShared).
FullNext ==
  \/ AnyWorker
  \/ \E t \in Terms :
       \/ Timers(t) \/ HumanInput(t) \/ Interrupt(t) \/ PromptAck(t)
       \/ InputSettles(t) \/ (\E st \in Status : StatusChange(t, st)) \/ ReplaceSession(t)
       \/ ReleaseDeferred(t) \/ Launch(t) \/ ToggleWriter(t) \/ ClosePane(t)
  \/ \E p \in Procs : ProcStep(p)
  \/ Clock

FullSpec == Init /\ [][FullNext]_vars

\* Two app processes share the journal; the first may crash.
CrashNext ==
  \/ AnyWorker \/ Begin \/ Clock \/ Crash(p1)
  \/ \E t \in Terms : Timers(t) \/ InputSettles(t) \/ HumanInput(t)

CrashSpec == Init /\ [][CrashNext]_vars

FairCrashSpec == CrashSpec /\ Fairness
============================================================================
