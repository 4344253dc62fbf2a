-------------------------- MODULE MCDeliveryShared --------------------------
(***************************************************************************)
(* Instances of Delivery in which messages compete: for the queue of one   *)
(* terminal, or for the two instances of one process.                      *)
(***************************************************************************)
EXTENDS MCDelivery, TLC

CONSTANT s2          \* the sender that only the queue scenario has

VARIABLE scenario    \* chosen at the start

RequestSymmetry == Permutations(Requests)

\* The requests that an instance has recorded.
Recorded(i) == {r \in Requests : journal[r] # NoRow /\ journal[r].inst = i}

\* Several messages of two senders for one terminal: the provider and the clock.
QueueNext ==
  \/ AnyWorker \/ StartControl(p1, i1) \/ Clock
  \/ \E t \in Terms : \/ Timers(t) \/ InputSettles(t)
                      \/ \E st \in {"idle", "working"} : StatusChange(t, st)

\* What a worker does when its instance is asked for one message of the first sender.
OneSend(i) ==
  \/ Poll(i)
  \/ \E r \in Requests : TakeCancel(i, r)
  \/ \E op \in {o \in Sends : o.sender # s2 /\ Recorded(i) \subseteq {o.req}} : TakeSend(i, op)
  \/ Admit(i) \/ AdmitRefused(i) \/ Insert(i)
  \/ \E m \in worker[i].todo :
       ProbeStep(i, m) \/ RefuseStep(i, m) \/ ClaimStep(i, m) \/ SendStep(i, m) \/ SettleStep(i, m)
  \/ \E f \in finished[i] : TakeFinished(i, f)
  \/ TakeShutdown(i)

\* Local control is switched off and on: a second instance in the same process.
\* One message for each, one storage error, the keyboard, and while an Enter is due
\* what is typed in a synchronized pane.
ReplaceNext ==
  \/ \E i \in Instances : OneSend(i) \/ FaultStep(i)
  \/ Begin \/ StopControl(p1)
  \/ \E t \in Terms : Timers(t) \/ InputSettles(t) \/ HumanInput(t)
                      \/ (flight[t] # {} /\ PlainInput(t))

SharedInit == Init /\ scenario \in {"queue", "replace"}

SharedNext ==
  /\ UNCHANGED scenario
  /\ \/ scenario = "queue" /\ QueueNext
     \/ scenario = "replace" /\ ReplaceNext

SharedSpec == SharedInit /\ [][SharedNext]_<<vars, scenario>>
=============================================================================
