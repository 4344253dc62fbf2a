--------------------------- MODULE MCObservation ----------------------------
(***************************************************************************)
(* Instances of Observation for TLC.  A run follows the log or the inbox,  *)
(* as its initial state says: the two share the worker and its queue, but  *)
(* neither reads what the other writes.                                    *)
(***************************************************************************)
EXTENDS Observation

CONSTANTS i1, i2, r1,
  LogAsks, LogTime    \* bounds of the log scenario, below MaxAsks and MaxTime

VARIABLE scenario

LogNext ==
  \/ \E i \in Insts :
       \/ Start(i) \/ Stop(i) \/ WorkerStep(i) \/ Fault(i)
       \/ i = i1 /\ \E a \in Agents, v \in Values : \E signal \in {NoAgent, a} : Change(i, a, v, signal)
       \/ asks.req < LogAsks /\ AskEvents(i, r1)
  \/ now < LogTime /\ Clock

InboxNext ==
  \/ \E i \in Insts :
       \/ WorkerStep(i)
       \/ \E r \in Readers : \/ AskInbox(i, r)
                             \/ \E b \in DOMAIN issued : AskAck(i, r, b)
  \/ \E c \in Convs : Grow(c)
  \/ Clock

LogInit == Init /\ scenario = "log"

\* Both instances have recorded that they began and captured an empty workspace.
InboxInit ==
  /\ scenario = "inbox"
  /\ rows = {[inst |-> i, agent |-> NoAgent, value |-> 0, mark |-> 0, created |-> 0,
              seq |-> IF i = i1 THEN 1 ELSE 2] : i \in Insts}
  /\ nextSeq = 3
  /\ log = [i \in Insts |-> <<[agent |-> NoAgent, value |-> 0, mark |-> 0,
                                seq |-> IF i = i1 THEN 1 ELSE 2]>>]
  /\ svc = [i \in Insts |-> [Off EXCEPT !.pc = "idle"]]
  /\ floors = [i \in Insts |-> [seq |-> 0, at |-> 0]]
  /\ ckpts = [r \in Readers |-> NoRow]
  /\ batches = [b \in {} |-> NoRow] /\ issued = <<>>
  /\ consumed = [r \in Readers |-> [c \in Convs |-> {}]]
  /\ world = [i \in Insts |-> Empty] /\ files = [c \in Convs |-> 0]
  /\ client = [r \in Readers |-> Fresh]
  /\ now = 0 /\ faults = 0 /\ asks = [obs |-> 0, req |-> 0]
  /\ lost = [i \in Insts |-> 0] /\ answers = {} /\ cut = {}

MCNext ==
  /\ UNCHANGED scenario
  /\ \/ scenario = "log" /\ LogNext
     \/ scenario = "inbox" /\ InboxNext

MCSpec == (LogInit \/ InboxInit) /\ [][MCNext]_<<vars, scenario>>
=============================================================================
