------------------------------- MODULE Receipt -------------------------------
(***************************************************************************)
(* What the durable delivery journal promises about one message, seen by   *)
(* the caller who holds its request ID: a receipt moves along              *)
(*                                                                         *)
(*   none -> queued -> cancelled | expired                                 *)
(*                  -> dispatching -> failed            (nothing written)  *)
(*                                 -> delivery_unknown                     *)
(*                                 -> submitted         (Enter written)    *)
(*                                                                         *)
(* and back to none only when the retention of a settled receipt ends.     *)
(* The bytes of the prompt reach the terminal once and only while the      *)
(* receipt is dispatching; Enter follows the bytes at most once.  A late   *)
(* Enter may still follow a receipt that already says delivery_unknown.    *)
(***************************************************************************)
CONSTANT Requests

VARIABLE receipt

Settled == {"submitted", "delivery_unknown", "failed", "cancelled", "expired"}

States == {"none", "queued", "dispatching"} \cup Settled

Receipts == [state : States, text : BOOLEAN, entered : BOOLEAN]

Blank == [state |-> "none", text |-> FALSE, entered |-> FALSE]

Init == receipt = [r \in Requests |-> Blank]

Accept(old, new) == old = Blank /\ new = [Blank EXCEPT !.state = "queued"]

Refuse(old, new) ==
  /\ old.state = "queued"
  /\ \E s \in {"cancelled", "expired"} : new = [old EXCEPT !.state = s]

Claim(old, new) == old.state = "queued" /\ new = [old EXCEPT !.state = "dispatching"]

Write(old, new) ==
  /\ old.state = "dispatching" /\ ~old.text
  /\ new = [old EXCEPT !.text = TRUE]

Enter(old, new) ==
  /\ old.state \in {"dispatching", "delivery_unknown"} /\ old.text /\ ~old.entered
  /\ new = [old EXCEPT !.entered = TRUE]

Settle(old, new) ==
  /\ old.state = "dispatching"
  /\ \/ ~old.text /\ new = [old EXCEPT !.state = "failed"]
     \/ old.entered /\ new = [old EXCEPT !.state = "submitted"]
     \/ new = [old EXCEPT !.state = "delivery_unknown"]

Forget(old, new) == old.state \in Settled /\ new = Blank

Step(old, new) ==
  \/ Accept(old, new) \/ Refuse(old, new) \/ Claim(old, new) \/ Write(old, new)
  \/ Enter(old, new) \/ Settle(old, new) \/ Forget(old, new)

\* One maintenance pass may move many receipts, each by one legal step.
Next == \A r \in Requests : receipt'[r] = receipt[r] \/ Step(receipt[r], receipt'[r])

Spec == Init /\ [][Next]_receipt
=============================================================================
