------------------------------ MODULE MCRemote ------------------------------
(***************************************************************************)
(* Instances of the remote-control modules for TLC: one phone with two     *)
(* sessions, one with a single session, and one pane.  A behaviour is      *)
(* about the desktop (its user looks at the pane, phones pin its width),   *)
(* about accounts (sessions expire, devices are revoked, the service       *)
(* stops) or about the service alone, as its initial state says.           *)
(***************************************************************************)
EXTENDS WriterLeases, RemoteService

CONSTANTS a1, a2, b1, phoneA, phoneB

VARIABLE scenario

TwoPhones == [s \in Sessions |-> IF s = b1 THEN phoneB ELSE phoneA]

LeaseNext ==
  \/ \E s \in Sessions :
       \/ (scenario = "accounts" => s # a2) /\ Authenticate(s)
       \/ ConnectSession(s) \/ SessionConnected(s)
       \/ GreetingFails(s) \/ Greet(s) \/ Ask(s) \/ OtherMessage(s) \/ Poll(s)
       \/ LeaveLoop(s) \/ SessionDisconnected(s) \/ ReleaseSession(s)
       \/ scenario = "accounts" /\ Expire(s)
       \/ \E p \in Panes :
            \/ \E takeover \in BOOLEAN : AcquireWriterLease(s, p, takeover)
            \/ ResizeTerminal(s, p) \/ ReleaseWriterLease(s, p)
            \/ \E pinned \in BOOLEAN : scenario = "desktop" /\ SetTerminalSizePin(s, p, pinned)
  \/ \E p \in Panes : DesktopInput(p) \/ (scenario = "desktop" /\ Watch(p))
  \/ \E d \in Devices : scenario = "accounts" /\ RevokeDevice(d)
  \/ scenario = "accounts" /\ (Stop \/ Shutdown)
  \/ Sweep \/ Start \/ Clock

MCInit ==
  /\ Init /\ ServiceInit
  /\ scenario \in {"desktop", "accounts", "service"}
  /\ scenario # "service" => tailscale = "ok"

MCNext ==
  /\ UNCHANGED scenario
  /\ \/ scenario # "service" /\ LeaseNext /\ UNCHANGED serviceVars
     \/ scenario = "service" /\ ServiceNext /\ UNCHANGED vars

MCSpec == MCInit /\ [][MCNext]_<<vars, serviceVars, scenario>>
=============================================================================
