---------------------------- MODULE WriterLeases ----------------------------
(***************************************************************************)
(* Who controls a terminal from a phone (remote_control/workspace_adapter, *)
(* gateway and pairing).                                                   *)
(*                                                                         *)
(* Every WebSocket is a task of the gateway's runtime.  It claims a slot   *)
(* in the pairing state (behind a mutex), and everything it does to leases *)
(* it sends to the UI thread and waits for; between the two the desktop,   *)
(* other phones and the service itself go on.  A lease outlives the socket *)
(* of its holder by a grace window, after which a delayed sweep or the     *)
(* snapshot poll of another phone gives the pane back to the desktop.      *)
(***************************************************************************)
EXTENDS Naturals, FiniteSets

CONSTANTS
  Devices,         \* paired phones
  Sessions,        \* authenticated sessions; an ID is never used twice
  DeviceOf,        \* session -> its device
  Panes,
  NoLease, NoDevice,
  TTL,             \* WRITER_LEASE_TTL_SECS, in ticks
  MaxConnections   \* MAX_CONNECTIONS_PER_DEVICE

VARIABLES
  up,         \* the service: "off", "on", or "closing" until its runtime is gone
  paired,     \* devices that are not revoked
  auth,       \* session -> "new", "valid" (its cookie is accepted) or "gone"
  slots,      \* sessions whose pairing record says connected
  sock,       \* session -> where the task of its WebSocket is
  connected,  \* connected_sessions of the adapter
  lease,      \* pane -> writer_leases entry, or NoLease
  pin,        \* pane -> remote_size_pins entry, or NoDevice
  sized,      \* panes whose dimensions a phone drives
  watched,    \* panes the Mac is showing
  sweeps,     \* ticks until each scheduled sweep
  ungreeted,  \* history: sessions whose socket ended before its loop began
  strays      \* history: panes whose lease was granted after the service stopped

accounts == <<up, paired, auth>>
control == <<lease, pin, sized>>
vars == <<accounts, slots, sock, connected, control, watched, sweeps, ungreeted, strays>>

\* claimed: has its slot; greeting: known to the adapter; open: in the loop; asked: a
\* message is authorized and on its way to the UI thread; left: out of the loop;
\* leaving: the adapter knows, the slot is still taken.
Socks == {"closed", "claimed", "greeting", "open", "asked", "left", "leaving"}

Leases == [session : Sessions, left : 0..TTL]

ASSUME LeaseAssumption ==
  /\ DeviceOf \in [Sessions -> Devices]
  /\ NoDevice \notin Devices /\ NoLease \notin Leases
  /\ TTL \in Nat /\ MaxConnections \in Nat

NoLeases == [p \in Panes |-> NoLease]

Holder(p) == lease[p].session

TypeOK ==
  /\ up \in {"off", "on", "closing"} /\ paired \subseteq Devices
  /\ auth \in [Sessions -> {"new", "valid", "gone"}]
  /\ slots \subseteq Sessions /\ sock \in [Sessions -> Socks]
  /\ connected \subseteq Sessions
  /\ lease \in [Panes -> Leases \cup {NoLease}]
  /\ pin \in [Panes -> Devices \cup {NoDevice}]
  /\ sized \subseteq Panes /\ watched \subseteq Panes
  /\ sweeps \subseteq 0..(TTL + 2)
  /\ ungreeted \subseteq Sessions /\ strays \subseteq Panes

-----------------------------------------------------------------------------
(* The adapter's rules *)

\* Mutant: a lease expires although its holder is connected.
ExpiredByClock(p) == lease[p] # NoLease /\ lease[p].left = 0

\* writer_lease_expired
Expired(p) == lease[p] # NoLease /\ lease[p].left = 0 /\ Holder(p) \notin connected

\* writer_lease_blocks
Blocks(p, s) == DeviceOf[Holder(p)] # DeviceOf[s] /\ Holder(p) \in connected

\* remote_may_size_pane
MaySize(p, s, thePin) == IF thePin = NoDevice THEN p \notin watched ELSE thePin = DeviceOf[s]

\* release_pane_control, followed by remote_control_restore_desktop_size.
ReleasePaneControl(P) ==
  /\ lease' = [p \in Panes |-> IF p \in P THEN NoLease ELSE lease[p]]
  /\ pin' = [p \in Panes |-> IF p \in P THEN NoDevice ELSE pin[p]]
  /\ sized' = sized \ P
  /\ strays' = strays \ P

\* prune_writer_leases
PruneWriterLeases == ReleasePaneControl({p \in Panes : Expired(p)})

\* snapshot: prunes, and takes back the width of panes the Mac shows.
Snapshot ==
  LET gone == {p \in Panes : Expired(p)}
  IN  /\ lease' = [p \in Panes |-> IF p \in gone THEN NoLease ELSE lease[p]]
      /\ pin' = [p \in Panes |-> IF p \in gone THEN NoDevice ELSE pin[p]]
      /\ sized' = sized \ (gone \cup {p \in watched : pin'[p] = NoDevice})
      /\ strays' = strays \ gone

\* ensure_writer: whether it succeeds, and the pin it leaves.
Admits(s, p, takeover) == (lease[p] # NoLease /\ ~Expired(p)) => (takeover \/ ~Blocks(p, s))

\* Mutant: the pin of the device that loses control is inherited.
PinAfterKept(s, p) == pin[p]

PinAfter(s, p) == IF pin[p] = DeviceOf[s] THEN pin[p] ELSE NoDevice

Grant(s, p) ==
  /\ lease' = [lease EXCEPT ![p] = [session |-> s, left |-> TTL]]
  /\ strays' = IF up = "on" THEN strays ELSE strays \cup {p}

-----------------------------------------------------------------------------
(* Pairing and the start of a socket *)

\* authenticate: the unclaimed cookies of the device are replaced.
Authenticate(s) ==
  /\ up = "on" /\ auth[s] = "new" /\ DeviceOf[s] \in paired
  /\ Cardinality({x \in slots : auth[x] = "valid" /\ DeviceOf[x] = DeviceOf[s]}) < MaxConnections
  /\ auth' = [x \in Sessions |->
       IF x = s THEN "valid"
       ELSE IF DeviceOf[x] = DeviceOf[s] /\ auth[x] = "valid" /\ x \notin slots THEN "gone"
       ELSE auth[x]]
  /\ UNCHANGED <<up, paired, slots, sock, connected, control, watched, sweeps, ungreeted, strays>>

\* connect_session: one socket per cookie, and a limit per device.
ConnectSession(s) ==
  /\ up = "on" /\ auth[s] = "valid" /\ DeviceOf[s] \in paired
  /\ s \notin slots /\ sock[s] = "closed"
  /\ Cardinality({x \in slots : auth[x] = "valid" /\ DeviceOf[x] = DeviceOf[s]}) < MaxConnections
  /\ slots' = slots \cup {s}
  /\ sock' = [sock EXCEPT ![s] = "claimed"]
  /\ UNCHANGED <<accounts, connected, control, watched, sweeps, ungreeted, strays>>

\* session_connected: leases of the device whose holder is not connected move over.
SessionConnected(s) ==
  /\ sock[s] = "claimed"
  /\ connected' = connected \cup {s}
  /\ lease' = [p \in Panes |->
       IF lease[p] # NoLease /\ DeviceOf[Holder(p)] = DeviceOf[s] /\ Holder(p) \notin connected'
       THEN [session |-> s, left |-> TTL] ELSE lease[p]]
  /\ sock' = [sock EXCEPT ![s] = "greeting"]
  /\ ungreeted' = ungreeted \ {s}
  /\ UNCHANGED <<accounts, slots, pin, sized, watched, sweeps, strays>>

\* The greeting cannot be sent, before or after its snapshot was taken: the task frees
\* its slot and returns.
GreetingFails(s) ==
  /\ sock[s] = "greeting"
  /\ Snapshot \/ UNCHANGED <<control, strays>>
  /\ sock' = [sock EXCEPT ![s] = "closed"]
  /\ slots' = slots \ {s}
  /\ ungreeted' = ungreeted \cup {s}
  /\ UNCHANGED <<accounts, connected, watched, sweeps>>

\* initial_snapshot, after which the loop begins.
Greet(s) ==
  /\ sock[s] = "greeting"
  /\ Snapshot
  /\ sock' = [sock EXCEPT ![s] = "open"]
  /\ UNCHANGED <<accounts, slots, connected, watched, sweeps, ungreeted>>

-----------------------------------------------------------------------------
(* The loop of a socket *)

\* A message arrives and its cookie is accepted.
Ask(s) ==
  /\ sock[s] = "open" /\ auth[s] = "valid" /\ DeviceOf[s] \in paired
  /\ sock' = [sock EXCEPT ![s] = "asked"]
  /\ UNCHANGED <<accounts, slots, connected, control, watched, sweeps, ungreeted, strays>>

Replied(s) ==
  /\ sock[s] = "asked"
  /\ sock' = [sock EXCEPT ![s] = "open"]
  /\ UNCHANGED <<accounts, slots, connected, watched, sweeps, ungreeted>>

\* acquire_writer_lease; without takeover also every write: composer, keys, uploads.
AcquireWriterLease(s, p, takeover) ==
  /\ Replied(s) /\ Admits(s, p, takeover)
  /\ Grant(s, p)
  /\ pin' = [pin EXCEPT ![p] = PinAfter(s, p)]
  /\ UNCHANGED sized

\* resize_terminal
ResizeTerminal(s, p) ==
  /\ Replied(s) /\ Admits(s, p, FALSE)
  /\ Grant(s, p)
  /\ pin' = [pin EXCEPT ![p] = PinAfter(s, p)]
  /\ sized' = IF MaySize(p, s, pin'[p]) THEN sized \cup {p} ELSE sized

\* set_terminal_size_pin
SetTerminalSizePin(s, p, pinned) ==
  /\ Replied(s) /\ Admits(s, p, FALSE)
  /\ Grant(s, p)
  /\ pin' = [pin EXCEPT ![p] = IF pinned THEN DeviceOf[s] ELSE NoDevice]
  /\ sized' = IF ~pinned /\ p \in watched THEN sized \ {p} ELSE sized

\* release_writer_lease: of a lease of this very session.
ReleaseWriterLease(s, p) ==
  /\ Replied(s)
  /\ ReleasePaneControl(IF lease[p] # NoLease /\ Holder(p) = s THEN {p} ELSE {})

\* Any other message, a refused one and one that asks for a snapshot.
OtherMessage(s) ==
  /\ Replied(s)
  /\ Snapshot \/ UNCHANGED <<control, strays>>

\* The snapshot tick of the loop.
Poll(s) ==
  /\ sock[s] = "open" /\ auth[s] = "valid" /\ DeviceOf[s] \in paired
  /\ Snapshot
  /\ UNCHANGED <<accounts, slots, sock, connected, watched, sweeps, ungreeted>>

\* The phone closes, the network fails, pings stay unanswered or the cookie is refused.
LeaveLoop(s) ==
  /\ sock[s] = "open"
  /\ sock' = [sock EXCEPT ![s] = "left"]
  /\ UNCHANGED <<accounts, slots, connected, control, watched, sweeps, ungreeted, strays>>

\* session_disconnected: the lease TTL becomes a grace window.
SessionDisconnected(s) ==
  /\ sock[s] = "left"
  /\ connected' = connected \ {s}
  /\ lease' = [p \in Panes |-> IF lease[p] # NoLease /\ Holder(p) = s
                               THEN [lease[p] EXCEPT !.left = TTL] ELSE lease[p]]
  /\ sock' = [sock EXCEPT ![s] = "leaving"]
  /\ UNCHANGED <<accounts, slots, pin, sized, watched, sweeps, ungreeted, strays>>

\* Mutant: the sweep comes when the grace window is not yet over.
SweepDelayShort == IF TTL = 0 THEN 0 ELSE TTL - 1

\* The sweep comes just after the grace window can first lapse.
SweepDelay == TTL + 2

\* The sweep is scheduled and the slot given back.
ReleaseSession(s) ==
  /\ sock[s] = "leaving"
  /\ sweeps' = sweeps \cup {SweepDelay}
  /\ slots' = slots \ {s}
  /\ sock' = [sock EXCEPT ![s] = "closed"]
  /\ UNCHANGED <<accounts, connected, control, watched, ungreeted, strays>>

\* sweep_writer_leases
Sweep ==
  /\ 0 \in sweeps
  /\ sweeps' = sweeps \ {0}
  /\ PruneWriterLeases
  /\ UNCHANGED <<accounts, slots, sock, connected, watched, ungreeted>>

-----------------------------------------------------------------------------
(* The desktop and the service *)

\* preempt_writer_for_desktop_input
DesktopInput(p) ==
  /\ lease[p] # NoLease
  /\ ReleasePaneControl({p})
  /\ UNCHANGED <<accounts, slots, sock, connected, watched, sweeps, ungreeted>>

\* The user shows or leaves a pane, the app or the screen.
Watch(p) ==
  /\ watched' = (watched \ {p}) \cup ({p} \ watched)
  /\ UNCHANGED <<accounts, slots, sock, connected, control, sweeps, ungreeted, strays>>

\* prune: a session reaches its end.
Expire(s) ==
  /\ auth[s] = "valid"
  /\ auth' = [auth EXCEPT ![s] = "gone"]
  /\ slots' = slots \ {s}
  /\ UNCHANGED <<up, paired, sock, connected, control, watched, sweeps, ungreeted, strays>>

\* revoke_device: its sessions go, its sockets find out when they next ask.
RevokeDevice(d) ==
  /\ d \in paired
  /\ paired' = paired \ {d}
  /\ auth' = [s \in Sessions |-> IF auth[s] = "valid" /\ DeviceOf[s] = d THEN "gone" ELSE auth[s]]
  /\ slots' = {s \in slots : DeviceOf[s] # d}
  /\ UNCHANGED <<up, sock, connected, control, watched, sweeps, ungreeted, strays>>

\* all_sessions_disconnected and invalidate_ephemeral_state.
AllSessionsDisconnected ==
  /\ connected' = {}
  /\ lease' = NoLeases /\ strays' = {}
  /\ pin' = [p \in Panes |-> NoDevice]
  /\ sized' = sized \ {p \in Panes : lease[p] # NoLease}
  /\ auth' = [s \in Sessions |-> IF auth[s] = "valid" THEN "gone" ELSE auth[s]]
  /\ slots' = {} /\ ungreeted' = {}
  /\ UNCHANGED <<paired, watched>>

\* stop_runtime: the tasks go on until the runtime is shut down.
Stop ==
  /\ up = "on" /\ up' = "closing"
  /\ AllSessionsDisconnected
  /\ UNCHANGED <<sock, sweeps>>

\* The runtime is gone, and with it sockets and scheduled sweeps.
Shutdown ==
  /\ up = "closing" /\ up' = "off"
  /\ sock' = [s \in Sessions |-> "closed"]
  /\ sweeps' = {}
  /\ UNCHANGED <<paired, auth, slots, connected, control, watched, ungreeted, strays>>

Start ==
  /\ up = "off" /\ up' = "on"
  /\ UNCHANGED <<paired, auth, slots, sock, connected, control, watched, sweeps, ungreeted, strays>>

\* A second passes.  A sweep that is due waits for its task to run.
Clock ==
  /\ 0 \notin sweeps
  /\ lease' = [p \in Panes |-> IF lease[p] # NoLease /\ lease[p].left > 0
                               THEN [lease[p] EXCEPT !.left = @ - 1] ELSE lease[p]]
  /\ sweeps' = {t - 1 : t \in sweeps}
  /\ lease' # lease \/ sweeps' # sweeps
  /\ UNCHANGED <<accounts, slots, sock, connected, pin, sized, watched, ungreeted, strays>>

Init ==
  /\ up = "off" /\ paired = Devices
  /\ auth = [s \in Sessions |-> "new"]
  /\ slots = {} /\ connected = {}
  /\ sock = [s \in Sessions |-> "closed"]
  /\ lease = NoLeases /\ pin = [p \in Panes |-> NoDevice]
  /\ sized = {} /\ watched = {} /\ sweeps = {}
  /\ ungreeted = {} /\ strays = {}

Next ==
  \/ \E s \in Sessions :
       \/ Authenticate(s) \/ ConnectSession(s) \/ SessionConnected(s)
       \/ GreetingFails(s) \/ Greet(s) \/ Ask(s) \/ OtherMessage(s) \/ Poll(s)
       \/ LeaveLoop(s) \/ SessionDisconnected(s) \/ ReleaseSession(s) \/ Expire(s)
       \/ \E p \in Panes :
            \/ \E takeover \in BOOLEAN : AcquireWriterLease(s, p, takeover)
            \/ ResizeTerminal(s, p) \/ ReleaseWriterLease(s, p)
            \/ \E pinned \in BOOLEAN : SetTerminalSizePin(s, p, pinned)
  \/ \E p \in Panes : DesktopInput(p) \/ Watch(p)
  \/ \E d \in Devices : RevokeDevice(d)
  \/ Sweep \/ Stop \/ Shutdown \/ Start \/ Clock

Spec == Init /\ [][Next]_vars

-----------------------------------------------------------------------------
(* Properties *)

\* Control and width go together: a pane that a phone sizes or has pinned is leased,
\* a pin to the device of its lease, so that a phone that lost control leaves no claim
\* on the width behind (release_pane_control, ensure_writer, session_connected).
ControlAsOne ==
  \A p \in Panes :
    /\ pin[p] # NoDevice => (lease[p] # NoLease /\ pin[p] = DeviceOf[Holder(p)])
    /\ p \in sized => lease[p] # NoLease

InLoop(s) == sock[s] \in {"open", "asked"}

\* The device that holds a pane and is being served loses it.
LosesPane(p) ==
  /\ up = "on" /\ lease[p] # NoLease /\ InLoop(Holder(p))
  /\ (lease'[p] = NoLease \/ DeviceOf[lease'[p].session] # DeviceOf[Holder(p)])

\* What may take a pane from its device.
TakesPane(p) ==
  \/ DesktopInput(p) \/ Stop
  \/ ReleaseWriterLease(Holder(p), p)
  \/ \E s \in Sessions : AcquireWriterLease(s, p, TRUE)

KeepStep == \A p \in Panes : LosesPane(p) => TakesPane(p)

\* A phone that only reads keeps its lease: while its socket is served, nothing but
\* desktop input, its own release, an explicit takeover and the end of the service
\* takes the pane from the device (writer_lease_expired, ensure_writer and the order
\* of session_disconnected and release_session).
LeaseKept == [][KeepStep]_vars

\* A holder whose socket is gone does not keep a pane: it is not counted as connected,
\* and a sweep that comes after its grace window is scheduled (session_disconnected,
\* websocket_loop).  Excepted are sockets that failed while they were greeted and
\* leases granted to a message that was on its way when the service stopped.
GoneHolderLetsGo ==
  \A p \in Panes :
    (lease[p] # NoLease /\ sock[Holder(p)] = "closed") =>
      \/ Holder(p) \in ungreeted
      \/ p \in strays
      \/ Holder(p) \notin connected /\ \E t \in sweeps : t >= lease[p].left

\* A lease blocks other devices only while its holder has a socket: "a lease riding out
\* the disconnect grace window never makes a second device wait for a holder whose
\* socket is already gone" (writer_lease_blocks).
BlocksOnlyWithSocket ==
  \A p \in Panes, s \in Sessions :
    (lease[p] # NoLease /\ Blocks(p, s)) => sock[Holder(p)] # "closed"
=============================================================================
