----------------------------- MODULE LeaseProofs ----------------------------
(***************************************************************************)
(* Proofs about WriterLeases, for any number of devices, sessions and      *)
(* panes and any grace window.                                             *)
(*                                                                         *)
(* GoneHolderLetsGo is not inductive: that the end of a socket leaves a    *)
(* sweep behind needs the order in which a socket takes its leave, and     *)
(* that a shutdown may drop the sweeps needs that whatever is leased by    *)
(* then was leased after the stop.  LeaseKept rests on the invariant that  *)
(* a socket that is served is known to the adapter.                        *)
(***************************************************************************)
EXTENDS WriterLeases, TLAPS

\* A socket that has told the adapter that it goes is not connected.
LeavingIsOut == \A s \in Sessions : sock[s] = "leaving" => s \notin connected

\* What is leased while the service is not on was leased after it stopped.
LateLeasesStray == up # "on" => \A p \in Panes : lease[p] # NoLease => p \in strays

\* While the service is on, a socket between its greeting and its leave is connected.
ServedIsConnected ==
  up = "on" => \A s \in Sessions : sock[s] \in {"greeting", "open", "asked", "left"} => s \in connected

\* A service that is off has no sockets.
OffHasNoSockets == up = "off" => \A s \in Sessions : sock[s] = "closed"

LeaseInv ==
  /\ TypeOK /\ ControlAsOne /\ GoneHolderLetsGo
  /\ LeavingIsOut /\ LateLeasesStray /\ ServedIsConnected /\ OffHasNoSockets

\* What the invariant says of the leases alone.
Kept == LateLeasesStray /\ ControlAsOne /\ GoneHolderLetsGo

\* A pane's lease is a record with a session and the time it has left.
LEMMA LeaseFields ==
  ASSUME TypeOK, NEW p \in Panes, lease[p] # NoLease
  PROVE  /\ lease[p] \in Leases /\ Holder(p) \in Sessions /\ lease[p].left \in 0..TTL
         /\ DeviceOf[Holder(p)] \in Devices /\ DeviceOf[Holder(p)] # NoDevice
BY LeaseAssumption DEF TypeOK, Leases, Holder

\* A lease of session s with time n is one, and not the absent one.
LEMMA MadeLease ==
  ASSUME NEW s \in Sessions, NEW n \in 0..TTL
  PROVE  /\ [session |-> s, left |-> n] \in Leases /\ [session |-> s, left |-> n] # NoLease
         /\ [session |-> s, left |-> n].session = s /\ [session |-> s, left |-> n].left = n
BY LeaseAssumption DEF Leases

\* A lease with another time left is a lease of the same session.
LEMMA RetimedLease ==
  ASSUME NEW l \in Leases, NEW n \in 0..TTL
  PROVE  /\ [l EXCEPT !.left = n] \in Leases /\ [l EXCEPT !.left = n] # NoLease
         /\ [l EXCEPT !.left = n].session = l.session /\ [l EXCEPT !.left = n].left = n
BY LeaseAssumption DEF Leases

\* The types of what a release leaves behind.
ControlTypeOK ==
  /\ lease \in [Panes -> Leases \cup {NoLease}] /\ pin \in [Panes -> Devices \cup {NoDevice}]
  /\ sized \subseteq Panes /\ strays \subseteq Panes

\* The control of the panes P ends and that of the others stays, but for their width.
LetsGo(P) ==
  /\ \A p \in Panes : IF p \in P THEN lease'[p] = NoLease /\ pin'[p] = NoDevice
                                 ELSE lease'[p] = lease[p] /\ pin'[p] = pin[p]
  /\ sized' \subseteq sized \ P /\ strays' = strays \ P

\* release_pane_control, snapshot and a call that does neither are of this form.
LEMMA ReleaseLetsGo ==
  ASSUME LeaseInv, NEW P \in SUBSET Panes, ReleasePaneControl(P) PROVE ControlTypeOK' /\ LetsGo(P)
BY DEF LeaseInv, TypeOK, ControlTypeOK, ReleasePaneControl, LetsGo

LEMMA SnapshotLetsGo ==
  ASSUME LeaseInv, Snapshot PROVE ControlTypeOK' /\ LetsGo({p \in Panes : Expired(p)})
<1> DEFINE gone == {p \in Panes : Expired(p)}
<1>1. LetsGo(gone)
  BY DEF Snapshot, LetsGo
<1>2. ControlTypeOK'
  BY DEF LeaseInv, TypeOK, ControlTypeOK, Snapshot
<1>3. QED
  BY <1>1, <1>2

LEMMA NothingLetsGo ==
  ASSUME LeaseInv, UNCHANGED <<control, strays>> PROVE ControlTypeOK' /\ LetsGo({})
BY DEF LeaseInv, TypeOK, ControlTypeOK, control, LetsGo

\* Letting go keeps the invariant of the leases, if no socket ends unnoticed.
LEMMA LetsGoKeeps ==
  ASSUME LeaseInv, NEW P \in SUBSET Panes, LetsGo(P),
         UNCHANGED <<up, connected, sweeps>>, ungreeted \subseteq ungreeted',
         \A x \in Sessions : sock'[x] = "closed" => sock[x] = "closed" \/ x \in ungreeted'
  PROVE  Kept'
<1>1. \A p \in Panes : lease'[p] # NoLease => p \notin P /\ lease'[p] = lease[p]
  BY DEF LetsGo
<1>2. LateLeasesStray'
  BY <1>1 DEF LeaseInv, LateLeasesStray, LetsGo
<1>3. ControlAsOne'
  BY DEF LeaseInv, ControlAsOne, Holder, LetsGo
<1>4. GoneHolderLetsGo'
  <2>1. SUFFICES ASSUME NEW p \in Panes, lease'[p] # NoLease, sock'[lease'[p].session] = "closed",
                        lease'[p].session \notin ungreeted'
                 PROVE  \/ p \in strays'
                        \/ lease'[p].session \notin connected' /\ \E t \in sweeps' : t >= lease'[p].left
    BY DEF GoneHolderLetsGo, Holder
  <2>2. p \notin P /\ lease'[p] = lease[p] /\ lease[p].session \in Sessions
    BY <1>1, <2>1, LeaseFields DEF LeaseInv, Holder
  <2>3. sock[lease[p].session] = "closed" /\ lease[p].session \notin ungreeted
    BY <2>1, <2>2
  <2>4. QED
    BY <2>1, <2>2, <2>3 DEF LeaseInv, GoneHolderLetsGo, Holder, LetsGo
<1>5. QED
  BY <1>2, <1>3, <1>4 DEF Kept

\* A pane that is granted to a session whose socket is served, with a pin that is the
\* device's or none (ensure_writer).
LEMMA GrantKeeps ==
  ASSUME LeaseInv, NEW s \in Sessions, NEW p \in Panes, Replied(s), Grant(s, p),
         NEW d \in {DeviceOf[s], NoDevice}, pin' = [pin EXCEPT ![p] = d],
         sized' \subseteq sized \cup {p}
  PROVE  ControlTypeOK' /\ Kept'
<1> USE LeaseAssumption
<1>1. lease'[p].session = s /\ lease'[p] # NoLease /\ lease'[p] \in Leases
  BY MadeLease DEF Grant, LeaseInv, TypeOK
<1>2. \A q \in Panes : q # p => lease'[q] = lease[q] /\ pin'[q] = pin[q]
  BY DEF Grant, LeaseInv, TypeOK
<1>3. pin'[p] = d
  BY DEF LeaseInv, TypeOK
<1>4. strays \subseteq strays' /\ (up # "on" => p \in strays') /\ strays' \subseteq strays \cup {p}
  BY DEF Grant
<1>5. sock'[s] = "open" /\ (\A x \in Sessions : x # s => sock'[x] = sock[x])
      /\ UNCHANGED <<up, connected, sweeps, ungreeted>>
  BY DEF Replied, LeaseInv, TypeOK, accounts
<1>6. ControlTypeOK'
  BY <1>1, <1>4 DEF ControlTypeOK, LeaseInv, TypeOK, Grant
<1>7. LateLeasesStray'
  BY <1>2, <1>4, <1>5 DEF LeaseInv, LateLeasesStray
<1>8. ControlAsOne'
  BY <1>1, <1>2, <1>3 DEF LeaseInv, ControlAsOne, Holder
<1>9. GoneHolderLetsGo'
  <2>1. SUFFICES ASSUME NEW q \in Panes, lease'[q] # NoLease, sock'[lease'[q].session] = "closed"
                 PROVE  \/ lease'[q].session \in ungreeted'
                        \/ q \in strays'
                        \/ lease'[q].session \notin connected' /\ \E t \in sweeps' : t >= lease'[q].left
    BY DEF GoneHolderLetsGo, Holder
  <2>2. q # p /\ lease'[q] = lease[q]
    BY <1>1, <1>2, <1>5, <2>1
  <2>3. lease[q].session \in Sessions
    BY <2>1, <2>2, LeaseFields DEF LeaseInv, Holder
  <2>4. sock[lease[q].session] = "closed"
    BY <1>5, <2>1, <2>2, <2>3
  <2>5. QED
    BY <1>4, <1>5, <2>1, <2>2, <2>4 DEF LeaseInv, GoneHolderLetsGo, Holder
<1>10. QED
  BY <1>6, <1>7, <1>8, <1>9 DEF Kept

\* The types of the rest of the state, and what is known of the sockets.
OtherTypeOK ==
  /\ up \in {"off", "on", "closing"} /\ paired \subseteq Devices
  /\ auth \in [Sessions -> {"new", "valid", "gone"}]
  /\ slots \subseteq Sessions /\ sock \in [Sessions -> Socks]
  /\ connected \subseteq Sessions /\ watched \subseteq Panes
  /\ sweeps \subseteq 0..(TTL + 2) /\ ungreeted \subseteq Sessions

SocketsInOrder == LeavingIsOut /\ ServedIsConnected /\ OffHasNoSockets

LEMMA InvParts ==
  ASSUME ControlTypeOK', OtherTypeOK', Kept', SocketsInOrder' PROVE LeaseInv'
BY DEF LeaseInv, TypeOK, ControlTypeOK, OtherTypeOK, Kept, SocketsInOrder

\* Steps that leave leases, sockets and service alone.
LEMMA ControlUnchanged ==
  ASSUME LeaseInv, UNCHANGED <<up, sock, connected, control, sweeps, ungreeted, strays>>
  PROVE  ControlTypeOK' /\ Kept' /\ SocketsInOrder'
BY DEF LeaseInv, TypeOK, control, ControlTypeOK, Kept, SocketsInOrder, LateLeasesStray, ControlAsOne, GoneHolderLetsGo,
   Holder, LeavingIsOut, ServedIsConnected, OffHasNoSockets

\* A socket that is not served moves on to a position that says nothing of leases.
LEMMA SocketMoves ==
  ASSUME LeaseInv, NEW s \in Sessions, NEW pc \in Socks \ {"closed"}, sock' = [sock EXCEPT ![s] = pc],
         UNCHANGED <<up, control, sweeps, ungreeted, strays, connected>>
  PROVE  ControlTypeOK' /\ Kept'
<1>1. \A p \in Panes : (lease[p] # NoLease /\ sock'[Holder(p)] = "closed") => sock[Holder(p)] = "closed"
  BY LeaseFields DEF LeaseInv, TypeOK
<1>2. QED
  BY <1>1 DEF LeaseInv, TypeOK, control, ControlTypeOK, Kept, LateLeasesStray, ControlAsOne, GoneHolderLetsGo, Holder

\* Pairing and the accounts of the phones (authenticate, prune, revoke_device).
LEMMA AccountInv ==
  ASSUME LeaseInv,
         (\E s \in Sessions : Authenticate(s) \/ Expire(s)) \/ (\E d \in Devices : RevokeDevice(d))
           \/ (\E p \in Panes : Watch(p))
  PROVE  LeaseInv'
<1>1. UNCHANGED <<up, sock, connected, control, sweeps, ungreeted, strays>>
  BY DEF Authenticate, Expire, RevokeDevice, Watch, accounts
<1>2. OtherTypeOK'
  BY DEF LeaseInv, TypeOK, OtherTypeOK, Authenticate, Expire, RevokeDevice, Watch, accounts
<1>3. QED
  BY <1>1, <1>2, ControlUnchanged, InvParts

\* The start of a socket (connect_session, session_connected, initial_snapshot).
LEMMA ConnectInv ==
  ASSUME LeaseInv, NEW s \in Sessions,
         ConnectSession(s) \/ SessionConnected(s) \/ GreetingFails(s) \/ Greet(s)
  PROVE  LeaseInv'
<1> USE LeaseAssumption
<1>1. CASE ConnectSession(s)
  <2>1. sock' = [sock EXCEPT ![s] = "claimed"] /\ up = "on"
        /\ UNCHANGED <<up, control, sweeps, ungreeted, strays, connected>>
    BY <1>1 DEF ConnectSession, accounts
  <2>2. OtherTypeOK'
    BY <1>1 DEF LeaseInv, TypeOK, OtherTypeOK, ConnectSession, accounts, Socks
  <2>3. SocketsInOrder'
    BY <2>1 DEF LeaseInv, TypeOK, SocketsInOrder, LeavingIsOut, ServedIsConnected, OffHasNoSockets
  <2>4. QED
    BY <2>1, <2>2, <2>3, SocketMoves, InvParts DEF Socks
<1>2. CASE SessionConnected(s)
  <2>1. sock[s] = "claimed" /\ sock' = [sock EXCEPT ![s] = "greeting"] /\ connected' = connected \cup {s}
        /\ ungreeted' = ungreeted \ {s}
        /\ UNCHANGED <<up, paired, auth, slots, pin, sized, watched, sweeps, strays>>
    BY <1>2 DEF SessionConnected, accounts
  <2>2. OtherTypeOK'
    BY <2>1 DEF LeaseInv, TypeOK, OtherTypeOK, Socks
  <2>3. SocketsInOrder'
    BY <2>1 DEF LeaseInv, TypeOK, SocketsInOrder, LeavingIsOut, ServedIsConnected, OffHasNoSockets
  <2>4. lease' \in [Panes -> Leases \cup {NoLease}]
    BY <1>2, MadeLease DEF SessionConnected, LeaseInv, TypeOK
  <2>5. ASSUME NEW p \in Panes
        PROVE  /\ lease[p] = NoLease <=> lease'[p] = NoLease
               /\ lease[p] # NoLease => DeviceOf[lease'[p].session] = DeviceOf[Holder(p)]
               /\ lease'[p] = lease[p] \/ lease'[p].session = s
    <3>1. TTL \in 0..TTL
      OBVIOUS
    <3>2. CASE lease'[p] = lease[p]
      BY <3>2 DEF Holder
    <3>3. CASE /\ lease[p] # NoLease /\ DeviceOf[Holder(p)] = DeviceOf[s]
               /\ lease'[p] = [session |-> s, left |-> TTL]
      BY <3>1, <3>3, MadeLease
    <3>4. QED
      BY <1>2, <3>2, <3>3 DEF SessionConnected
  <2>6. LateLeasesStray' /\ ControlAsOne'
    BY <2>1, <2>5 DEF LeaseInv, LateLeasesStray, ControlAsOne, Holder
  <2>7. GoneHolderLetsGo'
    <3>1. SUFFICES ASSUME NEW p \in Panes, lease'[p] # NoLease, sock'[lease'[p].session] = "closed"
                   PROVE  \/ lease'[p].session \in ungreeted'
                          \/ p \in strays'
                          \/ lease'[p].session \notin connected' /\ \E t \in sweeps' : t >= lease'[p].left
      BY DEF GoneHolderLetsGo, Holder
    <3>2. lease'[p].session # s
      BY <2>1, <3>1 DEF LeaseInv, TypeOK
    <3>3. lease'[p] = lease[p] /\ lease[p].session \in Sessions
      BY <2>5, <3>1, <3>2, LeaseFields DEF LeaseInv, Holder
    <3>4. sock[lease[p].session] = "closed"
      BY <2>1, <3>1, <3>2, <3>3 DEF LeaseInv, TypeOK
    <3>5. QED
      BY <2>1, <3>1, <3>2, <3>3, <3>4 DEF LeaseInv, GoneHolderLetsGo, Holder
  <2>8. ControlTypeOK'
    BY <2>1, <2>4 DEF LeaseInv, TypeOK, ControlTypeOK
  <2>9. QED
    BY <2>2, <2>3, <2>6, <2>7, <2>8, InvParts DEF Kept
<1>3. CASE GreetingFails(s)
  <2>1. sock[s] = "greeting" /\ sock' = [sock EXCEPT ![s] = "closed"] /\ slots' = slots \ {s}
        /\ ungreeted' = ungreeted \cup {s} /\ UNCHANGED <<up, paired, auth, connected, watched, sweeps>>
    BY <1>3 DEF GreetingFails, accounts
  <2>2. OtherTypeOK'
    BY <2>1 DEF LeaseInv, TypeOK, OtherTypeOK, Socks
  <2>3. SocketsInOrder'
    BY <2>1 DEF LeaseInv, TypeOK, SocketsInOrder, LeavingIsOut, ServedIsConnected, OffHasNoSockets
  <2>4. \A x \in Sessions : sock'[x] = "closed" => sock[x] = "closed" \/ x \in ungreeted'
    BY <2>1 DEF LeaseInv, TypeOK
  <2>5. CASE Snapshot
    BY <2>1, <2>2, <2>3, <2>4, <2>5, SnapshotLetsGo, LetsGoKeeps, InvParts
  <2>6. CASE UNCHANGED <<control, strays>>
    BY <2>1, <2>2, <2>3, <2>4, <2>6, NothingLetsGo, LetsGoKeeps, InvParts
  <2>7. QED
    BY <1>3, <2>5, <2>6 DEF GreetingFails
<1>4. CASE Greet(s)
  <2>1. sock[s] = "greeting" /\ sock' = [sock EXCEPT ![s] = "open"]
        /\ UNCHANGED <<up, paired, auth, slots, connected, watched, sweeps, ungreeted>> /\ Snapshot
    BY <1>4 DEF Greet, accounts
  <2>2. OtherTypeOK'
    BY <2>1 DEF LeaseInv, TypeOK, OtherTypeOK, Socks
  <2>3. SocketsInOrder'
    BY <2>1 DEF LeaseInv, TypeOK, SocketsInOrder, LeavingIsOut, ServedIsConnected, OffHasNoSockets
  <2>4. \A x \in Sessions : sock'[x] = "closed" => sock[x] = "closed" \/ x \in ungreeted'
    BY <2>1 DEF LeaseInv, TypeOK
  <2>5. QED
    BY <2>1, <2>2, <2>3, <2>4, SnapshotLetsGo, LetsGoKeeps, InvParts
<1>5. QED
  BY <1>1, <1>2, <1>3, <1>4

\* A message (handle_client_message): one that is granted, released, refused or answered
\* with a snapshot, and the poll of the loop.
LEMMA MessageInv ==
  ASSUME LeaseInv, NEW s \in Sessions,
         \/ Ask(s) \/ OtherMessage(s) \/ Poll(s)
         \/ \E p \in Panes :
              \/ \E takeover \in BOOLEAN : AcquireWriterLease(s, p, takeover)
              \/ ResizeTerminal(s, p) \/ ReleaseWriterLease(s, p)
              \/ \E pinned \in BOOLEAN : SetTerminalSizePin(s, p, pinned)
  PROVE  LeaseInv'
<1> USE LeaseAssumption
<1>1. CASE Ask(s)
  <2>1. sock[s] = "open" /\ sock' = [sock EXCEPT ![s] = "asked"]
        /\ UNCHANGED <<up, paired, auth, slots, watched, control, sweeps, ungreeted, strays, connected>>
    BY <1>1 DEF Ask, accounts
  <2>2. OtherTypeOK'
    BY <2>1 DEF LeaseInv, TypeOK, OtherTypeOK, Socks
  <2>3. SocketsInOrder'
    BY <2>1 DEF LeaseInv, TypeOK, SocketsInOrder, LeavingIsOut, ServedIsConnected, OffHasNoSockets
  <2>4. QED
    BY <2>1, <2>2, <2>3, SocketMoves, InvParts DEF Socks
<1>2. ASSUME Replied(s)
      PROVE  /\ OtherTypeOK' /\ SocketsInOrder' /\ UNCHANGED <<up, connected, sweeps, ungreeted>>
             /\ \A x \in Sessions : sock'[x] = "closed" => sock[x] = "closed" \/ x \in ungreeted'
  <2>1. sock[s] = "asked" /\ sock' = [sock EXCEPT ![s] = "open"]
        /\ UNCHANGED <<up, paired, auth, slots, watched, sweeps, ungreeted, connected>>
    BY <1>2 DEF Replied, accounts
  <2>2. OtherTypeOK'
    BY <2>1 DEF LeaseInv, TypeOK, OtherTypeOK, Socks
  <2>3. SocketsInOrder'
    BY <2>1 DEF LeaseInv, TypeOK, SocketsInOrder, LeavingIsOut, ServedIsConnected, OffHasNoSockets
  <2>4. QED
    BY <2>1, <2>2, <2>3 DEF LeaseInv, TypeOK
<1>3. CASE OtherMessage(s)
  <2>1. Replied(s)
    BY <1>3 DEF OtherMessage
  <2>2. CASE Snapshot
    BY <1>2, <2>1, <2>2, SnapshotLetsGo, LetsGoKeeps, InvParts
  <2>3. CASE UNCHANGED <<control, strays>>
    BY <1>2, <2>1, <2>3, NothingLetsGo, LetsGoKeeps, InvParts
  <2>4. QED
    BY <1>3, <2>2, <2>3 DEF OtherMessage
<1>4. CASE Poll(s)
  <2>1. Snapshot /\ UNCHANGED <<up, paired, auth, slots, sock, connected, watched, sweeps, ungreeted>>
    BY <1>4 DEF Poll, accounts
  <2>2. OtherTypeOK' /\ SocketsInOrder'
    BY <2>1 DEF LeaseInv, TypeOK, OtherTypeOK, SocketsInOrder, LeavingIsOut, ServedIsConnected, OffHasNoSockets
  <2>3. QED
    BY <2>1, <2>2, SnapshotLetsGo, LetsGoKeeps, InvParts
<1>5. ASSUME NEW p \in Panes, NEW takeover \in BOOLEAN, AcquireWriterLease(s, p, takeover) PROVE LeaseInv'
  <2>1. Replied(s) /\ Grant(s, p) /\ sized' = sized
    BY <1>5 DEF AcquireWriterLease
  <2>2. PinAfter(s, p) \in {DeviceOf[s], NoDevice} /\ pin' = [pin EXCEPT ![p] = PinAfter(s, p)]
    BY <1>5 DEF AcquireWriterLease, PinAfter
  <2>3. QED
    BY <1>2, <2>1, <2>2, GrantKeeps, InvParts
<1>6. ASSUME NEW p \in Panes, ResizeTerminal(s, p) PROVE LeaseInv'
  <2>1. Replied(s) /\ Grant(s, p) /\ sized' \subseteq sized \cup {p}
    BY <1>6 DEF ResizeTerminal
  <2>2. PinAfter(s, p) \in {DeviceOf[s], NoDevice} /\ pin' = [pin EXCEPT ![p] = PinAfter(s, p)]
    BY <1>6 DEF ResizeTerminal, PinAfter
  <2>3. QED
    BY <1>2, <2>1, <2>2, GrantKeeps, InvParts
<1>7. ASSUME NEW p \in Panes, NEW pinned \in BOOLEAN, SetTerminalSizePin(s, p, pinned) PROVE LeaseInv'
  <2>1. Replied(s) /\ Grant(s, p) /\ sized' \subseteq sized \cup {p}
    BY <1>7 DEF SetTerminalSizePin
  <2>2. PICK d \in {DeviceOf[s], NoDevice} : pin' = [pin EXCEPT ![p] = d]
    BY <1>7 DEF SetTerminalSizePin
  <2>3. QED
    BY <1>2, <2>1, <2>2, GrantKeeps, InvParts
<1>8. ASSUME NEW p \in Panes, ReleaseWriterLease(s, p) PROVE LeaseInv'
  <2>1. Replied(s)
    BY <1>8 DEF ReleaseWriterLease
  <2>2. PICK P \in SUBSET Panes : ReleasePaneControl(P)
    BY <1>8 DEF ReleaseWriterLease
  <2>3. QED
    BY <1>2, <2>1, <2>2, ReleaseLetsGo, LetsGoKeeps, InvParts
<1>9. QED
  BY <1>1, <1>3, <1>4, <1>5, <1>6, <1>7, <1>8

\* The end of a socket and the sweeps (session_disconnected, release_session,
\* sweep_writer_leases).
LEMMA LeaveInv ==
  ASSUME LeaseInv, (\E s \in Sessions : LeaveLoop(s) \/ SessionDisconnected(s) \/ ReleaseSession(s)) \/ Sweep
  PROVE  LeaseInv'
<1> USE LeaseAssumption
<1>1. ASSUME NEW s \in Sessions, LeaveLoop(s) PROVE LeaseInv'
  <2>1. sock[s] = "open" /\ sock' = [sock EXCEPT ![s] = "left"]
        /\ UNCHANGED <<up, paired, auth, slots, watched, control, sweeps, ungreeted, strays, connected>>
    BY <1>1 DEF LeaveLoop, accounts
  <2>2. OtherTypeOK'
    BY <2>1 DEF LeaseInv, TypeOK, OtherTypeOK, Socks
  <2>3. SocketsInOrder'
    BY <2>1 DEF LeaseInv, TypeOK, SocketsInOrder, LeavingIsOut, ServedIsConnected, OffHasNoSockets
  <2>4. QED
    BY <2>1, <2>2, <2>3, SocketMoves, InvParts DEF Socks
<1>2. ASSUME NEW s \in Sessions, SessionDisconnected(s) PROVE LeaseInv'
  <2>1. sock[s] = "left" /\ sock' = [sock EXCEPT ![s] = "leaving"] /\ connected' = connected \ {s}
        /\ UNCHANGED <<up, paired, auth, slots, pin, sized, watched, sweeps, ungreeted, strays>>
    BY <1>2 DEF SessionDisconnected, accounts
  <2>2. OtherTypeOK'
    BY <2>1 DEF LeaseInv, TypeOK, OtherTypeOK, Socks
  <2>3. SocketsInOrder'
    BY <2>1 DEF LeaseInv, TypeOK, SocketsInOrder, LeavingIsOut, ServedIsConnected, OffHasNoSockets
  <2>4. ASSUME NEW p \in Panes
        PROVE  /\ lease'[p] \in Leases \cup {NoLease}
               /\ lease[p] = NoLease <=> lease'[p] = NoLease
               /\ lease[p] # NoLease => lease'[p].session = Holder(p)
               /\ lease'[p] = lease[p] \/ lease'[p].session = s
    <3>1. CASE lease[p] # NoLease /\ Holder(p) = s
      <4>1. lease'[p] = [lease[p] EXCEPT !.left = TTL] /\ lease[p] \in Leases
        BY <1>2, <3>1, LeaseFields DEF SessionDisconnected, LeaseInv
      <4>2. TTL \in 0..TTL
        OBVIOUS
      <4>3. QED
        BY <3>1, <4>1, <4>2, RetimedLease DEF Holder
    <3>2. CASE ~(lease[p] # NoLease /\ Holder(p) = s)
      BY <1>2, <3>2 DEF SessionDisconnected, LeaseInv, TypeOK, Holder
    <3>3. QED
      BY <3>1, <3>2
  <2>5. ControlTypeOK'
    BY <1>2, <2>1, <2>4 DEF SessionDisconnected, LeaseInv, TypeOK, ControlTypeOK
  <2>6. LateLeasesStray' /\ ControlAsOne'
    BY <2>1, <2>4 DEF LeaseInv, LateLeasesStray, ControlAsOne, Holder
  <2>7. GoneHolderLetsGo'
    <3>1. SUFFICES ASSUME NEW p \in Panes, lease'[p] # NoLease, sock'[lease'[p].session] = "closed"
                   PROVE  \/ lease'[p].session \in ungreeted'
                          \/ p \in strays'
                          \/ lease'[p].session \notin connected' /\ \E t \in sweeps' : t >= lease'[p].left
      BY DEF GoneHolderLetsGo, Holder
    <3>2. lease'[p].session # s
      BY <2>1, <3>1 DEF LeaseInv, TypeOK
    <3>3. lease'[p] = lease[p] /\ lease[p].session \in Sessions
      BY <2>4, <3>1, <3>2, LeaseFields DEF LeaseInv, Holder
    <3>4. sock[lease[p].session] = "closed"
      BY <2>1, <3>1, <3>2, <3>3 DEF LeaseInv, TypeOK
    <3>5. QED
      BY <2>1, <3>1, <3>3, <3>4 DEF LeaseInv, GoneHolderLetsGo, Holder
  <2>8. QED
    BY <2>2, <2>3, <2>5, <2>6, <2>7, InvParts DEF Kept
<1>3. ASSUME NEW s \in Sessions, ReleaseSession(s) PROVE LeaseInv'
  <2>1. sock[s] = "leaving" /\ sock' = [sock EXCEPT ![s] = "closed"] /\ slots' = slots \ {s}
        /\ sweeps' = sweeps \cup {TTL + 2}
        /\ UNCHANGED <<up, paired, auth, connected, control, watched, ungreeted, strays>>
    BY <1>3 DEF ReleaseSession, SweepDelay, accounts
  <2>2. OtherTypeOK'
    BY <2>1 DEF LeaseInv, TypeOK, OtherTypeOK, Socks
  <2>3. SocketsInOrder'
    BY <2>1 DEF LeaseInv, TypeOK, SocketsInOrder, LeavingIsOut, ServedIsConnected, OffHasNoSockets
  <2>4. ControlTypeOK' /\ LateLeasesStray' /\ ControlAsOne'
    BY <2>1 DEF LeaseInv, TypeOK, control, ControlTypeOK, LateLeasesStray, ControlAsOne, Holder
  <2>5. GoneHolderLetsGo'
    <3>1. SUFFICES ASSUME NEW p \in Panes, lease[p] # NoLease, sock'[Holder(p)] = "closed"
                   PROVE  \/ Holder(p) \in ungreeted
                          \/ p \in strays
                          \/ Holder(p) \notin connected /\ \E t \in sweeps' : t >= lease[p].left
      BY <2>1 DEF GoneHolderLetsGo, Holder, control
    <3>2. Holder(p) \in Sessions /\ lease[p].left \in 0..TTL
      BY <3>1, LeaseFields DEF LeaseInv
    <3>3. CASE Holder(p) = s
      <4>1. s \notin connected
        BY <2>1 DEF LeaseInv, LeavingIsOut
      <4>2. TTL + 2 \in sweeps' /\ TTL + 2 >= lease[p].left
        BY <2>1, <3>2
      <4>3. QED
        BY <3>3, <4>1, <4>2
    <3>4. CASE Holder(p) # s
      <4>1. sock[Holder(p)] = "closed"
        BY <2>1, <3>1, <3>2, <3>4 DEF LeaseInv, TypeOK
      <4>2. QED
        BY <2>1, <3>1, <4>1 DEF LeaseInv, GoneHolderLetsGo
    <3>5. QED
      BY <3>3, <3>4
  <2>6. QED
    BY <2>2, <2>3, <2>4, <2>5, InvParts DEF Kept
<1>4. ASSUME Sweep PROVE LeaseInv'
  <2> DEFINE gone == {p \in Panes : Expired(p)}
  <2>1. sweeps' = sweeps \ {0} /\ ReleasePaneControl(gone)
        /\ UNCHANGED <<up, paired, auth, slots, sock, connected, watched, ungreeted>>
    BY <1>4 DEF Sweep, PruneWriterLeases, accounts
  <2>2. ControlTypeOK' /\ LetsGo(gone)
    BY <2>1, ReleaseLetsGo
  <2>3. OtherTypeOK' /\ SocketsInOrder'
    BY <2>1 DEF LeaseInv, TypeOK, OtherTypeOK, SocketsInOrder, LeavingIsOut, ServedIsConnected, OffHasNoSockets
  <2>4. \A p \in Panes : lease'[p] # NoLease => ~Expired(p) /\ lease'[p] = lease[p] /\ p \notin gone
    BY <2>2 DEF LetsGo
  <2> HIDE DEF gone
  <2>5. LateLeasesStray' /\ ControlAsOne'
    BY <2>1, <2>2, <2>4 DEF LeaseInv, LateLeasesStray, ControlAsOne, Holder, LetsGo
  <2>6. GoneHolderLetsGo'
    <3>1. SUFFICES ASSUME NEW p \in Panes, lease'[p] # NoLease, sock[lease'[p].session] = "closed"
                   PROVE  \/ lease'[p].session \in ungreeted
                          \/ p \in strays'
                          \/ lease'[p].session \notin connected /\ \E t \in sweeps' : t >= lease'[p].left
      BY <2>1 DEF GoneHolderLetsGo, Holder
    <3>2. lease'[p] = lease[p] /\ ~Expired(p) /\ p \notin gone /\ lease[p].left \in 0..TTL
      BY <2>4, <3>1, LeaseFields DEF LeaseInv
    <3>3. CASE Holder(p) \in ungreeted \/ p \in strays
      BY <2>2, <3>2, <3>3 DEF LetsGo, Holder
    <3>4. CASE Holder(p) \notin connected /\ \E t \in sweeps : t >= lease[p].left
      <4>1. PICK t \in sweeps : t >= lease[p].left
        BY <3>4
      <4>2. lease[p].left # 0
        BY <3>1, <3>2, <3>4 DEF Expired
      <4>3. t # 0
        BY <3>2, <4>1, <4>2
      <4>4. QED
        BY <2>1, <3>2, <3>4, <4>1, <4>3 DEF Holder
    <3>5. QED
      BY <3>1, <3>2, <3>3, <3>4 DEF LeaseInv, GoneHolderLetsGo, Holder
  <2>7. QED
    BY <2>2, <2>3, <2>5, <2>6, InvParts DEF Kept
<1>5. QED
  BY <1>1, <1>2, <1>3, <1>4

\* The desktop, the service and time (preempt_writer_for_desktop_input, stop_runtime).
LEMMA DesktopInv ==
  ASSUME LeaseInv, (\E p \in Panes : DesktopInput(p)) \/ Stop \/ Shutdown \/ Start \/ Clock
  PROVE  LeaseInv'
<1> USE LeaseAssumption
<1>1. ASSUME NEW p \in Panes, DesktopInput(p) PROVE LeaseInv'
  <2>1. ReleasePaneControl({p}) /\ UNCHANGED <<up, paired, auth, slots, sock, connected, watched, sweeps, ungreeted>>
    BY <1>1 DEF DesktopInput, accounts
  <2>2. OtherTypeOK' /\ SocketsInOrder'
    BY <2>1 DEF LeaseInv, TypeOK, OtherTypeOK, SocketsInOrder, LeavingIsOut, ServedIsConnected, OffHasNoSockets
  <2>3. {p} \in SUBSET Panes
    OBVIOUS
  <2>4. QED
    BY <2>1, <2>2, <2>3, ReleaseLetsGo, LetsGoKeeps, InvParts
<1>2. ASSUME Stop PROVE LeaseInv'
  <2>1. up' = "closing" /\ connected' = {} /\ lease' = NoLeases /\ strays' = {} /\ slots' = {} /\ ungreeted' = {}
        /\ pin' = [p \in Panes |-> NoDevice] /\ sized' = sized \ {p \in Panes : lease[p] # NoLease}
        /\ UNCHANGED <<paired, watched, sock, sweeps>>
    BY <1>2 DEF Stop, AllSessionsDisconnected
  <2>2. auth' \in [Sessions -> {"new", "valid", "gone"}]
    BY <1>2 DEF Stop, AllSessionsDisconnected, LeaseInv, TypeOK
  <2>3. sized' = {}
    BY <2>1 DEF LeaseInv, TypeOK, ControlAsOne
  <2>4. \A p \in Panes : lease'[p] = NoLease /\ pin'[p] = NoDevice
    BY <2>1 DEF NoLeases
  <2>5. OtherTypeOK'
    BY <2>1, <2>2 DEF LeaseInv, TypeOK, OtherTypeOK
  <2>6. SocketsInOrder'
    BY <2>1 DEF SocketsInOrder, LeavingIsOut, ServedIsConnected, OffHasNoSockets
  <2>7. ControlTypeOK'
    BY <2>1, <2>3 DEF ControlTypeOK, NoLeases
  <2>8. Kept'
    BY <2>3, <2>4 DEF Kept, LateLeasesStray, ControlAsOne, GoneHolderLetsGo
  <2>9. QED
    BY <2>5, <2>6, <2>7, <2>8, InvParts
<1>3. ASSUME Shutdown PROVE LeaseInv'
  <2>1. up = "closing" /\ up' = "off" /\ sock' = [s \in Sessions |-> "closed"] /\ sweeps' = {}
        /\ UNCHANGED <<paired, auth, slots, connected, control, watched, ungreeted, strays>>
    BY <1>3 DEF Shutdown
  <2>2. OtherTypeOK'
    BY <2>1 DEF LeaseInv, TypeOK, OtherTypeOK, Socks
  <2>3. SocketsInOrder'
    BY <2>1 DEF SocketsInOrder, LeavingIsOut, ServedIsConnected, OffHasNoSockets
  <2>4. ControlTypeOK' /\ LateLeasesStray' /\ ControlAsOne'
    BY <2>1 DEF LeaseInv, TypeOK, control, ControlTypeOK, LateLeasesStray, ControlAsOne, Holder
  <2>5. GoneHolderLetsGo'
    BY <2>1, <2>4 DEF GoneHolderLetsGo, LateLeasesStray
  <2>6. QED
    BY <2>2, <2>3, <2>4, <2>5, InvParts DEF Kept
<1>4. ASSUME Start PROVE LeaseInv'
  <2>1. up = "off" /\ up' = "on"
        /\ UNCHANGED <<paired, auth, slots, sock, connected, control, watched, sweeps, ungreeted, strays>>
    BY <1>4 DEF Start
  <2>2. OtherTypeOK'
    BY <2>1 DEF LeaseInv, TypeOK, OtherTypeOK
  <2>3. SocketsInOrder'
    BY <2>1 DEF LeaseInv, SocketsInOrder, LeavingIsOut, ServedIsConnected, OffHasNoSockets
  <2>4. ControlTypeOK' /\ Kept'
    BY <2>1 DEF LeaseInv, TypeOK, control, ControlTypeOK, Kept, LateLeasesStray, ControlAsOne, GoneHolderLetsGo, Holder
  <2>5. QED
    BY <2>2, <2>3, <2>4, InvParts
<1>5. ASSUME Clock PROVE LeaseInv'
  <2>1. 0 \notin sweeps /\ sweeps' = {t - 1 : t \in sweeps}
        /\ UNCHANGED <<up, paired, auth, slots, sock, connected, pin, sized, watched, ungreeted, strays>>
    BY <1>5 DEF Clock, accounts
  <2>2. sweeps' \subseteq 0..(TTL + 2)
    BY <2>1 DEF LeaseInv, TypeOK
  <2>3. OtherTypeOK' /\ SocketsInOrder'
    BY <2>1, <2>2 DEF LeaseInv, TypeOK, OtherTypeOK, SocketsInOrder, LeavingIsOut, ServedIsConnected, OffHasNoSockets
  <2>4. ASSUME NEW p \in Panes
        PROVE  /\ lease'[p] \in Leases \cup {NoLease}
               /\ lease[p] = NoLease <=> lease'[p] = NoLease
               /\ lease[p] # NoLease => /\ lease'[p].session = Holder(p)
                                        /\ lease'[p].left = IF lease[p].left > 0 THEN lease[p].left - 1 ELSE 0
    <3>1. CASE lease[p] # NoLease /\ lease[p].left > 0
      <4>1. lease'[p] = [lease[p] EXCEPT !.left = lease[p].left - 1] /\ lease[p] \in Leases
        BY <1>5, <3>1, LeaseFields DEF Clock, LeaseInv
      <4>2. lease[p].left - 1 \in 0..TTL
        BY <3>1, LeaseFields DEF LeaseInv
      <4>3. QED
        BY <3>1, <4>1, <4>2, RetimedLease DEF Holder
    <3>2. CASE ~(lease[p] # NoLease /\ lease[p].left > 0)
      <4>1. lease'[p] = lease[p]
        BY <1>5, <3>2 DEF Clock
      <4>2. lease[p] # NoLease => lease[p].left = 0
        BY <3>2, LeaseFields DEF LeaseInv
      <4>3. QED
        BY <3>2, <4>1, <4>2 DEF Holder, LeaseInv, TypeOK
    <3>3. QED
      BY <3>1, <3>2
  <2>5. ControlTypeOK'
    BY <1>5, <2>1, <2>4 DEF Clock, LeaseInv, TypeOK, ControlTypeOK
  <2>6. LateLeasesStray' /\ ControlAsOne'
    BY <2>1, <2>4 DEF LeaseInv, LateLeasesStray, ControlAsOne, Holder
  <2>7. GoneHolderLetsGo'
    <3>1. SUFFICES ASSUME NEW p \in Panes, lease'[p] # NoLease, sock[lease'[p].session] = "closed",
                          lease'[p].session \notin ungreeted, p \notin strays
                   PROVE  lease'[p].session \notin connected /\ \E t \in sweeps' : t >= lease'[p].left
      BY <2>1 DEF GoneHolderLetsGo, Holder
    <3>2. lease[p] # NoLease /\ lease'[p].session = Holder(p)
      BY <2>4, <3>1
    <3>3. Holder(p) \notin connected /\ \E t \in sweeps : t >= lease[p].left
      BY <3>1, <3>2 DEF LeaseInv, GoneHolderLetsGo
    <3>4. PICK t \in sweeps : t >= lease[p].left
      BY <3>3
    <3>5. t \in Nat /\ t # 0 /\ lease[p].left \in Nat
      BY <2>1, <3>2, LeaseFields DEF LeaseInv, TypeOK
    <3>6. t - 1 \in sweeps' /\ t - 1 >= lease'[p].left
      BY <2>1, <2>4, <3>2, <3>4, <3>5
    <3>7. QED
      BY <3>2, <3>3, <3>6
  <2>8. QED
    BY <2>3, <2>5, <2>6, <2>7, InvParts DEF Kept
<1>6. QED
  BY <1>1, <1>2, <1>3, <1>4, <1>5

LEMMA LeaseInitInv == Init => LeaseInv
BY LeaseAssumption DEF Init, LeaseInv, TypeOK, NoLeases, Socks, ControlAsOne, GoneHolderLetsGo, LeavingIsOut,
   LateLeasesStray, ServedIsConnected, OffHasNoSockets

LEMMA LeaseNextInv == LeaseInv /\ [Next]_vars => LeaseInv'
<1>1. ASSUME LeaseInv, UNCHANGED vars PROVE LeaseInv'
  <2>1. OtherTypeOK'
    BY <1>1 DEF LeaseInv, TypeOK, OtherTypeOK, vars, accounts
  <2>2. QED
    BY <1>1, <2>1, ControlUnchanged, InvParts DEF vars, accounts
<1>2. ASSUME LeaseInv, Next PROVE LeaseInv'
  BY <1>2, AccountInv, ConnectInv, MessageInv, LeaveInv, DesktopInv DEF Next
<1>3. QED
  BY <1>1, <1>2

\* The variables of the remote terminals keep their types.
THEOREM LeaseTypeCorrect == Spec => []TypeOK
<1>1. LeaseInv => TypeOK
  BY DEF LeaseInv
<1>2. QED
  BY LeaseInitInv, LeaseNextInv, <1>1, PTL DEF Spec

\* A phone never keeps the width or the pin of a pane that it does not control, for any
\* number of phones and panes (release_pane_control, ensure_writer, session_connected).
THEOREM ControlIsOne == Spec => []ControlAsOne
<1>1. LeaseInv => ControlAsOne
  BY DEF LeaseInv
<1>2. QED
  BY LeaseInitInv, LeaseNextInv, <1>1, PTL DEF Spec

\* However a socket ends, its leases are left to a sweep that will find them lapsed, but
\* for the two exceptions that the property names (session_disconnected, websocket_loop).
THEOREM GoneHoldersLetGo == Spec => []GoneHolderLetsGo
<1>1. LeaseInv => GoneHolderLetsGo
  BY DEF LeaseInv
<1>2. QED
  BY LeaseInitInv, LeaseNextInv, <1>1, PTL DEF Spec

\* A device whose socket is served loses a pane only to the desktop, to its own release,
\* to an explicit takeover or to the end of the service (writer_lease_expired,
\* writer_lease_blocks).
THEOREM LeasesKept == Spec => LeaseKept
<1>1. ASSUME LeaseInv, Next PROVE KeepStep
  <2> USE LeaseAssumption
  <2>1. SUFFICES ASSUME NEW p \in Panes, LosesPane(p), ~TakesPane(p) PROVE FALSE
    BY DEF KeepStep
  <2>2. Holder(p) \in Sessions /\ Holder(p) \in connected /\ up = "on" /\ lease[p] # NoLease
    BY <1>1, <2>1, LeaseFields DEF LosesPane, LeaseInv, InLoop, ServedIsConnected
  <2>3. lease'[p] # lease[p]
    BY <2>1, <2>2 DEF LosesPane, Holder
  <2>4. ~Expired(p)
    BY <2>2 DEF Expired
  <2>5. ASSUME NEW s \in Sessions, NEW q \in Panes, Grant(s, q), Admits(s, q, FALSE) PROVE FALSE
    <3>1. q = p
      BY <1>1, <2>3, <2>5 DEF Grant, LeaseInv, TypeOK
    <3>2. DeviceOf[Holder(p)] = DeviceOf[s]
      BY <2>2, <2>4, <2>5, <3>1 DEF Admits, Blocks
    <3>3. lease'[p] = [session |-> s, left |-> TTL] /\ TTL \in 0..TTL
      BY <1>1, <2>5, <3>1 DEF Grant, LeaseInv, TypeOK
    <3>4. QED
      BY <2>1, <3>2, <3>3, MadeLease DEF LosesPane
  <2>6. ASSUME NEW P \in SUBSET Panes, LetsGo(P) PROVE p \in P
    BY <2>3, <2>6 DEF LetsGo
  <2>7. ~Snapshot
    BY <1>1, <2>4, <2>6, SnapshotLetsGo
  <2>8. ~UNCHANGED lease
    BY <2>3
  <2>9. ASSUME NEW s \in Sessions PROVE ~(ConnectSession(s) \/ GreetingFails(s) \/ Greet(s) \/ Ask(s)
                                          \/ OtherMessage(s) \/ Poll(s) \/ LeaveLoop(s) \/ ReleaseSession(s)
                                          \/ Authenticate(s) \/ Expire(s))
    BY <2>7, <2>8 DEF ConnectSession, GreetingFails, Greet, Ask, OtherMessage, Poll, LeaveLoop, ReleaseSession,
       Authenticate, Expire, control
  <2>10. ASSUME NEW s \in Sessions, SessionConnected(s) PROVE FALSE
    <3>1. Holder(p) \in connected'
      BY <2>2, <2>10 DEF SessionConnected
    <3>2. QED
      BY <2>3, <2>10, <3>1 DEF SessionConnected
  <2>11. ASSUME NEW s \in Sessions, SessionDisconnected(s) PROVE FALSE
    <3>1. lease'[p] = [lease[p] EXCEPT !.left = TTL] /\ lease[p] \in Leases /\ TTL \in 0..TTL
      BY <1>1, <2>2, <2>3, <2>11, LeaseFields DEF SessionDisconnected, LeaseInv
    <3>2. QED
      BY <2>1, <3>1, RetimedLease DEF LosesPane, Holder
  <2>12. ASSUME Clock PROVE FALSE
    <3>1. lease'[p] = [lease[p] EXCEPT !.left = lease[p].left - 1] /\ lease[p].left > 0
      BY <2>2, <2>3, <2>12 DEF Clock
    <3>2. lease[p] \in Leases /\ lease[p].left - 1 \in 0..TTL
      BY <1>1, <2>2, <3>1, LeaseFields DEF LeaseInv
    <3>3. QED
      BY <2>1, <3>1, <3>2, RetimedLease DEF LosesPane, Holder
  <2>13. ASSUME NEW s \in Sessions, NEW q \in Panes, ReleaseWriterLease(s, q) PROVE FALSE
    <3>1. q = p /\ Holder(p) = s
      BY <2>3, <2>13 DEF ReleaseWriterLease, ReleasePaneControl
    <3>2. QED
      BY <2>1, <2>13, <3>1 DEF TakesPane
  <2>14. ASSUME NEW s \in Sessions, NEW q \in Panes, NEW takeover \in BOOLEAN,
                AcquireWriterLease(s, q, takeover)
         PROVE  FALSE
    <3>1. q = p
      BY <1>1, <2>3, <2>14 DEF AcquireWriterLease, Grant, LeaseInv, TypeOK
    <3>2. CASE takeover = TRUE
      BY <2>1, <2>14, <3>1, <3>2 DEF TakesPane
    <3>3. CASE takeover = FALSE
      BY <2>5, <2>14, <3>3 DEF AcquireWriterLease
    <3>4. QED
      BY <3>2, <3>3
  <2>15. ASSUME NEW s \in Sessions, NEW q \in Panes,
                ResizeTerminal(s, q) \/ \E pinned \in BOOLEAN : SetTerminalSizePin(s, q, pinned)
         PROVE  FALSE
    BY <2>5, <2>15 DEF ResizeTerminal, SetTerminalSizePin
  <2>16. ASSUME NEW q \in Panes, DesktopInput(q) PROVE FALSE
    <3>1. q = p
      BY <2>3, <2>16 DEF DesktopInput, ReleasePaneControl
    <3>2. QED
      BY <2>1, <2>16, <3>1 DEF TakesPane
  <2>17. ~Sweep
    BY <2>3, <2>4 DEF Sweep, PruneWriterLeases, ReleasePaneControl
  <2>18. ~Stop
    BY <2>1 DEF TakesPane
  <2>19. ~Shutdown /\ ~Start /\ (\A q \in Panes : ~Watch(q)) /\ (\A d \in Devices : ~RevokeDevice(d))
    BY <2>8 DEF Shutdown, Start, Watch, RevokeDevice, control
  <2>20. QED
    BY <1>1, <2>9, <2>10, <2>11, <2>12, <2>13, <2>14, <2>15, <2>16, <2>17, <2>18, <2>19 DEF Next
<1>2. ASSUME LeaseInv, [Next]_vars PROVE [KeepStep]_vars
  BY <1>1, <1>2
<1>3. QED
  BY LeaseInitInv, LeaseNextInv, <1>2, PTL DEF Spec, LeaseKept
=============================================================================
