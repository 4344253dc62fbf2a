---------------------------- MODULE ServiceProofs ---------------------------
(***************************************************************************)
(* Proofs about RemoteService, for any number of starts and stops.         *)
(*                                                                         *)
(* Neither property is inductive.  That a report of this generation finds  *)
(* its own gateway needs the invariant that tasks carry generations of the *)
(* past, and none carries the present one once the gateway is gone; that   *)
(* a recheck that finds the service starting may end needs another task    *)
(* beside it.                                                              *)
(***************************************************************************)
EXTENDS RemoteService, TLAPS

\* A gateway runs in the current generation, while it is wanted and nothing is cleaned up.
GatewayCurrent ==
  gateway # 0 => (gateway = generation /\ wanted /\ cleanup = NoCleanup)

\* Tasks carry generations that have begun, and the present one only beside its gateway.
TasksKnown ==
  \A t \in tasks : t.gen # 0 /\ t.gen <= generation /\ (t.gen = generation => gateway = generation)

\* A clean-up that is under way is at one of its steps.
CleanupUnderWay == cleanup # NoCleanup => cleanup.step # "none"

\* A service that is not wanted is off or has failed.
OffIsOff == ~wanted => status.kind \in {"Disabled", "Error"}

\* A start that is under way has more than a recheck to wait for.
StartingHasSetup ==
  (status.kind = "Starting" /\ gateway # 0) =>
    \E t \in tasks : t.gen = generation /\ t.kind # "recheck"

ServiceInv ==
  /\ ServiceTypeOK
  /\ GatewayCurrent /\ CleanupUnderWay /\ TasksKnown /\ OffIsOff /\ StartingHasSetup
  /\ ReadyIsCurrent /\ StuckOnlyWhenLost

\* The kinds of a task and the parts of a status are what they were made of.
LEMMA TaskFields ==
  ASSUME NEW kind \in TaskKinds, NEW g \in 0..MaxGeneration
  PROVE  /\ Task(kind, g) \in [kind : TaskKinds, gen : 0..MaxGeneration]
         /\ Task(kind, g).kind = kind /\ Task(kind, g).gen = g
BY DEF Task

LEMMA StatusFields ==
  ASSUME NEW k \in {"Disabled", "Starting", "Ready", "Blocked", "Error"}
  PROVE  /\ Status(k) \in [kind : {"Disabled", "Starting", "Ready", "Blocked", "Error"}, port : 0..MaxGeneration]
         /\ Status(k).kind = k
BY ServiceAssumption DEF Status

\* A start under a new generation, beside tasks of earlier ones, establishes the
\* invariant whether it succeeds or not (start and configure_tailscale).
LEMMA StartedInv ==
  ASSUME ServiceInv, NEW g \in 1..MaxGeneration, NEW left \in SUBSET tasks,
         \A t \in left : t.gen < g - 1,
         wanted' = TRUE, cleanup' = NoCleanup,
         tailscale' = tailscale, flips' = flips, route' = route,
         Started(g, left)
  PROVE  ServiceInv'
<1> USE ServiceAssumption
<1>1. left \subseteq [kind : TaskKinds, gen : 0..MaxGeneration] /\ \A t \in left : t.gen # 0
  BY DEF ServiceInv, ServiceTypeOK, TasksKnown
<1>2. flips' \in 0..MaxFlips /\ tailscale' \in {"missing", "blocked", "ok"} /\ route' \in 0..MaxGeneration
      /\ cleanup' \in [of : 0..MaxGeneration, step : CleanupSteps]
  BY DEF ServiceInv, ServiceTypeOK, NoCleanup, CleanupSteps
<1>3. ASSUME generation' = g, gateway' = g, Configured(g, left) PROVE ServiceInv'
  <2>1. PICK kind \in {"recheck", "setup"} :
          /\ tasks' = left \cup {Task(kind, g)}
          /\ status' = Status(IF kind = "setup" THEN "Starting" ELSE "Blocked")
    BY <1>3 DEF Configured
  <2>2. /\ Task(kind, g) \in [kind : TaskKinds, gen : 0..MaxGeneration]
        /\ Task(kind, g).kind = kind /\ Task(kind, g).gen = g
    BY TaskFields DEF TaskKinds
  <2>3. /\ status' \in [kind : {"Disabled", "Starting", "Ready", "Blocked", "Error"}, port : 0..MaxGeneration]
        /\ status'.kind = IF kind = "setup" THEN "Starting" ELSE "Blocked"
    BY <2>1, StatusFields
  <2>4. ServiceTypeOK'
    BY <1>1, <1>2, <1>3, <2>1, <2>2, <2>3 DEF ServiceTypeOK
  <2>5. TasksKnown'
    BY <1>1, <1>3, <2>1, <2>2 DEF TasksKnown, ServiceInv, ServiceTypeOK
  <2>6. GatewayCurrent' /\ CleanupUnderWay' /\ OffIsOff' /\ ReadyIsCurrent'
    BY <1>3, <2>3 DEF GatewayCurrent, CleanupUnderWay, OffIsOff, ReadyIsCurrent
  <2>7. StartingHasSetup' /\ StuckOnlyWhenLost'
    BY <1>3, <2>1, <2>2, <2>3 DEF StartingHasSetup, StuckOnlyWhenLost, SomebodyReports
  <2>8. QED
    BY <2>4, <2>5, <2>6, <2>7 DEF ServiceInv
<1>4. ASSUME generation' \in {g - 1, g}, gateway' = 0, status' = Status("Error"), tasks' = left
      PROVE  ServiceInv'
  <2>1. /\ status' \in [kind : {"Disabled", "Starting", "Ready", "Blocked", "Error"}, port : 0..MaxGeneration]
        /\ status'.kind = "Error"
    BY <1>4, StatusFields
  <2>2. ServiceTypeOK'
    BY <1>1, <1>2, <1>4, <2>1 DEF ServiceTypeOK
  <2>3. TasksKnown'
    BY <1>1, <1>4 DEF TasksKnown, ServiceInv, ServiceTypeOK
  <2>4. GatewayCurrent' /\ CleanupUnderWay' /\ OffIsOff' /\ ReadyIsCurrent' /\ StartingHasSetup' /\ StuckOnlyWhenLost'
    BY <1>4, <2>1 DEF GatewayCurrent, CleanupUnderWay, OffIsOff, ReadyIsCurrent, StartingHasSetup, StuckOnlyWhenLost, SomebodyReports
  <2>5. QED
    BY <2>2, <2>3, <2>4 DEF ServiceInv
<1>5. QED
  BY <1>3, <1>4 DEF Started

\* The tasks that are left when a gateway or a runtime goes are tasks.
LEMMA WithoutSubset == ASSUME NEW g PROVE Without(g) \in SUBSET tasks
BY DEF Without

\* A task that turns into another one of its generation keeps what is known of tasks.
LEMMA BecomesKnown ==
  ASSUME ServiceInv, NEW t \in tasks, NEW kind \in TaskKinds, Becomes(t, kind),
         generation' = generation, gateway' = gateway
  PROVE  /\ tasks' \subseteq [kind : TaskKinds, gen : 0..MaxGeneration]
         /\ TasksKnown'
         /\ \E u \in tasks' : u.gen = t.gen /\ u.kind = kind
         /\ \A u \in tasks : u # t => u \in tasks'
<1>1. t \in [kind : TaskKinds, gen : 0..MaxGeneration]
  BY DEF ServiceInv, ServiceTypeOK
<1>2. /\ Task(kind, t.gen) \in [kind : TaskKinds, gen : 0..MaxGeneration]
      /\ Task(kind, t.gen).kind = kind /\ Task(kind, t.gen).gen = t.gen
  BY <1>1, TaskFields
<1>3. tasks' = (tasks \ {t}) \cup {Task(kind, t.gen)}
  BY DEF Becomes
<1>4. QED
  BY <1>2, <1>3 DEF ServiceInv, ServiceTypeOK, TasksKnown

LEMMA ServiceInitInv == ServiceInit => ServiceInv
<1> SUFFICES ASSUME ServiceInit PROVE ServiceInv
  OBVIOUS
<1>1. /\ status \in [kind : {"Disabled", "Starting", "Ready", "Blocked", "Error"}, port : 0..MaxGeneration]
      /\ status.kind = "Disabled"
  BY StatusFields DEF ServiceInit, Disabled
<1>2. cleanup \in [of : 0..MaxGeneration, step : CleanupSteps]
  BY ServiceAssumption DEF ServiceInit, NoCleanup, CleanupSteps
<1>3. ServiceTypeOK
  <2>1. wanted \in BOOLEAN
    BY Zenon DEF ServiceInit
  <2>2. 0 \in 0..MaxGeneration /\ 0 \in 0..MaxFlips
    BY ServiceAssumption
  <2>3. QED
    BY <1>1, <1>2, <2>1, <2>2 DEF ServiceInit, ServiceTypeOK
<1>4. QED
  BY <1>1, <1>3 DEF ServiceInit, ServiceInv, GatewayCurrent, CleanupUnderWay, TasksKnown, OffIsOff,
     StartingHasSetup, ReadyIsCurrent, StuckOnlyWhenLost, SomebodyReports

\* Without a gateway no task belongs to the present generation.
LEMMA NoGatewayNoTask ==
  ASSUME ServiceInv, gateway = 0 PROVE \A t \in tasks : t.gen < generation
BY DEF ServiceInv, ServiceTypeOK, TasksKnown

\* The switch, the retry and the clean-up (refresh_for_settings, stop_runtime, retry).
LEMMA SwitchInv ==
  ASSUME ServiceInv,
         Enable \/ Disable \/ Retry \/ ShowPairedPhones \/ RemoveRoute \/ ShutdownRuntime \/ FinishCleanup
  PROVE  ServiceInv'
<1> USE ServiceAssumption
<1>1. CASE Enable
  <2>1. gateway = 0
    BY <1>1 DEF ServiceInv, GatewayCurrent, Enable
  <2>2. CASE cleanup # NoCleanup
    <3>1. status' = Status("Starting") /\ wanted' = TRUE
          /\ UNCHANGED <<generation, gateway, tasks, cleanup, tailscale, route, flips>>
      BY <1>1, <2>2 DEF Enable
    <3>2. /\ status' \in [kind : {"Disabled", "Starting", "Ready", "Blocked", "Error"}, port : 0..MaxGeneration]
          /\ status'.kind = "Starting"
      BY <3>1, StatusFields
    <3>3. QED
      BY <2>1, <2>2, <3>1, <3>2 DEF ServiceInv, ServiceTypeOK, GatewayCurrent, CleanupUnderWay, TasksKnown, OffIsOff,
         StartingHasSetup, ReadyIsCurrent, StuckOnlyWhenLost, SomebodyReports, CleanupSteps
  <2>3. CASE cleanup = NoCleanup
    <3>1. generation + 1 \in 1..MaxGeneration
      BY <1>1 DEF Enable, ServiceInv, ServiceTypeOK
    <3>2. \A t \in tasks : t.gen < (generation + 1) - 1
      BY <2>1, NoGatewayNoTask DEF ServiceInv, ServiceTypeOK
    <3>3. Started(generation + 1, tasks)
      BY <1>1, <2>3 DEF Enable
    <3>4. QED
      BY <1>1, <2>3, <3>1, <3>2, <3>3, StartedInv DEF Enable
  <2>4. QED
    BY <2>2, <2>3
<1>2. CASE Disable
  <2>1. /\ status' \in [kind : {"Disabled", "Starting", "Ready", "Blocked", "Error"}, port : 0..MaxGeneration]
        /\ status'.kind = "Disabled"
    BY <1>2, StatusFields DEF Disable, Disabled
  <2>2. tasks' \in SUBSET tasks
    BY <1>2, WithoutSubset DEF Disable
  <2>3. gateway' = 0 /\ wanted' = FALSE /\ generation' \in 0..MaxGeneration /\ generation' >= generation
        /\ (generation' = generation => gateway = 0)
    BY <1>2 DEF Disable, ServiceInv, ServiceTypeOK
  <2>4. cleanup' \in [of : 0..MaxGeneration, step : CleanupSteps] /\ CleanupUnderWay'
    BY <1>2 DEF Disable, ServiceInv, ServiceTypeOK, CleanupSteps, CleanupUnderWay
  <2>5. ServiceTypeOK'
    <3>1. tasks' \subseteq [kind : TaskKinds, gen : 0..MaxGeneration]
      BY <2>2 DEF ServiceInv, ServiceTypeOK
    <3>2. gateway' \in 0..MaxGeneration
      BY <2>3
    <3>3. wanted' \in BOOLEAN
      BY <2>3, Zenon
    <3>4. route' \in 0..MaxGeneration /\ tailscale' \in {"missing", "blocked", "ok"} /\ flips' \in 0..MaxFlips
      BY <1>2 DEF Disable, ServiceInv, ServiceTypeOK
    <3>5. QED
      BY <2>1, <2>3, <2>4, <3>1, <3>2, <3>3, <3>4 DEF ServiceTypeOK
  <2>6. TasksKnown'
    <3>1. \A t \in tasks : t.gen \in 0..MaxGeneration /\ t.gen # 0 /\ t.gen < generation'
      BY <2>3, NoGatewayNoTask DEF ServiceInv, ServiceTypeOK, TasksKnown
    <3>2. QED
      BY <2>2, <2>3, <3>1 DEF TasksKnown
  <2>7. GatewayCurrent' /\ OffIsOff' /\ StartingHasSetup' /\ ReadyIsCurrent' /\ StuckOnlyWhenLost'
    BY <2>1, <2>3 DEF GatewayCurrent, OffIsOff, StartingHasSetup, ReadyIsCurrent, StuckOnlyWhenLost, SomebodyReports
  <2>8. QED
    BY <2>4, <2>5, <2>6, <2>7 DEF ServiceInv
<1>3. CASE Retry
  <2>1. wanted' = TRUE /\ cleanup' = NoCleanup
        /\ tailscale' = tailscale /\ flips' = flips /\ route' = route
    BY <1>3 DEF Retry, ServiceInv, ServiceTypeOK
  <2>2. CASE gateway = 0
    <3>1. Started(generation + 1, tasks) /\ generation + 1 \in 1..MaxGeneration
      BY <1>3, <2>2 DEF Retry, ServiceInv, ServiceTypeOK
    <3>2. \A t \in tasks : t.gen < (generation + 1) - 1
      BY <2>2, NoGatewayNoTask DEF ServiceInv, ServiceTypeOK
    <3>3. QED
      BY <2>1, <3>1, <3>2, StartedInv
  <2>3. CASE gateway # 0
    <3>1. Started(generation + 2, Without(gateway)) /\ generation + 2 \in 1..MaxGeneration
      BY <1>3, <2>3 DEF Retry, ServiceInv, ServiceTypeOK
    <3>2. \A t \in Without(gateway) : t.gen < (generation + 2) - 1
      BY WithoutSubset DEF ServiceInv, ServiceTypeOK, TasksKnown
    <3>3. Without(gateway) \in SUBSET tasks
      BY WithoutSubset
    <3>4. QED
      BY <2>1, <3>1, <3>2, <3>3, StartedInv
  <2>4. QED
    BY <2>2, <2>3
<1>4. CASE ShowPairedPhones
  <2>1. PICK k \in {"Disabled", "Error"} : status' = Status(k)
    BY <1>4 DEF ShowPairedPhones, Disabled
  <2>2. /\ status' \in [kind : {"Disabled", "Starting", "Ready", "Blocked", "Error"}, port : 0..MaxGeneration]
        /\ status'.kind = k
    BY <2>1, StatusFields
  <2>3. QED
    BY <1>4, <2>2 DEF ShowPairedPhones, ServiceInv, ServiceTypeOK, GatewayCurrent, CleanupUnderWay, TasksKnown, OffIsOff,
       StartingHasSetup, ReadyIsCurrent, StuckOnlyWhenLost, SomebodyReports
<1>5. CASE RemoveRoute \/ ShutdownRuntime
  <2>1. cleanup # NoCleanup
    BY <1>5 DEF RemoveRoute, ShutdownRuntime, NoCleanup
  <2>2. gateway = 0
    BY <2>1 DEF ServiceInv, GatewayCurrent
  <2>3. /\ cleanup' \in [of : 0..MaxGeneration, step : CleanupSteps]
        /\ cleanup'.step \in {"shutdown", "finish"}
    BY <1>5 DEF RemoveRoute, ShutdownRuntime, ServiceInv, ServiceTypeOK, CleanupSteps
  <2>4. cleanup' # NoCleanup
    BY <2>3 DEF NoCleanup
  <2>5. tasks' \in SUBSET tasks /\ route' \in 0..MaxGeneration
        /\ UNCHANGED <<wanted, generation, gateway, status, tailscale, flips>>
    BY <1>5, WithoutSubset DEF RemoveRoute, ShutdownRuntime, ServiceInv, ServiceTypeOK
  <2>6. QED
    BY <2>2, <2>3, <2>4, <2>5 DEF ServiceInv, ServiceTypeOK, GatewayCurrent, CleanupUnderWay, TasksKnown, OffIsOff,
       StartingHasSetup, ReadyIsCurrent, StuckOnlyWhenLost, SomebodyReports
<1>6. CASE FinishCleanup
  <2>1. cleanup # NoCleanup
    BY <1>6 DEF FinishCleanup, NoCleanup
  <2>2. gateway = 0
    BY <2>1 DEF ServiceInv, GatewayCurrent
  <2>3. CASE wanted
    <3>1. Started(generation + 1, tasks) /\ generation + 1 \in 1..MaxGeneration /\ wanted' = TRUE
      BY <1>6, <2>3 DEF FinishCleanup, ServiceInv, ServiceTypeOK
    <3>2. \A t \in tasks : t.gen < (generation + 1) - 1
      BY <2>2, NoGatewayNoTask DEF ServiceInv, ServiceTypeOK
    <3>3. QED
      BY <1>6, <3>1, <3>2, StartedInv DEF FinishCleanup
  <2>4. CASE ~wanted
    <3>1. cleanup' \in [of : 0..MaxGeneration, step : CleanupSteps]
      BY <1>6 DEF FinishCleanup, NoCleanup, CleanupSteps
    <3>2. QED
      BY <1>6, <2>2, <2>4, <3>1 DEF FinishCleanup, ServiceInv, ServiceTypeOK, GatewayCurrent, CleanupUnderWay, TasksKnown,
         OffIsOff, StartingHasSetup, ReadyIsCurrent, StuckOnlyWhenLost, SomebodyReports
  <2>5. QED
    BY <2>3, <2>4
<1>7. QED
  BY <1>1, <1>2, <1>3, <1>4, <1>5, <1>6

\* The set-up and its reports (configure_private_route, finish_tailscale_setup and the
\* recheck timer).
LEMMA SetupInv ==
  ASSUME ServiceInv, NEW t \in tasks, Serve(t) \/ Verify(t) \/ FinishSetup(t) \/ Recheck(t)
  PROVE  ServiceInv'
<1> USE ServiceAssumption
<1>t. t \in [kind : TaskKinds, gen : 0..MaxGeneration]
  BY DEF ServiceInv, ServiceTypeOK
<1>1. CASE Serve(t) \/ Verify(t)
  <2>1. PICK kind \in TaskKinds : kind # "recheck" /\ Becomes(t, kind)
    BY <1>1 DEF Serve, Verify, TaskKinds
  <2>2. route' \in 0..MaxGeneration /\ UNCHANGED <<wanted, generation, gateway, cleanup, status, tailscale, flips>>
    BY <1>1, <1>t DEF Serve, Verify, ServiceInv, ServiceTypeOK
  <2>3. /\ tasks' \subseteq [kind : TaskKinds, gen : 0..MaxGeneration] /\ TasksKnown'
        /\ \E u \in tasks' : u.gen = t.gen /\ u.kind = kind
        /\ \A u \in tasks : u # t => u \in tasks'
    BY <2>1, <2>2, BecomesKnown
  <2>4. StartingHasSetup' /\ StuckOnlyWhenLost'
    BY <2>1, <2>2, <2>3 DEF ServiceInv, StartingHasSetup, StuckOnlyWhenLost, SomebodyReports
  <2>5. QED
    BY <2>2, <2>3, <2>4 DEF ServiceInv, ServiceTypeOK, GatewayCurrent, CleanupUnderWay, OffIsOff, ReadyIsCurrent
<1>2. CASE FinishSetup(t)
  <2>1. UNCHANGED <<wanted, generation, gateway, cleanup, tailscale, route, flips>>
    BY <1>2 DEF FinishSetup
  <2>2. CASE ~Applies(t)
    <3>1. tasks' = tasks \ {t} /\ status' = status
      BY <1>2, <2>2 DEF FinishSetup
    <3>2. t.gen # generation \/ ~wanted
      BY <2>2 DEF Applies
    <3>3. StartingHasSetup' /\ StuckOnlyWhenLost'
      BY <2>1, <3>1, <3>2 DEF ServiceInv, StartingHasSetup, StuckOnlyWhenLost, SomebodyReports, OffIsOff
    <3>4. QED
      BY <2>1, <3>1, <3>3 DEF ServiceInv, ServiceTypeOK, GatewayCurrent, CleanupUnderWay, TasksKnown, OffIsOff, ReadyIsCurrent
  <2>3. CASE Applies(t)
    <3>1. t.gen = generation /\ wanted /\ gateway = generation /\ gateway # 0
      BY <2>3 DEF Applies, ServiceInv, TasksKnown
    <3>2. CASE status' = [kind |-> "Ready", port |-> t.gen] /\ tasks' = tasks \ {t}
      BY <1>t, <2>1, <3>1, <3>2 DEF ServiceInv, ServiceTypeOK, GatewayCurrent, CleanupUnderWay, TasksKnown, OffIsOff,
         StartingHasSetup, ReadyIsCurrent, StuckOnlyWhenLost, SomebodyReports
    <3>3. CASE status' = Status("Blocked") /\ Becomes(t, "recheck")
      <4>1. /\ status' \in [kind : {"Disabled", "Starting", "Ready", "Blocked", "Error"}, port : 0..MaxGeneration]
            /\ status'.kind = "Blocked"
        BY <3>3, StatusFields
      <4>2. /\ tasks' \subseteq [kind : TaskKinds, gen : 0..MaxGeneration] /\ TasksKnown'
            /\ \E u \in tasks' : u.gen = t.gen
        BY <2>1, <3>3, BecomesKnown DEF TaskKinds
      <4>3. QED
        BY <2>1, <3>1, <4>1, <4>2 DEF ServiceInv, ServiceTypeOK, GatewayCurrent, CleanupUnderWay, OffIsOff,
           StartingHasSetup, ReadyIsCurrent, StuckOnlyWhenLost, SomebodyReports
    <3>4. CASE status' = Status("Error") /\ tasks' = tasks \ {t}
      <4>1. /\ status' \in [kind : {"Disabled", "Starting", "Ready", "Blocked", "Error"}, port : 0..MaxGeneration]
            /\ status'.kind = "Error"
        BY <3>4, StatusFields
      <4>2. QED
        BY <2>1, <3>1, <3>4, <4>1 DEF ServiceInv, ServiceTypeOK, GatewayCurrent, CleanupUnderWay, TasksKnown, OffIsOff,
           StartingHasSetup, ReadyIsCurrent, StuckOnlyWhenLost, SomebodyReports
    <3>5. QED
      BY <1>2, <2>3, <3>2, <3>3, <3>4 DEF FinishSetup
  <2>4. QED
    BY <2>2, <2>3
<1>3. CASE Recheck(t)
  <2>1. UNCHANGED <<wanted, generation, gateway, cleanup, status, tailscale, route, flips>> /\ t.kind = "recheck"
    BY <1>3 DEF Recheck
  <2>2. CASE tasks' = tasks
    BY <2>1, <2>2 DEF ServiceInv, ServiceTypeOK, GatewayCurrent, CleanupUnderWay, TasksKnown, OffIsOff,
       StartingHasSetup, ReadyIsCurrent, StuckOnlyWhenLost, SomebodyReports
  <2>3. CASE Becomes(t, "setup")
    <3>1. /\ tasks' \subseteq [kind : TaskKinds, gen : 0..MaxGeneration] /\ TasksKnown'
          /\ \E u \in tasks' : u.gen = t.gen /\ u.kind = "setup"
          /\ \A u \in tasks : u # t => u \in tasks'
      BY <2>1, <2>3, BecomesKnown DEF TaskKinds
    <3>2. StartingHasSetup' /\ StuckOnlyWhenLost'
      BY <2>1, <3>1 DEF ServiceInv, StartingHasSetup, StuckOnlyWhenLost, SomebodyReports
    <3>3. QED
      BY <2>1, <3>1, <3>2 DEF ServiceInv, ServiceTypeOK, GatewayCurrent, CleanupUnderWay, OffIsOff, ReadyIsCurrent
  <2>4. CASE tasks' = tasks \ {t} /\ ~(t.gen = generation /\ status.kind = "Blocked" /\ gateway # 0)
    <3>1. StartingHasSetup'
      BY <2>1, <2>4 DEF ServiceInv, StartingHasSetup
    <3>2. StuckOnlyWhenLost'
      <4>1. CASE gateway = 0
        BY <2>1, <4>1 DEF ServiceInv, StuckOnlyWhenLost, SomebodyReports, TasksKnown
      <4>2. CASE gateway # 0 /\ status.kind = "Starting"
        BY <2>1, <3>1, <4>2 DEF ServiceInv, GatewayCurrent, StartingHasSetup, StuckOnlyWhenLost, SomebodyReports
      <4>3. CASE gateway # 0 /\ status.kind # "Starting"
        BY <2>1, <2>4, <4>3 DEF ServiceInv, StuckOnlyWhenLost, SomebodyReports
      <4>4. QED
        BY <4>1, <4>2, <4>3
    <3>3. QED
      BY <2>1, <2>4, <3>1, <3>2 DEF ServiceInv, ServiceTypeOK, GatewayCurrent, CleanupUnderWay, TasksKnown, OffIsOff, ReadyIsCurrent
  <2>5. QED
    BY <1>3, <2>2, <2>3, <2>4 DEF Recheck
<1>4. QED
  BY <1>1, <1>2, <1>3

LEMMA ServiceNextInv == ServiceInv /\ [ServiceNext]_serviceVars => ServiceInv'
<1>1. ASSUME ServiceInv, UNCHANGED serviceVars PROVE ServiceInv'
  BY <1>1 DEF serviceVars, ServiceInv, ServiceTypeOK, GatewayCurrent, CleanupUnderWay, TasksKnown, OffIsOff,
     StartingHasSetup, ReadyIsCurrent, StuckOnlyWhenLost, SomebodyReports
<1>2. ASSUME ServiceInv, Flip PROVE ServiceInv'
  BY <1>2, ServiceAssumption DEF Flip, ServiceInv, ServiceTypeOK, GatewayCurrent, CleanupUnderWay, TasksKnown, OffIsOff,
     StartingHasSetup, ReadyIsCurrent, StuckOnlyWhenLost, SomebodyReports
<1>3. QED
  BY <1>1, <1>2, SwitchInv, SetupInv DEF ServiceNext

\* The service never says Ready of a gateway that was stopped or replaced, for any
\* number of restarts and however late the set-ups report (finish_tailscale_setup).
THEOREM ReadyCurrent == ServiceSpec => []ReadyIsCurrent
<1>1. ServiceInv => ReadyIsCurrent
  BY DEF ServiceInv
<1>2. QED
  BY ServiceInitInv, ServiceNextInv, <1>1, PTL DEF ServiceSpec

\* A service that starts or waits for Tailscale has a set-up, a recheck or a clean-up
\* that will decide (configure_tailscale, schedule_tailscale_recheck, finish_cleanup),
\* unless no thread could be created for the clean-up (stop_runtime).
THEOREM StuckOnlyLost == ServiceSpec => []StuckOnlyWhenLost
<1>1. ServiceInv => StuckOnlyWhenLost
  BY DEF ServiceInv
<1>2. QED
  BY ServiceInitInv, ServiceNextInv, <1>1, PTL DEF ServiceSpec
=============================================================================
