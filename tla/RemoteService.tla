---------------------------- MODULE RemoteService ---------------------------
(***************************************************************************)
(* The remote-control service (remote_control/mod.rs): one switch that     *)
(* starts and stops a gateway in a runtime of its own, and the Tailscale   *)
(* set-up that runs in that runtime and reports back to the UI thread.     *)
(*                                                                         *)
(* Tailscale is external: it may be missing, not ready or fine at any      *)
(* time, and keeps the one route that `tailscale serve` was last told.     *)
(***************************************************************************)
EXTENDS Naturals

CONSTANTS
  MaxGeneration,   \* bound on starts and stops
  MaxFlips         \* bound on changes of Tailscale

VARIABLES
  wanted,      \* the setting, mirrored by view_state.enabled
  generation,
  gateway,     \* generation of the running gateway and runtime, 0: none
  cleanup,     \* cleanup_in_progress: the runtime it ends and how far it is
  status,      \* view_state.status and, if Ready, the gateway it names
  tasks,       \* set-ups and rechecks in a runtime, and their reports to the UI thread
  tailscale, route, flips

serviceVars == <<wanted, generation, gateway, cleanup, status, tasks, tailscale, route, flips>>

ASSUME ServiceAssumption == MaxGeneration \in Nat /\ MaxFlips \in Nat

NoCleanup == [of |-> 0, step |-> "none"]

\* The steps of the clean-up thread; lost: it was never created.
CleanupSteps == {"none", "route", "shutdown", "finish", "lost"}

\* setup: before `tailscale serve`; verify: after it; recheck: a timer.  A report is a
\* call queued for the UI thread and outlives its runtime.
TaskKinds == {"setup", "verify", "recheck", "reportReady", "reportBlocked", "reportError"}

Reports == {"reportReady", "reportBlocked", "reportError"}

Task(kind, g) == [kind |-> kind, gen |-> g]

Status(kind) == [kind |-> kind, port |-> 0]

Disabled == Status("Disabled")

ServiceTypeOK ==
  /\ wanted \in BOOLEAN /\ generation \in 0..MaxGeneration
  /\ gateway \in 0..MaxGeneration /\ route \in 0..MaxGeneration
  /\ cleanup \in [of : 0..MaxGeneration, step : CleanupSteps]
  /\ status \in [kind : {"Disabled", "Starting", "Ready", "Blocked", "Error"}, port : 0..MaxGeneration]
  /\ tasks \subseteq [kind : TaskKinds, gen : 0..MaxGeneration]
  /\ tailscale \in {"missing", "blocked", "ok"} /\ flips \in 0..MaxFlips

-----------------------------------------------------------------------------
(* Starting and stopping; each operator gives the state after the call *)

\* Mutant: a Tailscale that is not installed is not looked for again.
ConfiguredOnce(g, left) ==
  IF tailscale = "missing"
  THEN /\ status' = Status("Blocked") /\ tasks' = left
  ELSE /\ status' = Status("Starting") /\ tasks' = left \cup {Task("setup", g)}

\* configure_tailscale, for gateway g beside the tasks that are left.
Configured(g, left) ==
  IF tailscale = "missing"
  THEN /\ status' = Status("Blocked") /\ tasks' = left \cup {Task("recheck", g)}
  ELSE /\ status' = Status("Starting") /\ tasks' = left \cup {Task("setup", g)}

\* start: the registry, the runtime or the listener may fail.
Started(g, left) ==
  \/ /\ generation' = g /\ gateway' = g
     /\ Configured(g, left)
  \/ /\ generation' \in {g - 1, g} /\ gateway' = 0
     /\ status' = Status("Error") /\ tasks' = left

\* Tasks of a runtime end with it, their reports do not.
Without(g) == {t \in tasks : t.gen # g \/ t.kind \in Reports}

\* refresh_for_settings with the switch on.
Enable ==
  /\ ~wanted /\ wanted' = TRUE
  /\ generation < MaxGeneration
  /\ \/ /\ cleanup # NoCleanup
        /\ status' = Status("Starting")
        /\ UNCHANGED <<generation, gateway, tasks>>
     \/ /\ cleanup = NoCleanup
        /\ Started(generation + 1, tasks)
  /\ UNCHANGED <<cleanup, tailscale, route, flips>>

\* stop_runtime(true): the route is removed by a thread, unless there is no Tailscale.
\* Nobody looks whether the thread could be created: if not, the runtime it was to end is
\* dropped with it, and cleanup_in_progress stays set.
Disable ==
  /\ wanted /\ wanted' = FALSE
  /\ status' = Disabled
  /\ \/ /\ gateway = 0
        /\ UNCHANGED <<generation, gateway, cleanup, tasks>>
     \/ /\ gateway # 0 /\ generation < MaxGeneration
        /\ generation' = generation + 1 /\ gateway' = 0
        /\ IF tailscale = "missing"
           THEN tasks' = Without(gateway) /\ UNCHANGED cleanup
           ELSE \/ cleanup' = [of |-> gateway, step |-> "route"] /\ UNCHANGED tasks
                \/ cleanup' = [of |-> gateway, step |-> "lost"] /\ tasks' = Without(gateway)
  /\ UNCHANGED <<tailscale, route, flips>>

\* retry: stop_runtime(false) and start.
Retry ==
  /\ wanted /\ cleanup = NoCleanup
  /\ generation + 1 < MaxGeneration
  /\ IF gateway = 0 THEN Started(generation + 1, tasks)
     ELSE Started(generation + 2, Without(gateway))
  /\ UNCHANGED <<wanted, cleanup, tailscale, route, flips>>

\* show_paired_phones while the service is off: the registry may not load.
ShowPairedPhones ==
  /\ ~wanted
  /\ status' \in {Disabled, Status("Error")}
  /\ UNCHANGED <<wanted, generation, gateway, cleanup, tasks, tailscale, route, flips>>

\* The cleanup thread: `tailscale serve ... off`, which may fail ...
RemoveRoute ==
  /\ cleanup.step = "route"
  /\ route' \in {0, route}
  /\ cleanup' = [cleanup EXCEPT !.step = "shutdown"]
  /\ UNCHANGED <<wanted, generation, gateway, status, tasks, tailscale, flips>>

\* ... shutdown_timeout ...
ShutdownRuntime ==
  /\ cleanup.step = "shutdown"
  /\ tasks' = Without(cleanup.of)
  /\ cleanup' = [cleanup EXCEPT !.step = "finish"]
  /\ UNCHANGED <<wanted, generation, gateway, status, tailscale, route, flips>>

\* ... and finish_cleanup, which starts again if the switch was turned on meanwhile.
FinishCleanup ==
  /\ cleanup.step = "finish"
  /\ cleanup' = NoCleanup
  /\ IF wanted
     THEN generation < MaxGeneration /\ Started(generation + 1, tasks)
     ELSE UNCHANGED <<generation, gateway, status, tasks>>
  /\ UNCHANGED <<wanted, tailscale, route, flips>>

-----------------------------------------------------------------------------
(* The set-up *)

Becomes(t, kind) == tasks' = (tasks \ {t}) \cup {Task(kind, t.gen)}

\* configure_private_route up to the command that adds the route.
Serve(t) ==
  /\ t.kind = "setup"
  /\ \/ /\ tailscale = "ok" /\ route' = t.gen
        /\ Becomes(t, "verify")
     \/ /\ tailscale = "blocked" /\ UNCHANGED route
        /\ Becomes(t, "reportBlocked")
     \/ /\ route' \in {route, t.gen}      \* it times out or fails
        /\ Becomes(t, "reportError")
  /\ UNCHANGED <<wanted, generation, gateway, cleanup, status, tailscale, flips>>

\* Its check that the route is there.
Verify(t) ==
  /\ t.kind = "verify"
  /\ \/ route = t.gen /\ Becomes(t, "reportReady")
     \/ Becomes(t, "reportError")      \* also when the command itself fails
  /\ UNCHANGED <<wanted, generation, gateway, cleanup, status, tailscale, route, flips>>

\* Mutant: the generation of a result is not compared.
AppliesLate(t) == wanted

\* A result counts only for the generation that asked for it.
Applies(t) == t.gen = generation /\ wanted

\* finish_tailscale_setup
FinishSetup(t) ==
  /\ t.kind \in Reports
  /\ IF ~Applies(t) THEN tasks' = tasks \ {t} /\ UNCHANGED status
     ELSE \/ /\ t.kind = "reportReady" /\ gateway # 0
             /\ status' = [kind |-> "Ready", port |-> t.gen]
             /\ tasks' = tasks \ {t}
          \/ /\ t.kind = "reportBlocked"
             /\ status' = Status("Blocked")
             /\ Becomes(t, "recheck")
          \/ /\ t.kind # "reportBlocked"     \* also if the public origin is refused
             /\ status' = Status("Error")
             /\ tasks' = tasks \ {t}
  /\ UNCHANGED <<wanted, generation, gateway, cleanup, tailscale, route, flips>>

\* The timer of schedule_tailscale_recheck.
Recheck(t) ==
  /\ t.kind = "recheck"
  /\ IF t.gen = generation /\ status.kind = "Blocked" /\ gateway # 0
     THEN IF tailscale = "missing" THEN UNCHANGED tasks ELSE Becomes(t, "setup")
     ELSE tasks' = tasks \ {t}
  /\ UNCHANGED <<wanted, generation, gateway, cleanup, status, tailscale, route, flips>>

\* External: Tailscale is installed, removed, signed in or stopped.
Flip ==
  /\ flips < MaxFlips /\ flips' = flips + 1
  /\ tailscale' \in {"missing", "blocked", "ok"} \ {tailscale}
  /\ UNCHANGED <<wanted, generation, gateway, cleanup, status, tasks, route>>

ServiceInit ==
  /\ wanted = FALSE /\ generation = 0 /\ gateway = 0
  /\ cleanup = NoCleanup /\ status = Disabled /\ tasks = {}
  /\ tailscale \in {"missing", "blocked", "ok"}
  /\ route = 0 /\ flips = 0

ServiceNext ==
  \/ Enable \/ Disable \/ Retry \/ ShowPairedPhones
  \/ RemoveRoute \/ ShutdownRuntime \/ FinishCleanup
  \/ \E t \in tasks : Serve(t) \/ Verify(t) \/ FinishSetup(t) \/ Recheck(t)
  \/ Flip

ServiceSpec == ServiceInit /\ [][ServiceNext]_serviceVars

-----------------------------------------------------------------------------
(* Properties *)

\* Ready names the gateway that runs now, whatever set-ups of earlier starts report
\* late (the generation check of finish_tailscale_setup).
ReadyIsCurrent == status.kind = "Ready" => (wanted /\ gateway # 0 /\ status.port = gateway)

\* Somebody of this generation is still going to report, recheck or finish the clean-up.
SomebodyReports ==
  \/ cleanup.step \in {"route", "shutdown", "finish"} /\ gateway = 0
  \/ \E t \in tasks : t.gen = generation /\ gateway = generation

\* "A person can rerun setup checks without restarting Clinch": while it says "Starting"
\* or waits for Tailscale, somebody is going to report.  Fails when the clean-up thread
\* could not be created: the switch then shows "Starting" and retry returns at once.
NeverStuck == status.kind \in {"Starting", "Blocked"} => SomebodyReports

\* "Starting" and the states that wait for Tailscale are the last word only when no
\* thread could be created for the clean-up (stop_runtime discards that error) and the
\* service was switched on again: "Starting" without a gateway and without a task of
\* this generation.  Lost reports, rechecks that find the service changed, failed starts
\* and clean-ups that overlap with the switch never leave it there.
StuckOnlyWhenLost ==
  status.kind \in {"Starting", "Blocked"} =>
    \/ SomebodyReports
    \/ cleanup.step = "lost" /\ gateway = 0 /\ status.kind = "Starting"

\* "On Disable, remove only the Serve mapping owned by Clinch": once everything came to
\* rest, no route leads to a gateway that is gone.
RouteRemoved == (~wanted /\ cleanup = NoCleanup /\ tasks = {}) => route = 0
=============================================================================
