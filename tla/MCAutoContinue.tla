--------------------------- MODULE MCAutoContinue ---------------------------
(***************************************************************************)
(* Small instances of AutoContinue for TLC.  Each scenario keeps the       *)
(* operations that its question is about; the rest of the session's        *)
(* operations are checked by themselves in AgentSessions.                  *)
(***************************************************************************)
EXTENDS AutoContinue

CONSTANTS s1, s2,
  EarlyReset, ShortTime, ShortGen   \* bounds of the scenarios that do not turn on the timers

VARIABLE scenario         \* chosen at the start

EarlyStops == {why \in HookStops : why.reset <= EarlyReset}

\* One session, its timers and its usage; no restart and no switch.
TimerNext ==
  \/ (Detect(s1) \/ SessionStart(s1, TRUE) \/ PromptSubmit(s1, TRUE) \/ ToolComplete(s1, TRUE)
        \/ \E why \in HookStops : Stop(s1, TRUE, why)) /\ Reacts
  \/ ClinchSubmit /\ Reacts
  \/ \E u \in {v \in Usages : v.kind = "near" => v.reset <= EarlyReset} : UsageScan(u)
  \/ UserInput
  \/ \E tm \in timers : TimerStep(tm)
  \/ WritableChanges \/ Clock

\* Sessions are left, resumed and restored, with the app or without it.
RestartNext ==
  \/ (\E id \in Ids : Detect(id) \/ Seed(id) \/ SessionStart(id, TRUE)
        \/ \E why \in EarlyStops : Stop(id, TRUE, why)) /\ Reacts
  \/ (Exit \/ HistoryUpdated) /\ Reacts
  \/ UserInput
  \/ \E tm \in timers : TimerStep(tm)
  \/ (now < ShortTime /\ Clock) \/ Restart

\* The footer's switch, the default, and Codex: its limit stops come with the usage scan.
SwitchNext ==
  \/ (Detect(s1) \/ SessionStart(s1, TRUE) \/ PromptSubmit(s1, TRUE)) /\ Reacts
  \/ (Detect(NoId) \/ Reconcile(s1) \/ CodexHitsLimit \/ (now = 0 /\ Exit)) /\ Reacts
  \/ \E u \in {v \in Usages : v.kind \in {"none", "full"} /\ v.reset <= EarlyReset} : UsageScan(u)
  \/ Toggle \/ SetDefault
  \/ \E tm \in timers : TimerStep(tm)
  \/ (now < ShortTime /\ Clock)

ScenarioInit ==
  /\ Init
  /\ \/ scenario \in {"timers", "restart"} /\ provider = "claude"
     \/ scenario = "switch" /\ provider = "codex"

ScenarioNext ==
  /\ UNCHANGED scenario
  /\ \/ scenario = "timers" /\ TimerNext
     \/ scenario = "restart" /\ RestartNext /\ (pane' # NoPane => pane'.gen <= ShortGen)
     \/ scenario = "switch" /\ SwitchNext

ScenarioSpec == ScenarioInit /\ [][ScenarioNext]_<<vars, scenario>>

\* Sessions of one agent that end and start, with time for two stops.
StaleSpec ==
  /\ Init /\ scenario = "stale"
  /\ [][RestartNext /\ UNCHANGED scenario]_<<vars, scenario>>
=============================================================================
