--------------------------- MODULE MCRestoreQueue ---------------------------
(***************************************************************************)
(* Small instances of RestoreQueue for TLC: two tabs, one start at a time. *)
(***************************************************************************)
EXTENDS RestoreQueue

CONSTANTS k1, k2

VARIABLE scenario    \* chosen at the start

\* The same conversation twice, two conversations, or one and a tab without a session.
KeyChoices == {<<k1, k1>>, <<k1, k2>>, <<NoKey, k1>>}

\* Starting agents: the shells, the user's retries and focus.  No turn was cut off.
StartNext ==
  \/ Tick \/ RetryStalled
  \/ \E t \in Tabs :
       \/ Focus(t) \/ Bootstrapped(t) \/ EditorOpens(t) \/ Preexec(t) \/ DidNotStart(t) \/ RetrySettled(t)
       \/ AgentExits(t) \/ SessionChanges(t) \/ UserTypes(t) \/ CloseTab(t) \/ Elapse(t)
       \/ AgentChanges(t) /\ tab[t].agent = "loading" /\ tab'[t].agent = "ready"

\* Continuing cut-off turns over restarts: every shell starts its command.  Every restart
\* may find the record refused (Relaunch), so the clock moves only while the queue rests;
\* the user types in the tab whose turn the first start finds recorded.
TurnNext ==
  \/ Tick \/ Record \/ Quit \/ Crash
  \/ restarts < MaxRestarts /\ ticks = 0 /\ ClockMoves
  \/ \E t \in Tabs :
       \/ (Bootstrapped(t) /\ tab'[t].boot = "known") \/ (tab[t].cmd = "parked" /\ EditorOpens(t))
       \/ Preexec(t) \/ AgentChanges(t)
       \/ (Ready(tab[t]) /\ t = 2 /\ UserTypes(t)) \/ (Ready(tab[t]) /\ Elapse(t))

ScenarioInit ==
  /\ Init /\ ~stale
  /\ \/ scenario = "starts" /\ key \in KeyChoices /\ file = {}
     \/ scenario = "turns" /\ key = <<k1, k2>> /\ file = {2}

ScenarioNext ==
  /\ UNCHANGED scenario
  /\ (scenario = "starts" /\ StartNext) \/ (scenario = "turns" /\ TurnNext)

ScenarioSpec == ScenarioInit /\ [][ScenarioNext]_<<vars, scenario>>
=============================================================================
