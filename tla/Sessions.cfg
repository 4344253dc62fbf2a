SPECIFICATION SessionSpec
CONSTANTS
  Ids = {s1, s2}
  Subagents = {a1, a2}
  Resets = {1}
  Providers = {"claude", "codex"}
  NoSession = NoSession NoId = NoId
  MaxIdle = 2
INVARIANTS DeferralHasOwner StopMeansStopped DoneMeansQuiet FreshGuessRecovers
SYMMETRY SubagentSymmetry
