SPECIFICATION ScenarioSpec
CONSTANTS
  s1 = s1 s2 = s2
  Ids = {s1, s2}
  Subagents = {}
  Resets = {1, 2}
  Providers = {"claude", "codex"}
  NoSession = NoSession NoId = NoId NoPane = NoPane NoArm = NoArm NoTime = NoTime
  MaxIdle = 0
  MaxAttempts = 1
  MaxTime = 3 MaxStops = 1 MaxRestarts = 1 MaxGen = 3
  EarlyReset = 1 ShortGen = 2 ShortTime = 2
INVARIANTS
  ArmHasTimer NeverEarly TakeoverIsFinal OneContinuePerStop ArmIsPersisted
  ContinueOnlyForItsSession OffMeansOff
CHECK_DEADLOCK FALSE
