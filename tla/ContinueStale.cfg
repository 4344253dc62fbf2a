SPECIFICATION StaleSpec
CONSTANTS
  s1 = s1 s2 = s2
  Ids = {s1}
  Subagents = {}
  Resets = {1, 3}
  Providers = {"claude"}
  NoSession = NoSession NoId = NoId NoPane = NoPane NoArm = NoArm NoTime = NoTime
  MaxIdle = 0
  MaxAttempts = 1
  MaxTime = 4 MaxStops = 2 MaxRestarts = 0 MaxGen = 3
  EarlyReset = 3 ShortGen = 3 ShortTime = 4
INVARIANTS NeverEarly
