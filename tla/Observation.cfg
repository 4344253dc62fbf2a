SPECIFICATION MCSpec
CONSTANTS
  i1 = i1 i2 = i2 r1 = r1
  Insts = {i1, i2}
  LogAsks = 2 LogTime = 1
  Agents = {a1}
  Values = {0, 1}
  Readers = {r1}
  Convs = {c1}
  NoAgent = NoAgent NoCmd = NoCmd NoRow = NoRow
  Capacity = 2 MaxEvents = 2 Retention = 0 PageLimit = 1
  FloorLife = 9 ReaderLife = 1 BatchLife = 0
  MaxBatches = 2 MaxReaders = 1 InboxLimit = 1
  MaxTime = 2 MaxObs = 2 MaxAsks = 4 MaxFaults = 1 MaxRecords = 2
INVARIANTS LossDisclosed ReplayOrGap SkippedOnlyMidPage CheckpointCovered
PROPERTY AckAdvances
CHECK_DEADLOCK FALSE
