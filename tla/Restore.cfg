SPECIFICATION ScenarioSpec
CONSTANTS
  Tabs = {1, 2}
  Keys = {k1, k2} k1 = k1 k2 = k2
  NoKey = NoKey NoEntry = NoEntry Unwritten = Unwritten
  MaxStarts = 1
  MaxRestarts = 1 MaxFaults = 1
INVARIANTS StartsBounded OneWriterPerConversation FlaggedNeverTypes OneTickChain CutTurnsKept
PROPERTIES ContinueOnlyCut SlotsNotWasted
CHECK_DEADLOCK FALSE
