SPECIFICATION MCSpec
CONSTANTS
  a1 = a1 a2 = a2 b1 = b1 phoneA = phoneA phoneB = phoneB
  Devices = {phoneA, phoneB}
  Sessions = {a1, a2, b1}
  DeviceOf <- TwoPhones
  Panes = {p1}
  NoLease = NoLease NoDevice = NoDevice
  TTL = 1 MaxConnections = 2
  MaxGeneration = 5 MaxFlips = 2
INVARIANTS ControlAsOne GoneHolderLetsGo ReadyIsCurrent StuckOnlyWhenLost
PROPERTY LeaseKept
CHECK_DEADLOCK FALSE
