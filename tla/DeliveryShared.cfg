SPECIFICATION SharedSpec
CONSTANTS
  p1 = p1 p2 = p2 i1 = i1 i2 = i2 t1 = t1 t2 = t2 s2 = s2
  Procs = {p1}
  Instances = {i1, i2}
  Terms = {t1}
  Requests = {r1, r2, r3}
  Senders = {s1, s2}
  InstHome <- OneProcess
  TermHome <- TermsInP1
  Deferred = {}
  Managed = {}
  NoInst = NoInst NoRow = NoRow NoOp = NoOp
  Expiry = 1 Retention = 1
  MaxPending = 3 MaxPerTarget = 2 MaxReceipts = 3
  MaxTime = 1 MaxHuman = 1 MaxPlain = 1 MaxConv = 0 MaxFaults = 1
INVARIANTS TargetFIFO OneQueuePerTarget SubmittedAlone
SYMMETRY RequestSymmetry
CHECK_DEADLOCK FALSE
