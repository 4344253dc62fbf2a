SPECIFICATION FullSpec
CONSTANTS
  p1 = p1 p2 = p2 i1 = i1 i2 = i2 t1 = t1 t2 = t2
  Procs = {p1}
  Instances = {i1}
  Terms = {t1}
  Requests = {r1}
  Senders = {s1}
  InstHome <- OneProcess
  TermHome <- TermsInP1
  Deferred = {t1}
  Managed = {}
  NoInst = NoInst NoRow = NoRow NoOp = NoOp
  Expiry = 1 Retention = 1
  MaxPending = 3 MaxPerTarget = 2 MaxReceipts = 3
  MaxTime = 1 MaxHuman = 1 MaxPlain = 0 MaxConv = 1 MaxFaults = 0
INVARIANTS ReceiptHonest HumanPreempts
CHECK_DEADLOCK FALSE
