SPECIFICATION FairCrashSpec
CONSTANTS
  p1 = p1 p2 = p2 i1 = i1 i2 = i2 t1 = t1 t2 = t2
  Procs = {p1, p2}
  Instances = {i1, i2}
  Terms = {t1}
  Requests = {r1}
  Senders = {s1}
  InstHome <- OwnProcess
  TermHome <- TermsInP1
  Deferred = {}
  Managed = {}
  NoInst = NoInst NoRow = NoRow NoOp = NoOp
  Expiry = 1 Retention = 1
  MaxPending = 3 MaxPerTarget = 2 MaxReceipts = 3
  MaxTime = 3 MaxHuman = 1 MaxPlain = 0 MaxConv = 0 MaxFaults = 0
INVARIANTS WrittenOnce ReplayOnlyAfterRetention
PROPERTIES ReceiptPromise PendingResolves
