SPECIFICATION Spec
CONSTANTS
  Servers = {s1}
  Ips = {i1}
  NoRes = NoRes
  MaxAttempts = 4
  MaxType = 1
  MaxFaults = 2
  MaxExternal = 0
  MaxOps = 1
  DailyBackups = FALSE
  GuestRuntime = FALSE
  DeleteLimit = 2
  ActionKinds = {}
CHECK_DEADLOCK FALSE
INVARIANTS
  KnownResourcesInLedger
