SPECIFICATION FairSpec
CONSTANTS
  Servers = {s1}
  Ips = {i1}
  NoRes = NoRes
  MaxAttempts = 6
  MaxType = 1
  MaxFaults = 2
  MaxExternal = 0
  MaxOps = 2
  DailyBackups = FALSE
  GuestRuntime = FALSE
  DeleteLimit = 2
  ActionKinds = {}
CHECK_DEADLOCK FALSE
INVARIANTS
  CreateSubmittedOnce
PROPERTIES
  OperationSettles
  CleanupFinishes
