SPECIFICATION Spec
CONSTANTS
  Servers = {s1, s2}
  Ips = {i1}
  NoRes = NoRes
  MaxAttempts = 6
  MaxType = 2
  MaxFaults = 1
  MaxExternal = 1
  MaxOps = 3
  DailyBackups = TRUE
  GuestRuntime = TRUE
  DeleteLimit = 2
  ActionKinds = {"power_off", "reboot", "resize"}
SYMMETRY IdSymmetry
CHECK_DEADLOCK FALSE
INVARIANTS
  TypeOK
  SuccessAccountsForAll
  AbsentIsGone
  TerminalIsSettled
PROPERTIES
  HistoryIsKept
  ReservationSpec
