CONSTANTS
  a1 = a1  b1 = b1  b2 = b2
  Backups = {b1}
  Restores = {r1}
  MaxAttempts = 2
  MaxBytes = 2
  Size = 1
  Accounts = {a1}
  Owner <- OneOwner
  AccountLimit = 2
  GlobalLimit = 2
SPECIFICATION FairSpec
INVARIANT NoOrphanObject
INVARIANT UploadedOnce
INVARIANT GuestRunsOnce
INVARIANT PurgeSparesRestores
INVARIANT RestoreProven
PROPERTIES WorkSettles PurgeFinishes
CHECK_DEADLOCK FALSE
