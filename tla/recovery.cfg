SPECIFICATION Spec
CONSTANTS
  m1 = m1
  m2 = m2
  Machines = {m1, m2}
  MaxRestores = 2
  MaxFaults = 1
  MaxGrants = 3
  MaxLogins = 2
  MaxClock = 2
  MaxCerts = 5
  MaxSignings = 1
  MaxRenewals = 4
INVARIANTS LedgerIsTrue WorkNotReplayed NoRewoundAuthority
PROPERTY RenewalIsServed
CHECK_DEADLOCK FALSE
