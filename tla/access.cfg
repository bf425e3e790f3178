SPECIFICATION Spec
CONSTANTS
  Grants = {root, child}
  Root = root
  NoGrant = NoGrant
  Sessions = {s1, s2}
  NoSession = NoSession
  Conns = {c1, c2}
  NoConn = NoConn
  Workers = {w1, w2}
  NoWorker = NoWorker
  Never = Never
  MaxTime = 2
  LastAdmission = 1
  MaxVersion = 2
  HardLimit = 2
  IssueWindow = 1
  TicketWindow = 1
  CertLife = 2
  RateWindow = 2
  GrantRate = 2
  AccountRate = 3
  GrantLimit = 1
  AccountLimit = 2
  Lease = 1
  MaxConnections = 2
CONSTRAINT FewInPlay
SYMMETRY IdSymmetry
CHECK_DEADLOCK FALSE
INVARIANTS
  SignedOnce
  TicketUsedOnce
  LeaseBoundsAccess
  ReservationsBounded
  RevokedIsClosed
  NeverStranded
