SPECIFICATION FairSpec
CONSTANTS
  m1 = m1
  m2 = m2
  alice = alice
  bob = bob
  w1 = w1
  w2 = w2
  Nobody = Nobody
  Machines = {m1, m2}
  Accounts = {alice}
  Workers = {w1}
  Named = Nobody
  Home <- OneHome
  MaxVersion = 2
  MaxBindings = 2
  MaxAttempts = 1
  Kinds = {"publish", "remove"}
INVARIANTS ServedIsBound RemovalIsSeen
PROPERTIES EveryVersionSettles
