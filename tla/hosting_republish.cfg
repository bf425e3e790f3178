SPECIFICATION Spec
CONSTANTS
  m1 = m1
  m2 = m2
  alice = alice
  bob = bob
  w1 = w1
  w2 = w2
  Nobody = Nobody
  Machines = {m1}
  Accounts = {alice}
  Workers = {w1}
  Named = m1
  Home <- OneHome
  MaxVersion = 3
  MaxBindings = 2
  MaxAttempts = 1
  Kinds = {"publish", "remove"}
PROPERTY NewConfigurationRetainsServed
