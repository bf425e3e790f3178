\* Two accounts at the deployment's ceiling, retried and conflicting keys, changing prices.
CONSTANTS
  a1 = a1  a2 = a2  g1 = g1  g2 = g2  g3 = g3
  Accounts = {a1, a2}
  Grants = {g1, g2, g3}
  Owner <- Owners
  Policy <- Policies
  AccountLimit <- AccountsMax
  Deployments <- Deployed
  Names = {n1, n2}
  Keys = {k1, k2}
  Kinds = {"create", "power", "resize", "destroy"}
  Catalogs <- BothPrices
  MaxMachines = 3
  MaxOps = 3
  MaxVersion = 4
  NoCatalog = NoCatalog
  Nobody = Nobody
CONSTRAINT FewRequests
SYMMETRY Symmetry
SPECIFICATION Spec
INVARIANT HistoryAccounts
INVARIANT OneOperationPerKey
INVARIANT OneChangePerVersion
PROPERTY NeverOverReserves
PROPERTY UsageCoversAdmission
CHECK_DEADLOCK FALSE
