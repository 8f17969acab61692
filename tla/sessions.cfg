CONSTANTS
  c1 = c1
  c2 = c2
  Callers <- TwoCallers
  Accounts <- TwoAccounts
  FirstRole <- AdministratorAndClient
  Ttl = 1
  RefreshTtl = 1
  MaxRows = 3
  MaxFaults = 1
  Horizon = 2
SPECIFICATION Spec
CHECK_DEADLOCK FALSE
INVARIANTS TypeOK OneSuccessor SessionKept OwnersAreProviders RoleInv SessionInv
PROPERTY NobodyGainsAuthority
SYMMETRY Symmetry
