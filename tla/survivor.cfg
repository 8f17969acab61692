CONSTANTS
  c1 = c1
  c2 = c2
  Callers <- TwoCallers
  Accounts <- OneAccount
  FirstRole <- Administrator
  Ttl = 1
  RefreshTtl = 1
  MaxRows = 3
  MaxFaults = 0
  Horizon = 0
SPECIFICATION Spec
CHECK_DEADLOCK FALSE
INVARIANT LogoutEndsSessions
