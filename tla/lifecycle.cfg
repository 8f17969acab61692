CONSTANTS
  r1 = r1
  r2 = r2
  Workers <- TwoWorkers
  Clients <- OneClient
  Providers <- OneProvider
  Availability <- Sunday
  DayLength = 24
  UtcOffset <- BehindUtc
  StartTimes = {1, 3}
  Durations = {2}
  Operations <- Lifecycle
  MaxBookings = 2
  MaxIntents = 2
  MaxEvents = 0
  GoogleMayFail = TRUE
  MaxDups = 0
  MaxFaults = 1
  Horizon = 0
SPECIFICATION Spec
CHECK_DEADLOCK FALSE
INVARIANTS TypeOK PaidInv ServedOnlyIfPaid IntentOwnership MailedOnlyIfPaid
PROPERTY LedgerKept
SYMMETRY Symmetry
