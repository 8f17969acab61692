CONSTANTS
  r1 = r1
  r2 = r2
  Workers <- TwoWorkers
  Clients <- OneClient
  Providers <- OneProvider
  Availability <- Sunday
  DayLength = 24
  UtcOffset <- BehindUtc
  StartTimes = {1}
  Durations = {2}
  Operations <- Aftermath
  MaxBookings = 1
  MaxIntents = 2
  MaxEvents = 0
  GoogleMayFail = TRUE
  MaxDups = 1
  MaxFaults = 1
  Horizon = 0
SPECIFICATION Spec
CHECK_DEADLOCK FALSE
INVARIANTS ChargedAtMostOnce SameIntent ChargeInv ReviewedOnlyIfCompleted
SYMMETRY Symmetry
