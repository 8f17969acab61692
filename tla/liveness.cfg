CONSTANTS
  r1 = r1
  r2 = r2
  Workers <- TwoWorkers
  Clients <- OneClient
  Providers <- OneProvider
  Availability <- Sunday
  DayLength = 6
  UtcOffset <- BehindUtc
  StartTimes = {1}
  Durations = {1}
  Operations <- Lifecycle
  MaxBookings = 1
  MaxIntents = 1
  MaxEvents = 3
  GoogleMayFail = TRUE
  MaxDups = 1
  MaxFaults = 1
  Horizon = 0
SPECIFICATION FairSpec
CHECK_DEADLOCK FALSE
INVARIANTS EventOwnership MailsAgree
PROPERTY PaidEventuallyServed
