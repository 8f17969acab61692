CONSTANTS
  r1 = r1
  r2 = r2
  Workers <- TwoWorkers
  Clients <- OneClient
  Providers <- OneProvider
  Availability <- Sunday
  DayLength = 24
  UtcOffset <- BehindUtc
  StartTimes = {1}
  Durations = {2}
  Operations <- Lifecycle
  MaxBookings = 1
  MaxIntents = 1
  MaxEvents = 2
  GoogleMayFail = FALSE
  MaxDups = 0
  MaxFaults = 0
  Horizon = 0
SPECIFICATION Spec
CHECK_DEADLOCK FALSE
PROPERTY CancelledIsFinal
