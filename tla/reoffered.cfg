CONSTANTS
  r1 = r1
  r2 = r2
  Workers <- OneWorker
  Clients <- OneClient
  Providers <- OneProvider
  Availability <- Sunday
  DayLength = 24
  UtcOffset <- BehindUtc
  StartTimes = {1, 3}
  Durations = {2}
  Operations <- Lifecycle
  MaxBookings = 2
  MaxIntents = 1
  MaxEvents = 0
  GoogleMayFail = TRUE
  MaxDups = 0
  MaxFaults = 0
  Horizon = 0
SPECIFICATION Spec
CHECK_DEADLOCK FALSE
INVARIANT OfferedSlotsBookable
