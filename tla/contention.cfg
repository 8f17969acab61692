CONSTANTS
  r1 = r1
  r2 = r2
  Workers <- TwoWorkers
  Clients <- OneClient
  Providers <- OneProvider
  Availability <- SplitWeek
  DayLength = 8
  UtcOffset <- BehindUtc
  StartTimes = {1, 2, 3, 5, 9}
  Durations = {2}
  Operations <- Contention
  MaxBookings = 2
  MaxIntents = 1
  MaxEvents = 0
  GoogleMayFail = TRUE
  MaxDups = 0
  MaxFaults = 0
  Horizon = 0
SPECIFICATION Spec
CHECK_DEADLOCK FALSE
INVARIANTS NoSameStart AgendaInv WithinOpeningHours MailsAgree
PROPERTY LedgerKept
SYMMETRY Symmetry
