CONSTANTS
  r1 = r1
  Workers <- OneWorker
  Clients <- OneClient
  Providers <- OneProvider
  Availability <- Sunday
  DayLength = 24
  StartTimes = {1}
  Durations = {2}
  Operations <- Bookkeeping
  MaxBookings = 1
  MaxIntents = 1
  MaxEvents = 0
  GoogleMayFail = TRUE
  MaxDups = 1
  MaxFaults = 1
  Horizon = 0
SPECIFICATION MailerSpec
CHECK_DEADLOCK FALSE
INVARIANTS MailerTypeOK NoMailLost LastLetterAgrees
PROPERTY CustomerIsTold
