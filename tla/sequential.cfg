CONSTANTS
  r1 = r1
  r2 = r2
  Workers <- OneWorker
  Clients <- TwoClients
  Providers <- TwoProviders
  Availability <- TwoAgendas
  DayLength = 6
  UtcOffset <- BehindUtc
  StartTimes = {1, 2, 3}
  Durations = {1, 2}
  Operations <- Agenda
  MaxBookings = 2
  MaxIntents = 2
  MaxEvents = 4
  GoogleMayFail = FALSE
  MaxDups = 0
  MaxFaults = 0
  Horizon = 1
SPECIFICATION Spec
CHECK_DEADLOCK FALSE
INVARIANTS NoDoubleBooking CalendarsAgree OfferedSlotsExact
PROPERTIES CancelledIsFinal ContractKept
