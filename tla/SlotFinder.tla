------------------------------ MODULE SlotFinder ------------------------------
(***************************************************************************)
(* findAvailableSlots of booking.service.ts: the times offered to a client *)
(* who asks for a date, a provider and a service of duration d.  A date or *)
(* a day is its number, an offered slot its start; the list is a set.      *)
(***************************************************************************)
EXTENDS Backend

CONSTANT UtcOffset   \* how far the clock of the server is ahead of UTC

ASSUME UtcOffsetAssumption == UtcOffset \in Int

\* new Date(date) is midnight UTC of the date, from which getDay and setHours
\* take the day in the time zone of the server: the day before, if that is
\* behind UTC.
localDay(date) == date + UtcOffset \div DayLength

windowsOn(p, day) ==
  {row \in Availability : row.providerId = p /\ row.dayOfWeek = day % 7}

existingBookings_cancelledToo(p, day) ==
  {b \in BookingIds : /\ exists(b)
                      /\ bookings[b].providerId = p
                      /\ bookings[b].startTime \div DayLength = day}

\* The bookings that start between startOfDay and endOfDay.
existingBookings(p, day) ==
  {b \in BookingIds : /\ active(b)
                      /\ bookings[b].providerId = p
                      /\ bookings[b].startTime \div DayLength = day}

\* The while loop over one window, from slot start t on.  It ends because
\* durations are positive (BookingAssumption); a service can be updated to
\* a duration of zero, and then it does not.
slotsFrom(row, day, d, taken) ==
  LET availabilityEnd == day * DayLength + row.endTime
      isOverlapping(t) ==
        \E b \in taken :
          overlaps(t, t + d, bookings[b].startTime, bookings[b].endTime)
      from[t \in Nat] ==
        IF t + d > availabilityEnd THEN {}
        ELSE {s \in {t} : ~isOverlapping(s) /\ s >= now} \cup from[t + d]
  IN from[day * DayLength + row.startTime]

findAvailableSlots(p, date, d) ==
  LET day == localDay(date) IN
    UNION {slotsFrom(row, day, d, existingBookings(p, day)) :
             row \in windowsOn(p, day)}

---------------------------------------------------------------------------

Days == {s \div DayLength : s \in StartTimes}

\* The dates a client can ask for to be shown one of these days.
Dates == {day - UtcOffset \div DayLength : day \in Days}

\* The free slots of a day: the multiples of the duration, counted from the
\* opening of a window, that fit the window, are not past, and overlap no
\* active booking of the provider.  (create asks for more: see
\* OfferedSlotsBookable.)
freeSlots(p, day, d) ==
  {t \in day * DayLength .. (day + 1) * DayLength - 1 :
     /\ \E row \in windowsOn(p, day) :
          LET offset == t - (day * DayLength + row.startTime) IN
            /\ offset >= 0
            /\ offset % d = 0
            /\ t + d <= day * DayLength + row.endTime
     /\ t >= now
     /\ slotAvailable(null, p, t, t + d)}

\* Every free slot of the day is offered and no other, although the loop looks
\* only at the bookings that start on that day: no active booking reaches past
\* midnight as long as windows and bookings lie within a day.  The day is the
\* one the server makes of the date.
OfferedSlotsExact ==
  \A p \in Providers, date \in Dates, d \in Durations :
    findAvailableSlots(p, date, d) = freeSlots(p, localDay(date), d)

\* A slot that is offered can be booked: the insert does not run into the
\* unique index on provider and start (README.md: clients book services of
\* providers based on their availability).
OfferedSlotsBookable ==
  \A p \in Providers, date \in Dates, d \in Durations :
    \A t \in findAvailableSlots(p, date, d) : ~startTimeTaken(null, p, t)
=============================================================================
