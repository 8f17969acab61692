-------------------------------- MODULE Slots --------------------------------
(***************************************************************************)
(* The calendar arithmetic of booking.service.ts.  An instant is a natural *)
(* number of time units since a midnight that begins a Sunday, in the      *)
(* server's own time zone; DayLength is the number of units in a day (1440 *)
(* minutes in the code, fewer and coarser units in an instance).           *)
(***************************************************************************)
EXTENDS Integers

CONSTANT DayLength

ASSUME DayLengthAssumption == DayLength \in Nat \ {0}

\* Date.getDay(): 0 is Sunday.
getDay(t) == (t \div DayLength) % 7

\* getHours() * 60 + getMinutes()
minuteOfDay(t) == t % DayLength

overlaps_contained(start1, end1, start2, end2) ==
  start1 >= start2 /\ end1 <= end2

\* The overlap condition of the Prisma filter: half-open intervals.
overlaps(start1, end1, start2, end2) == start1 < end2 /\ end1 > start2

\* An availability row: a weekly window of one provider, within one day.
AvailabilityRow ==
  [providerId : Nat, dayOfWeek : 0..6, startTime : Nat, endTime : Nat]

fitsAvailability_startOnly(row, start, end) ==
  minuteOfDay(start) \in row.startTime..row.endTime

\* The part of validateProviderAvailability that follows the query: both ends
\* are compared by their minute of the day only.
fitsAvailability(row, start, end) ==
  /\ minuteOfDay(start) >= row.startTime
  /\ minuteOfDay(end) <= row.endTime
=============================================================================
