---------------------------- MODULE GoogleCalendar ----------------------------
(***************************************************************************)
(* google-calendar.service.ts: the events of the two parties' primary      *)
(* calendars.  Every call catches its own errors: createEvent answers null,*)
(* updateEvent and deleteEvent answer nothing.                             *)
(***************************************************************************)
EXTENDS Tables

CONSTANT GoogleMayFail   \* whether calls to the API can fail

ASSUME GoogleAssumption == GoogleMayFail \in BOOLEAN

VARIABLE calendar        \* the events, by id; ids are never reused

Parties == {"provider", "client"}

Event ==
  [state : {"ABSENT", "live", "deleted"}, bookingId : BookingIds \cup {null},
   forWhom : Parties, startTime : Nat]

NoEvent == [state |-> "ABSENT", bookingId |-> null, forWhom |-> "provider",
            startTime |-> 0]

\* Null is the answer when the user has no googleRefreshToken or the API fails;
\* it is also the only one left once MaxEvents events exist.
createEvent(e, b, forWhom, start) ==
  \/ /\ e = null
     /\ GoogleMayFail \/ \A f \in EventIds : calendar[f].state # "ABSENT"
     /\ UNCHANGED calendar
  \/ /\ e \in EventIds
     /\ calendar[e].state = "ABSENT"
     /\ \A f \in EventIds : f < e => calendar[f].state # "ABSENT"
     /\ calendar' = [calendar EXCEPT ![e] =
          [state |-> "live", bookingId |-> b, forWhom |-> forWhom,
           startTime |-> start]]

updateEvent(e, start) ==
  \/ /\ calendar[e].state = "live"
     /\ calendar' = [calendar EXCEPT ![e].startTime = start]
  \/ /\ GoogleMayFail \/ calendar[e].state # "live"
     /\ UNCHANGED calendar

deleteEvent(e) ==
  \/ /\ calendar[e].state = "live"
     /\ calendar' = [calendar EXCEPT ![e].state = "deleted"]
  \/ /\ GoogleMayFail \/ calendar[e].state # "live"
     /\ UNCHANGED calendar

CalendarInit == calendar = [e \in EventIds |-> NoEvent]

CalendarTypeOK == calendar \in [EventIds -> Event]
=============================================================================
