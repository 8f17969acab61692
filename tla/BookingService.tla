--------------------------- MODULE BookingService ---------------------------
(***************************************************************************)
(* booking.service.ts: the handlers that write bookings.  A request that   *)
(* is rejected before it has written anything leaves no trace, so a        *)
(* handler begins with the read that lets it through.                      *)
(***************************************************************************)
EXTENDS PaymentService

CONSTANTS
  StartTimes,   \* the start times clients ask for
  Durations,    \* the durations of the services
  Availability  \* the rows of the availabilities table

ASSUME BookingAssumption ==
  /\ StartTimes \subseteq Nat
  /\ Durations \subseteq Nat \ {0}
  /\ \A row \in Availability : row \in AvailabilityRow

---------------------------------------------------------------------------
\* Validation

canBeModified_completedToo(booking, u) ==
  /\ u \in {booking.clientId, booking.providerId}
  /\ booking.status # "CANCELLED"

\* validateBookingCanBeModified
canBeModified(booking, u) ==
  /\ u \in {booking.clientId, booking.providerId}
  /\ booking.status \notin {"COMPLETED", "CANCELLED"}

\* validateSlotAvailability: no active booking of the provider overlaps.
slotAvailable(excluded, providerId, start, end) ==
  \A a \in BookingIds \ {excluded} :
    active(a) /\ bookings[a].providerId = providerId =>
      ~overlaps(bookings[a].startTime, bookings[a].endTime, start, end)

\* The rows of the weekday, of which findFirst picks any one.
candidates(providerId, start) ==
  {row \in Availability : /\ row.providerId = providerId
                          /\ row.dayOfWeek = getDay(start)}

\* validateProviderAvailability may let the times through, and may throw: with
\* two windows on a day it may do either, as the picked row fits or does not.
providerAvailable(providerId, start, end) ==
  \E row \in candidates(providerId, start) : fitsAvailability(row, start, end)

providerUnavailable(providerId, start, end) ==
  \/ candidates(providerId, start) = {}
  \/ \E row \in candidates(providerId, start) :
       ~fitsAvailability(row, start, end)

---------------------------------------------------------------------------
\* create

create(r, u, p, s, d) ==
  /\ at(r, "idle")
  /\ \E b \in BookingIds : isNextBookingId(b)   \* MaxBookings
  /\ s >= now
  /\ slotAvailable(null, p, s, s + d)
  /\ providerAvailable(p, s, s + d)
  /\ enter(r, [Idle EXCEPT !.pc = "create:insert", !.clientId = u,
                 !.providerId = p, !.startTime = s, !.endTime = s + d])
  /\ UNCHANGED <<tables, stripe, calendar, mail, now>>

\* booking.create throws when the start is taken (or MaxBookings is reached).
createInsert(r) ==
  /\ at(r, "create:insert")
  /\ \/ \E b \in BookingIds :
          /\ isNextBookingId(b)
          /\ ~startTimeTaken(b, req[r].providerId, req[r].startTime)
          /\ bookingUpdate(b,
               [NoBooking EXCEPT !.status = "PENDING_PAYMENT",
                  !.clientId = req[r].clientId,
                  !.providerId = req[r].providerId,
                  !.startTime = req[r].startTime, !.endTime = req[r].endTime])
          /\ enter(r, [Idle EXCEPT !.pc = "intent:create", !.id = b])
     \/ /\ \A b \in BookingIds : isNextBookingId(b) =>
             startTimeTaken(b, req[r].providerId, req[r].startTime)
        /\ finish(r)
        /\ UNCHANGED tables
  /\ UNCHANGED <<stripe, calendar, mail, now>>

---------------------------------------------------------------------------
\* confirmByPaymentIntent, called by the Stripe webhook

confirmByPaymentIntent_forgetsIntent(r, i) ==
  \E b \in BookingIds :
    /\ bookings[b].paymentIntentId = i
    /\ enter(r, [Idle EXCEPT !.pc = "webhook:mail", !.id = b])

confirmByPaymentIntent_cancelledToo(r, i) ==
  \E b \in BookingIds :
    /\ bookings[b].paymentIntentId = i
    /\ enter(r, [Idle EXCEPT !.pc = "confirm:findPayment", !.id = b,
                   !.intent = i, !.startTime = bookings[b].startTime])

\* A confirmed booking is left alone.  The lookup throws for an intent no
\* booking refers to and for a cancelled booking, but not for a completed one.
confirmByPaymentIntent(r, i) ==
  \E b \in BookingIds :
    /\ bookings[b].paymentIntentId = i
    /\ \/ /\ bookings[b].status = "CONFIRMED"
          /\ enter(r, [Idle EXCEPT !.pc = "webhook:mail", !.id = b,
                                   !.intent = i])
       \/ /\ bookings[b].status \in {"PENDING_PAYMENT", "COMPLETED"}
          /\ enter(r, [Idle EXCEPT !.pc = "confirm:findPayment", !.id = b,
                         !.intent = i, !.startTime = bookings[b].startTime])

confirmFindPayment(r) ==
  /\ at(r, "confirm:findPayment")
  /\ IF \E b \in BookingIds : payments[b].paymentIntentId = req[r].intent
     THEN goto(r, "confirm:providerEvent")
     ELSE goto(r, "confirm:createPayment")
  /\ UNCHANGED <<tables, stripe, calendar, mail, now>>

confirmCreatePayment(r) ==
  /\ at(r, "confirm:createPayment")
  /\ \/ /\ paymentCreate(req[r].id, req[r].intent, "SUCCEEDED")
        /\ goto(r, "confirm:providerEvent")
     \/ /\ paymentTaken(req[r].id, req[r].intent)
        /\ finish(r)
        /\ UNCHANGED tables
  /\ UNCHANGED <<stripe, calendar, mail, now>>

confirmProviderEvent(r) ==
  /\ at(r, "confirm:providerEvent")
  /\ \E e \in EventIds \cup {null} :
       /\ createEvent(e, req[r].id, "provider", req[r].startTime)
       /\ enter(r, [req[r] EXCEPT !.pc = "confirm:clientEvent",
                                  !.providerEvent = e])
  /\ UNCHANGED <<tables, stripe, mail, now>>

confirmClientEvent(r) ==
  /\ at(r, "confirm:clientEvent")
  /\ \E e \in EventIds \cup {null} :
       /\ createEvent(e, req[r].id, "client", req[r].startTime)
       /\ enter(r, [req[r] EXCEPT !.pc = "confirm:update", !.startTime = 0,
                                  !.clientEvent = e])
  /\ UNCHANGED <<tables, stripe, mail, now>>

confirmed_swapped(booking, r) ==
  [booking EXCEPT !.status = "CONFIRMED",
                  !.providerGoogleEventId = req[r].clientEvent,
                  !.clientGoogleEventId = req[r].providerEvent]

confirmed(booking, r) ==
  [booking EXCEPT !.status = "CONFIRMED",
                  !.providerGoogleEventId = req[r].providerEvent,
                  !.clientGoogleEventId = req[r].clientEvent]

\* booking.update({ where: { paymentIntentId } }) throws when no row has it.
confirmUpdate(r) ==
  /\ at(r, "confirm:update")
  /\ \/ \E b \in BookingIds :
          /\ bookings[b].paymentIntentId = req[r].intent
          /\ bookingUpdate(b, confirmed(bookings[b], r))
          /\ enter(r, [Idle EXCEPT !.pc = "confirm:mailBooking", !.id = b,
                                   !.intent = req[r].intent])
     \/ /\ \A b \in BookingIds : bookings[b].paymentIntentId # req[r].intent
        /\ finish(r)
        /\ UNCHANGED tables
  /\ UNCHANGED <<stripe, calendar, mail, now>>

confirmMailBooking_dropped(r) ==
  /\ at(r, "confirm:mailBooking")
  /\ goto(r, "confirm:mailPayment")
  /\ UNCHANGED <<tables, stripe, calendar, mail, now>>

confirmMailBooking(r) ==
  /\ at(r, "confirm:mailBooking")
  /\ add(req[r].id, "booking-confirmation")
  /\ goto(r, "confirm:mailPayment")
  /\ UNCHANGED <<tables, stripe, calendar, now>>

confirmMailPayment(r) ==
  /\ at(r, "confirm:mailPayment")
  /\ add(req[r].id, "payment-confirmed")
  /\ goto(r, "webhook:mail")
  /\ UNCHANGED <<tables, stripe, calendar, now>>

---------------------------------------------------------------------------
\* cancel

cancel(r, u, b) ==
  /\ at(r, "idle")
  /\ exists(b)
  /\ canBeModified(bookings[b], u)
  /\ enter(r, [Idle EXCEPT !.pc = "cancel:providerEvent", !.id = b,
                 !.providerEvent = bookings[b].providerGoogleEventId,
                 !.clientEvent = bookings[b].clientGoogleEventId])
  /\ UNCHANGED <<tables, stripe, calendar, mail, now>>

cancelProviderEvent(r) ==
  /\ at(r, "cancel:providerEvent")
  /\ IF req[r].providerEvent = null THEN UNCHANGED calendar
     ELSE deleteEvent(req[r].providerEvent)
  /\ enter(r, [req[r] EXCEPT !.pc = "cancel:clientEvent",
                             !.providerEvent = null])
  /\ UNCHANGED <<tables, stripe, mail, now>>

cancelClientEvent_forgotten(r) ==
  /\ at(r, "cancel:clientEvent")
  /\ enter(r, [req[r] EXCEPT !.pc = "cancel:update", !.clientEvent = null])
  /\ UNCHANGED <<tables, stripe, calendar, mail, now>>

cancelClientEvent(r) ==
  /\ at(r, "cancel:clientEvent")
  /\ IF req[r].clientEvent = null THEN UNCHANGED calendar
     ELSE deleteEvent(req[r].clientEvent)
  /\ enter(r, [req[r] EXCEPT !.pc = "cancel:update", !.clientEvent = null])
  /\ UNCHANGED <<tables, stripe, mail, now>>

cancelUpdate(r) ==
  /\ at(r, "cancel:update")
  /\ bookingUpdate(req[r].id,
       [bookings[req[r].id] EXCEPT !.status = "CANCELLED",
          !.providerGoogleEventId = null, !.clientGoogleEventId = null])
  /\ goto(r, "cancel:mail")
  /\ UNCHANGED <<stripe, calendar, mail, now>>

cancelMail(r) ==
  /\ at(r, "cancel:mail")
  /\ add(req[r].id, "cancellation")
  /\ finish(r)
  /\ UNCHANGED <<tables, stripe, calendar, now>>

---------------------------------------------------------------------------
\* complete

canBeCompleted_notCancelled(booking, u) ==
  booking.providerId = u /\ booking.status # "CANCELLED"

canBeCompleted(booking, u) ==
  booking.providerId = u /\ booking.status = "CONFIRMED"

complete(r, u, b) ==
  /\ at(r, "idle")
  /\ exists(b)
  /\ canBeCompleted(bookings[b], u)
  /\ enter(r, [Idle EXCEPT !.pc = "complete:update", !.id = b])
  /\ UNCHANGED <<tables, stripe, calendar, mail, now>>

completeUpdate(r) ==
  /\ at(r, "complete:update")
  /\ bookingUpdate(req[r].id,
       [bookings[req[r].id] EXCEPT !.status = "COMPLETED",
                                   !.completedAt = TRUE])
  /\ finish(r)
  /\ UNCHANGED <<stripe, calendar, mail, now>>

---------------------------------------------------------------------------
\* reschedule

reschedule(r, u, b, s, d) ==
  /\ at(r, "idle")
  /\ exists(b)
  /\ canBeModified(bookings[b], u)
  /\ s >= now
  /\ s # bookings[b].startTime
  /\ enter(r, [Idle EXCEPT !.pc = "reschedule:check", !.id = b,
                 !.providerId = bookings[b].providerId,
                 !.startTime = s, !.endTime = s + d,
                 !.providerEvent = bookings[b].providerGoogleEventId,
                 !.clientEvent = bookings[b].clientGoogleEventId])
  /\ UNCHANGED <<tables, stripe, calendar, mail, now>>

rescheduleCheck(r) ==
  /\ at(r, "reschedule:check")
  /\ LET q == req[r]
         isFree == slotAvailable(q.id, q.providerId, q.startTime, q.endTime)
     IN \/ /\ isFree
           /\ providerAvailable(q.providerId, q.startTime, q.endTime)
           /\ goto(r, "reschedule:update")
        \/ /\ isFree =>
                providerUnavailable(q.providerId, q.startTime, q.endTime)
           /\ finish(r)
  /\ UNCHANGED <<tables, stripe, calendar, mail, now>>

rescheduleUpdate(r) ==
  /\ at(r, "reschedule:update")
  /\ IF startTimeTaken(req[r].id, req[r].providerId, req[r].startTime)
     THEN finish(r) /\ UNCHANGED tables
     ELSE /\ bookingUpdate(req[r].id,
               [bookings[req[r].id] EXCEPT !.startTime = req[r].startTime,
                                           !.endTime = req[r].endTime])
          /\ goto(r, "reschedule:readBack")
  /\ UNCHANGED <<stripe, calendar, mail, now>>

\* getFullBooking again: what the events are moved to.
rescheduleReadBack(r) ==
  /\ at(r, "reschedule:readBack")
  /\ enter(r, [req[r] EXCEPT !.pc = "reschedule:providerEvent",
                 !.startTime = bookings[req[r].id].startTime,
                 !.endTime = 0, !.providerId = null])
  /\ UNCHANGED <<tables, stripe, calendar, mail, now>>

rescheduleProviderEvent(r) ==
  /\ at(r, "reschedule:providerEvent")
  /\ IF req[r].providerEvent = null THEN UNCHANGED calendar
     ELSE updateEvent(req[r].providerEvent, req[r].startTime)
  /\ goto(r, "reschedule:clientEvent")
  /\ UNCHANGED <<tables, stripe, mail, now>>

rescheduleClientEvent(r) ==
  /\ at(r, "reschedule:clientEvent")
  /\ IF req[r].clientEvent = null THEN UNCHANGED calendar
     ELSE updateEvent(req[r].clientEvent, req[r].startTime)
  /\ finish(r)
  /\ UNCHANGED <<tables, stripe, mail, now>>
=============================================================================
