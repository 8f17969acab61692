----------------------------- MODULE EventProofs -----------------------------
(***************************************************************************)
(* Calendar events, for every value of the constants: an event id travels  *)
(* from Google through a request into a row and from the row into other    *)
(* requests, and arrives nowhere but at the booking and the party it was   *)
(* made for.  When requests are served one at a time, nothing fails and    *)
(* Google answers, the calendars show exactly the bookings that are        *)
(* confirmed or completed.                                                 *)
(***************************************************************************)
EXTENDS SequentialProofs, FiniteSetTheorems

owns(b, who, e) ==
  e # null => /\ calendar[e].state # "ABSENT"
              /\ calendar[e].bookingId = b
              /\ calendar[e].forWhom = who

OwnRow(b, row) ==
  /\ owns(b, "provider", row.providerGoogleEventId)
  /\ owns(b, "client", row.clientGoogleEventId)

OwnRequest(q) ==
  /\ owns(q.id, "provider", q.providerEvent)
  /\ owns(q.id, "client", q.clientEvent)

EventInv ==
  /\ \A b \in BookingIds : OwnRow(b, bookings[b])
  /\ \A r \in Workers : OwnRequest(req[r])

---------------------------------------------------------------------------
\* Google never gives an event to somebody else: updating and deleting leave
\* its owner, and its id is not used again.

EventsGrow ==
  \A e \in EventIds :
    calendar[e].state # "ABSENT" =>
      /\ calendar'[e].state # "ABSENT"
      /\ calendar'[e].bookingId = calendar[e].bookingId
      /\ calendar'[e].forWhom = calendar[e].forWhom

LEMMA SameEvents ==
  ASSUME calendar' = calendar
  PROVE  EventsGrow
  BY DEF EventsGrow

LEMMA EditedEvents ==
  ASSUME CalendarTypeOK, NEW e,
         \/ deleteEvent(e)
         \/ \E start : updateEvent(e, start)
  PROVE  EventsGrow
<1>1. \A f \in EventIds : calendar[f] \in Event
  BY DEF CalendarTypeOK
<1>2. CASE deleteEvent(e)
  BY <1>1, <1>2 DEF deleteEvent, EventsGrow, Event, CalendarTypeOK
<1>3. CASE \E start : updateEvent(e, start)
  BY <1>1, <1>3 DEF updateEvent, EventsGrow, Event, CalendarTypeOK
<1> QED BY <1>2, <1>3

LEMMA CreatedEvents ==
  ASSUME CalendarTypeOK, NEW e \in EventIds \cup {null}, NEW b, NEW who,
         NEW start, createEvent(e, b, who, start)
  PROVE  EventsGrow /\ owns(b, who, e)'
<1>1. CASE e = null
  <2>1. calendar' = calendar
    BY <1>1 DEF createEvent, EventIds, null
  <2> QED BY <1>1, <2>1, SameEvents DEF owns
<1>2. CASE e \in EventIds
  <2> DEFINE new == [state |-> "live", bookingId |-> b, forWhom |-> who,
                     startTime |-> start]
  <2>1. /\ calendar[e].state = "ABSENT"
        /\ calendar' = [calendar EXCEPT ![e] = new]
    BY <1>2 DEF createEvent, EventIds, null
  <2>2. /\ calendar'[e] = new
        /\ \A f \in EventIds \ {e} : calendar'[f] = calendar[f]
    BY <1>2, <2>1 DEF CalendarTypeOK
  <2> QED BY <2>1, <2>2 DEF EventsGrow, owns
<1> QED BY <1>1, <1>2

LEMMA OwnsKept ==
  ASSUME EventsGrow, NEW e \in EventIds \cup {null}, NEW b, NEW who,
         owns(b, who, e)
  PROVE  owns(b, who, e)'
  BY DEF EventsGrow, owns

---------------------------------------------------------------------------
\* What is left to show of a step of one request

LEMMA RowEvents ==
  ASSUME TypeOK, EventInv, EventsGrow, NEW b \in BookingIds,
         /\ bookings'[b].providerGoogleEventId
              \in {bookings[b].providerGoogleEventId, null}
         /\ bookings'[b].clientGoogleEventId
              \in {bookings[b].clientGoogleEventId, null}
  PROVE  OwnRow(b, bookings[b])'
<1>1. /\ bookings[b].providerGoogleEventId \in EventIds \cup {null}
      /\ bookings[b].clientGoogleEventId \in EventIds \cup {null}
  BY DEF TypeOK, TablesTypeOK, Booking
<1>2. owns(b, "provider", null)' /\ owns(b, "client", null)'
  BY DEF owns
<1> QED BY <1>1, <1>2, OwnsKept DEF EventInv, OwnRow

LEMMA OtherRequests ==
  ASSUME TypeOK, EventInv, EventsGrow, NEW w \in Workers,
         req'[w].id = req[w].id,
         req'[w].providerEvent \in {req[w].providerEvent, null},
         req'[w].clientEvent \in {req[w].clientEvent, null}
  PROVE  OwnRequest(req[w])'
<1>1. req[w] \in RequestRecord
  BY RequestCarries DEF TypeOK
<1>2. /\ req[w].providerEvent \in EventIds \cup {null}
      /\ req[w].clientEvent \in EventIds \cup {null}
  BY <1>1 DEF RequestRecord
<1>3. /\ owns(req[w].id, "provider", req[w].providerEvent)
      /\ owns(req[w].id, "client", req[w].clientEvent)
  BY DEF EventInv, OwnRequest
<1>4. /\ owns(req[w].id, "provider", req[w].providerEvent)'
      /\ owns(req[w].id, "client", req[w].clientEvent)'
  BY <1>2, <1>3 DEF owns, EventsGrow
<1> QED BY <1>4 DEF OwnRequest

LEMMA StepEvents ==
  ASSUME TypeOK, EventInv, EventsGrow, NEW r \in Workers,
         \A b \in BookingIds : OwnRow(b, bookings[b])',
         \A w \in Workers \ {r} : req'[w] = req[w], OwnRequest(req[r])'
  PROVE  EventInv'
<1>1. ASSUME NEW w \in Workers \ {r}
      PROVE  OwnRequest(req[w])'
  BY <1>1, OtherRequests
<1> QED BY <1>1 DEF EventInv
RowsOwn == \A b \in BookingIds : OwnRow(b, bookings[b])

LEMMA SameRows ==
  ASSUME TypeOK, EventInv, EventsGrow, bookings' = bookings
  PROVE  RowsOwn'
  BY RowEvents DEF RowsOwn

\* A statement that writes other columns, or clears the ids.
LEMMA UpdatedRows ==
  ASSUME TypeOK, EventInv, EventsGrow, NEW b \in BookingIds, NEW row,
         bookingUpdate(b, row),
         row.providerGoogleEventId \in {bookings[b].providerGoogleEventId, null},
         row.clientGoogleEventId \in {bookings[b].clientGoogleEventId, null}
  PROVE  RowsOwn'
<1>1. /\ bookings'[b] = row
      /\ \A c \in BookingIds \ {b} : bookings'[c] = bookings[c]
  BY BookingShape DEF TypeOK
<1> QED BY <1>1, RowEvents DEF RowsOwn

\* The request goes on about the same booking with the ids it has, or fewer.
LEMMA MoveEvents ==
  ASSUME TypeOK, EventInv, EventsGrow, RowsOwn', NEW r \in Workers,
         \A w \in Workers \ {r} : req'[w] = req[w],
         req'[r].id = req[r].id,
         req'[r].providerEvent \in {req[r].providerEvent, null},
         req'[r].clientEvent \in {req[r].clientEvent, null}
  PROVE  EventInv'
  BY OtherRequests, StepEvents DEF RowsOwn

LEMMA FreeEvents ==
  ASSUME TypeOK, EventInv, EventsGrow, RowsOwn', NEW r \in Workers,
         NEW q, enter(r, q), q.providerEvent = null, q.clientEvent = null
  PROVE  EventInv'
<1>1. req'[r] = q /\ \A w \in Workers \ {r} : req'[w] = req[w]
  BY EnterShape DEF TypeOK
<1>2. OwnRequest(req[r])'
  BY <1>1 DEF OwnRequest, owns
<1> QED BY <1>1, <1>2, StepEvents DEF RowsOwn

LEMMA FinishEvents ==
  ASSUME TypeOK, EventInv, EventsGrow, RowsOwn', NEW r \in Workers, finish(r)
  PROVE  EventInv'
  BY FreeEvents DEF finish, Idle

LEMMA GotoEvents ==
  ASSUME TypeOK, EventInv, EventsGrow, RowsOwn', NEW r \in Workers, NEW pc,
         goto(r, pc)
  PROVE  EventInv'
<1>1. req[r] \in RequestRecord
  BY RequestCarries DEF TypeOK
<1>2. /\ req'[r].id = req[r].id
      /\ req'[r].providerEvent = req[r].providerEvent
      /\ req'[r].clientEvent = req[r].clientEvent
      /\ \A w \in Workers \ {r} : req'[w] = req[w]
  BY <1>1 DEF goto, RequestRecord, TypeOK, RequestsTypeOK
<1> QED BY <1>2, MoveEvents

\* The ids a handler reads from the row go with the id of the row.
LEMMA ReadEvents ==
  ASSUME TypeOK, EventInv, calendar' = calendar, bookings' = bookings,
         NEW r \in Workers, NEW b \in BookingIds, NEW q, enter(r, q),
         q.id = b, q.providerEvent = bookings[b].providerGoogleEventId,
         q.clientEvent = bookings[b].clientGoogleEventId
  PROVE  EventInv'
<1>1. req'[r] = q /\ \A w \in Workers \ {r} : req'[w] = req[w]
  BY EnterShape DEF TypeOK
<1>2. EventsGrow /\ RowsOwn'
  BY SameEvents, SameRows
<1>3. OwnRequest(req[r])'
  BY <1>1 DEF OwnRequest, OwnRow, EventInv, owns
<1> QED BY <1>1, <1>2, <1>3, StepEvents DEF RowsOwn

---------------------------------------------------------------------------
\* The actions

LEMMA ArriveEvents ==
  ASSUME TypeOK, EventInv, NEW r \in Workers, Arrive(r)
  PROVE  EventInv'
<1>1. calendar' = calendar /\ bookings' = bookings
  BY DEF Arrive, create, createPaymentIntent, cancel, complete, reschedule,
         review, tables
<1>2. EventsGrow /\ RowsOwn'
  BY <1>1, SameEvents, SameRows
<1>3. ASSUME NEW q, enter(r, q), q.providerEvent = null, q.clientEvent = null
      PROVE  EventInv'
  BY <1>2, <1>3, FreeEvents
<1>4. ASSUME NEW u \in Clients, NEW p \in Providers, NEW s \in StartTimes,
             NEW d \in Durations, create(r, u, p, s, d)
      PROVE  EventInv'
  BY <1>3, <1>4 DEF create, Idle
<1>5. ASSUME NEW u \in Clients, NEW b \in BookingIds,
             createPaymentIntent(r, u, b) \/ review(r, u, b)
      PROVE  EventInv'
  BY <1>3, <1>5 DEF createPaymentIntent, review, Idle
<1>6. ASSUME NEW u \in Providers, NEW b \in BookingIds, complete(r, u, b)
      PROVE  EventInv'
  BY <1>3, <1>6 DEF complete, Idle
<1>7. ASSUME NEW u \in Users, NEW b \in BookingIds, cancel(r, u, b)
      PROVE  EventInv'
  BY <1>1, <1>7, ReadEvents DEF cancel, Idle
<1>8. ASSUME NEW u \in Users, NEW b \in BookingIds, NEW s \in StartTimes,
             NEW d \in Durations, reschedule(r, u, b, s, d)
      PROVE  EventInv'
  BY <1>1, <1>8, ReadEvents DEF reschedule, Idle
<1> QED BY <1>4, <1>5, <1>6, <1>7, <1>8 DEF Arrive

LEMMA DeliverEvents ==
  ASSUME TypeOK, EventInv, NEW r \in Workers, Deliver(r)
  PROVE  EventInv'
<1>1. EventsGrow /\ RowsOwn'
  BY SameEvents, SameRows DEF Deliver, paymentSucceeded, paymentFailed, tables
<1>2. ASSUME NEW q, enter(r, q), q.providerEvent = null, q.clientEvent = null
      PROVE  EventInv'
  BY <1>1, <1>2, FreeEvents
<1>3. CASE UNCHANGED process
  BY <1>1, <1>3, OtherRequests DEF process, EventInv, RowsOwn
<1>4. ASSUME NEW i \in Intents, paymentSucceeded(r, i)
      PROVE  EventInv'
  BY <1>2, <1>4 DEF paymentSucceeded, confirmByPaymentIntent, Idle
<1>5. ASSUME NEW i \in Intents, paymentFailed(r, i)
      PROVE  EventInv'
  BY <1>2, <1>3, <1>5 DEF paymentFailed, Idle
<1> QED BY <1>4, <1>5 DEF Deliver

LEMMA CreateEvents ==
  ASSUME TypeOK, EventInv, NEW r \in Workers, Create(r)
  PROVE  EventInv'
<1>1. EventsGrow
  BY SameEvents DEF Create, createInsert
<1>2. CASE UNCHANGED tables /\ finish(r)
  BY <1>1, <1>2, SameRows, FinishEvents DEF tables
<1> DEFINE row == [NoBooking EXCEPT !.status = "PENDING_PAYMENT",
                     !.clientId = req[r].clientId,
                     !.providerId = req[r].providerId,
                     !.startTime = req[r].startTime,
                     !.endTime = req[r].endTime]
<1>3. row.providerGoogleEventId = null /\ row.clientGoogleEventId = null
  BY DEF NoBooking
<1>4. ASSUME NEW b \in BookingIds, bookingUpdate(b, row),
             enter(r, [Idle EXCEPT !.pc = "intent:create", !.id = b])
      PROVE  EventInv'
  <2> HIDE DEF row
  <2>1. RowsOwn'
    BY <1>1, <1>3, <1>4, UpdatedRows
  <2> QED BY <1>1, <1>4, <2>1, FreeEvents DEF Idle
<1> QED BY <1>2, <1>4 DEF Create, createInsert
\* The row a request is about.
LEMMA OwnBooking ==
  ASSUME TypeOK, NEW r \in Workers, req[r].pc \notin NoBookingPcs
  PROVE  /\ req[r].id \in BookingIds
         /\ bookings[req[r].id] \in Booking
         /\ req[r] \in RequestRecord
  BY RequestCarries DEF TypeOK, TablesTypeOK

LEMMA IntentEvents ==
  ASSUME TypeOK, EventInv, NEW r \in Workers, Intent(r)
  PROVE  EventInv'
<1>1. EventsGrow
  BY SameEvents
  DEF Intent, intentCreate, intentPayment, intentLink, intentRespond
<1>2. req[r].pc \notin NoBookingPcs
  BY DEF Intent, intentCreate, intentPayment, intentLink, intentRespond, at,
         NoBookingPcs
<1>3. CASE intentCreate(r)
  <2>1. RowsOwn'
    BY <1>1, <1>3, SameRows DEF intentCreate, tables
  <2>2. ASSUME NEW i \in Intents,
               enter(r, [req[r] EXCEPT !.pc = "intent:payment", !.intent = i])
        PROVE  EventInv'
    <3>1. /\ req'[r].id = req[r].id
          /\ req'[r].providerEvent = req[r].providerEvent
          /\ req'[r].clientEvent = req[r].clientEvent
          /\ \A w \in Workers \ {r} : req'[w] = req[w]
      BY <1>2, <2>2, OwnBooking, EnterShape DEF RequestRecord, TypeOK
    <3> QED BY <1>1, <2>1, <3>1, MoveEvents
  <2> QED BY <1>1, <1>3, <2>1, <2>2, FinishEvents DEF intentCreate
<1>4. CASE intentPayment(r) \/ intentRespond(r)
  <2>1. RowsOwn'
    BY <1>1, <1>4, SameRows
    DEF intentPayment, intentRespond, paymentCreate, tables
  <2> QED BY <1>1, <1>4, <2>1, GotoEvents, FinishEvents
          DEF intentPayment, intentRespond
<1>5. CASE intentLink(r)
  <2> DEFINE b == req[r].id
             row == [bookings[b] EXCEPT !.paymentIntentId = req[r].intent]
  <2>1. /\ row.providerGoogleEventId = bookings[b].providerGoogleEventId
        /\ row.clientGoogleEventId = bookings[b].clientGoogleEventId
    BY <1>2, OwnBooking DEF Booking
  <2>2. bookingUpdate(b, row) /\ goto(r, "intent:respond")
    BY <1>5 DEF intentLink
  <2> HIDE DEF row
  <2>3. RowsOwn'
    BY <1>1, <1>2, <2>1, <2>2, OwnBooking, UpdatedRows
  <2> QED BY <1>1, <2>2, <2>3, GotoEvents
<1> QED BY <1>3, <1>4, <1>5 DEF Intent

\* An event is created for the booking and the party the request is at.
LEMMA NewEventEvents ==
  ASSUME TypeOK, EventInv, NEW r \in Workers,
         confirmProviderEvent(r) \/ confirmClientEvent(r)
  PROVE  EventInv'
<1>1. req[r].pc \notin NoBookingPcs
  BY DEF confirmProviderEvent, confirmClientEvent, at, NoBookingPcs
<1>2. req[r] \in RequestRecord
  BY <1>1, OwnBooking
<1>3. bookings' = bookings
  BY DEF confirmProviderEvent, confirmClientEvent, tables
<1>4. /\ req[r].providerEvent \in EventIds \cup {null}
      /\ req[r].clientEvent \in EventIds \cup {null}
  BY <1>2 DEF RequestRecord
<1>5. CASE confirmProviderEvent(r)
  <2>1. PICK e \in EventIds \cup {null} :
          /\ createEvent(e, req[r].id, "provider", req[r].startTime)
          /\ enter(r, [req[r] EXCEPT !.pc = "confirm:clientEvent",
                                     !.providerEvent = e])
    BY <1>5 DEF confirmProviderEvent
  <2>2. /\ EventsGrow
        /\ e # null => /\ calendar'[e].state # "ABSENT"
                       /\ calendar'[e].bookingId = req[r].id
                       /\ calendar'[e].forWhom = "provider"
    BY <2>1, CreatedEvents DEF owns, TypeOK
  <2>3. /\ req'[r].id = req[r].id
        /\ req'[r].providerEvent = e
        /\ req'[r].clientEvent = req[r].clientEvent
        /\ \A w \in Workers \ {r} : req'[w] = req[w]
    <3> DEFINE q == [req[r] EXCEPT !.pc = "confirm:clientEvent",
                            !.providerEvent = e]
    <3>1. q.id = req[r].id /\ q.providerEvent = e /\ q.clientEvent = req[r].clientEvent
      BY <1>2 DEF RequestRecord
    <3>2. enter(r, q)
      BY <2>1
    <3> HIDE DEF q
    <3> QED BY <3>1, <3>2, EnterShape DEF TypeOK
  <2>4. owns(req[r].id, "provider", req[r].providerEvent)'
    BY <2>2, <2>3 DEF owns
  <2>5. owns(req[r].id, "client", req[r].clientEvent)'
    <3>1. owns(req[r].id, "client", req[r].clientEvent)
      BY DEF EventInv, OwnRequest
    <3> QED BY <1>4, <2>2, <2>3, <3>1 DEF owns, EventsGrow
  <2>6. OwnRequest(req[r])'
    BY <2>4, <2>5 DEF OwnRequest
  <2>7. RowsOwn'
    BY <1>3, <2>2, SameRows
  <2> QED BY <2>2, <2>3, <2>6, <2>7, StepEvents DEF RowsOwn
<1>6. CASE confirmClientEvent(r)
  <2>1. PICK e \in EventIds \cup {null} :
          /\ createEvent(e, req[r].id, "client", req[r].startTime)
          /\ enter(r, [req[r] EXCEPT !.pc = "confirm:update", !.startTime = 0,
                                     !.clientEvent = e])
    BY <1>6 DEF confirmClientEvent
  <2>2. /\ EventsGrow
        /\ e # null => /\ calendar'[e].state # "ABSENT"
                       /\ calendar'[e].bookingId = req[r].id
                       /\ calendar'[e].forWhom = "client"
    BY <2>1, CreatedEvents DEF owns, TypeOK
  <2>3. /\ req'[r].id = req[r].id
        /\ req'[r].clientEvent = e
        /\ req'[r].providerEvent = req[r].providerEvent
        /\ \A w \in Workers \ {r} : req'[w] = req[w]
    <3> DEFINE q == [req[r] EXCEPT !.pc = "confirm:update", !.startTime = 0,
                            !.clientEvent = e]
    <3>1. q.id = req[r].id /\ q.clientEvent = e /\ q.providerEvent = req[r].providerEvent
      BY <1>2 DEF RequestRecord
    <3>2. enter(r, q)
      BY <2>1
    <3> HIDE DEF q
    <3> QED BY <3>1, <3>2, EnterShape DEF TypeOK
  <2>4. owns(req[r].id, "client", req[r].clientEvent)'
    BY <2>2, <2>3 DEF owns
  <2>5. owns(req[r].id, "provider", req[r].providerEvent)'
    <3>1. owns(req[r].id, "provider", req[r].providerEvent)
      BY DEF EventInv, OwnRequest
    <3> QED BY <1>4, <2>2, <2>3, <3>1 DEF owns, EventsGrow
  <2>6. OwnRequest(req[r])'
    BY <2>4, <2>5 DEF OwnRequest
  <2>7. RowsOwn'
    BY <1>3, <2>2, SameRows
  <2> QED BY <2>2, <2>3, <2>6, <2>7, StepEvents DEF RowsOwn
<1> QED BY <1>5, <1>6

\* The row found by the intent is the one the events were created for.
LEMMA UpdateEvents ==
  ASSUME TypeOK, PaidInv, EventInv, NEW r \in Workers, confirmUpdate(r)
  PROVE  EventInv'
<1>1. EventsGrow
  BY SameEvents DEF confirmUpdate
<1>2. CASE UNCHANGED tables /\ finish(r)
  BY <1>1, <1>2, SameRows, FinishEvents DEF tables
<1>3. ASSUME NEW b \in BookingIds,
             bookings[b].paymentIntentId = req[r].intent,
             bookingUpdate(b, confirmed(bookings[b], r)),
             enter(r, [Idle EXCEPT !.pc = "confirm:mailBooking", !.id = b,
                                   !.intent = req[r].intent])
      PROVE  EventInv'
  <2> DEFINE row == confirmed(bookings[b], r)
  <2>1. req[r].pc \in ConfirmPcs /\ req[r].pc \in PaymentPcs
    BY DEF confirmUpdate, at, ConfirmPcs, FailedPcs, PaymentPcs
  <2>2. req[r].intent \in Intents
    BY <2>1, RequestCarries DEF TypeOK
  <2>3. b = req[r].id
    BY <1>3, <2>1, <2>2 DEF PaidInv, RequestInv, IntentOwnership, madeFor
  <2>4. bookings[b] \in Booking
    BY DEF TypeOK, TablesTypeOK
  <2>5. /\ row.providerGoogleEventId = req[r].providerEvent
        /\ row.clientGoogleEventId = req[r].clientEvent
    BY <2>4 DEF confirmed, Booking
  <2>6. bookingUpdate(b, row)
    BY <1>3
  <2> HIDE DEF row
  <2>7. /\ bookings'[b] = row
        /\ \A c \in BookingIds \ {b} : bookings'[c] = bookings[c]
    BY <2>6, BookingShape DEF TypeOK
  <2>8. calendar' = calendar
    BY DEF confirmUpdate
  <2>9. OwnRow(b, bookings[b])'
    BY <2>3, <2>5, <2>7, <2>8 DEF OwnRow, EventInv, OwnRequest, owns
  <2>10. RowsOwn'
    BY <1>1, <2>7, <2>9, RowEvents DEF RowsOwn
  <2> QED BY <1>1, <1>3, <2>10, FreeEvents DEF Idle
<1> QED BY <1>2, <1>3 DEF confirmUpdate
LEMMA ConfirmEvents ==
  ASSUME TypeOK, PaidInv, EventInv, NEW r \in Workers, Confirm(r)
  PROVE  EventInv'
<1>1. CASE \/ confirmFindPayment(r) \/ confirmCreatePayment(r)
           \/ confirmMailBooking(r) \/ confirmMailPayment(r)
           \/ webhookMail(r) \/ webhookAnswer(r)
  <2>1. calendar' = calendar /\ bookings' = bookings
    BY <1>1
    DEF confirmFindPayment, confirmCreatePayment, confirmMailBooking,
        confirmMailPayment, webhookMail, webhookAnswer, paymentCreate, tables
  <2>2. EventsGrow /\ RowsOwn'
    BY <2>1, SameEvents, SameRows
  <2>3. finish(r) \/ \E pc : goto(r, pc)
    BY <1>1
    DEF confirmFindPayment, confirmCreatePayment, confirmMailBooking,
        confirmMailPayment, webhookMail, webhookAnswer
  <2> QED BY <2>2, <2>3, GotoEvents, FinishEvents
<1> QED BY <1>1, NewEventEvents, UpdateEvents DEF Confirm

LEMMA FailedEvents ==
  ASSUME TypeOK, EventInv, NEW r \in Workers, Failed(r)
  PROVE  EventInv'
<1> DEFINE b == req[r].id
           row == [bookings[b] EXCEPT !.status = "PENDING_PAYMENT"]
<1>1. CASE failedUpdate(r)
  <2>1. b \in BookingIds /\ bookings[b] \in Booking
    BY <1>1, OwnBooking DEF failedUpdate, at, NoBookingPcs
  <2>2. /\ row.providerGoogleEventId = bookings[b].providerGoogleEventId
        /\ row.clientGoogleEventId = bookings[b].clientGoogleEventId
    BY <2>1 DEF Booking
  <2>3. bookingUpdate(b, row) /\ goto(r, "failed:answer") /\ EventsGrow
    BY <1>1, SameEvents DEF failedUpdate
  <2> HIDE DEF row
  <2> QED BY <2>1, <2>2, <2>3, UpdatedRows, GotoEvents
<1>2. CASE failedAnswer(r)
  BY <1>2, SameEvents, SameRows, FinishEvents DEF failedAnswer, tables
<1> QED BY <1>1, <1>2 DEF Failed

LEMMA CompleteEvents ==
  ASSUME TypeOK, EventInv, NEW r \in Workers, Complete(r)
  PROVE  EventInv'
<1> DEFINE b == req[r].id
           row == [bookings[b] EXCEPT !.status = "COMPLETED",
                                      !.completedAt = TRUE]
<1>1. b \in BookingIds /\ bookings[b] \in Booking
  BY OwnBooking DEF Complete, completeUpdate, at, NoBookingPcs
<1>2. /\ row.providerGoogleEventId = bookings[b].providerGoogleEventId
      /\ row.clientGoogleEventId = bookings[b].clientGoogleEventId
  BY <1>1 DEF Booking
<1>3. bookingUpdate(b, row) /\ finish(r) /\ EventsGrow
  BY SameEvents DEF Complete, completeUpdate
<1> HIDE DEF row
<1> QED BY <1>1, <1>2, <1>3, UpdatedRows, FinishEvents

\* The request deletes an event and forgets its id.
LEMMA CancelEventEvents ==
  ASSUME TypeOK, EventInv, NEW r \in Workers,
         cancelProviderEvent(r) \/ cancelClientEvent(r)
  PROVE  EventInv'
<1>1. EventsGrow
  BY SameEvents, EditedEvents
  DEF cancelProviderEvent, cancelClientEvent, TypeOK
<1>2. RowsOwn'
  BY <1>1, SameRows DEF cancelProviderEvent, cancelClientEvent, tables
<1>3. req[r] \in RequestRecord
  BY OwnBooking DEF cancelProviderEvent, cancelClientEvent, at, NoBookingPcs
<1>4. CASE cancelProviderEvent(r)
  <2> DEFINE q == [req[r] EXCEPT !.pc = "cancel:clientEvent",
                                 !.providerEvent = null]
  <2>1. /\ q.id = req[r].id /\ q.providerEvent = null
        /\ q.clientEvent = req[r].clientEvent
    BY <1>3 DEF RequestRecord
  <2>2. enter(r, q)
    BY <1>4 DEF cancelProviderEvent
  <2> HIDE DEF q
  <2>3. req'[r] = q /\ \A w \in Workers \ {r} : req'[w] = req[w]
    BY <2>2, EnterShape DEF TypeOK
  <2> QED BY <1>1, <1>2, <2>1, <2>3, MoveEvents
<1>5. CASE cancelClientEvent(r)
  <2> DEFINE q == [req[r] EXCEPT !.pc = "cancel:update", !.clientEvent = null]
  <2>1. /\ q.id = req[r].id /\ q.clientEvent = null
        /\ q.providerEvent = req[r].providerEvent
    BY <1>3 DEF RequestRecord
  <2>2. enter(r, q)
    BY <1>5 DEF cancelClientEvent
  <2> HIDE DEF q
  <2>3. req'[r] = q /\ \A w \in Workers \ {r} : req'[w] = req[w]
    BY <2>2, EnterShape DEF TypeOK
  <2> QED BY <1>1, <1>2, <2>1, <2>3, MoveEvents
<1> QED BY <1>4, <1>5

LEMMA CancelEvents ==
  ASSUME TypeOK, EventInv, NEW r \in Workers, Cancel(r)
  PROVE  EventInv'
<1>1. CASE cancelUpdate(r)
  <2> DEFINE b == req[r].id
             row == [bookings[b] EXCEPT !.status = "CANCELLED",
                       !.providerGoogleEventId = null,
                       !.clientGoogleEventId = null]
  <2>1. b \in BookingIds /\ bookings[b] \in Booking
    BY <1>1, OwnBooking DEF cancelUpdate, at, NoBookingPcs
  <2>2. row.providerGoogleEventId = null /\ row.clientGoogleEventId = null
    BY <2>1 DEF Booking
  <2>3. /\ bookingUpdate(b, row) /\ EventsGrow
        /\ goto(r, "cancel:mail")
    BY <1>1, SameEvents DEF cancelUpdate
  <2> HIDE DEF row
  <2> QED BY <2>1, <2>2, <2>3, UpdatedRows, GotoEvents
<1>2. CASE cancelMail(r)
  BY <1>2, SameEvents, SameRows, FinishEvents DEF cancelMail, tables
<1> QED BY <1>1, <1>2, CancelEventEvents DEF Cancel

LEMMA RescheduleEvents ==
  ASSUME TypeOK, EventInv, NEW r \in Workers, Reschedule(r)
  PROVE  EventInv'
<1>1. EventsGrow
  BY SameEvents, EditedEvents
  DEF Reschedule, rescheduleCheck, rescheduleUpdate, rescheduleReadBack,
      rescheduleProviderEvent, rescheduleClientEvent, TypeOK
<1>2. req[r].pc \notin NoBookingPcs
  BY DEF Reschedule, rescheduleCheck, rescheduleUpdate, rescheduleReadBack,
         rescheduleProviderEvent, rescheduleClientEvent, at, NoBookingPcs
<1>3. CASE rescheduleUpdate(r)
  <2> DEFINE b == req[r].id
             row == [bookings[b] EXCEPT !.startTime = req[r].startTime,
                                        !.endTime = req[r].endTime]
  <2>1. b \in BookingIds /\ bookings[b] \in Booking
    BY <1>2, OwnBooking
  <2>2. /\ row.providerGoogleEventId = bookings[b].providerGoogleEventId
        /\ row.clientGoogleEventId = bookings[b].clientGoogleEventId
    BY <2>1 DEF Booking
  <2>3. \/ finish(r) /\ bookings' = bookings
        \/ bookingUpdate(b, row) /\ goto(r, "reschedule:readBack")
    BY <1>3 DEF rescheduleUpdate, tables
  <2> HIDE DEF row
  <2> QED BY <1>1, <2>1, <2>2, <2>3, SameRows, UpdatedRows, FinishEvents,
             GotoEvents
<1>4. CASE rescheduleReadBack(r)
  <2> DEFINE q == [req[r] EXCEPT !.pc = "reschedule:providerEvent",
                     !.startTime = bookings[req[r].id].startTime,
                     !.endTime = 0, !.providerId = null]
  <2>1. /\ q.id = req[r].id /\ q.providerEvent = req[r].providerEvent
        /\ q.clientEvent = req[r].clientEvent
    BY <1>2, OwnBooking DEF RequestRecord
  <2>2. enter(r, q)
    BY <1>4 DEF rescheduleReadBack
  <2> HIDE DEF q
  <2>3. req'[r] = q /\ \A w \in Workers \ {r} : req'[w] = req[w]
    BY <2>2, EnterShape DEF TypeOK
  <2>4. RowsOwn'
    BY <1>1, <1>4, SameRows DEF rescheduleReadBack, tables
  <2> QED BY <1>1, <2>1, <2>3, <2>4, MoveEvents
<1>5. CASE \/ rescheduleCheck(r) \/ rescheduleProviderEvent(r)
           \/ rescheduleClientEvent(r)
  <2>1. RowsOwn'
    BY <1>1, <1>5, SameRows
    DEF rescheduleCheck, rescheduleProviderEvent, rescheduleClientEvent, tables
  <2>2. finish(r) \/ \E pc : goto(r, pc)
    BY <1>5
    DEF rescheduleCheck, rescheduleProviderEvent, rescheduleClientEvent
  <2> QED BY <1>1, <2>1, <2>2, GotoEvents, FinishEvents
<1> QED BY <1>3, <1>4, <1>5 DEF Reschedule

LEMMA ReviewEvents ==
  ASSUME TypeOK, EventInv, NEW r \in Workers, Review(r)
  PROVE  EventInv'
  BY SameEvents, SameRows, GotoEvents, FinishEvents
  DEF Review, reviewFind, reviewInsert, tables

\* Everybody else leaves the bookings and the calendars alone.
LEMMA OutsideEvents ==
  ASSUME TypeOK, EventInv, calendar' = calendar, bookings' = bookings,
         \A w \in Workers : req'[w] = req[w] \/ req'[w] = Idle
  PROVE  EventInv'
<1>1. EventsGrow /\ RowsOwn'
  BY SameEvents, SameRows
<1>2. ASSUME NEW w \in Workers
      PROVE  OwnRequest(req[w])'
  BY <1>1, <1>2, OtherRequests DEF OwnRequest, owns, Idle
<1> QED BY <1>1, <1>2 DEF EventInv, RowsOwn

LEMMA StepEventInv ==
  ASSUME TypeOK, PaidInv, EventInv, [Next]_vars
  PROVE  EventInv'
<1>1. ASSUME NEW r \in Workers, Arrive(r) \/ Deliver(r) \/ Proceed(r)
      PROVE  EventInv'
  BY <1>1, ArriveEvents, DeliverEvents, CreateEvents, IntentEvents,
     ConfirmEvents, FailedEvents, CancelEvents, CompleteEvents,
     RescheduleEvents, ReviewEvents DEF Proceed
<1>2. ASSUME NEW r \in Workers, fail(r)
      PROVE  EventInv'
  BY <1>2, OutsideEvents DEF fail, tables, TypeOK, RequestsTypeOK
<1>3. CASE crash
  BY <1>3, OutsideEvents DEF crash, tables
<1>4. CASE Customer \/ tick \/ Admin \/ UNCHANGED vars
  BY <1>4, OutsideEvents
  DEF Customer, tick, Admin, paymentRemove, reviewRemove, vars, process, tables
<1> QED BY <1>1, <1>2, <1>3, <1>4 DEF Next

LEMMA InitEventInv ==
  ASSUME Init
  PROVE  EventInv
<1>1. \A b \in BookingIds : bookings[b] = NoBooking
  BY DEF Init, TablesInit
<1>2. \A r \in Workers : req[r] = Idle
  BY DEF Init, RequestsInit
<1> QED BY <1>1, <1>2
        DEF EventInv, OwnRow, OwnRequest, owns, NoBooking, Idle

\* Every event id in a row or in a request is that of an event made for this
\* booking and this party.
THEOREM EventInvHolds == Spec => []EventInv
BY InitEventInv, StepEventInv, TypeCorrect, PaidInvHolds, PTL DEF Spec

\* However confirmations, cancellations, reschedules and redeliveries
\* interleave and whatever Google refuses, a booking never names an event of
\* another booking or of the other party, so that no handler moves or deletes
\* one.
THEOREM EventOwnershipHolds == Spec => []EventOwnership
<1>1. EventInv => EventOwnership
  BY DEF EventInv, OwnRow, owns, EventOwnership
<1> QED BY <1>1, EventInvHolds, PTL

---------------------------------------------------------------------------
\* What the calendars show, one request at a time

\* Where a request holds an event it has made and no row names yet, ...
MadePcs(who) ==
  {"confirm:update"} \cup
    (IF who = "provider" THEN {"confirm:clientEvent"} ELSE {})

\* ... has deleted one that the row still names, ...
DroppedPcs(who) ==
  {"cancel:update"} \cup
    (IF who = "provider" THEN {"cancel:clientEvent"} ELSE {})

\* ... has yet to move one, ...
LatePcs(who) ==
  {"reschedule:readBack", "reschedule:providerEvent"} \cup
    (IF who = "provider" THEN {} ELSE {"reschedule:clientEvent"})

\* ... and has read the id of one that the row names.
ReadPcs(who) ==
  {"cancel:providerEvent", "reschedule:check", "reschedule:update"}
  \cup LatePcs(who)
  \cup (IF who = "provider" THEN {} ELSE {"cancel:clientEvent"})

\* Where a request remembers when its booking starts.
DatedPcs ==
  {"confirm:findPayment", "confirm:createPayment", "confirm:providerEvent",
   "confirm:clientEvent", "reschedule:providerEvent", "reschedule:clientEvent"}

eventOf(row, who) ==
  IF who = "provider" THEN row.providerGoogleEventId
                      ELSE row.clientGoogleEventId

eventAt(q, who) == IF who = "provider" THEN q.providerEvent ELSE q.clientEvent

isFor(e, b, who) ==
  /\ calendar[e].state # "ABSENT"
  /\ calendar[e].bookingId = b /\ calendar[e].forWhom = who

\* The calendar of one party shows the booking as this event, or not at all.
shows(x, b, who) ==
  \A e \in EventIds :
    isFor(e, b, who) /\ calendar[e].state = "live" <=> e = x

during(q, b, pcs) == q.id = b /\ q.pc \in pcs

\* What the calendar of a party shows of a booking while q is served.
Agrees(q, b, who) ==
  LET named == eventOf(bookings[b], who)
      held == IF during(q, b, MadePcs(who)) THEN eventAt(q, who)
              ELSE IF during(q, b, DroppedPcs(who)) THEN null
              ELSE named
  IN /\ served(b) <=> named # null
     /\ held \in EventIds \cup {null} /\ shows(held, b, who)
     /\ during(q, b, MadePcs(who)) => held # null
     /\ during(q, b, ReadPcs(who)) => eventAt(q, who) = named
     /\ during(q, b, DatedPcs) => q.startTime = bookings[b].startTime
     /\ held # null /\ ~during(q, b, LatePcs(who)) =>
          calendar[held].startTime = bookings[b].startTime

\* At most one event is ever made for a party of a booking, and none before it
\* is confirmed.
Sparing(q, b, who) ==
  \A e \in EventIds :
    isFor(e, b, who) =>
      /\ \/ during(q, b, MadePcs(who))
         \/ bookings[b].status \notin {"ABSENT", "PENDING_PAYMENT"}
      /\ \A f \in EventIds : isFor(f, b, who) => f = e

\* The inductive invariant behind CalendarsAgree.
CalendarInv ==
  /\ \A r \in Workers, b \in BookingIds, who \in Parties :
       Agrees(req[r], b, who) /\ Sparing(req[r], b, who)
  /\ \A e \in EventIds :
       calendar[e].state # "ABSENT" =>
         calendar[e].bookingId \in BookingIds

---------------------------------------------------------------------------
EventPcs ==
  {"cancel:clientEvent", "cancel:providerEvent", "cancel:update",
   "confirm:update", "reschedule:check", "reschedule:update",
   "reschedule:readBack"} \cup DatedPcs

LEMMA AllEventPcs ==
  ASSUME NEW who \in Parties
  PROVE  /\ MadePcs(who) \subseteq EventPcs
         /\ DroppedPcs(who) \subseteq EventPcs
         /\ LatePcs(who) \subseteq EventPcs
         /\ ReadPcs(who) \subseteq EventPcs
         /\ DatedPcs \subseteq EventPcs
  BY DEF MadePcs, DroppedPcs, LatePcs, ReadPcs, DatedPcs, EventPcs

\* The columns the calendars have to do with are as they were.
Alike(b) ==
  /\ served(b)' <=> served(b)
  /\ bookings'[b].status \in {"ABSENT", "PENDING_PAYMENT"} =>
       bookings[b].status \in {"ABSENT", "PENDING_PAYMENT"}
  /\ bookings'[b].startTime = bookings[b].startTime
  /\ bookings'[b].providerGoogleEventId = bookings[b].providerGoogleEventId
  /\ bookings'[b].clientGoogleEventId = bookings[b].clientGoogleEventId

LeftAlone(b, who) ==
  \A e \in EventIds :
    /\ isFor(e, b, who)' <=> isFor(e, b, who)
    /\ isFor(e, b, who) => calendar'[e] = calendar[e]

\* A booking the request is not about.
LEMMA Bystander ==
  ASSUME NEW r \in Workers, NEW b \in BookingIds, NEW who \in Parties,
         Agrees(req[r], b, who), Sparing(req[r], b, who),
         ~during(req[r], b, EventPcs), ~during(req'[r], b, EventPcs),
         Alike(b), LeftAlone(b, who)
  PROVE  Agrees(req[r], b, who)' /\ Sparing(req[r], b, who)'
<1>1. /\ ~during(req[r], b, MadePcs(who)) /\ ~during(req'[r], b, MadePcs(who))
      /\ ~during(req[r], b, DroppedPcs(who))
      /\ ~during(req'[r], b, DroppedPcs(who))
      /\ ~during(req[r], b, LatePcs(who)) /\ ~during(req'[r], b, LatePcs(who))
      /\ ~during(req'[r], b, ReadPcs(who)) /\ ~during(req'[r], b, DatedPcs)
  BY AllEventPcs DEF during
<1>2. PICK x : x = eventOf(bookings[b], who)
  OBVIOUS
<1>3. eventOf(bookings'[b], who) = x
  BY <1>2 DEF eventOf, Alike
<1>4. /\ served(b) <=> x # null
      /\ x \in EventIds \cup {null} /\ shows(x, b, who)
      /\ x # null => calendar[x].startTime = bookings[b].startTime
  BY <1>1, <1>2 DEF Agrees
<1>5. served(b)' <=> served(b)
  BY DEF Alike
<1>6. shows(x, b, who)'
  BY <1>4 DEF shows, LeftAlone
<1>7. x # null => calendar'[x].startTime = bookings'[b].startTime
  BY <1>4 DEF shows, LeftAlone, Alike
<1>8. Agrees(req[r], b, who)'
  BY <1>1, <1>3, <1>4, <1>5, <1>6, <1>7 DEF Agrees
<1>9. Sparing(req[r], b, who)'
  BY <1>1 DEF Sparing, LeftAlone, Alike
<1> QED BY <1>8, <1>9

\* What is left to show of a step of the one request: the bookings it is about.
LEMMA StepCalendar ==
  ASSUME Solo, CalendarInv, NEW r \in Workers,
         \A b \in BookingIds, who \in Parties :
           \/ /\ ~during(req[r], b, EventPcs) /\ ~during(req'[r], b, EventPcs)
              /\ Alike(b) /\ LeftAlone(b, who)
           \/ Agrees(req[r], b, who)' /\ Sparing(req[r], b, who)',
         \A e \in EventIds :
           calendar'[e].state # "ABSENT" =>
             \/ calendar'[e].bookingId \in BookingIds
             \/ /\ calendar[e].state # "ABSENT"
                /\ calendar'[e].bookingId = calendar[e].bookingId
  PROVE  CalendarInv'
<1>1. ASSUME NEW b \in BookingIds, NEW who \in Parties
      PROVE  Agrees(req[r], b, who)' /\ Sparing(req[r], b, who)'
  BY Bystander DEF CalendarInv
<1>2. ASSUME NEW w \in Workers, NEW b \in BookingIds, NEW who \in Parties
      PROVE  Agrees(req[w], b, who)' /\ Sparing(req[w], b, who)'
  <2>1. w = r
    BY DEF Solo, OneAtATime
  <2> QED BY <1>1, <2>1
<1>3. \A e \in EventIds :
        calendar'[e].state # "ABSENT" => calendar'[e].bookingId \in BookingIds
  BY DEF CalendarInv
<1> QED BY <1>2, <1>3 DEF CalendarInv

LEMMA SameCalendar ==
  ASSUME calendar' = calendar, NEW b, NEW who
  PROVE  LeftAlone(b, who)
  BY DEF LeftAlone, isFor

\* A statement that has nothing to do with the calendars.
LEMMA QuietCalendar ==
  ASSUME Solo, TypeOK, CalendarInv, NEW r \in Workers, calendar' = calendar,
         \A b \in BookingIds : Alike(b), req[r].pc \notin EventPcs,
         \/ finish(r)
         \/ \E pc : pc \notin EventPcs /\ goto(r, pc)
         \/ \E q : q.pc \notin EventPcs /\ enter(r, q)
  PROVE  CalendarInv'
<1>1. req'[r].pc \notin EventPcs
  BY FinishShape, GotoShape, EnterShape DEF TypeOK, EventPcs, DatedPcs
<1> QED BY <1>1, SameCalendar, StepCalendar DEF during, CalendarInv

---------------------------------------------------------------------------
\* The calls of Google's

\* Every call of Google's gets through, and there is room for the events.
GoogleAnswers == ~GoogleMayFail /\ MaxEvents >= 2 * MaxBookings

LEMMA CreatedShape ==
  ASSUME TypeOK, NEW e \in EventIds, NEW b \in BookingIds, NEW who \in Parties,
         NEW start, createEvent(e, b, who, start)
  PROVE  /\ calendar[e].state = "ABSENT"
         /\ calendar'[e].state = "live"
         /\ calendar'[e].bookingId = b /\ calendar'[e].forWhom = who
         /\ calendar'[e].startTime = start
         /\ \A f \in EventIds \ {e} : calendar'[f] = calendar[f]
<1>1. e # null
  BY DEF EventIds, null
<1> QED BY <1>1 DEF createEvent, TypeOK, CalendarTypeOK

LEMMA MovedShape ==
  ASSUME TypeOK, GoogleAnswers, NEW e \in EventIds, NEW start \in Nat,
         calendar[e].state = "live", updateEvent(e, start)
  PROVE  /\ calendar'[e].state = "live"
         /\ calendar'[e].bookingId = calendar[e].bookingId
         /\ calendar'[e].forWhom = calendar[e].forWhom
         /\ calendar'[e].startTime = start
         /\ \A f \in EventIds \ {e} : calendar'[f] = calendar[f]
<1>1. calendar[e] \in Event
  BY DEF TypeOK, CalendarTypeOK
<1>2. calendar' = [calendar EXCEPT ![e].startTime = start]
  BY DEF updateEvent, GoogleAnswers
<1> QED BY <1>1, <1>2 DEF TypeOK, CalendarTypeOK, Event

LEMMA DeletedShape ==
  ASSUME TypeOK, GoogleAnswers, NEW e \in EventIds,
         calendar[e].state = "live", deleteEvent(e)
  PROVE  /\ calendar'[e].state = "deleted"
         /\ calendar'[e].bookingId = calendar[e].bookingId
         /\ calendar'[e].forWhom = calendar[e].forWhom
         /\ calendar'[e].startTime = calendar[e].startTime
         /\ \A f \in EventIds \ {e} : calendar'[f] = calendar[f]
<1>1. calendar[e] \in Event
  BY DEF TypeOK, CalendarTypeOK
<1>2. calendar' = [calendar EXCEPT ![e].state = "deleted"]
  BY DEF deleteEvent, GoogleAnswers
<1> QED BY <1>1, <1>2 DEF TypeOK, CalendarTypeOK, Event

\* There is an event left for a booking that has none.
LEMMA Room ==
  ASSUME TypeOK, GoogleAnswers, CalendarInv, NEW r \in Workers,
         NEW b \in BookingIds, NEW who \in Parties,
         \A e \in EventIds : ~isFor(e, b, who)
  PROVE  \E e \in EventIds : calendar[e].state = "ABSENT"
<1> SUFFICES ASSUME \A e \in EventIds : calendar[e].state # "ABSENT"
             PROVE  FALSE
  OBVIOUS
<1> DEFINE Pairs == BookingIds \X Parties
           dateOf == [e \in EventIds |->
                        <<calendar[e].bookingId, calendar[e].forWhom>>]
<1>1. MaxBookings \in Nat /\ MaxEvents \in Nat
  BY TablesAssumption
<1>2. /\ IsFiniteSet(BookingIds) /\ Cardinality(BookingIds) = MaxBookings
      /\ IsFiniteSet(EventIds) /\ Cardinality(EventIds) = MaxEvents
  BY <1>1, FS_Interval DEF BookingIds, EventIds
<1>3. IsFiniteSet(Parties) /\ Cardinality(Parties) = 2
  <2>1. IsFiniteSet({"provider"}) /\ Cardinality({"provider"}) = 1
    BY FS_Singleton
  <2>2. Parties = {"provider"} \cup {"client"}
    BY DEF Parties
  <2> QED BY <2>1, <2>2, FS_AddElement
<1>4. IsFiniteSet(Pairs) /\ Cardinality(Pairs) = MaxBookings * 2
  BY <1>2, <1>3, FS_Product
<1> DEFINE Others == Pairs \ {<<b, who>>}
<1>5. IsFiniteSet(Others) /\ Cardinality(Others) = MaxBookings * 2 - 1
  <2>1. <<b, who>> \in Pairs
    OBVIOUS
  <2> HIDE DEF Pairs
  <2> QED BY <1>4, <2>1, FS_RemoveElement
<1>6. ASSUME NEW e \in EventIds
      PROVE  /\ isFor(e, calendar[e].bookingId, calendar[e].forWhom)
             /\ calendar[e].bookingId \in BookingIds
             /\ calendar[e].forWhom \in Parties
  BY DEF CalendarInv, isFor, TypeOK, CalendarTypeOK, Event
<1>7. dateOf \in [EventIds -> Others]
  <2>1. ASSUME NEW e \in EventIds
        PROVE  <<calendar[e].bookingId, calendar[e].forWhom>> \in Others
    BY <1>6
  <2> QED BY <2>1
<1>8. PICK e, f \in EventIds : e # f /\ dateOf[e] = dateOf[f]
  <2>1. Cardinality(Others) < Cardinality(EventIds)
    BY <1>1, <1>2, <1>5 DEF GoogleAnswers
  <2> HIDE DEF Others, dateOf
  <2> QED BY <1>2, <1>5, <1>7, <2>1, FS_PigeonHole
<1>9. /\ calendar[e].bookingId = calendar[f].bookingId
      /\ calendar[e].forWhom = calendar[f].forWhom
  BY <1>8
<1>10. PICK c \in BookingIds, party \in Parties :
         isFor(e, c, party) /\ isFor(f, c, party)
  BY <1>6, <1>9
<1> QED BY <1>8, <1>10 DEF CalendarInv, Sparing

---------------------------------------------------------------------------
\* The handlers

\* A handler that will call Google has read its booking.
LEMMA EnterCalendar ==
  ASSUME Solo, TypeOK, CalendarInv, NEW r \in Workers, calendar' = calendar,
         bookings' = bookings, req[r].pc \notin EventPcs,
         NEW b \in BookingIds, NEW q, enter(r, q), q.id = b,
         \/ /\ q.pc \in {"cancel:providerEvent", "reschedule:check"}
            /\ \A who \in Parties : eventAt(q, who) = eventOf(bookings[b], who)
         \/ /\ q.pc = "confirm:findPayment"
            /\ q.startTime = bookings[b].startTime
  PROVE  CalendarInv'
<1>1. req'[r] = q
  BY EnterShape DEF TypeOK
<1>2. ASSUME NEW who \in Parties
      PROVE  Agrees(req[r], b, who)' /\ Sparing(req[r], b, who)'
  <2>1. Agrees(req[r], b, who) /\ Sparing(req[r], b, who)
    BY DEF CalendarInv
  <2>2. /\ ~during(req[r], b, MadePcs(who)) /\ ~during(q, b, MadePcs(who))
        /\ ~during(req[r], b, DroppedPcs(who))
        /\ ~during(q, b, DroppedPcs(who))
        /\ ~during(req[r], b, LatePcs(who)) /\ ~during(q, b, LatePcs(who))
    BY AllEventPcs DEF during, MadePcs, DroppedPcs, LatePcs
  <2>3. during(q, b, ReadPcs(who)) =>
          eventAt(q, who) = eventOf(bookings[b], who)
    BY DEF during, ReadPcs, LatePcs
  <2>4. during(q, b, DatedPcs) => q.startTime = bookings[b].startTime
    BY DEF during, DatedPcs
  <2>5. Agrees(req[r], b, who)'
    BY <1>1, <2>1, <2>2, <2>3, <2>4 DEF Agrees, served, shows, isFor
  <2> QED BY <1>1, <2>1, <2>2, <2>5 DEF Sparing, isFor
<1> QED BY <1>1, <1>2, SameCalendar, StepCalendar
        DEF during, Alike, served, CalendarInv

\* ... and goes on to a statement about which it knows the same.
LEMMA GoOnCalendar ==
  ASSUME Solo, TypeOK, CalendarInv, NEW r \in Workers, calendar' = calendar,
         bookings' = bookings, req[r].id \in BookingIds,
         req'[r].id = req[r].id,
         req'[r].providerEvent = req[r].providerEvent,
         req'[r].clientEvent = req[r].clientEvent,
         \A who \in Parties :
           /\ {req[r].pc, req'[r].pc} \cap (MadePcs(who) \cup DroppedPcs(who))
                = {}
           /\ req[r].pc \in LatePcs(who) => req'[r].pc \in LatePcs(who)
           /\ req'[r].pc \in ReadPcs(who) => req[r].pc \in ReadPcs(who),
         req'[r].pc \in DatedPcs =>
           req'[r].startTime = bookings[req[r].id].startTime
  PROVE  CalendarInv'
<1> DEFINE b == req[r].id
<1>1. ASSUME NEW who \in Parties
      PROVE  Agrees(req[r], b, who)' /\ Sparing(req[r], b, who)'
  <2>1. Agrees(req[r], b, who) /\ Sparing(req[r], b, who)
    BY DEF CalendarInv
  <2>2. /\ ~during(req[r], b, MadePcs(who)) /\ ~during(req'[r], b, MadePcs(who))
        /\ ~during(req[r], b, DroppedPcs(who))
        /\ ~during(req'[r], b, DroppedPcs(who))
        /\ during(req[r], b, LatePcs(who)) => during(req'[r], b, LatePcs(who))
        /\ during(req'[r], b, ReadPcs(who)) => during(req[r], b, ReadPcs(who))
        /\ during(req'[r], b, DatedPcs) =>
             req'[r].startTime = bookings[b].startTime
    BY DEF during
  <2>3. eventAt(req'[r], who) = eventAt(req[r], who)
    BY DEF eventAt
  <2>4. Agrees(req[r], b, who)'
    BY <2>1, <2>2, <2>3 DEF Agrees, served, shows, isFor
  <2> QED BY <2>1, <2>2, <2>4 DEF Sparing, isFor
<1> QED BY <1>1, SameCalendar, StepCalendar
        DEF during, Alike, served, CalendarInv

LEMMA AlikeAll ==
  ASSUME bookings' = bookings, NEW b
  PROVE  Alike(b)
  BY DEF Alike, served

LEMMA ArriveCalendar ==
  ASSUME Solo, TypeOK, CalendarInv, NEW r \in Workers, Arrive(r)
  PROVE  CalendarInv'
<1>1. /\ calendar' = calendar /\ bookings' = bookings
      /\ req[r].pc = "idle" /\ req[r].pc \notin EventPcs
  BY DEF Arrive, create, createPaymentIntent, cancel, complete, reschedule,
         review, tables, at, EventPcs, DatedPcs
<1>2. ASSUME NEW q, enter(r, q), q.pc \notin EventPcs
      PROVE  CalendarInv'
  BY <1>1, <1>2, AlikeAll, QuietCalendar
<1>3. ASSUME NEW u, NEW b \in BookingIds, cancel(r, u, b)
      PROVE  CalendarInv'
  <2> DEFINE q == [Idle EXCEPT !.pc = "cancel:providerEvent", !.id = b,
                     !.providerEvent = bookings[b].providerGoogleEventId,
                     !.clientEvent = bookings[b].clientGoogleEventId]
  <2>1. /\ q.pc = "cancel:providerEvent" /\ q.id = b
        /\ \A who \in Parties : eventAt(q, who) = eventOf(bookings[b], who)
    BY DEF Idle, eventAt, eventOf
  <2>2. enter(r, q)
    BY <1>3 DEF cancel
  <2> HIDE DEF q
  <2> QED BY <1>1, <2>1, <2>2, EnterCalendar
<1>4. ASSUME NEW u, NEW b \in BookingIds, NEW s, NEW d,
             reschedule(r, u, b, s, d)
      PROVE  CalendarInv'
  <2> DEFINE q == [Idle EXCEPT !.pc = "reschedule:check", !.id = b,
                     !.providerId = bookings[b].providerId,
                     !.startTime = s, !.endTime = s + d,
                     !.providerEvent = bookings[b].providerGoogleEventId,
                     !.clientEvent = bookings[b].clientGoogleEventId]
  <2>1. /\ q.pc = "reschedule:check" /\ q.id = b
        /\ \A who \in Parties : eventAt(q, who) = eventOf(bookings[b], who)
    BY DEF Idle, eventAt, eventOf
  <2>2. enter(r, q)
    BY <1>4 DEF reschedule
  <2> HIDE DEF q
  <2> QED BY <1>1, <2>1, <2>2, EnterCalendar
<1>5. ASSUME NEW u, NEW p, NEW s, NEW d, create(r, u, p, s, d)
      PROVE  CalendarInv'
  BY <1>2, <1>5 DEF create, Idle, EventPcs, DatedPcs
<1>6. ASSUME NEW u, NEW b,
             \/ createPaymentIntent(r, u, b) \/ complete(r, u, b)
             \/ review(r, u, b)
      PROVE  CalendarInv'
  BY <1>2, <1>6
  DEF createPaymentIntent, complete, review, Idle, EventPcs, DatedPcs
<1> QED BY <1>3, <1>4, <1>5, <1>6 DEF Arrive

LEMMA DeliverCalendar ==
  ASSUME Solo, TypeOK, SoloInv, CalendarInv, NEW r \in Workers, Deliver(r)
  PROVE  CalendarInv'
<1>1. PICK i \in Intents : paymentSucceeded(r, i)
  BY DEF Deliver, paymentFailed, deliver, emitted, SoloInv
<1>2. /\ calendar' = calendar /\ bookings' = bookings
      /\ req[r].pc \notin EventPcs
  BY <1>1 DEF paymentSucceeded, tables, at, EventPcs, DatedPcs
<1>3. PICK b \in BookingIds :
        \/ enter(r, [Idle EXCEPT !.pc = "webhook:mail", !.id = b,
                                 !.intent = i])
        \/ enter(r, [Idle EXCEPT !.pc = "confirm:findPayment", !.id = b,
                       !.intent = i, !.startTime = bookings[b].startTime])
  BY <1>1 DEF paymentSucceeded, confirmByPaymentIntent
<1> DEFINE answer == [Idle EXCEPT !.pc = "webhook:mail", !.id = b, !.intent = i]
           confirm == [Idle EXCEPT !.pc = "confirm:findPayment", !.id = b,
                         !.intent = i, !.startTime = bookings[b].startTime]
<1>4. /\ answer.pc \notin EventPcs
      /\ confirm.pc = "confirm:findPayment" /\ confirm.id = b
      /\ confirm.startTime = bookings[b].startTime
  BY DEF Idle, EventPcs, DatedPcs
<1>5. enter(r, answer) \/ enter(r, confirm)
  BY <1>3
<1> HIDE DEF answer, confirm
<1>6. CASE enter(r, answer)
  BY <1>2, <1>4, <1>6, AlikeAll, QuietCalendar
<1>7. CASE enter(r, confirm)
  BY <1>2, <1>4, <1>7, EnterCalendar
<1> QED BY <1>5, <1>6, <1>7

\* create:insert: a row that comes into being names no event.
LEMMA CreateCalendar ==
  ASSUME Solo, TypeOK, CalendarInv, NEW r \in Workers, Create(r)
  PROVE  CalendarInv'
<1>1. calendar' = calendar /\ req[r].pc \notin EventPcs
  BY DEF Create, createInsert, at, EventPcs, DatedPcs
<1>2. CASE finish(r) /\ UNCHANGED tables
  BY <1>1, <1>2, AlikeAll, QuietCalendar DEF tables
<1>3. ASSUME NEW b \in BookingIds, isNextBookingId(b), NEW row,
             row.status = "PENDING_PAYMENT",
             row.providerGoogleEventId = null, row.clientGoogleEventId = null,
             bookingUpdate(b, row),
             enter(r, [Idle EXCEPT !.pc = "intent:create", !.id = b])
      PROVE  CalendarInv'
  <2>1. /\ bookings'[b] = row
        /\ \A c \in BookingIds \ {b} : bookings'[c] = bookings[c]
    BY <1>3, BookingShape DEF TypeOK
  <2>2. req'[r].pc = "intent:create" /\ req'[r].pc \notin EventPcs
    BY <1>3 DEF enter, TypeOK, RequestsTypeOK, Idle, EventPcs, DatedPcs
  <2>3. ASSUME NEW who \in Parties
        PROVE  Agrees(req[r], b, who)' /\ Sparing(req[r], b, who)'
    <3>1. Agrees(req[r], b, who) /\ Sparing(req[r], b, who)
      BY DEF CalendarInv
    <3>2. /\ ~during(req[r], b, MadePcs(who))
          /\ ~during(req[r], b, DroppedPcs(who))
          /\ ~during(req'[r], b, MadePcs(who))
          /\ ~during(req'[r], b, DroppedPcs(who))
          /\ ~during(req'[r], b, ReadPcs(who))
          /\ ~during(req'[r], b, DatedPcs)
      BY <1>1, <2>2, AllEventPcs DEF during
    <3>3. bookings[b].status = "ABSENT"
      BY <1>3 DEF isNextBookingId
    <3>4. shows(null, b, who) /\ eventOf(row, who) = null
      BY <1>3, <3>1, <3>2, <3>3 DEF Agrees, served, eventOf
    <3>5. Agrees(req[r], b, who)'
      BY <1>1, <1>3, <2>1, <3>2, <3>4 DEF Agrees, served, shows, isFor
    <3>6. Sparing(req[r], b, who)'
      BY <1>1, <3>1, <3>2, <3>3 DEF Sparing, isFor
    <3> QED BY <3>5, <3>6
  <2> QED BY <1>1, <2>1, <2>2, <2>3, SameCalendar, StepCalendar
          DEF during, Alike, served, CalendarInv
<1> DEFINE row == [NoBooking EXCEPT !.status = "PENDING_PAYMENT",
                     !.clientId = req[r].clientId,
                     !.providerId = req[r].providerId,
                     !.startTime = req[r].startTime,
                     !.endTime = req[r].endTime]
<1>4. /\ row.status = "PENDING_PAYMENT"
      /\ row.providerGoogleEventId = null /\ row.clientGoogleEventId = null
  BY DEF NoBooking
<1>5. \/ finish(r) /\ UNCHANGED tables
      \/ \E b \in BookingIds :
           /\ isNextBookingId(b) /\ bookingUpdate(b, row)
           /\ enter(r, [Idle EXCEPT !.pc = "intent:create", !.id = b])
  BY DEF Create, createInsert
<1> HIDE DEF row
<1> QED BY <1>2, <1>3, <1>4, <1>5

\* The payment of a booking has nothing to do with its events.
LEMMA IntentCalendar ==
  ASSUME Solo, TypeOK, AgendaInv, CalendarInv, NEW r \in Workers, Intent(r)
  PROVE  CalendarInv'
<1>1. /\ calendar' = calendar /\ req[r].pc \notin EventPcs
      /\ req[r].pc \notin NoBookingPcs
  BY DEF Intent, intentCreate, intentPayment, intentLink, intentRespond, at,
         EventPcs, DatedPcs, NoBookingPcs
<1>2. IntentPcs \cap EventPcs = {}
  BY DEF IntentPcs, EventPcs, DatedPcs
<1>3. CASE intentCreate(r)
  <2>1. ASSUME NEW i,
               enter(r, [req[r] EXCEPT !.pc = "intent:payment", !.intent = i])
        PROVE  \E q : q.pc \notin EventPcs /\ enter(r, q)
    <3>1. [req[r] EXCEPT !.pc = "intent:payment", !.intent = i].pc
            \notin EventPcs
      BY <1>1, RequestRow DEF RequestRecord, EventPcs, DatedPcs
    <3> QED BY <2>1, <3>1
  <2> QED BY <1>1, <1>3, <2>1, AlikeAll, QuietCalendar DEF intentCreate, tables
<1>4. CASE intentPayment(r) \/ intentRespond(r)
  BY <1>1, <1>2, <1>4, AlikeAll, QuietCalendar
  DEF intentPayment, intentRespond, paymentCreate, tables, IntentPcs
<1>5. CASE intentLink(r)
  <2> DEFINE b == req[r].id
             row == [bookings[b] EXCEPT !.paymentIntentId = req[r].intent]
  <2>1. /\ row.status = bookings[b].status
        /\ row.startTime = bookings[b].startTime
        /\ row.providerGoogleEventId = bookings[b].providerGoogleEventId
        /\ row.clientGoogleEventId = bookings[b].clientGoogleEventId
    BY <1>1, RequestRow DEF Booking
  <2>2. bookingUpdate(b, row) /\ goto(r, "intent:respond")
    BY <1>5 DEF intentLink
  <2> HIDE DEF row
  <2>3. \A c \in BookingIds : Alike(c)
    BY <2>1, <2>2, BookingShape DEF Alike, served, TypeOK
  <2> QED BY <1>1, <1>2, <2>2, <2>3, QuietCalendar DEF IntentPcs
<1> QED BY <1>3, <1>4, <1>5 DEF Intent

\* An event is made for a party of a booking that has none: the confirmation
\* comes once, and Google answers.
LEMMA MakeCalendar ==
  ASSUME Solo, TypeOK, GoogleAnswers, CalendarInv, NEW r \in Workers,
         NEW b \in BookingIds, req[r].id = b, NEW who \in Parties,
         bookings' = bookings, bookings[b].status = "PENDING_PAYMENT",
         NEW e \in EventIds \cup {null}, NEW start,
         createEvent(e, b, who, start), start = bookings[b].startTime,
         NEW q, enter(r, q), q.id = b, eventAt(q, who) = e,
         req[r].pc \notin MadePcs(who) \cup DroppedPcs(who) \cup LatePcs(who),
         q.pc \in MadePcs(who),
         \A other \in Parties \ {who} :
           /\ eventAt(q, other) = eventAt(req[r], other)
           /\ q.pc \in MadePcs(other) <=> req[r].pc \in MadePcs(other)
           /\ req[r].pc \notin DroppedPcs(other) \cup LatePcs(other),
         q.pc \in DatedPcs => q.startTime = bookings[b].startTime
  PROVE  CalendarInv'
<1>1. req'[r] = q
  BY EnterShape DEF TypeOK
<1>2. \A party \in Parties :
        /\ q.pc \notin DroppedPcs(party) \cup ReadPcs(party) \cup LatePcs(party)
        /\ req[r].pc \notin DroppedPcs(party) \cup LatePcs(party)
  BY DEF Parties, MadePcs, DroppedPcs, ReadPcs, LatePcs
<1>3. \A party \in Parties :
        Agrees(req[r], b, party) /\ Sparing(req[r], b, party)
  BY DEF CalendarInv
<1>4. ~served(b)
  BY DEF served
<1>5. /\ eventOf(bookings[b], who) = null /\ shows(null, b, who)
      /\ \A f \in EventIds : ~isFor(f, b, who)
  BY <1>2, <1>3, <1>4 DEF Agrees, Sparing, during
<1>6. e # null
  <2>1. \E f \in EventIds : calendar[f].state = "ABSENT"
    BY <1>5, Room
  <2>2. null \notin EventIds
    BY DEF EventIds, null
  <2> QED BY <2>1, <2>2 DEF createEvent, GoogleAnswers
<1>7. /\ calendar[e].state = "ABSENT"
      /\ calendar'[e].state = "live"
      /\ calendar'[e].bookingId = b /\ calendar'[e].forWhom = who
      /\ calendar'[e].startTime = bookings[b].startTime
      /\ \A f \in EventIds \ {e} : calendar'[f] = calendar[f]
  BY <1>6, CreatedShape
<1>8. \A c \in BookingIds, party \in Parties :
        c # b \/ party # who => LeftAlone(c, party)
  BY <1>6, <1>7 DEF LeftAlone, isFor
<1>9. Agrees(req[r], b, who)' /\ Sparing(req[r], b, who)'
  <2>1. during(q, b, MadePcs(who)) /\ ~during(q, b, DroppedPcs(who))
        /\ ~during(q, b, ReadPcs(who)) /\ ~during(q, b, LatePcs(who))
    BY <1>2 DEF during
  <2>2. shows(e, b, who)'
    BY <1>5, <1>7 DEF shows, isFor
  <2>3. Agrees(req[r], b, who)'
    BY <1>1, <1>3, <1>5, <1>6, <1>7, <2>1, <2>2
    DEF Agrees, served, during
  <2>4. Sparing(req[r], b, who)'
    BY <1>1, <1>5, <1>7, <2>1 DEF Sparing, isFor
  <2> QED BY <2>3, <2>4
<1>10. ASSUME NEW other \in Parties, other # who
       PROVE  Agrees(req[r], b, other)' /\ Sparing(req[r], b, other)'
  <2>1. /\ during(q, b, MadePcs(other)) <=> during(req[r], b, MadePcs(other))
        /\ ~during(req[r], b, DroppedPcs(other))
        /\ ~during(q, b, DroppedPcs(other))
        /\ ~during(req[r], b, LatePcs(other)) /\ ~during(q, b, LatePcs(other))
        /\ ~during(q, b, ReadPcs(other))
        /\ during(q, b, DatedPcs) => q.startTime = bookings[b].startTime
    BY <1>2, <1>10 DEF during
  <2>2. PICK x : x = IF during(q, b, MadePcs(other)) THEN eventAt(q, other)
                     ELSE eventOf(bookings[b], other)
    OBVIOUS
  <2>3. eventAt(q, other) = eventAt(req[r], other)
    BY <1>10
  <2>4. /\ x \in EventIds \cup {null} /\ shows(x, b, other)
        /\ served(b) <=> eventOf(bookings[b], other) # null
        /\ during(q, b, MadePcs(other)) => x # null
        /\ x # null => calendar[x].startTime = bookings[b].startTime
    BY <1>3, <2>1, <2>2, <2>3 DEF Agrees
  <2>5. LeftAlone(b, other)
    BY <1>8, <1>10
  <2>6. shows(x, b, other)'
        /\ (x # null => calendar'[x].startTime = bookings[b].startTime)
    BY <2>4, <2>5 DEF shows, LeftAlone
  <2>7. Agrees(req[r], b, other)'
    BY <1>1, <2>1, <2>2, <2>4, <2>6 DEF Agrees, served
  <2>8. Sparing(req[r], b, other)'
    BY <1>1, <1>3, <2>1, <2>5 DEF Sparing, LeftAlone
  <2> QED BY <2>7, <2>8
<1>11. \A f \in EventIds :
         calendar'[f].state # "ABSENT" =>
           \/ calendar'[f].bookingId \in BookingIds
           \/ /\ calendar[f].state # "ABSENT"
              /\ calendar'[f].bookingId = calendar[f].bookingId
  BY <1>7
<1> QED BY <1>1, <1>8, <1>9, <1>10, <1>11, AlikeAll, StepCalendar DEF during

\* A request that has nothing in its hands is over.
LEMMA FinishCalendar ==
  ASSUME Solo, TypeOK, CalendarInv, NEW r \in Workers, calendar' = calendar,
         bookings' = bookings, req[r].id \in BookingIds, finish(r),
         \A who \in Parties :
           req[r].pc \notin MadePcs(who) \cup DroppedPcs(who) \cup LatePcs(who)
  PROVE  CalendarInv'
<1>1. PICK b \in BookingIds : b = req[r].id
  OBVIOUS
<1>2. req'[r] = Idle
  BY EnterShape DEF finish, TypeOK
<1>3. ASSUME NEW who \in Parties
      PROVE  Agrees(req[r], b, who)' /\ Sparing(req[r], b, who)'
  <2>1. Agrees(req[r], b, who) /\ Sparing(req[r], b, who)
    BY DEF CalendarInv
  <2>2. /\ ~during(req[r], b, MadePcs(who))
        /\ ~during(req[r], b, DroppedPcs(who))
        /\ ~during(req[r], b, LatePcs(who))
        /\ ~during(Idle, b, MadePcs(who))
        /\ ~during(Idle, b, DroppedPcs(who))
        /\ ~during(Idle, b, ReadPcs(who)) /\ ~during(Idle, b, DatedPcs)
    BY DEF during, Idle, MadePcs, DroppedPcs, ReadPcs, LatePcs, DatedPcs
  <2>3. Agrees(req[r], b, who)'
    BY <1>2, <2>1, <2>2 DEF Agrees, served, shows, isFor
  <2> QED BY <2>1, <2>2, <2>3 DEF Sparing, isFor
<1>4. \A c \in BookingIds \ {b} :
        ~during(req[r], c, EventPcs) /\ ~during(req'[r], c, EventPcs)
  BY <1>1, <1>2 DEF during, Idle, EventPcs, DatedPcs
<1> QED BY <1>3, <1>4, AlikeAll, SameCalendar, StepCalendar DEF CalendarInv

LEMMA GotoFields ==
  ASSUME TypeOK, NEW r \in Workers, NEW pc, goto(r, pc)
  PROVE  /\ req'[r].pc = pc
         /\ req'[r].id = req[r].id
         /\ req'[r].startTime = req[r].startTime
         /\ req'[r].providerEvent = req[r].providerEvent
         /\ req'[r].clientEvent = req[r].clientEvent
<1>1. req[r] \in RequestRecord
  BY RequestCarries DEF TypeOK
<1> QED BY <1>1 DEF TypeOK, RequestsTypeOK, goto, RequestRecord

\* confirm:update: the row gets the events that were made for it.
LEMMA ConfirmUpdateCalendar ==
  ASSUME Calm, TypeOK, PaidInv, AgendaInv, SoloInv, CalmInv, CalendarInv,
         NEW r \in Workers, confirmUpdate(r)
  PROVE  CalendarInv'
<1>1. Solo
  BY DEF Calm
<1>0. PICK b \in BookingIds : b = req[r].id
  BY RequestRow DEF confirmUpdate, at, NoBookingPcs
<1> DEFINE row == confirmed(bookings[b], r)
<1>2. /\ req[r].pc = "confirm:update" /\ calendar' = calendar
      /\ bookings[b] \in Booking /\ req[r] \in RequestRecord
  BY <1>0, RequestRow DEF confirmUpdate, at, NoBookingPcs
<1>3. /\ bookings[b].status = "PENDING_PAYMENT"
      /\ bookings[b].paymentIntentId = req[r].intent
      /\ req[r].intent \in Intents
  BY <1>0, <1>2, RequestCarries
  DEF SoloInv, Checked, CalmInv, ConfirmingPcs, TypeOK, PaymentPcs, ConfirmPcs,
      FailedPcs
<1>4. \A c \in BookingIds :
        bookings[c].paymentIntentId = req[r].intent => c = b
  BY <1>2, <1>3 DEF PaidInv, IntentOwnership
<1>5. /\ bookingUpdate(b, row)
      /\ enter(r, [Idle EXCEPT !.pc = "confirm:mailBooking", !.id = b,
                               !.intent = req[r].intent])
  BY <1>0, <1>2, <1>3, <1>4 DEF confirmUpdate
<1>6. /\ row.status = "CONFIRMED"
      /\ row.startTime = bookings[b].startTime
      /\ \A who \in Parties : eventOf(row, who) = eventAt(req[r], who)
  BY <1>2 DEF confirmed, Booking, eventOf, eventAt
<1>7. req'[r].pc = "confirm:mailBooking"
  BY <1>5 DEF enter, TypeOK, RequestsTypeOK, Idle
<1> HIDE DEF row
<1>8. /\ bookings'[b] = row
      /\ \A c \in BookingIds \ {b} : bookings'[c] = bookings[c]
  BY <1>2, <1>5, BookingShape DEF TypeOK
<1>9. ASSUME NEW who \in Parties
      PROVE  Agrees(req[r], b, who)' /\ Sparing(req[r], b, who)'
  <2>1. Agrees(req[r], b, who) /\ Sparing(req[r], b, who)
    BY <1>2 DEF CalendarInv
  <2>2. /\ during(req[r], b, MadePcs(who))
        /\ ~during(req[r], b, LatePcs(who))
        /\ ~during(req'[r], b, MadePcs(who))
        /\ ~during(req'[r], b, DroppedPcs(who))
        /\ ~during(req'[r], b, ReadPcs(who))
        /\ ~during(req'[r], b, DatedPcs)
    BY <1>0, <1>2, <1>7
    DEF during, MadePcs, DroppedPcs, ReadPcs, LatePcs, DatedPcs
  <2>3. PICK x : x = eventAt(req[r], who)
    OBVIOUS
  <2>4. /\ x \in EventIds /\ x # null /\ shows(x, b, who)
        /\ calendar[x].startTime = bookings[b].startTime
    BY <2>1, <2>2, <2>3 DEF Agrees
  <2>5. served(b)' /\ eventOf(bookings'[b], who) = x
    BY <1>6, <1>8, <2>3 DEF served
  <2>6. Agrees(req[r], b, who)'
    BY <1>2, <1>6, <1>8, <2>2, <2>4, <2>5 DEF Agrees, shows, isFor
  <2>7. Sparing(req[r], b, who)'
    BY <1>2, <1>6, <1>8, <2>1 DEF Sparing, isFor
  <2> QED BY <2>6, <2>7
<1>10. \A c \in BookingIds \ {b} :
         /\ ~during(req[r], c, EventPcs) /\ ~during(req'[r], c, EventPcs)
         /\ Alike(c)
  <2>1. req'[r].pc \notin EventPcs
    BY <1>7 DEF EventPcs, DatedPcs
  <2> QED BY <1>0, <1>8, <2>1 DEF during, Alike, served
<1> QED BY <1>1, <1>2, <1>9, <1>10, SameCalendar, StepCalendar DEF CalendarInv

LEMMA ConfirmCalendar ==
  ASSUME Calm, GoogleAnswers, TypeOK, PaidInv, AgendaInv, SoloInv, CalmInv,
         CalendarInv, NEW r \in Workers, Confirm(r)
  PROVE  CalendarInv'
<1>1. Solo
  BY DEF Calm
<1>2. req[r].id \in BookingIds /\ req[r] \in RequestRecord
  <2>1. req[r].pc \notin NoBookingPcs
    BY DEF Confirm, confirmFindPayment, confirmCreatePayment,
           confirmProviderEvent, confirmClientEvent, confirmUpdate,
           confirmMailBooking, confirmMailPayment, webhookMail, webhookAnswer,
           at, NoBookingPcs
  <2> QED BY <2>1, RequestRow
<1>0. PICK b \in BookingIds : b = req[r].id
  BY <1>2
<1>3. \A who \in Parties : Agrees(req[r], b, who)
  BY <1>2 DEF CalendarInv
<1>4. req[r].pc \in DatedPcs => req[r].startTime = bookings[b].startTime
  BY <1>0, <1>3 DEF Agrees, during, Parties
<1>5. req[r].pc \in ConfirmingPcs => bookings[b].status = "PENDING_PAYMENT"
  BY <1>0 DEF CalmInv
<1>6. CASE confirmFindPayment(r) \/ confirmCreatePayment(r)
  <2>1. /\ calendar' = calendar /\ bookings' = bookings
        /\ req[r].pc \in {"confirm:findPayment", "confirm:createPayment"}
        /\ \/ \E pc \in {"confirm:createPayment", "confirm:providerEvent"} :
                goto(r, pc)
           \/ finish(r)
    BY <1>6 DEF confirmFindPayment, confirmCreatePayment, at, paymentCreate,
                tables
  <2>2. ASSUME NEW pc \in {"confirm:createPayment", "confirm:providerEvent"},
               goto(r, pc)
        PROVE  CalendarInv'
    <3>1. \A who \in Parties :
            /\ {req[r].pc, pc} \cap (MadePcs(who) \cup DroppedPcs(who)) = {}
            /\ req[r].pc \notin LatePcs(who) /\ pc \notin ReadPcs(who)
      BY <2>1 DEF MadePcs, DroppedPcs, LatePcs, ReadPcs
    <3>2. req[r].pc \in DatedPcs
      BY <2>1 DEF DatedPcs
    <3> QED BY <1>1, <1>2, <1>4, <2>1, <2>2, <3>1, <3>2, GotoFields,
               GoOnCalendar, <1>0
  <2>3. CASE finish(r)
    <3>1. \A who \in Parties :
            req[r].pc \notin MadePcs(who) \cup DroppedPcs(who) \cup LatePcs(who)
      BY <2>1 DEF MadePcs, DroppedPcs, LatePcs
    <3> QED BY <1>1, <1>2, <2>1, <2>3, <3>1, FinishCalendar
  <2> QED BY <2>1, <2>2, <2>3
<1>7. CASE confirmProviderEvent(r)
  <2>1. PICK e \in EventIds \cup {null} :
          /\ createEvent(e, b, "provider", req[r].startTime)
          /\ enter(r, [req[r] EXCEPT !.pc = "confirm:clientEvent",
                                     !.providerEvent = e])
    BY <1>0, <1>7 DEF confirmProviderEvent
  <2> DEFINE q == [req[r] EXCEPT !.pc = "confirm:clientEvent",
                                 !.providerEvent = e]
  <2>2. /\ q.pc = "confirm:clientEvent" /\ q.id = b
        /\ q.startTime = req[r].startTime
        /\ eventAt(q, "provider") = e
        /\ eventAt(q, "client") = eventAt(req[r], "client")
    BY <1>0, <1>2 DEF RequestRecord, eventAt
  <2>3. enter(r, q)
    BY <2>1
  <2> HIDE DEF q
  <2>4. req[r].pc = "confirm:providerEvent" /\ bookings' = bookings
    BY <1>7 DEF confirmProviderEvent, at, tables
  <2>5. /\ bookings[b].status = "PENDING_PAYMENT"
        /\ req[r].startTime = bookings[b].startTime
    BY <1>4, <1>5, <2>4 DEF ConfirmingPcs, DatedPcs
  <2>6. /\ "provider" \in Parties /\ Parties \ {"provider"} = {"client"}
        /\ req[r].pc \notin MadePcs("provider") \cup DroppedPcs("provider")
                              \cup LatePcs("provider")
        /\ q.pc \in MadePcs("provider")
        /\ ~(q.pc \in MadePcs("client")) /\ ~(req[r].pc \in MadePcs("client"))
        /\ req[r].pc \notin DroppedPcs("client") \cup LatePcs("client")
    BY <2>2, <2>4 DEF Parties, MadePcs, DroppedPcs, LatePcs
  <2> QED BY <1>1, <1>2, <2>1, <2>2, <2>3, <2>4, <2>5, <2>6, MakeCalendar, <1>0
<1>8. CASE confirmClientEvent(r)
  <2>1. PICK e \in EventIds \cup {null} :
          /\ createEvent(e, b, "client", req[r].startTime)
          /\ enter(r, [req[r] EXCEPT !.pc = "confirm:update", !.startTime = 0,
                                     !.clientEvent = e])
    BY <1>0, <1>8 DEF confirmClientEvent
  <2> DEFINE q == [req[r] EXCEPT !.pc = "confirm:update", !.startTime = 0,
                                 !.clientEvent = e]
  <2>2. /\ q.pc = "confirm:update" /\ q.id = b
        /\ eventAt(q, "client") = e
        /\ eventAt(q, "provider") = eventAt(req[r], "provider")
    BY <1>0, <1>2 DEF RequestRecord, eventAt
  <2>3. enter(r, q)
    BY <2>1
  <2> HIDE DEF q
  <2>4. req[r].pc = "confirm:clientEvent" /\ bookings' = bookings
    BY <1>8 DEF confirmClientEvent, at, tables
  <2>5. /\ bookings[b].status = "PENDING_PAYMENT"
        /\ req[r].startTime = bookings[b].startTime
    BY <1>4, <1>5, <2>4 DEF ConfirmingPcs, DatedPcs
  <2>6. /\ "client" \in Parties /\ Parties \ {"client"} = {"provider"}
        /\ req[r].pc \notin MadePcs("client") \cup DroppedPcs("client")
                              \cup LatePcs("client")
        /\ q.pc \in MadePcs("client") /\ q.pc \notin DatedPcs
        /\ q.pc \in MadePcs("provider") /\ req[r].pc \in MadePcs("provider")
        /\ req[r].pc \notin DroppedPcs("provider") \cup LatePcs("provider")
    BY <2>2, <2>4 DEF Parties, MadePcs, DroppedPcs, LatePcs, DatedPcs
  <2> QED BY <1>1, <1>2, <2>1, <2>2, <2>3, <2>4, <2>5, <2>6, MakeCalendar, <1>0
<1>9. CASE confirmUpdate(r)
  BY <1>9, ConfirmUpdateCalendar
<1>10. CASE \/ confirmMailBooking(r) \/ confirmMailPayment(r)
            \/ webhookMail(r) \/ webhookAnswer(r)
  <2>1. {"confirm:mailPayment", "webhook:mail", "confirm:mailBooking",
         "webhook:answer"} \cap EventPcs = {}
    BY DEF EventPcs, DatedPcs
  <2>2. /\ calendar' = calendar /\ bookings' = bookings
        /\ req[r].pc \notin EventPcs
        /\ finish(r) \/ \E pc : pc \notin EventPcs /\ goto(r, pc)
    BY <1>10, <2>1 DEF confirmMailBooking, confirmMailPayment, webhookMail,
                       webhookAnswer, at, tables
  <2> QED BY <1>1, <2>2, AlikeAll, QuietCalendar
<1> QED BY <1>6, <1>7, <1>8, <1>9, <1>10 DEF Confirm

\* The party whose event a call is not about.
LEMMA OtherParty ==
  ASSUME NEW r \in Workers, NEW b \in BookingIds, NEW who \in Parties,
         Agrees(req[r], b, who), Sparing(req[r], b, who),
         bookings' = bookings, LeftAlone(b, who), req[r].id = b,
         req[r].pc \notin MadePcs(who), ~during(req'[r], b, MadePcs(who)),
         during(req'[r], b, DroppedPcs(who)) <=> req[r].pc \in DroppedPcs(who),
         req[r].pc \in LatePcs(who) => during(req'[r], b, LatePcs(who)),
         during(req'[r], b, ReadPcs(who)) =>
           /\ req[r].pc \in ReadPcs(who)
           /\ eventAt(req'[r], who) = eventAt(req[r], who),
         during(req'[r], b, DatedPcs) =>
           req'[r].startTime = bookings[b].startTime
  PROVE  Agrees(req[r], b, who)' /\ Sparing(req[r], b, who)'
<1>1. PICK x : x = IF req[r].pc \in DroppedPcs(who) THEN null
                   ELSE eventOf(bookings[b], who)
  OBVIOUS
<1>2. /\ x \in EventIds \cup {null} /\ shows(x, b, who)
      /\ served(b) <=> eventOf(bookings[b], who) # null
      /\ req[r].pc \in ReadPcs(who) =>
           eventAt(req[r], who) = eventOf(bookings[b], who)
      /\ x # null /\ req[r].pc \notin LatePcs(who) =>
           calendar[x].startTime = bookings[b].startTime
  BY <1>1 DEF Agrees, during
<1>3. /\ shows(x, b, who)'
      /\ x # null => calendar'[x] = calendar[x]
  BY <1>2 DEF shows, LeftAlone
<1>4. Agrees(req[r], b, who)'
  BY <1>1, <1>2, <1>3 DEF Agrees, served
<1>5. Sparing(req[r], b, who)'
  BY DEF Sparing, LeftAlone, during
<1> QED BY <1>4, <1>5

LEMMA OneEventCalendar ==
  ASSUME Solo, CalendarInv, NEW r \in Workers, NEW b \in BookingIds,
         req[r].id = b, req'[r].id = b \/ req'[r].pc = "idle",
         bookings' = bookings, NEW who \in Parties,
         NEW e, \A f \in EventIds \ {e} : calendar'[f] = calendar[f],
         e \in EventIds =>
           /\ isFor(e, b, who)
           /\ calendar'[e].state # "ABSENT"
           /\ calendar'[e].bookingId = calendar[e].bookingId
           /\ calendar'[e].forWhom = calendar[e].forWhom,
         (Agrees(req[r], b, who) /\ Sparing(req[r], b, who))',
         \A other \in Parties \ {who} :
           /\ req[r].pc \notin MadePcs(other)
           /\ ~during(req'[r], b, MadePcs(other))
           /\ during(req'[r], b, DroppedPcs(other)) <=>
                req[r].pc \in DroppedPcs(other)
           /\ req[r].pc \in LatePcs(other) =>
                during(req'[r], b, LatePcs(other))
           /\ during(req'[r], b, ReadPcs(other)) =>
                /\ req[r].pc \in ReadPcs(other)
                /\ eventAt(req'[r], other) = eventAt(req[r], other),
         during(req'[r], b, DatedPcs) =>
           req'[r].startTime = bookings[b].startTime
  PROVE  CalendarInv'
<1>1. \A c \in BookingIds, party \in Parties :
        c # b \/ party # who => LeftAlone(c, party)
  BY DEF LeftAlone, isFor
<1>2. ASSUME NEW other \in Parties, other # who
      PROVE  Agrees(req[r], b, other)' /\ Sparing(req[r], b, other)'
  BY <1>1, <1>2, OtherParty DEF CalendarInv
<1>3. \A f \in EventIds :
        calendar'[f].state # "ABSENT" =>
          \/ calendar'[f].bookingId \in BookingIds
          \/ /\ calendar[f].state # "ABSENT"
             /\ calendar'[f].bookingId = calendar[f].bookingId
  BY DEF isFor
<1>4. \A c \in BookingIds \ {b} :
        ~during(req[r], c, EventPcs) /\ ~during(req'[r], c, EventPcs)
  BY DEF during, EventPcs, DatedPcs
<1> QED BY <1>1, <1>2, <1>3, <1>4, AlikeAll, StepCalendar

\* cancel: the event of one party is deleted, if there is one.
LEMMA DropCalendar ==
  ASSUME Solo, TypeOK, GoogleAnswers, CalendarInv, NEW r \in Workers,
         NEW b \in BookingIds, req[r].id = b, NEW who \in Parties,
         bookings' = bookings, NEW x, x = eventAt(req[r], who),
         IF x = null THEN UNCHANGED calendar ELSE deleteEvent(x),
         req[r].pc \in ReadPcs(who),
         req[r].pc \notin MadePcs(who) \cup DroppedPcs(who) \cup LatePcs(who),
         NEW q, enter(r, q), q.id = b, q.pc \notin DatedPcs,
         q.pc \in DroppedPcs(who),
         q.pc \notin MadePcs(who) \cup ReadPcs(who),
         \A other \in Parties \ {who} :
           /\ {req[r].pc, q.pc} \cap MadePcs(other) = {}
           /\ q.pc \in DroppedPcs(other) <=> req[r].pc \in DroppedPcs(other)
           /\ req[r].pc \notin LatePcs(other)
           /\ q.pc \in ReadPcs(other) => req[r].pc \in ReadPcs(other)
           /\ eventAt(q, other) = eventAt(req[r], other)
  PROVE  CalendarInv'
<1>1. req'[r] = q
  BY EnterShape DEF TypeOK
<1>2. Agrees(req[r], b, who) /\ Sparing(req[r], b, who)
  BY DEF CalendarInv
<1>3. /\ eventOf(bookings[b], who) = x /\ x \in EventIds \cup {null}
      /\ shows(x, b, who) /\ (served(b) <=> x # null)
  BY <1>2 DEF Agrees, during
<1>4. null \notin EventIds
  BY DEF EventIds, null
<1>5. /\ \A f \in EventIds \ {x} : calendar'[f] = calendar[f]
      /\ x \in EventIds =>
           /\ isFor(x, b, who)
           /\ calendar'[x].state = "deleted"
           /\ calendar'[x].bookingId = calendar[x].bookingId
           /\ calendar'[x].forWhom = calendar[x].forWhom
  <2>1. CASE x = null
    BY <1>4, <2>1
  <2>2. CASE x # null
    <3>1. x \in EventIds /\ deleteEvent(x)
      BY <1>3, <2>2
    <3>2. isFor(x, b, who) /\ calendar[x].state = "live"
      BY <1>3, <3>1 DEF shows
    <3> QED BY <3>1, <3>2, DeletedShape
  <2> QED BY <2>1, <2>2
<1>6. shows(null, b, who)'
  BY <1>3, <1>4, <1>5 DEF shows, isFor
<1>7. /\ ~during(q, b, MadePcs(who)) /\ during(q, b, DroppedPcs(who))
      /\ ~during(q, b, ReadPcs(who)) /\ ~during(q, b, DatedPcs)
      /\ ~during(req[r], b, MadePcs(who))
  BY DEF during
<1>8. Agrees(req[r], b, who)'
  BY <1>1, <1>3, <1>6, <1>7 DEF Agrees, served
<1>9. Sparing(req[r], b, who)'
  BY <1>1, <1>2, <1>5, <1>7 DEF Sparing, isFor
<1> QED BY <1>1, <1>5, <1>8, <1>9, OneEventCalendar DEF during

\* reschedule: the event of one party is moved, if there is one.
LEMMA MoveCalendar ==
  ASSUME Solo, TypeOK, GoogleAnswers, CalendarInv, NEW r \in Workers,
         NEW b \in BookingIds, req[r].id = b, NEW who \in Parties,
         bookings' = bookings, NEW x, x = eventAt(req[r], who),
         IF x = null THEN UNCHANGED calendar
                     ELSE updateEvent(x, req[r].startTime),
         req[r].pc \in ReadPcs(who) \cap DatedPcs,
         req[r].pc \notin MadePcs(who) \cup DroppedPcs(who),
         req'[r].id = b \/ req'[r].pc = "idle",
         req'[r].pc \notin MadePcs(who) \cup DroppedPcs(who) \cup LatePcs(who),
         req'[r].pc \in ReadPcs(who) =>
           eventAt(req'[r], who) = eventAt(req[r], who),
         req'[r].pc \in DatedPcs => req'[r].startTime = req[r].startTime,
         \A other \in Parties \ {who} :
           /\ {req[r].pc, req'[r].pc}
                \cap (MadePcs(other) \cup DroppedPcs(other)) = {}
           /\ req[r].pc \in LatePcs(other) =>
                req'[r].id = b /\ req'[r].pc \in LatePcs(other)
           /\ req'[r].pc \in ReadPcs(other) =>
                /\ req[r].pc \in ReadPcs(other)
                /\ eventAt(req'[r], other) = eventAt(req[r], other)
  PROVE  CalendarInv'
<1>2. Agrees(req[r], b, who) /\ Sparing(req[r], b, who)
  BY DEF CalendarInv
<1>3. /\ eventOf(bookings[b], who) = x /\ x \in EventIds \cup {null}
      /\ shows(x, b, who) /\ (served(b) <=> x # null)
      /\ req[r].startTime = bookings[b].startTime
  BY <1>2 DEF Agrees, during
<1>4. null \notin EventIds
  BY DEF EventIds, null
<1>5. /\ \A f \in EventIds \ {x} : calendar'[f] = calendar[f]
      /\ x \in EventIds =>
           /\ isFor(x, b, who)
           /\ calendar'[x].state = "live"
           /\ calendar'[x].startTime = bookings[b].startTime
           /\ calendar'[x].bookingId = calendar[x].bookingId
           /\ calendar'[x].forWhom = calendar[x].forWhom
  <2>1. CASE x = null
    BY <1>4, <2>1
  <2>2. CASE x # null
    <3>1. x \in EventIds /\ updateEvent(x, req[r].startTime)
      BY <1>3, <2>2
    <3>2. isFor(x, b, who) /\ calendar[x].state = "live"
      BY <1>3, <3>1 DEF shows
    <3>3. req[r].startTime \in Nat
      BY RequestCarries DEF TypeOK, RequestRecord
    <3> QED BY <1>3, <3>1, <3>2, <3>3, MovedShape
  <2> QED BY <2>1, <2>2
<1>6. shows(x, b, who)'
  BY <1>3, <1>4, <1>5 DEF shows, isFor
<1>7. /\ ~during(req'[r], b, MadePcs(who))
      /\ ~during(req'[r], b, DroppedPcs(who))
      /\ ~during(req'[r], b, LatePcs(who))
      /\ ~during(req[r], b, MadePcs(who))
  BY DEF during
<1>8. during(req'[r], b, DatedPcs) => req'[r].startTime = bookings[b].startTime
  BY <1>3 DEF during
<1>9. during(req'[r], b, ReadPcs(who)) => eventAt(req'[r], who) = x
  BY DEF during
<1>10. x # null => calendar'[x].startTime = bookings[b].startTime
  BY <1>3, <1>5
<1>11. Agrees(req[r], b, who)'
  BY <1>3, <1>6, <1>7, <1>8, <1>9, <1>10 DEF Agrees, served
<1>12. Sparing(req[r], b, who)'
  BY <1>2, <1>5, <1>7 DEF Sparing, isFor
<1> QED BY <1>5, <1>8, <1>11, <1>12, OneEventCalendar DEF during

\* cancel:update: the row forgets the events that have been deleted.
LEMMA CancelUpdateCalendar ==
  ASSUME Solo, TypeOK, AgendaInv, CalendarInv, NEW r \in Workers,
         cancelUpdate(r)
  PROVE  CalendarInv'
<1>0. PICK b \in BookingIds : b = req[r].id
  BY RequestRow DEF cancelUpdate, at, NoBookingPcs
<1> DEFINE row == [bookings[b] EXCEPT !.status = "CANCELLED",
                     !.providerGoogleEventId = null,
                     !.clientGoogleEventId = null]
<1>1. /\ req[r].pc = "cancel:update" /\ calendar' = calendar
      /\ bookings[b] \in Booking
      /\ bookingUpdate(b, row) /\ goto(r, "cancel:mail")
  BY <1>0, RequestRow DEF cancelUpdate, at, NoBookingPcs
<1>2. /\ row.status = "CANCELLED"
      /\ \A who \in Parties : eventOf(row, who) = null
  BY <1>1 DEF Booking, eventOf
<1>3. req'[r].pc = "cancel:mail"
  BY <1>1, GotoFields
<1> HIDE DEF row
<1>4. /\ bookings'[b] = row
      /\ \A c \in BookingIds \ {b} : bookings'[c] = bookings[c]
  BY <1>1, BookingShape DEF TypeOK
<1>5. ASSUME NEW who \in Parties
      PROVE  Agrees(req[r], b, who)' /\ Sparing(req[r], b, who)'
  <2>1. Agrees(req[r], b, who) /\ Sparing(req[r], b, who)
    BY DEF CalendarInv
  <2>2. /\ ~during(req[r], b, MadePcs(who))
        /\ during(req[r], b, DroppedPcs(who))
        /\ ~during(req'[r], b, MadePcs(who))
        /\ ~during(req'[r], b, DroppedPcs(who))
        /\ ~during(req'[r], b, ReadPcs(who))
        /\ ~during(req'[r], b, DatedPcs)
    BY <1>0, <1>1, <1>3
    DEF during, MadePcs, DroppedPcs, ReadPcs, LatePcs, DatedPcs
  <2>3. shows(null, b, who)
    BY <2>1, <2>2 DEF Agrees
  <2>4. ~served(b)' /\ eventOf(bookings'[b], who) = null
    BY <1>2, <1>4 DEF served
  <2>5. Agrees(req[r], b, who)'
    BY <1>1, <2>2, <2>3, <2>4 DEF Agrees, shows, isFor
  <2>6. Sparing(req[r], b, who)'
    BY <1>1, <1>2, <1>4, <2>1 DEF Sparing, isFor
  <2> QED BY <2>5, <2>6
<1>6. \A c \in BookingIds \ {b} :
        /\ ~during(req[r], c, EventPcs) /\ ~during(req'[r], c, EventPcs)
        /\ Alike(c)
  <2>1. req'[r].pc \notin EventPcs
    BY <1>3 DEF EventPcs, DatedPcs
  <2> QED BY <1>0, <1>4, <2>1 DEF during, Alike, served
<1> QED BY <1>1, <1>5, <1>6, SameCalendar, StepCalendar DEF CalendarInv

LEMMA CancelCalendar ==
  ASSUME Solo, GoogleAnswers, TypeOK, AgendaInv, CalendarInv,
         NEW r \in Workers, Cancel(r)
  PROVE  CalendarInv'
<1>1. req[r].id \in BookingIds /\ req[r] \in RequestRecord
  <2>1. req[r].pc \notin NoBookingPcs
    BY DEF Cancel, cancelProviderEvent, cancelClientEvent, cancelUpdate,
           cancelMail, at, NoBookingPcs
  <2> QED BY <2>1, RequestRow
<1>2. CASE cancelProviderEvent(r)
  <2> DEFINE q == [req[r] EXCEPT !.pc = "cancel:clientEvent",
                                 !.providerEvent = null]
             x == req[r].providerEvent
  <2>1. /\ req[r].pc = "cancel:providerEvent" /\ bookings' = bookings
        /\ IF x = null THEN UNCHANGED calendar ELSE deleteEvent(x)
        /\ enter(r, q)
    BY <1>2 DEF cancelProviderEvent, at, tables
  <2>2. /\ q.pc = "cancel:clientEvent" /\ q.id = req[r].id
        /\ eventAt(q, "client") = eventAt(req[r], "client")
        /\ x = eventAt(req[r], "provider")
    BY <1>1 DEF RequestRecord, eventAt
  <2> HIDE DEF q, x
  <2>3. /\ "provider" \in Parties /\ Parties \ {"provider"} = {"client"}
        /\ req[r].pc \in ReadPcs("provider") /\ req[r].pc \in ReadPcs("client")
        /\ q.pc \in DroppedPcs("provider") /\ q.pc \notin DatedPcs
        /\ req[r].pc \notin MadePcs("provider") \cup DroppedPcs("provider")
                              \cup LatePcs("provider")
        /\ q.pc \notin MadePcs("provider") \cup ReadPcs("provider")
        /\ {req[r].pc, q.pc} \cap MadePcs("client") = {}
        /\ q.pc \notin DroppedPcs("client")
        /\ req[r].pc \notin DroppedPcs("client") \cup LatePcs("client")
    BY <2>1, <2>2
    DEF Parties, MadePcs, DroppedPcs, ReadPcs, LatePcs, DatedPcs
  <2> QED BY <1>1, <2>1, <2>2, <2>3, DropCalendar
<1>3. CASE cancelClientEvent(r)
  <2> DEFINE q == [req[r] EXCEPT !.pc = "cancel:update", !.clientEvent = null]
             x == req[r].clientEvent
  <2>1. /\ req[r].pc = "cancel:clientEvent" /\ bookings' = bookings
        /\ IF x = null THEN UNCHANGED calendar ELSE deleteEvent(x)
        /\ enter(r, q)
    BY <1>3 DEF cancelClientEvent, at, tables
  <2>2. /\ q.pc = "cancel:update" /\ q.id = req[r].id
        /\ eventAt(q, "provider") = eventAt(req[r], "provider")
        /\ x = eventAt(req[r], "client")
    BY <1>1 DEF RequestRecord, eventAt
  <2> HIDE DEF q, x
  <2>3. /\ "client" \in Parties /\ Parties \ {"client"} = {"provider"}
        /\ req[r].pc \in ReadPcs("client") /\ q.pc \notin ReadPcs("provider")
        /\ q.pc \in DroppedPcs("client") /\ q.pc \notin DatedPcs
        /\ req[r].pc \notin MadePcs("client") \cup DroppedPcs("client")
                              \cup LatePcs("client")
        /\ q.pc \notin MadePcs("client") \cup ReadPcs("client")
        /\ {req[r].pc, q.pc} \cap MadePcs("provider") = {}
        /\ {req[r].pc, q.pc} \subseteq DroppedPcs("provider")
        /\ req[r].pc \notin LatePcs("provider")
    BY <2>1, <2>2
    DEF Parties, MadePcs, DroppedPcs, ReadPcs, LatePcs, DatedPcs
  <2> QED BY <1>1, <2>1, <2>2, <2>3, DropCalendar
<1>4. CASE cancelUpdate(r)
  BY <1>4, CancelUpdateCalendar
<1>5. CASE cancelMail(r)
  <2>1. /\ calendar' = calendar /\ bookings' = bookings /\ finish(r)
        /\ req[r].pc \notin EventPcs
    BY <1>5 DEF cancelMail, at, tables, EventPcs, DatedPcs
  <2> QED BY <2>1, AlikeAll, QuietCalendar
<1> QED BY <1>2, <1>3, <1>4, <1>5 DEF Cancel

LEMMA CompleteCalendar ==
  ASSUME Solo, TypeOK, AgendaInv, SoloInv, CalendarInv, NEW r \in Workers,
         Complete(r)
  PROVE  CalendarInv'
<1>0. PICK b \in BookingIds : b = req[r].id
  BY RequestRow DEF Complete, completeUpdate, at, NoBookingPcs
<1> DEFINE row == [bookings[b] EXCEPT !.status = "COMPLETED",
                                      !.completedAt = TRUE]
<1>1. /\ req[r].pc = "complete:update" /\ calendar' = calendar
      /\ bookings[b] \in Booking /\ bookingUpdate(b, row) /\ finish(r)
  BY <1>0, RequestRow DEF Complete, completeUpdate, at, NoBookingPcs
<1>2. bookings[b].status = "CONFIRMED"
  BY <1>0, <1>1 DEF SoloInv, Checked, FailedPcs
<1>3. /\ row.status = "COMPLETED"
      /\ row.startTime = bookings[b].startTime
      /\ row.providerGoogleEventId = bookings[b].providerGoogleEventId
      /\ row.clientGoogleEventId = bookings[b].clientGoogleEventId
  BY <1>1 DEF Booking
<1> HIDE DEF row
<1>4. \A c \in BookingIds : bookings'[c] = IF c = b THEN row ELSE bookings[c]
  BY <1>1, BookingShape DEF TypeOK
<1>5. \A c \in BookingIds : Alike(c)
  BY <1>2, <1>3, <1>4 DEF Alike, served
<1>6. req[r].pc \notin EventPcs
  BY <1>1 DEF EventPcs, DatedPcs
<1> QED BY <1>1, <1>5, <1>6, QuietCalendar

LEMMA ReviewCalendar ==
  ASSUME Solo, TypeOK, CalendarInv, NEW r \in Workers, Review(r)
  PROVE  CalendarInv'
<1>1. "review:insert" \notin EventPcs
  BY DEF EventPcs, DatedPcs
<1>2. /\ calendar' = calendar /\ bookings' = bookings
      /\ req[r].pc \notin EventPcs
      /\ finish(r) \/ goto(r, "review:insert")
  BY DEF Review, reviewFind, reviewInsert, at, tables, EventPcs, DatedPcs
<1> QED BY <1>1, <1>2, AlikeAll, QuietCalendar

\* reschedule:update: until the events are moved, the calendars are late.
LEMMA RescheduleUpdateCalendar ==
  ASSUME Solo, TypeOK, AgendaInv, CalendarInv, NEW r \in Workers,
         rescheduleUpdate(r),
         ~startTimeTaken(req[r].id, req[r].providerId, req[r].startTime)
  PROVE  CalendarInv'
<1>0. PICK b \in BookingIds : b = req[r].id
  BY RequestRow DEF rescheduleUpdate, at, NoBookingPcs
<1> DEFINE row == [bookings[b] EXCEPT !.startTime = req[r].startTime,
                                      !.endTime = req[r].endTime]
<1>1. /\ req[r].pc = "reschedule:update" /\ calendar' = calendar
      /\ bookings[b] \in Booking
      /\ bookingUpdate(b, row) /\ goto(r, "reschedule:readBack")
  BY <1>0, RequestRow DEF rescheduleUpdate, at, NoBookingPcs
<1>2. /\ row.status = bookings[b].status
      /\ \A who \in Parties : eventOf(row, who) = eventOf(bookings[b], who)
  BY <1>1 DEF Booking, eventOf
<1>3. /\ req'[r].pc = "reschedule:readBack" /\ req'[r].id = b
      /\ \A who \in Parties : eventAt(req'[r], who) = eventAt(req[r], who)
  BY <1>0, <1>1, GotoFields DEF eventAt
<1> HIDE DEF row
<1>4. /\ bookings'[b] = row
      /\ \A c \in BookingIds \ {b} : bookings'[c] = bookings[c]
  BY <1>1, BookingShape DEF TypeOK
<1>5. ASSUME NEW who \in Parties
      PROVE  Agrees(req[r], b, who)' /\ Sparing(req[r], b, who)'
  <2>1. Agrees(req[r], b, who) /\ Sparing(req[r], b, who)
    BY DEF CalendarInv
  <2>2. /\ ~during(req[r], b, MadePcs(who))
        /\ ~during(req[r], b, DroppedPcs(who))
        /\ during(req[r], b, ReadPcs(who))
        /\ ~during(req'[r], b, MadePcs(who))
        /\ ~during(req'[r], b, DroppedPcs(who))
        /\ during(req'[r], b, LatePcs(who))
        /\ ~during(req'[r], b, DatedPcs)
    BY <1>0, <1>1, <1>3
    DEF during, MadePcs, DroppedPcs, ReadPcs, LatePcs, DatedPcs
  <2>3. PICK x : x = eventOf(bookings[b], who)
    OBVIOUS
  <2>4. /\ x \in EventIds \cup {null} /\ shows(x, b, who)
        /\ (served(b) <=> x # null) /\ eventAt(req[r], who) = x
    BY <2>1, <2>2, <2>3 DEF Agrees
  <2>5. (served(b)' <=> served(b)) /\ eventOf(bookings'[b], who) = x
    BY <1>2, <1>4, <2>3 DEF served
  <2>6. Agrees(req[r], b, who)'
    BY <1>1, <1>3, <2>2, <2>4, <2>5 DEF Agrees, shows, isFor
  <2>7. Sparing(req[r], b, who)'
    BY <1>1, <1>2, <1>4, <2>1, <2>2 DEF Sparing, isFor
  <2> QED BY <2>6, <2>7
<1>6. \A c \in BookingIds \ {b} :
        /\ ~during(req[r], c, EventPcs) /\ ~during(req'[r], c, EventPcs)
        /\ Alike(c)
  BY <1>0, <1>3, <1>4 DEF during, Alike, served
<1> QED BY <1>1, <1>5, <1>6, SameCalendar, StepCalendar DEF CalendarInv

LEMMA RescheduleCalendar ==
  ASSUME Solo, GoogleAnswers, TypeOK, AgendaInv, CalendarInv,
         NEW r \in Workers, Reschedule(r)
  PROVE  CalendarInv'
<1>1. req[r].id \in BookingIds /\ req[r] \in RequestRecord
  <2>1. req[r].pc \notin NoBookingPcs
    BY DEF Reschedule, rescheduleCheck, rescheduleUpdate, rescheduleReadBack,
           rescheduleProviderEvent, rescheduleClientEvent, at, NoBookingPcs
  <2> QED BY <2>1, RequestRow
<1>0. PICK b \in BookingIds : b = req[r].id
  BY <1>1
<1>2. ASSUME req[r].pc \in {"reschedule:check", "reschedule:update"},
             calendar' = calendar, bookings' = bookings, finish(r)
      PROVE  CalendarInv'
  <2>1. \A who \in Parties :
          req[r].pc \notin MadePcs(who) \cup DroppedPcs(who) \cup LatePcs(who)
    BY <1>2 DEF MadePcs, DroppedPcs, LatePcs
  <2> QED BY <1>1, <1>2, <2>1, FinishCalendar
<1>3. CASE rescheduleCheck(r)
  <2>1. /\ req[r].pc = "reschedule:check"
        /\ calendar' = calendar /\ bookings' = bookings
        /\ goto(r, "reschedule:update") \/ finish(r)
    BY <1>3 DEF rescheduleCheck, at, tables
  <2>2. CASE goto(r, "reschedule:update")
    <3>1. \A who \in Parties :
            /\ {"reschedule:check", "reschedule:update"}
                 \cap (MadePcs(who) \cup DroppedPcs(who)) = {}
            /\ "reschedule:check" \notin LatePcs(who)
            /\ "reschedule:check" \in ReadPcs(who)
      BY DEF MadePcs, DroppedPcs, LatePcs, ReadPcs
    <3>2. "reschedule:update" \notin DatedPcs
      BY DEF DatedPcs
    <3> QED BY <1>1, <2>1, <2>2, <3>1, <3>2, GotoFields, GoOnCalendar
  <2> QED BY <1>2, <2>1, <2>2
<1>4. CASE rescheduleUpdate(r)
  <2>1. CASE startTimeTaken(req[r].id, req[r].providerId, req[r].startTime)
    BY <1>2, <1>4, <2>1 DEF rescheduleUpdate, at, tables
  <2>2. CASE ~startTimeTaken(req[r].id, req[r].providerId, req[r].startTime)
    BY <1>4, <2>2, RescheduleUpdateCalendar
  <2> QED BY <2>1, <2>2
<1>5. CASE rescheduleReadBack(r)
  <2> DEFINE q == [req[r] EXCEPT !.pc = "reschedule:providerEvent",
                     !.startTime = bookings[req[r].id].startTime,
                     !.endTime = 0, !.providerId = null]
  <2>1. /\ req[r].pc = "reschedule:readBack" /\ enter(r, q)
        /\ calendar' = calendar /\ bookings' = bookings
    BY <1>5 DEF rescheduleReadBack, at, tables
  <2>2. /\ q.pc = "reschedule:providerEvent" /\ q.id = req[r].id
        /\ q.startTime = bookings[req[r].id].startTime
        /\ q.providerEvent = req[r].providerEvent
        /\ q.clientEvent = req[r].clientEvent
    BY <1>1 DEF RequestRecord
  <2> HIDE DEF q
  <2>3. req'[r] = q
    BY <2>1, EnterShape DEF TypeOK
  <2>4. \A who \in Parties :
          /\ {"reschedule:readBack", "reschedule:providerEvent"}
               \cap (MadePcs(who) \cup DroppedPcs(who)) = {}
          /\ "reschedule:providerEvent" \in LatePcs(who)
          /\ "reschedule:readBack" \in ReadPcs(who)
    BY DEF MadePcs, DroppedPcs, LatePcs, ReadPcs
  <2> QED BY <1>1, <2>1, <2>2, <2>3, <2>4, GoOnCalendar
<1>6. CASE rescheduleProviderEvent(r)
  <2> DEFINE x == req[r].providerEvent
  <2>1. /\ req[r].pc = "reschedule:providerEvent" /\ bookings' = bookings
        /\ IF x = null THEN UNCHANGED calendar
                       ELSE updateEvent(x, req[r].startTime)
        /\ goto(r, "reschedule:clientEvent")
    BY <1>6 DEF rescheduleProviderEvent, at, tables
  <2>2. /\ req'[r].pc = "reschedule:clientEvent" /\ req'[r].id = b
        /\ req'[r].startTime = req[r].startTime
        /\ \A who \in Parties : eventAt(req'[r], who) = eventAt(req[r], who)
    BY <1>0, <2>1, GotoFields DEF eventAt
  <2>3. x = eventAt(req[r], "provider")
    BY DEF eventAt
  <2> HIDE DEF x
  <2>4. /\ "provider" \in Parties /\ Parties \ {"provider"} = {"client"}
        /\ req[r].pc \in ReadPcs("provider") \cap DatedPcs
        /\ req[r].pc \notin MadePcs("provider") \cup DroppedPcs("provider")
        /\ req'[r].pc \notin MadePcs("provider") \cup DroppedPcs("provider")
                               \cup LatePcs("provider")
        /\ {req[r].pc, req'[r].pc}
             \cap (MadePcs("client") \cup DroppedPcs("client")) = {}
        /\ req'[r].pc \in LatePcs("client")
        /\ req[r].pc \in ReadPcs("client")
    BY <2>1, <2>2
    DEF Parties, MadePcs, DroppedPcs, ReadPcs, LatePcs, DatedPcs
  <2> QED BY <1>0, <2>1, <2>2, <2>3, <2>4, MoveCalendar
<1>7. CASE rescheduleClientEvent(r)
  <2> DEFINE x == req[r].clientEvent
  <2>1. /\ req[r].pc = "reschedule:clientEvent" /\ bookings' = bookings
        /\ IF x = null THEN UNCHANGED calendar
                       ELSE updateEvent(x, req[r].startTime)
        /\ finish(r)
    BY <1>7 DEF rescheduleClientEvent, at, tables
  <2>2. req'[r].pc = "idle"
    BY <2>1, FinishShape DEF TypeOK
  <2>3. x = eventAt(req[r], "client")
    BY DEF eventAt
  <2> HIDE DEF x
  <2>4. /\ "client" \in Parties /\ Parties \ {"client"} = {"provider"}
        /\ req[r].pc \in ReadPcs("client") \cap DatedPcs
        /\ req[r].pc \notin MadePcs("client") \cup DroppedPcs("client")
        /\ req'[r].pc \notin DatedPcs
        /\ \A who \in Parties :
             req'[r].pc \notin MadePcs(who) \cup DroppedPcs(who)
                                 \cup LatePcs(who) \cup ReadPcs(who)
        /\ req[r].pc \notin MadePcs("provider") \cup DroppedPcs("provider")
                              \cup LatePcs("provider")
    BY <2>1, <2>2
    DEF Parties, MadePcs, DroppedPcs, ReadPcs, LatePcs, DatedPcs
  <2> QED BY <1>0, <2>1, <2>2, <2>3, <2>4, MoveCalendar
<1> QED BY <1>3, <1>4, <1>5, <1>6, <1>7 DEF Reschedule

LEMMA StepCalendarInv ==
  ASSUME Calm, GoogleAnswers, TypeOK, PaidInv, AgendaInv, SoloInv, CalmInv,
         CalendarInv, [Next]_vars
  PROVE  CalendarInv'
<1>1. Solo
  BY DEF Calm
<1>2. ASSUME NEW r \in Workers,
             \/ Arrive(r) \/ Deliver(r) \/ Create(r) \/ Intent(r)
             \/ Confirm(r) \/ Cancel(r) \/ Complete(r) \/ Reschedule(r)
             \/ Review(r)
      PROVE  CalendarInv'
  BY <1>1, <1>2, ArriveCalendar, DeliverCalendar, CreateCalendar,
     IntentCalendar, ConfirmCalendar, CancelCalendar, CompleteCalendar,
     RescheduleCalendar, ReviewCalendar
<1>3. ASSUME NEW r \in Workers, Failed(r) \/ fail(r)
      PROVE  CalendarInv'
  BY <1>3 DEF Failed, failedUpdate, failedAnswer, at, SoloInv, Checked,
      FailedPcs, fail, Calm, Undisturbed, CalmInv
<1>4. CASE crash
  BY <1>4 DEF crash, Calm, Undisturbed, CalmInv
<1>5. CASE Customer \/ tick \/ Admin \/ UNCHANGED vars
  <2>1. bookings' = bookings /\ calendar' = calendar /\ req' = req
    BY <1>5 DEF Customer, tick, Admin, paymentRemove, reviewRemove, vars,
                tables, process
  <2> QED BY <2>1 DEF CalendarInv, Agrees, Sparing, served, shows, isFor
<1> QED BY <1>2, <1>3, <1>4, <1>5 DEF Next, Proceed

\* When requests are served one at a time, no payment is declined, nothing fails,
\* every event is delivered once, no payment row is deleted and Google answers,
\* a calendar differs from the table only while the handler that is about to
\* bring them together is at work.  A declined payment reported late makes a
\* confirmed booking pending again and leaves its events where they are.
THEOREM CalendarInvHolds ==
  ASSUME OneAtATime, NothingDeclined, Undisturbed, GoogleAnswers
  PROVE  Spec => []CalendarInv
<1>1. Init => CalendarInv
  <2> SUFFICES ASSUME Init PROVE CalendarInv
    OBVIOUS
  <2>1. /\ \A b \in BookingIds : bookings[b] = NoBooking
        /\ \A r \in Workers : req[r] = Idle
        /\ \A e \in EventIds : calendar[e].state = "ABSENT"
    BY DEF Init, TablesInit, RequestsInit, CalendarInit, NoEvent
  <2>2. ASSUME NEW b \in BookingIds, NEW who \in Parties
        PROVE  Agrees(Idle, b, who) /\ Sparing(Idle, b, who)
    <3>1. /\ ~during(Idle, b, MadePcs(who)) /\ ~during(Idle, b, ReadPcs(who))
          /\ ~during(Idle, b, DroppedPcs(who)) /\ ~during(Idle, b, DatedPcs)
      BY DEF during, Idle, MadePcs, DroppedPcs, ReadPcs, LatePcs, DatedPcs
    <3>2. /\ eventOf(bookings[b], who) = null /\ ~served(b)
          /\ \A e \in EventIds : ~isFor(e, b, who)
          /\ null \notin EventIds
      BY <2>1 DEF eventOf, served, isFor, NoBooking, EventIds, null
    <3> QED BY <3>1, <3>2 DEF Agrees, Sparing, shows
  <2> QED BY <2>1, <2>2 DEF CalendarInv
<1>2. Calm /\ Solo
  BY DEF Calm, Solo
<1>3. TypeOK /\ PaidInv /\ AgendaInv /\ SoloInv /\ CalmInv /\ CalendarInv
        /\ [Next]_vars => CalendarInv'
  BY <1>2, StepCalendarInv
<1> QED BY <1>1, <1>2, <1>3, TypeCorrect, PaidInvHolds, AgendaInvHolds,
           SoloInvHolds, CalmInvHolds, PTL DEF Spec

\* ... and when nothing is under way the two calendars then show a booking
\* exactly when it is confirmed or completed, once each and at its current time.
THEOREM CalendarsAgreeHolds ==
  ASSUME OneAtATime, NothingDeclined, Undisturbed, GoogleAnswers, Workers # {}
  PROVE  Spec => []CalendarsAgree
<1>1. CalendarInv => CalendarsAgree
  <2> SUFFICES ASSUME CalendarInv, Quiescent,
                      NEW b \in BookingIds, NEW who \in Parties
               PROVE  LET shown == {e \in EventIds :
                                      /\ calendar[e].state = "live"
                                      /\ calendar[e].bookingId = b
                                      /\ calendar[e].forWhom = who}
                      IN IF served(b)
                         THEN \E e \in shown :
                                /\ shown = {e}
                                /\ calendar[e].startTime = bookings[b].startTime
                         ELSE shown = {}
    BY DEF CalendarsAgree
  <2>1. Agrees(Idle, b, who)
    BY DEF Quiescent, CalendarInv
  <2>2. /\ ~during(Idle, b, MadePcs(who)) /\ ~during(Idle, b, LatePcs(who))
        /\ ~during(Idle, b, DroppedPcs(who))
    BY DEF during, Idle, MadePcs, DroppedPcs, LatePcs
  <2>3. PICK x : x = eventOf(bookings[b], who)
    OBVIOUS
  <2>4. /\ x \in EventIds \cup {null} /\ shows(x, b, who)
        /\ served(b) <=> x # null
        /\ x # null => calendar[x].startTime = bookings[b].startTime
    BY <2>1, <2>2, <2>3 DEF Agrees
  <2>5. null \notin EventIds
    BY DEF EventIds, null
  <2>6. {e \in EventIds : /\ calendar[e].state = "live"
                          /\ calendar[e].bookingId = b
                          /\ calendar[e].forWhom = who} =
          IF x = null THEN {} ELSE {x}
    BY <2>4, <2>5 DEF shows, isFor
  <2> QED BY <2>4, <2>6
<1> QED BY <1>1, CalendarInvHolds, PTL
=============================================================================
