------------------------------- MODULE Backend -------------------------------
(***************************************************************************)
(* The booking back end: every handler that writes the tables shared by    *)
(* bookings, payments and reviews, with the customer, Stripe, the clock    *)
(* and faults around it.                                                   *)
(***************************************************************************)
EXTENDS StripeWebhook, ReviewService

CONSTANT Operations   \* the operations an instance lets happen

AllOperations ==
  {"create", "create-intent", "cancel", "complete", "reschedule", "review",
   "remove-review", "remove-payment", "decline"}

ASSUME OperationsAssumption == Operations \subseteq AllOperations

vars == <<tables, stripe, calendar, mail, process, now>>

Init ==
  TablesInit /\ StripeInit /\ CalendarInit /\ MailInit /\ RequestsInit

---------------------------------------------------------------------------
\* Next

allowed(op) == op \in Operations

\* A request arrives and its first guards let it through.
Arrive(r) ==
  \/ /\ allowed("create")
     /\ \E u \in Clients, p \in Providers, s \in StartTimes, d \in Durations :
          create(r, u, p, s, d)
  \/ /\ allowed("create-intent")
     /\ \E u \in Clients, b \in BookingIds : createPaymentIntent(r, u, b)
  \/ /\ allowed("cancel")
     /\ \E u \in Users, b \in BookingIds : cancel(r, u, b)
  \/ /\ allowed("complete")
     /\ \E u \in Providers, b \in BookingIds : complete(r, u, b)
  \/ /\ allowed("reschedule")
     /\ \E u \in Users, b \in BookingIds, s \in StartTimes, d \in Durations :
          reschedule(r, u, b, s, d)
  \/ /\ allowed("review")
     /\ \E u \in Clients, b \in BookingIds : review(r, u, b)

Deliver(r) == \E i \in Intents : paymentSucceeded(r, i) \/ paymentFailed(r, i)

Create(r) == createInsert(r)

Intent(r) ==
  intentCreate(r) \/ intentPayment(r) \/ intentLink(r) \/ intentRespond(r)

Confirm(r) ==
  \/ confirmFindPayment(r) \/ confirmCreatePayment(r)
  \/ confirmProviderEvent(r) \/ confirmClientEvent(r)
  \/ confirmUpdate(r) \/ confirmMailBooking(r) \/ confirmMailPayment(r)
  \/ webhookMail(r) \/ webhookAnswer(r)

Failed(r) == failedUpdate(r) \/ failedAnswer(r)

Cancel(r) ==
  \/ cancelProviderEvent(r) \/ cancelClientEvent(r)
  \/ cancelUpdate(r) \/ cancelMail(r)

Complete(r) == completeUpdate(r)

Reschedule(r) ==
  \/ rescheduleCheck(r) \/ rescheduleUpdate(r) \/ rescheduleReadBack(r)
  \/ rescheduleProviderEvent(r) \/ rescheduleClientEvent(r)

Review(r) == reviewFind(r) \/ reviewInsert(r)

\* The statement an open request waits for completes and the handler goes on.
Proceed(r) ==
  \/ Create(r) \/ Intent(r) \/ Confirm(r) \/ Failed(r)
  \/ Cancel(r) \/ Complete(r) \/ Reschedule(r) \/ Review(r)

\* The customer at the payment form.
Customer ==
  \E i \in Intents :
    /\ pay(i) \/ (allowed("decline") /\ decline(i))
    /\ UNCHANGED <<tables, calendar, mail, process, now>>

Admin ==
  \E b \in BookingIds :
    \/ allowed("remove-payment") /\ paymentRemove(b)
    \/ allowed("remove-review") /\ reviewRemove(b)

Next ==
  \/ \E r \in Workers : Arrive(r) \/ Deliver(r) \/ Proceed(r) \/ fail(r)
  \/ Customer
  \/ Admin
  \/ crash
  \/ tick

Spec == Init /\ [][Next]_vars

(***************************************************************************)
(* Node runs every continuation whose promise is settled, and Stripe goes  *)
(* on delivering an event until it has been answered with 200.             *)
(***************************************************************************)
Fairness ==
  /\ \A r \in Workers : WF_vars(Proceed(r))
  /\ \A i \in Intents : WF_vars(\E r \in Workers : paymentSucceeded(r, i))

FairSpec == Spec /\ Fairness

TypeOK ==
  /\ TablesTypeOK
  /\ StripeTypeOK
  /\ CalendarTypeOK
  /\ MailTypeOK
  /\ RequestsTypeOK

---------------------------------------------------------------------------
\* Properties

\* No request is open and Stripe waits for no answer.
Quiescent ==
  /\ \A r \in Workers : req[r] = Idle
  /\ \A i \in Intents, type \in EventTypes :
       emitted(i, type) /\ <<i, type>> \notin acked =>
         \A b \in BookingIds : bookings[b].paymentIntentId = i =>
           bookings[b].status = "CANCELLED"

paidFor(b) == \E i \in Intents : intents[i].bookingId = b /\ paid(i)

served(b) == bookings[b].status \in {"CONFIRMED", "COMPLETED"}

\* A booking is confirmed or completed only if a payment intent made for it
\* has been paid, whatever the order of webhooks, cancellations and
\* completions (confirmByPaymentIntent is the only way to CONFIRMED, complete
\* needs CONFIRMED, and intents are never bound to another booking).
ServedOnlyIfPaid ==
  \A b \in BookingIds : served(b) => paidFor(b)

\* No confirmation of a booking or of a payment is ever mailed about a booking
\* that has not been paid, not even by a delivery that looks the booking up by
\* its intent and mails about the row it finds (handlePaymentSucceeded).
MailedOnlyIfPaid ==
  \A b \in BookingIds :
    mail[b]["booking-confirmation"] + mail[b]["payment-confirmed"] > 0 =>
      paidFor(b)

\* The client of a booking never holds the secret of two of its intents, so
\* cannot be charged twice, even if create-intent is called while create is
\* still at work, unless an admin has deleted the payment row in between
\* (payment.create precedes the response and bookingId is unique).
ChargedAtMostOnce ==
  \A i, j \in Intents :
    /\ i # j
    /\ intents[i].bookingId = intents[j].bookingId
    /\ {intents[i].status, intents[j].status} \subseteq {"issued", "succeeded"}
    => intents[i].bookingId \in removed

\* The intent a booking or its payment row names is one made for that booking,
\* so a payment never confirms, and is never filed under, another booking.
IntentOwnership ==
  \A b \in BookingIds, i \in Intents :
    bookings[b].paymentIntentId = i \/ payments[b].paymentIntentId = i =>
      intents[i].bookingId = b

\* A booking and its payment row name the same intent once both name one,
\* unless an admin has deleted the row (confirmByPaymentIntent looks the
\* booking up by one and the payment up by the other).
SameIntent ==
  \A b \in BookingIds \ removed :
    bookings[b].paymentIntentId # null =>
      payments[b].paymentIntentId = bookings[b].paymentIntentId

\* A review belongs to a booking that has been completed and paid, although
\* the status it was checked against may have changed since.
ReviewedOnlyIfCompleted ==
  \A b \in reviews :
    bookings[b].completedAt /\ paidFor(b)

\* Two active bookings of a provider never start together, even when two
\* requests pass validateSlotAvailability at the same time or a webhook
\* brings a cancelled booking back: the index counts cancelled rows.
NoSameStart ==
  \A a, b \in BookingIds :
    a # b /\ active(a) /\ active(b)
          /\ bookings[a].providerId = bookings[b].providerId =>
      bookings[a].startTime # bookings[b].startTime

\* Two active bookings of a provider never overlap ("Verifica por
\* agendamentos sobrepostos", "Time slot is already booked.").
NoDoubleBooking ==
  \A a, b \in BookingIds :
    a # b /\ active(a) /\ active(b)
          /\ bookings[a].providerId = bookings[b].providerId =>
      ~overlaps(bookings[a].startTime, bookings[a].endTime,
                bookings[b].startTime, bookings[b].endTime)

\* An active booking lies, from its start to its end, in one of the windows
\* of its provider on the day it starts (validateProviderAvailability:
\* "Provider is not available at this time.").
WithinOpeningHours ==
  \A b \in BookingIds : active(b) =>
    \E row \in Availability :
      LET start == bookings[b].startTime
          midnight == start - minuteOfDay(start)
      IN /\ row.providerId = bookings[b].providerId
         /\ row.dayOfWeek = getDay(start)
         /\ midnight + row.startTime <= start
         /\ bookings[b].endTime <= midnight + row.endTime

\* The event ids of a booking are those of its own two events, on the right
\* calendar, so cancel and reschedule never touch another booking's event.
EventOwnership ==
  \A b \in BookingIds :
    /\ LET e == bookings[b].providerGoogleEventId IN
         e # null => /\ calendar[e].bookingId = b
                     /\ calendar[e].forWhom = "provider"
    /\ LET e == bookings[b].clientGoogleEventId IN
         e # null => /\ calendar[e].bookingId = b
                     /\ calendar[e].forWhom = "client"

\* When nothing is under way, the two calendars show a booking exactly when
\* it is confirmed or completed, once each and at its current time.
CalendarsAgree ==
  Quiescent =>
    \A b \in BookingIds, who \in Parties :
      LET shown == {e \in EventIds : /\ calendar[e].state = "live"
                                     /\ calendar[e].bookingId = b
                                     /\ calendar[e].forWhom = who}
      IN IF served(b)
         THEN \E e \in shown : /\ shown = {e}
                               /\ calendar[e].startTime = bookings[b].startTime
         ELSE shown = {}

\* No interleaving of the handlers loses a mail: when nothing is under way, the
\* client of a confirmed booking has been sent the confirmation (README.md:
\* e-mails for events such as the confirmation of a booking), the client of a
\* cancelled one the cancellation.  A fault between the update and the mails
\* loses the confirmation for good, since the redelivery returns early.
MailsAgree ==
  faults = 0 /\ Quiescent =>
    \A b \in BookingIds :
      /\ served(b) => mail[b]["booking-confirmation"] > 0
      /\ bookings[b].status = "CANCELLED" => mail[b]["cancellation"] > 0

\* A cancelled booking stays cancelled ("Cannot confirm a cancelled booking.").
CancelledIsFinal ==
  [][\A b \in BookingIds : bookings[b].status = "CANCELLED" =>
       bookings'[b].status = "CANCELLED"]_vars

\* A completed booking stays completed ("Apenas agendamentos confirmados ou
\* pendentes podem ser modificados").
CompletedIsFinal ==
  [][\A b \in BookingIds : bookings[b].status = "COMPLETED" =>
       bookings'[b].status = "COMPLETED"]_vars

\* The time of a cancelled or completed booking does not change ("Apenas
\* agendamentos confirmados ou pendentes podem ser modificados").
ClosedKeepsTime ==
  [][\A b \in BookingIds :
       bookings[b].status \in {"CANCELLED", "COMPLETED"} =>
         bookings'[b].startTime = bookings[b].startTime]_vars

\* A paid intent confirms the booking it belongs to unless the booking is
\* cancelled, in spite of restarts, failing statements, lost answers and
\* repeated deliveries: Stripe delivers the event again until one delivery
\* has gone through, and the handler may run from its beginning every time.
\* (If a payment is declined as well, a payment_failed that arrives late sets
\* the booking back.)
PaidEventuallyServed ==
  \A b \in BookingIds, i \in Intents :
    (bookings[b].paymentIntentId = i /\ paid(i)) ~>
      (served(b) \/ bookings[b].status = "CANCELLED")
---------------------------------------------------------------------------
\* The inductive invariant behind ServedOnlyIfPaid and IntentOwnership

madeFor(i, b) == i \in Intents /\ intents[i].bookingId = b

\* What a handler remembers stays true while it waits: createPaymentIntent
\* carries an intent made for its booking, the webhook a paid one, and
\* complete has seen a booking that was paid.
RequestInv(q) ==
  /\ q.pc \in IntentPcs \ {"intent:create"} => madeFor(q.intent, q.id)
  /\ q.pc \in ConfirmPcs => madeFor(q.intent, q.id) /\ paid(q.intent)
  /\ q.pc = "complete:update" => paidFor(q.id)

AbsentIntentsUnbound ==
  \A i \in Intents :
    intents[i].status = "ABSENT" => intents[i].bookingId = null

\* From a paid intent to a served booking, the tables, Stripe and what the
\* open requests remember of them agree.
PaidInv ==
  /\ AbsentIntentsUnbound
  /\ IntentOwnership
  /\ ServedOnlyIfPaid
  /\ \A r \in Workers : RequestInv(req[r])
---------------------------------------------------------------------------
\* The inductive invariant behind NoSameStart

\* No two rows of the table break @@unique([providerId, startTime]).
DistinctStarts ==
  \A a, b \in BookingIds :
    a # b /\ exists(a) /\ exists(b)
          /\ bookings[a].providerId = bookings[b].providerId =>
      bookings[a].startTime # bookings[b].startTime

\* Only a row that has been inserted can be found by its intent.
AbsentRowsUnbound ==
  \A b \in BookingIds : ~exists(b) => bookings[b].paymentIntentId = null

ReschedulePcs == {"reschedule:check", "reschedule:update"}

\* The row a request writes to exists, and a reschedule checks its new start
\* against the agenda of that row's provider.
RowInv(q) ==
  /\ q.pc \notin NoBookingPcs => exists(q.id)
  /\ q.pc \in ReschedulePcs => q.providerId = bookings[q.id].providerId

\* Every write to bookings respects the index, cancelled rows included, and
\* goes to a row that exists.
AgendaInv ==
  /\ DistinctStarts
  /\ AbsentRowsUnbound
  /\ \A r \in Workers : RowInv(req[r])
---------------------------------------------------------------------------
\* The inductive invariant behind ChargedAtMostOnce and SameIntent

\* The one payment row of the booking is about this intent, unless an admin
\* has deleted a row of the booking.
filed(i, b) ==
  b \in removed \/ (b \in BookingIds /\ payments[b].paymentIntentId = i)

LinkPcs == {"intent:link", "intent:respond"}

\* The payment row comes first: before the booking names the intent and before
\* the client can hold its secret.
ChargeInv ==
  /\ SameIntent
  /\ \A b \in BookingIds :
       payments[b].status = "ABSENT" => payments[b].paymentIntentId = null
  /\ \A i \in Intents :
       intents[i].status \in {"issued", "succeeded"} =>
         filed(i, intents[i].bookingId)
  /\ \A r \in Workers :
       req[r].pc \in LinkPcs => filed(req[r].intent, req[r].id)
=============================================================================
