----------------------------- MODULE LedgerProofs -----------------------------
(***************************************************************************)
(* Backend implements BookingLedger, for every value of the constants: in  *)
(* states that satisfy TypeOK, PaidInv, AgendaInv and BoundInv, every step *)
(* is one entry of the book or leaves it alone.  What mails and reviews    *)
(* are about follows from what no entry takes back.                        *)
(***************************************************************************)
EXTENDS AgendaProofs, Refinement

\* A payment intent that is bound to a booking is bound to one that exists, so
\* that nobody pays for an engagement that is not in the book.
BoundInv ==
  \A i \in Intents :
    intents[i].bookingId \in BookingIds => exists(intents[i].bookingId)

Entry == Ledger!Next \/ UNCHANGED Ledger!ledger

---------------------------------------------------------------------------
\* Entries of the book

LEMMA Untouched ==
  ASSUME bookings' = bookings, settledBookings' = settledBookings
  PROVE  Entry
  BY DEF Entry, Ledger!ledger, stageOf

LEMMA SameIntents ==
  ASSUME intents' = intents
  PROVE  settledBookings' = settledBookings
  BY DEF settledBookings, paidFor, paid

\* A row is inserted at a time the index has free.
LEMMA BookedRow ==
  ASSUME NEW b \in BookingIds, bookings[b].status = "ABSENT",
         intents' = intents,
         \A c \in BookingIds \ {b} : bookings'[c] = bookings[c],
         bookings'[b].status = "PENDING_PAYMENT",
         ~startTimeTaken(b, bookings'[b].providerId, bookings'[b].startTime)
  PROVE  Entry
<1>1. Ledger!vacant(b, bookings'[b].providerId, bookings'[b].startTime)
  BY DEF Ledger!vacant, startTimeTaken, exists, stageOf
<1>2. Ledger!Book(b)
  BY <1>1, SameIntents DEF Ledger!Book, stageOf
<1> QED BY <1>2 DEF Entry, Ledger!Next

\* A row is moved to a time the index has free.
LEMMA MovedRow ==
  ASSUME NEW b \in BookingIds, exists(b), intents' = intents,
         \A c \in BookingIds \ {b} : bookings'[c] = bookings[c],
         bookings'[b].status = bookings[b].status,
         bookings'[b].providerId = bookings[b].providerId,
         ~startTimeTaken(b, bookings[b].providerId, bookings'[b].startTime)
  PROVE  Entry
<1>1. Ledger!vacant(b, bookings[b].providerId, bookings'[b].startTime)
  BY DEF Ledger!vacant, startTimeTaken, exists, stageOf
<1>2. Ledger!Move(b)
  BY <1>1, SameIntents DEF Ledger!Move, stageOf, exists
<1> QED BY <1>2 DEF Entry, Ledger!Next

\* A row is rewritten where it stands, and served only if it has been paid for.
LEMMA RestatedRow ==
  ASSUME NEW b \in BookingIds, exists(b), intents' = intents,
         \A c \in BookingIds \ {b} : bookings'[c] = bookings[c],
         bookings'[b].status \in BookingStatus,
         bookings'[b].status \in {"CONFIRMED", "COMPLETED"} => paidFor(b),
         bookings'[b].providerId = bookings[b].providerId,
         bookings'[b].startTime = bookings[b].startTime
  PROVE  Entry
<1>1. CASE bookings'[b].status \in {"CONFIRMED", "COMPLETED"}
  <2>1. b \in settledBookings
    BY <1>1 DEF settledBookings
  <2>2. Ledger!Serve(b)
    BY <1>1, <2>1, SameIntents DEF Ledger!Serve, stageOf, exists
  <2> QED BY <2>2 DEF Entry, Ledger!Next
<1>2. CASE bookings'[b].status \in {"PENDING_PAYMENT", "CANCELLED"}
  <2>1. Ledger!Withdraw(b)
    BY <1>2, SameIntents DEF Ledger!Withdraw, stageOf, exists
  <2> QED BY <2>1 DEF Entry, Ledger!Next
<1> QED BY <1>1, <1>2 DEF BookingStatus

\* booking.update of the row a request is about.
LEMMA UpdateEntry ==
  ASSUME TypeOK, NEW b \in BookingIds, exists(b), intents' = intents,
         NEW row, bookingUpdate(b, row), row.status \in BookingStatus,
         row.status \in {"CONFIRMED", "COMPLETED"} => paidFor(b),
         row.providerId = bookings[b].providerId,
         row.startTime = bookings[b].startTime
  PROVE  Entry
<1>1. /\ bookings'[b] = row
      /\ \A c \in BookingIds \ {b} : bookings'[c] = bookings[c]
  BY BookingShape DEF TypeOK
<1> QED BY <1>1, RestatedRow

\* A step that writes neither bookings nor intents.
LEMMA QuietEntry ==
  ASSUME bookings' = bookings, intents' = intents
  PROVE  Entry
  BY SameIntents, Untouched

---------------------------------------------------------------------------
\* The actions

LEMMA ArriveEntry ==
  ASSUME NEW r \in Workers, Arrive(r)
  PROVE  Entry
  BY QuietEntry
  DEF Arrive, create, createPaymentIntent, cancel, complete, reschedule,
      review, tables, stripe

LEMMA DeliverEntry ==
  ASSUME NEW r \in Workers, Deliver(r)
  PROVE  Entry
  BY QuietEntry
  DEF Deliver, paymentSucceeded, paymentFailed, deliver, ack, tables

LEMMA CreateEntry ==
  ASSUME TypeOK, NEW r \in Workers, Create(r)
  PROVE  Entry
<1>1. intents' = intents
  BY DEF Create, createInsert, stripe
<1>2. CASE UNCHANGED tables
  BY <1>1, <1>2, QuietEntry DEF tables
<1> DEFINE row == [NoBooking EXCEPT !.status = "PENDING_PAYMENT",
                     !.clientId = req[r].clientId,
                     !.providerId = req[r].providerId,
                     !.startTime = req[r].startTime,
                     !.endTime = req[r].endTime]
<1>3. /\ row.status = "PENDING_PAYMENT"
      /\ row.providerId = req[r].providerId
      /\ row.startTime = req[r].startTime
  BY DEF NoBooking
<1>4. ASSUME NEW b \in BookingIds, isNextBookingId(b),
             ~startTimeTaken(b, req[r].providerId, req[r].startTime),
             bookingUpdate(b, row)
      PROVE  Entry
  <2> HIDE DEF row
  <2>1. /\ bookings'[b] = row
        /\ \A c \in BookingIds \ {b} : bookings'[c] = bookings[c]
    BY <1>4, BookingShape DEF TypeOK
  <2>2. bookings[b].status = "ABSENT"
    BY <1>4 DEF isNextBookingId
  <2> QED BY <1>1, <1>3, <1>4, <2>1, <2>2, BookedRow
<1> QED BY <1>2, <1>4 DEF Create, createInsert

\* A new intent is not paid, and handing out its secret pays nothing.
LEMMA IntentEntry ==
  ASSUME TypeOK, PaidInv, AgendaInv, NEW r \in Workers, Intent(r)
  PROVE  Entry
<1> USE DEF TypeOK
<1>1. req[r].pc \notin NoBookingPcs
  BY DEF Intent, intentCreate, intentPayment, intentLink, intentRespond, at,
         NoBookingPcs
<1>2. CASE intentCreate(r)
  <2>1. bookings' = bookings
    BY <1>2 DEF intentCreate, tables
  <2>2. CASE UNCHANGED stripe
    BY <2>1, <2>2, QuietEntry DEF stripe
  <2>3. ASSUME NEW i \in Intents, paymentIntentsCreate(i, req[r].id)
        PROVE  Entry
    <3>1. settledBookings' = settledBookings
      BY <2>3
      DEF paymentIntentsCreate, settledBookings, paidFor, paid, StripeTypeOK
    <3> QED BY <2>1, <3>1, Untouched
  <2> QED BY <1>2, <2>2, <2>3 DEF intentCreate
<1>3. CASE intentPayment(r)
  BY <1>3, QuietEntry DEF intentPayment, paymentCreate, tables, stripe
<1>4. CASE intentLink(r)
  <2> DEFINE b == req[r].id
             row == [bookings[b] EXCEPT !.paymentIntentId = req[r].intent]
  <2>1. b \in BookingIds /\ exists(b)
    BY <1>1, RequestRow
  <2>2. /\ row.status = bookings[b].status
        /\ row.status \in BookingStatus
        /\ row.providerId = bookings[b].providerId
        /\ row.startTime = bookings[b].startTime
    BY <1>1, RequestRow DEF Booking
  <2>3. row.status \in {"CONFIRMED", "COMPLETED"} => paidFor(b)
    BY <2>1, <2>2 DEF PaidInv, ServedOnlyIfPaid, served
  <2>4. bookingUpdate(b, row) /\ intents' = intents
    BY <1>4 DEF intentLink, stripe
  <2> HIDE DEF row
  <2> QED BY <2>1, <2>2, <2>3, <2>4, UpdateEntry
<1>5. CASE intentRespond(r)
  <2>1. settledBookings' = settledBookings
    BY <1>5
    DEF intentRespond, issueSecret, settledBookings, paidFor, paid,
        StripeTypeOK, PaymentIntent
  <2> QED BY <1>5, <2>1, Untouched DEF intentRespond, tables
<1> QED BY <1>2, <1>3, <1>4, <1>5 DEF Intent

\* A request updates the row it is about and ends or moves on.
LEMMA OwnRowEntry ==
  ASSUME TypeOK, AgendaInv, NEW r \in Workers,
         req[r].pc \notin NoBookingPcs, intents' = intents,
         NEW row, bookingUpdate(req[r].id, row), row.status \in BookingStatus,
         row.status \in {"CONFIRMED", "COMPLETED"} => paidFor(req[r].id),
         row.providerId = bookings[req[r].id].providerId,
         row.startTime = bookings[req[r].id].startTime
  PROVE  Entry
  BY RequestRow, UpdateEntry

LEMMA ConfirmEntry ==
  ASSUME TypeOK, PaidInv, AgendaInv, NEW r \in Workers, Confirm(r)
  PROVE  Entry
<1>1. intents' = intents
  BY DEF Confirm, confirmFindPayment, confirmCreatePayment,
         confirmProviderEvent, confirmClientEvent, confirmUpdate,
         confirmMailBooking, confirmMailPayment, webhookMail, webhookAnswer,
         ack, stripe
<1>2. CASE bookings' = bookings
  BY <1>1, <1>2, QuietEntry
<1>3. CASE confirmUpdate(r)
  <2>1. CASE UNCHANGED tables
    BY <1>2, <2>1 DEF tables
  <2>2. ASSUME NEW b \in BookingIds,
               bookings[b].paymentIntentId = req[r].intent,
               bookingUpdate(b, confirmed(bookings[b], r))
        PROVE  Entry
    <3> DEFINE i == req[r].intent
    <3>1. req[r].pc \in ConfirmPcs
      BY <1>3 DEF confirmUpdate, at, ConfirmPcs
    <3>2. i \in Intents
      BY <3>1, RequestCarries DEF TypeOK, PaymentPcs, FailedPcs
    <3>3. exists(b)
      BY <2>2, <3>2, FoundRow
    <3>4. intents[i].bookingId = b
      BY <2>2, <3>2 DEF PaidInv, IntentOwnership
    <3>5. paid(i)
      BY <3>1 DEF PaidInv, RequestInv
    <3>6. paidFor(b)
      BY <3>2, <3>4, <3>5 DEF paidFor
    <3> DEFINE row == confirmed(bookings[b], r)
    <3>7. /\ row.status \in BookingStatus
          /\ row.providerId = bookings[b].providerId
          /\ row.startTime = bookings[b].startTime
      <4>1. bookings[b] \in Booking
        BY DEF TypeOK, TablesTypeOK
      <4> QED BY <4>1 DEF confirmed, Booking, BookingStatus
    <3>8. bookingUpdate(b, row)
      BY <2>2
    <3> HIDE DEF row
    <3> QED BY <1>1, <3>3, <3>6, <3>7, <3>8, UpdateEntry
  <2> QED BY <1>3, <2>1, <2>2 DEF confirmUpdate
<1> QED BY <1>2, <1>3
        DEF Confirm, confirmFindPayment, confirmCreatePayment, paymentCreate,
            confirmProviderEvent, confirmClientEvent, confirmMailBooking,
            confirmMailPayment, webhookMail, webhookAnswer, tables

LEMMA FailedEntry ==
  ASSUME TypeOK, AgendaInv, NEW r \in Workers, Failed(r)
  PROVE  Entry
<1> DEFINE b == req[r].id
           row == [bookings[b] EXCEPT !.status = "PENDING_PAYMENT"]
<1>1. intents' = intents
  BY DEF Failed, failedUpdate, failedAnswer, ack, stripe
<1>2. CASE failedUpdate(r)
  <2>1. req[r].pc \notin NoBookingPcs
    BY <1>2 DEF failedUpdate, at, NoBookingPcs
  <2>2. bookings[b] \in Booking
    BY <2>1, RequestRow
  <2>3. /\ row.status = "PENDING_PAYMENT"
        /\ row.status \in BookingStatus
        /\ row.providerId = bookings[b].providerId
        /\ row.startTime = bookings[b].startTime
    BY <2>2 DEF Booking, BookingStatus
  <2>4. bookingUpdate(b, row)
    BY <1>2 DEF failedUpdate
  <2> HIDE DEF row
  <2> QED BY <1>1, <2>1, <2>3, <2>4, OwnRowEntry
<1>3. CASE failedAnswer(r)
  BY <1>1, <1>3, QuietEntry DEF failedAnswer, tables
<1> QED BY <1>2, <1>3 DEF Failed

LEMMA CompleteEntry ==
  ASSUME TypeOK, PaidInv, AgendaInv, NEW r \in Workers, Complete(r)
  PROVE  Entry
<1> DEFINE b == req[r].id
           row == [bookings[b] EXCEPT !.status = "COMPLETED",
                                      !.completedAt = TRUE]
<1>1. req[r].pc \notin NoBookingPcs /\ req[r].pc = "complete:update"
  BY DEF Complete, completeUpdate, at, NoBookingPcs
<1>2. bookings[b] \in Booking
  BY <1>1, RequestRow
<1>3. /\ row.status \in BookingStatus
      /\ row.providerId = bookings[b].providerId
      /\ row.startTime = bookings[b].startTime
  BY <1>2 DEF Booking, BookingStatus
<1>4. paidFor(b)
  BY <1>1 DEF PaidInv, RequestInv
<1>5. bookingUpdate(b, row) /\ intents' = intents
  BY DEF Complete, completeUpdate, stripe
<1> HIDE DEF row
<1> QED BY <1>1, <1>3, <1>4, <1>5, OwnRowEntry

LEMMA CancelEntry ==
  ASSUME TypeOK, AgendaInv, NEW r \in Workers, Cancel(r)
  PROVE  Entry
<1>1. intents' = intents
  BY DEF Cancel, cancelProviderEvent, cancelClientEvent, cancelUpdate,
         cancelMail, stripe
<1>2. CASE cancelUpdate(r)
  <2> DEFINE b == req[r].id
             row == [bookings[b] EXCEPT !.status = "CANCELLED",
                       !.providerGoogleEventId = null,
                       !.clientGoogleEventId = null]
  <2>1. req[r].pc \notin NoBookingPcs
    BY <1>2 DEF cancelUpdate, at, NoBookingPcs
  <2>2. bookings[b] \in Booking
    BY <2>1, RequestRow
  <2>3. /\ row.status = "CANCELLED"
        /\ row.status \in BookingStatus
        /\ row.providerId = bookings[b].providerId
        /\ row.startTime = bookings[b].startTime
    BY <2>2 DEF Booking, BookingStatus
  <2>4. bookingUpdate(b, row)
    BY <1>2 DEF cancelUpdate
  <2> HIDE DEF row
  <2> QED BY <1>1, <2>1, <2>3, <2>4, OwnRowEntry
<1>3. CASE bookings' = bookings
  BY <1>1, <1>3, QuietEntry
<1> QED BY <1>2, <1>3
        DEF Cancel, cancelProviderEvent, cancelClientEvent, cancelMail, tables

LEMMA RescheduleEntry ==
  ASSUME TypeOK, AgendaInv, NEW r \in Workers, Reschedule(r)
  PROVE  Entry
<1>1. intents' = intents
  BY DEF Reschedule, rescheduleCheck, rescheduleUpdate, rescheduleReadBack,
         rescheduleProviderEvent, rescheduleClientEvent, stripe
<1>2. CASE bookings' = bookings
  BY <1>1, <1>2, QuietEntry
<1>3. CASE rescheduleUpdate(r)
  <2>1. CASE UNCHANGED tables
    BY <1>2, <2>1 DEF tables
  <2> DEFINE b == req[r].id
             row == [bookings[b] EXCEPT !.startTime = req[r].startTime,
                                        !.endTime = req[r].endTime]
  <2>2. ASSUME ~startTimeTaken(b, req[r].providerId, req[r].startTime),
               bookingUpdate(b, row)
        PROVE  Entry
    <3>1. req[r].pc \notin NoBookingPcs /\ req[r].pc \in ReschedulePcs
      BY <1>3 DEF rescheduleUpdate, at, NoBookingPcs, ReschedulePcs
    <3>2. /\ b \in BookingIds
          /\ exists(b)
          /\ req[r].providerId = bookings[b].providerId
          /\ bookings[b] \in Booking
      BY <3>1, RequestRow DEF AgendaInv, RowInv
    <3>3. /\ row.status = bookings[b].status
          /\ row.providerId = bookings[b].providerId
          /\ row.startTime = req[r].startTime
      BY <3>2 DEF Booking
    <3> HIDE DEF row
    <3>4. /\ bookings'[b] = row
          /\ \A c \in BookingIds \ {b} : bookings'[c] = bookings[c]
      BY <2>2, <3>2, BookingShape DEF TypeOK
    <3> QED BY <1>1, <2>2, <3>2, <3>3, <3>4, MovedRow
  <2>3. \/ UNCHANGED tables
        \/ /\ ~startTimeTaken(b, req[r].providerId, req[r].startTime)
           /\ bookingUpdate(b, row)
    BY <1>3 DEF rescheduleUpdate
  <2> HIDE DEF row
  <2> QED BY <2>1, <2>2, <2>3
<1> QED BY <1>2, <1>3
        DEF Reschedule, rescheduleCheck, rescheduleReadBack,
            rescheduleProviderEvent, rescheduleClientEvent, tables

LEMMA ReviewEntry ==
  ASSUME NEW r \in Workers, Review(r)
  PROVE  Entry
  BY QuietEntry DEF Review, reviewFind, reviewInsert, tables, stripe

\* A payment settles the booking its intent is bound to; an intent that is
\* bound to none does not exist and cannot be paid.
LEMMA CustomerEntry ==
  ASSUME TypeOK, BoundInv, Customer
  PROVE  Entry
<1>1. bookings' = bookings
  BY DEF Customer, tables
<1>2. PICK i \in Intents : pay(i) \/ decline(i)
  BY DEF Customer
<1>3. intents[i] \in PaymentIntent
  BY DEF TypeOK, StripeTypeOK
<1>4. CASE decline(i)
  <2>1. settledBookings' = settledBookings
    BY <1>4 DEF decline, settledBookings, paidFor, paid, TypeOK, StripeTypeOK,
                PaymentIntent
  <2> QED BY <1>1, <2>1, Untouched
<1>5. CASE pay(i)
  <2> DEFINE b == intents[i].bookingId
  <2>1. \A j \in Intents :
          /\ intents'[j].bookingId = intents[j].bookingId
          /\ paid(j)' <=> paid(j) \/ j = i
    BY <1>3, <1>5 DEF pay, paid, TypeOK, StripeTypeOK, PaymentIntent
  <2>2. settledBookings' = settledBookings \cup (BookingIds \cap {b})
    BY <2>1 DEF settledBookings, paidFor
  <2>3. CASE b \in BookingIds
    <3>1. exists(b)
      BY <2>3 DEF BoundInv
    <3>2. Ledger!Settle(b)
      BY <1>1, <2>2, <2>3, <3>1 DEF Ledger!Settle, stageOf, exists
    <3> QED BY <2>3, <3>2 DEF Entry, Ledger!Next
  <2>4. CASE b \notin BookingIds
    BY <1>1, <2>2, <2>4, Untouched
  <2> QED BY <2>3, <2>4
<1> QED BY <1>2, <1>4, <1>5

LEMMA StepEntry ==
  ASSUME TypeOK, PaidInv, AgendaInv, BoundInv, [Next]_vars
  PROVE  Entry
<1>1. ASSUME NEW r \in Workers, Arrive(r) \/ Deliver(r) \/ Proceed(r)
      PROVE  Entry
  BY <1>1, ArriveEntry, DeliverEntry, CreateEntry, IntentEntry, ConfirmEntry,
     FailedEntry, CancelEntry, CompleteEntry, RescheduleEntry, ReviewEntry
  DEF Proceed
<1>2. ASSUME NEW r \in Workers, fail(r)
      PROVE  Entry
  BY <1>2, QuietEntry DEF fail, tables, stripe
<1>3. CASE crash \/ tick \/ Admin \/ UNCHANGED vars
  BY <1>3, QuietEntry
  DEF crash, tick, Admin, paymentRemove, reviewRemove, vars, tables, stripe
<1> QED BY <1>1, <1>2, <1>3, CustomerEntry DEF Next

---------------------------------------------------------------------------
\* What an entry leaves true: no engagement leaves the book, no payment is
\* taken back.

LEMMA EntryGrows ==
  ASSUME Entry, NEW b \in BookingIds
  PROVE  /\ exists(b) => exists(b)'
         /\ paidFor(b) => paidFor(b)'
<1>1. exists(b) <=> [c \in BookingIds |-> stageOf(c)][b] # "none"
  BY DEF exists, stageOf
<1>2. exists(b)' <=> [c \in BookingIds |-> stageOf(c)]'[b] # "none"
  BY DEF exists, stageOf
<1>3. /\ paidFor(b) <=> b \in settledBookings
      /\ paidFor(b)' <=> b \in settledBookings'
  BY DEF settledBookings
<1>4. /\ [c \in BookingIds |-> stageOf(c)][b] # "none" =>
           [c \in BookingIds |-> stageOf(c)]'[b] # "none"
      /\ b \in settledBookings => b \in settledBookings'
  BY DEF Entry, Ledger!Next, Ledger!ledger, Ledger!Book, Ledger!Move,
         Ledger!Settle, Ledger!Serve, Ledger!Withdraw
<1> QED BY <1>1, <1>2, <1>3, <1>4

\* An intent is bound once, to the booking of the request that creates it.
LEMMA StepBinds ==
  ASSUME TypeOK, AgendaInv, [Next]_vars, NEW i \in Intents
  PROVE  \/ intents'[i].bookingId = intents[i].bookingId
         \/ \E b \in BookingIds : intents'[i].bookingId = b /\ exists(b)
<1> USE DEF TypeOK, StripeTypeOK
<1>1. CASE intents' = intents
  BY <1>1
<1>2. ASSUME NEW r \in Workers, intentCreate(r)
      PROVE  \/ intents'[i].bookingId = intents[i].bookingId
             \/ \E b \in BookingIds : intents'[i].bookingId = b /\ exists(b)
  <2>1. req[r].id \in BookingIds /\ exists(req[r].id)
    BY <1>2, RequestRow DEF intentCreate, at, NoBookingPcs
  <2>2. CASE UNCHANGED stripe
    BY <2>2 DEF stripe
  <2>3. ASSUME NEW j \in Intents, paymentIntentsCreate(j, req[r].id)
        PROVE  \/ intents'[i].bookingId = intents[i].bookingId
               \/ intents'[i].bookingId = req[r].id
    BY <2>3 DEF paymentIntentsCreate
  <2> QED BY <1>2, <2>1, <2>2, <2>3 DEF intentCreate
<1>3. ASSUME NEW r \in Workers, intentRespond(r)
      PROVE  intents'[i].bookingId = intents[i].bookingId
  BY <1>3 DEF intentRespond, issueSecret, PaymentIntent
<1>4. CASE Customer
  <2>1. PICK j \in Intents : pay(j) \/ decline(j)
    BY <1>4 DEF Customer
  <2>2. intents[i] \in PaymentIntent /\ intents[j] \in PaymentIntent
    OBVIOUS
  <2>3. intents'[i].bookingId = intents[i].bookingId
    BY <2>1, <2>2 DEF pay, decline, PaymentIntent
  <2> QED BY <2>3
<1>5. ASSUME NEW r \in Workers,
             Arrive(r) \/ Deliver(r) \/ Create(r) \/ intentPayment(r)
               \/ intentLink(r) \/ fail(r)
      PROVE  intents' = intents
  BY <1>5
  DEF Arrive, create, createPaymentIntent, cancel, complete, reschedule,
      review, Deliver, paymentSucceeded, paymentFailed, deliver, ack, Create,
      createInsert, intentPayment, intentLink, fail, stripe
<1>6. ASSUME NEW r \in Workers, Confirm(r) \/ Failed(r) \/ Cancel(r)
      PROVE  intents' = intents
  BY <1>6
  DEF Confirm, confirmFindPayment, confirmCreatePayment, confirmProviderEvent,
      confirmClientEvent, confirmUpdate, confirmMailBooking,
      confirmMailPayment, webhookMail, webhookAnswer, Failed, failedUpdate,
      failedAnswer, Cancel, cancelProviderEvent, cancelClientEvent,
      cancelUpdate, cancelMail, ack, stripe
<1>7. ASSUME NEW r \in Workers, Complete(r) \/ Reschedule(r) \/ Review(r)
      PROVE  intents' = intents
  BY <1>7
  DEF Complete, completeUpdate, Reschedule, rescheduleCheck, rescheduleUpdate,
      rescheduleReadBack, rescheduleProviderEvent, rescheduleClientEvent,
      Review, reviewFind, reviewInsert, stripe
<1>8. CASE crash \/ tick \/ Admin \/ UNCHANGED vars
  BY <1>1, <1>8
  DEF crash, tick, Admin, paymentRemove, reviewRemove, vars, stripe
<1> QED BY <1>1, <1>2, <1>3, <1>4, <1>5, <1>6, <1>7, <1>8
        DEF Next, Proceed, Intent

LEMMA StepBoundInv ==
  ASSUME TypeOK, PaidInv, AgendaInv, BoundInv, [Next]_vars
  PROVE  BoundInv'
<1>1. ASSUME NEW i \in Intents, NEW b \in BookingIds,
             intents'[i].bookingId = b
      PROVE  exists(b)'
  <2>1. exists(b)
    BY <1>1, StepBinds DEF BoundInv
  <2> QED BY <2>1, StepEntry, EntryGrows
<1> QED BY <1>1 DEF BoundInv, exists

LEMMA InitBoundInv ==
  ASSUME Init
  PROVE  BoundInv /\ Ledger!Init
<1>1. \A i \in Intents : intents[i] = NoIntent
  BY DEF Init, StripeInit
<1>2. \A b \in BookingIds : bookings[b] = NoBooking
  BY DEF Init, TablesInit
<1>3. BoundInv
  BY <1>1 DEF NoIntent, BoundInv, BookingIds, null
<1>4. [b \in BookingIds |-> stageOf(b)] = [b \in BookingIds |-> "none"]
  BY <1>2 DEF stageOf, NoBooking
<1>5. settledBookings = {}
  BY <1>1 DEF settledBookings, paidFor, paid, NoIntent
<1> QED BY <1>3, <1>4, <1>5 DEF Ledger!Init

---------------------------------------------------------------------------
\* No intent, and so no payment, is ever bound to a booking that is not there.
THEOREM BoundInvHolds == Spec => []BoundInv
BY InitBoundInv, StepBoundInv, TypeCorrect, PaidInvHolds, AgendaInvHolds, PTL
DEF Spec

\* The refinement: whatever requests, webhooks, payments and faults do, the
\* back end keeps a book in which no two engagements of a provider start
\* together and nothing is served that has not been settled.
THEOREM LedgerKeptHolds == Spec => LedgerKept
<1>1. TypeOK /\ PaidInv /\ AgendaInv /\ BoundInv /\ [Next]_vars =>
        [Ledger!Next]_(Ledger!ledger)
  BY StepEntry DEF Entry
<1> QED BY <1>1, InitBoundInv, BoundInvHolds, TypeCorrect, PaidInvHolds,
           AgendaInvHolds, PTL DEF Spec, LedgerKept, Ledger!Spec

---------------------------------------------------------------------------
\* Mail

LEMMA AddedMail ==
  ASSUME TypeOK, MailedOnlyIfPaid, Entry, NEW b \in BookingIds,
         NEW job \in MailJobs, job = "cancellation" \/ paidFor(b), add(b, job)
  PROVE  MailedOnlyIfPaid'
<1> SUFFICES ASSUME NEW c \in BookingIds,
                    mail'[c]["booking-confirmation"]
                      + mail'[c]["payment-confirmed"] > 0
             PROVE  paidFor(c)
  BY EntryGrows DEF MailedOnlyIfPaid
<1>1. CASE b = c /\ paidFor(b)
  BY <1>1
<1>2. CASE b # c \/ job = "cancellation"
  <2>1. /\ mail'[c]["booking-confirmation"] = mail[c]["booking-confirmation"]
        /\ mail'[c]["payment-confirmed"] = mail[c]["payment-confirmed"]
    BY <1>2 DEF add, TypeOK, MailTypeOK, MailJobs
  <2> QED BY <2>1 DEF MailedOnlyIfPaid
<1> QED BY <1>1, <1>2

LEMMA StepMail ==
  ASSUME TypeOK, PaidInv, AgendaInv, BoundInv, MailedOnlyIfPaid, [Next]_vars
  PROVE  MailedOnlyIfPaid'
<1>1. Entry
  BY StepEntry
<1>2. CASE mail' = mail
  BY <1>1, <1>2, EntryGrows DEF MailedOnlyIfPaid
<1>3. ASSUME NEW r \in Workers,
             confirmMailBooking(r) \/ confirmMailPayment(r) \/ webhookMail(r)
      PROVE  MailedOnlyIfPaid'
  <2>1. req[r].pc \in ConfirmPcs /\ req[r].pc \notin NoBookingPcs
    BY <1>3 DEF confirmMailBooking, confirmMailPayment, webhookMail, at,
        ConfirmPcs, NoBookingPcs
  <2>2. req[r].id \in BookingIds
    BY <2>1, RequestRow
  <2>3. paidFor(req[r].id)
    BY <2>1 DEF PaidInv, RequestInv, madeFor, paidFor
  <2>4. PICK job \in MailJobs : add(req[r].id, job)
    BY <1>3 DEF confirmMailBooking, confirmMailPayment, webhookMail, MailJobs
  <2> QED BY <1>1, <2>2, <2>3, <2>4, AddedMail
<1>4. ASSUME NEW r \in Workers, cancelMail(r)
      PROVE  MailedOnlyIfPaid'
  <2>1. req[r].id \in BookingIds
    BY <1>4, RequestRow DEF cancelMail, at, NoBookingPcs
  <2> QED BY <1>1, <1>4, <2>1, AddedMail DEF cancelMail, MailJobs
<1>5. ASSUME NEW r \in Workers,
             Arrive(r) \/ Deliver(r) \/ Create(r) \/ Intent(r) \/ Failed(r)
      PROVE  mail' = mail
  BY <1>5
  DEF Arrive, create, createPaymentIntent, cancel, complete, reschedule,
      review, Deliver, paymentSucceeded, paymentFailed, Create, createInsert,
      Intent, intentCreate, intentPayment, intentLink, intentRespond, Failed,
      failedUpdate, failedAnswer
<1>6. ASSUME NEW r \in Workers, Confirm(r) \/ Cancel(r)
      PROVE  MailedOnlyIfPaid'
  BY <1>2, <1>3, <1>4, <1>6
  DEF Confirm, confirmFindPayment, confirmCreatePayment, confirmProviderEvent,
      confirmClientEvent, confirmUpdate, webhookAnswer, Cancel,
      cancelProviderEvent, cancelClientEvent, cancelUpdate
<1>7. ASSUME NEW r \in Workers,
             Complete(r) \/ Reschedule(r) \/ Review(r) \/ fail(r)
      PROVE  mail' = mail
  BY <1>7
  DEF Complete, completeUpdate, Reschedule, rescheduleCheck, rescheduleUpdate,
      rescheduleReadBack, rescheduleProviderEvent, rescheduleClientEvent,
      Review, reviewFind, reviewInsert, fail
<1>8. CASE Customer \/ crash \/ tick \/ Admin \/ UNCHANGED vars
  BY <1>2, <1>8
  DEF Customer, crash, tick, Admin, paymentRemove, reviewRemove, vars
<1> QED BY <1>2, <1>5, <1>6, <1>7, <1>8 DEF Next, Proceed

\* However the two layers that mail about a payment, Stripe's redeliveries and
\* faults interleave, a confirmation is only mailed about a paid booking.
THEOREM MailedOnlyIfPaidHolds == Spec => []MailedOnlyIfPaid
<1>1. Init => MailedOnlyIfPaid
  BY DEF Init, MailInit, MailJobs, MailedOnlyIfPaid
<1> QED BY <1>1, StepMail, BoundInvHolds, TypeCorrect, PaidInvHolds,
           AgendaInvHolds, PTL DEF Spec

---------------------------------------------------------------------------
\* Reviews: the status a review was checked against can be undone by a late
\* webhook, the stamp of completion and the payment cannot.

ReviewPcs == {"review:find", "review:insert"}

\* A completed row is stamped, and a stamped row has been paid for.
StampInv ==
  \A b \in BookingIds :
    /\ bookings[b].status = "COMPLETED" => bookings[b].completedAt
    /\ bookings[b].completedAt => paidFor(b)

\* The inductive invariant behind ReviewedOnlyIfCompleted: whoever is about to
\* insert a review, and every review, is about a stamped row.
ReviewInv ==
  /\ StampInv
  /\ \A b \in reviews : bookings[b].completedAt
  /\ \A r \in Workers :
       req[r].pc \in ReviewPcs => bookings[req[r].id].completedAt

---------------------------------------------------------------------------
\* What a step may do to the rows

StampsKept ==
  \A b \in BookingIds :
    /\ bookings[b].completedAt => bookings'[b].completedAt
    /\ bookings'[b].completedAt => bookings[b].completedAt \/ paidFor(b)
    /\ bookings'[b].status = "COMPLETED" => bookings'[b].completedAt

LEMMA SameStamps ==
  ASSUME StampInv, bookings' = bookings
  PROVE  StampsKept
  BY DEF StampInv, StampsKept

LEMMA RowStamps ==
  ASSUME TypeOK, StampInv, NEW b \in BookingIds, NEW row,
         bookingUpdate(b, row),
         bookings[b].completedAt => row.completedAt,
         row.completedAt => bookings[b].completedAt \/ paidFor(b),
         row.status = "COMPLETED" => row.completedAt
  PROVE  StampsKept
<1>1. /\ bookings'[b] = row
      /\ \A c \in BookingIds \ {b} : bookings'[c] = bookings[c]
  BY BookingShape DEF TypeOK
<1> QED BY <1>1 DEF StampInv, StampsKept

\* An update that does not name completedAt and does not complete the booking.
LEMMA PlainUpdateStamps ==
  ASSUME TypeOK, StampInv, NEW b \in BookingIds, NEW row,
         bookingUpdate(b, row),
         row.completedAt = bookings[b].completedAt,
         row.status \in {"PENDING_PAYMENT", "CONFIRMED", "CANCELLED"}
           \/ row.status = bookings[b].status
  PROVE  StampsKept
  BY RowStamps DEF StampInv

---------------------------------------------------------------------------
\* The statements that write bookings

\* No payment was made for a booking that was not there.
LEMMA CreateStamps ==
  ASSUME TypeOK, BoundInv, StampInv, NEW r \in Workers, createInsert(r)
  PROVE  StampsKept
<1>1. CASE UNCHANGED tables
  BY <1>1, SameStamps DEF tables
<1> DEFINE row == [NoBooking EXCEPT !.status = "PENDING_PAYMENT",
                     !.clientId = req[r].clientId,
                     !.providerId = req[r].providerId,
                     !.startTime = req[r].startTime,
                     !.endTime = req[r].endTime]
<1>2. row.completedAt = FALSE /\ row.status = "PENDING_PAYMENT"
  BY DEF NoBooking
<1>3. ASSUME NEW b \in BookingIds, isNextBookingId(b), bookingUpdate(b, row)
      PROVE  StampsKept
  <2> HIDE DEF row
  <2>1. ~exists(b)
    BY <1>3 DEF exists, isNextBookingId
  <2>2. ~bookings[b].completedAt
    BY <2>1 DEF StampInv, paidFor, BoundInv
  <2> QED BY <1>2, <1>3, <2>2, RowStamps
<1> QED BY <1>1, <1>3 DEF createInsert

LEMMA LinkStamps ==
  ASSUME TypeOK, AgendaInv, StampInv, NEW r \in Workers, intentLink(r)
  PROVE  StampsKept
<1> DEFINE b == req[r].id
           row == [bookings[b] EXCEPT !.paymentIntentId = req[r].intent]
<1>1. b \in BookingIds /\ bookings[b] \in Booking
  BY RequestRow DEF intentLink, at, NoBookingPcs
<1>2. /\ row.completedAt = bookings[b].completedAt
      /\ row.status = bookings[b].status
  BY <1>1 DEF Booking
<1>3. bookingUpdate(b, row)
  BY DEF intentLink
<1> HIDE DEF row
<1> QED BY <1>1, <1>2, <1>3, PlainUpdateStamps

\* A completed booking that is confirmed again keeps its stamp.
LEMMA ConfirmStamps ==
  ASSUME TypeOK, StampInv, NEW r \in Workers, confirmUpdate(r)
  PROVE  StampsKept
<1>1. CASE UNCHANGED tables
  BY <1>1, SameStamps DEF tables
<1>2. ASSUME NEW b \in BookingIds, bookingUpdate(b, confirmed(bookings[b], r))
      PROVE  StampsKept
  <2> DEFINE row == confirmed(bookings[b], r)
  <2>1. bookings[b] \in Booking
    BY DEF TypeOK, TablesTypeOK
  <2>2. row.completedAt = bookings[b].completedAt /\ row.status = "CONFIRMED"
    BY <2>1 DEF confirmed, Booking
  <2>3. bookingUpdate(b, row)
    BY <1>2
  <2> HIDE DEF row
  <2> QED BY <2>2, <2>3, PlainUpdateStamps
<1> QED BY <1>1, <1>2 DEF confirmUpdate

LEMMA FailedStamps ==
  ASSUME TypeOK, AgendaInv, StampInv, NEW r \in Workers, failedUpdate(r)
  PROVE  StampsKept
<1> DEFINE b == req[r].id
           row == [bookings[b] EXCEPT !.status = "PENDING_PAYMENT"]
<1>1. b \in BookingIds /\ bookings[b] \in Booking
  BY RequestRow DEF failedUpdate, at, NoBookingPcs
<1>2. /\ row.completedAt = bookings[b].completedAt
      /\ row.status = "PENDING_PAYMENT"
  BY <1>1 DEF Booking
<1>3. bookingUpdate(b, row)
  BY DEF failedUpdate
<1> HIDE DEF row
<1> QED BY <1>1, <1>2, <1>3, PlainUpdateStamps

LEMMA CancelStamps ==
  ASSUME TypeOK, AgendaInv, StampInv, NEW r \in Workers, cancelUpdate(r)
  PROVE  StampsKept
<1> DEFINE b == req[r].id
           row == [bookings[b] EXCEPT !.status = "CANCELLED",
                     !.providerGoogleEventId = null,
                     !.clientGoogleEventId = null]
<1>1. b \in BookingIds /\ bookings[b] \in Booking
  BY RequestRow DEF cancelUpdate, at, NoBookingPcs
<1>2. row.completedAt = bookings[b].completedAt /\ row.status = "CANCELLED"
  BY <1>1 DEF Booking
<1>3. bookingUpdate(b, row)
  BY DEF cancelUpdate
<1> HIDE DEF row
<1> QED BY <1>1, <1>2, <1>3, PlainUpdateStamps

\* The one statement that stamps a row, by a request that has seen it paid.
LEMMA CompleteStamps ==
  ASSUME TypeOK, PaidInv, AgendaInv, StampInv, NEW r \in Workers,
         completeUpdate(r)
  PROVE  StampsKept
<1> DEFINE b == req[r].id
           row == [bookings[b] EXCEPT !.status = "COMPLETED",
                                      !.completedAt = TRUE]
<1>1. b \in BookingIds /\ bookings[b] \in Booking
  BY RequestRow DEF completeUpdate, at, NoBookingPcs
<1>2. row.completedAt
  BY <1>1 DEF Booking
<1>3. paidFor(b)
  BY DEF completeUpdate, at, PaidInv, RequestInv
<1>4. bookingUpdate(b, row)
  BY DEF completeUpdate
<1> HIDE DEF row
<1> QED BY <1>1, <1>2, <1>3, <1>4, RowStamps

LEMMA MoveStamps ==
  ASSUME TypeOK, AgendaInv, StampInv, NEW r \in Workers, rescheduleUpdate(r)
  PROVE  StampsKept
<1> DEFINE b == req[r].id
           row == [bookings[b] EXCEPT !.startTime = req[r].startTime,
                                      !.endTime = req[r].endTime]
<1>1. b \in BookingIds /\ bookings[b] \in Booking
  BY RequestRow DEF rescheduleUpdate, at, NoBookingPcs
<1>2. /\ row.completedAt = bookings[b].completedAt
      /\ row.status = bookings[b].status
  BY <1>1 DEF Booking
<1>3. UNCHANGED tables \/ bookingUpdate(b, row)
  BY DEF rescheduleUpdate
<1> HIDE DEF row
<1> QED BY <1>1, <1>2, <1>3, PlainUpdateStamps, SameStamps DEF tables

LEMMA StepStamps ==
  ASSUME TypeOK, PaidInv, AgendaInv, BoundInv, StampInv, [Next]_vars
  PROVE  StampsKept
<1>1. CASE bookings' = bookings
  BY <1>1, SameStamps
<1>2. ASSUME NEW r \in Workers,
             Arrive(r) \/ Deliver(r) \/ Review(r) \/ fail(r)
      PROVE  bookings' = bookings
  BY <1>2
  DEF Arrive, create, createPaymentIntent, cancel, complete, reschedule,
      review, Deliver, paymentSucceeded, paymentFailed, deliver, ack, Review,
      reviewFind, reviewInsert, fail, tables
<1>3. ASSUME NEW r \in Workers, Intent(r) \/ Confirm(r)
      PROVE  StampsKept
  BY <1>1, <1>3, LinkStamps, ConfirmStamps
  DEF Intent, intentCreate, intentPayment, intentRespond, paymentCreate,
      Confirm, confirmFindPayment, confirmCreatePayment, confirmProviderEvent,
      confirmClientEvent, confirmMailBooking, confirmMailPayment, webhookMail,
      webhookAnswer, tables
<1>4. ASSUME NEW r \in Workers, Cancel(r) \/ Reschedule(r)
      PROVE  StampsKept
  BY <1>1, <1>4, CancelStamps, MoveStamps
  DEF Cancel, cancelProviderEvent, cancelClientEvent, cancelMail, Reschedule,
      rescheduleCheck, rescheduleReadBack, rescheduleProviderEvent,
      rescheduleClientEvent, tables
<1>5. ASSUME NEW r \in Workers, Create(r) \/ Failed(r) \/ Complete(r)
      PROVE  StampsKept
  BY <1>1, <1>5, CreateStamps, FailedStamps, CompleteStamps
  DEF Create, Failed, failedAnswer, Complete, tables
<1>6. CASE Customer \/ crash \/ tick \/ Admin \/ UNCHANGED vars
  BY <1>1, <1>6
  DEF Customer, crash, tick, Admin, paymentRemove, reviewRemove, vars, tables
<1> QED BY <1>1, <1>2, <1>3, <1>4, <1>5, <1>6 DEF Next, Proceed

---------------------------------------------------------------------------
\* Who is about to insert a review

ReviewersKept ==
  \A w \in Workers :
    req'[w].pc \in ReviewPcs =>
      \/ req[w].pc \in ReviewPcs /\ req'[w].id = req[w].id
      \/ bookings[req'[w].id].completedAt

LEMMA EnterReviewers ==
  ASSUME TypeOK, NEW r \in Workers, NEW q, enter(r, q),
         q.pc \in ReviewPcs => bookings[q.id].completedAt
  PROVE  ReviewersKept
<1>1. req'[r] = q /\ \A w \in Workers \ {r} : req'[w] = req[w]
  BY EnterShape DEF TypeOK
<1> QED BY <1>1 DEF ReviewersKept

LEMMA FinishReviewers ==
  ASSUME TypeOK, NEW r \in Workers, finish(r)
  PROVE  ReviewersKept
  BY EnterReviewers DEF finish, Idle, ReviewPcs

LEMMA GotoReviewers ==
  ASSUME TypeOK, NEW r \in Workers, NEW pc, goto(r, pc),
         pc \in ReviewPcs => req[r].pc \in ReviewPcs
  PROVE  ReviewersKept
<1>1. /\ req'[r].pc = pc
      /\ req'[r].id = req[r].id
      /\ \A w \in Workers \ {r} : req'[w] = req[w]
  BY GotoShape DEF TypeOK
<1> QED BY <1>1 DEF ReviewersKept

\* A local variable is set on the way to a statement of another handler.
LEMMA MoveReviewers ==
  ASSUME TypeOK, NEW r \in Workers, NEW q, enter(r, q),
         q.pc \notin ReviewPcs
  PROVE  ReviewersKept
  BY EnterReviewers

LEMMA ArriveReviewers ==
  ASSUME TypeOK, StampInv, NEW r \in Workers, Arrive(r)
  PROVE  ReviewersKept
<1>1. ASSUME NEW u \in Clients, NEW b \in BookingIds, review(r, u, b)
      PROVE  ReviewersKept
  <2> DEFINE q == [Idle EXCEPT !.pc = "review:find", !.id = b]
  <2>1. q.id = b /\ bookings[b].completedAt
    BY <1>1 DEF review, canBeReviewed, Idle, StampInv
  <2>2. enter(r, q)
    BY <1>1 DEF review
  <2> HIDE DEF q
  <2> QED BY <2>1, <2>2, EnterReviewers
<1>2. ASSUME NEW u \in Clients, NEW p \in Providers, NEW s \in StartTimes,
             NEW d \in Durations, create(r, u, p, s, d)
      PROVE  ReviewersKept
  BY <1>2, MoveReviewers DEF create, Idle, ReviewPcs
<1>3. ASSUME NEW u \in Clients, NEW b \in BookingIds,
             createPaymentIntent(r, u, b)
      PROVE  ReviewersKept
  BY <1>3, MoveReviewers DEF createPaymentIntent, Idle, ReviewPcs
<1>4. ASSUME NEW u \in Users, NEW b \in BookingIds, cancel(r, u, b)
      PROVE  ReviewersKept
  BY <1>4, MoveReviewers DEF cancel, Idle, ReviewPcs
<1>5. ASSUME NEW u \in Providers, NEW b \in BookingIds, complete(r, u, b)
      PROVE  ReviewersKept
  BY <1>5, MoveReviewers DEF complete, Idle, ReviewPcs
<1>6. ASSUME NEW u \in Users, NEW b \in BookingIds, NEW s \in StartTimes,
             NEW d \in Durations, reschedule(r, u, b, s, d)
      PROVE  ReviewersKept
  BY <1>6, MoveReviewers DEF reschedule, Idle, ReviewPcs
<1> QED BY <1>1, <1>2, <1>3, <1>4, <1>5, <1>6 DEF Arrive

LEMMA DeliverReviewers ==
  ASSUME TypeOK, NEW r \in Workers, Deliver(r)
  PROVE  ReviewersKept
<1>1. PICK i \in Intents : paymentSucceeded(r, i) \/ paymentFailed(r, i)
  BY DEF Deliver
<1>2. CASE paymentSucceeded(r, i)
  <2>1. ASSUME NEW b \in BookingIds, NEW pc, pc \notin ReviewPcs,
               NEW s, enter(r, [Idle EXCEPT !.pc = pc, !.id = b, !.intent = i,
                                            !.startTime = s])
        PROVE  ReviewersKept
    BY <2>1, MoveReviewers DEF Idle
  <2>2. ASSUME NEW b \in BookingIds, NEW pc, pc \notin ReviewPcs,
               enter(r, [Idle EXCEPT !.pc = pc, !.id = b, !.intent = i])
        PROVE  ReviewersKept
    BY <2>2, MoveReviewers DEF Idle
  <2>3. /\ "webhook:mail" \notin ReviewPcs
        /\ "confirm:findPayment" \notin ReviewPcs
    BY DEF ReviewPcs
  <2> QED BY <1>2, <2>1, <2>2, <2>3
          DEF paymentSucceeded, confirmByPaymentIntent
<1>3. CASE paymentFailed(r, i)
  <2>1. ASSUME NEW b \in BookingIds,
               enter(r, [Idle EXCEPT !.pc = "failed:update", !.id = b,
                                     !.intent = i])
        PROVE  ReviewersKept
    BY <2>1, MoveReviewers DEF Idle, ReviewPcs
  <2>2. CASE UNCHANGED process
    BY <2>2 DEF process, ReviewersKept
  <2> QED BY <1>3, <2>1, <2>2 DEF paymentFailed
<1> QED BY <1>1, <1>2, <1>3
\* Every other handler stays away from the statements of a review.
LEMMA ForeignReviewers ==
  ASSUME TypeOK, NEW r \in Workers,
         \/ Create(r) \/ Intent(r) \/ Confirm(r) \/ Failed(r)
         \/ Cancel(r) \/ Complete(r) \/ Reschedule(r)
  PROVE  ReviewersKept
<1> DEFINE away(pc) == pc \notin ReviewPcs
<1>1. ASSUME NEW pc, away(pc), goto(r, pc)
      PROVE  ReviewersKept
  BY <1>1, GotoReviewers
<1>2. /\ away("intent:create") /\ away("intent:payment")
      /\ away("intent:link") /\ away("intent:respond")
      /\ away("confirm:createPayment") /\ away("confirm:providerEvent")
      /\ away("confirm:clientEvent") /\ away("confirm:update")
      /\ away("confirm:mailBooking") /\ away("confirm:mailPayment")
      /\ away("webhook:mail") /\ away("webhook:answer")
      /\ away("failed:answer") /\ away("cancel:clientEvent")
      /\ away("cancel:update") /\ away("cancel:mail")
      /\ away("reschedule:update") /\ away("reschedule:readBack")
      /\ away("reschedule:providerEvent") /\ away("reschedule:clientEvent")
  BY DEF ReviewPcs
<1>3. ASSUME NEW q, away(q.pc), enter(r, q)
      PROVE  ReviewersKept
  BY <1>3, MoveReviewers
<1>4. req[r] \in RequestRecord
  BY RequestCarries DEF TypeOK
<1> HIDE DEF away
<1>5. CASE Create(r)
  BY <1>2, <1>3, <1>5, FinishReviewers DEF Create, createInsert, Idle
<1>6. CASE intentCreate(r)
  BY <1>2, <1>3, <1>4, <1>6, FinishReviewers DEF intentCreate, RequestRecord
<1>7. CASE intentPayment(r) \/ intentLink(r) \/ intentRespond(r)
  BY <1>1, <1>2, <1>7, FinishReviewers
  DEF intentPayment, intentLink, intentRespond
<1>8. CASE confirmProviderEvent(r) \/ confirmClientEvent(r)
  BY <1>2, <1>3, <1>4, <1>8
  DEF confirmProviderEvent, confirmClientEvent, RequestRecord
<1>9. CASE confirmUpdate(r)
  BY <1>2, <1>3, <1>9, FinishReviewers DEF confirmUpdate, Idle
<1>10. CASE \/ confirmFindPayment(r) \/ confirmCreatePayment(r)
            \/ confirmMailBooking(r) \/ confirmMailPayment(r)
            \/ webhookMail(r) \/ webhookAnswer(r) \/ Failed(r)
            \/ Complete(r)
  BY <1>1, <1>2, <1>10, FinishReviewers
  DEF confirmFindPayment, confirmCreatePayment, confirmMailBooking,
      confirmMailPayment, webhookMail, webhookAnswer, Failed, failedUpdate,
      failedAnswer, Complete, completeUpdate
<1>11. CASE cancelProviderEvent(r) \/ cancelClientEvent(r)
  BY <1>2, <1>3, <1>4, <1>11
  DEF cancelProviderEvent, cancelClientEvent, RequestRecord
<1>12. CASE rescheduleReadBack(r)
  BY <1>2, <1>3, <1>4, <1>12 DEF rescheduleReadBack, RequestRecord
<1>13. CASE \/ cancelUpdate(r) \/ cancelMail(r) \/ rescheduleCheck(r)
            \/ rescheduleUpdate(r) \/ rescheduleProviderEvent(r)
            \/ rescheduleClientEvent(r)
  BY <1>1, <1>2, <1>13, FinishReviewers
  DEF cancelUpdate, cancelMail, rescheduleCheck, rescheduleUpdate,
      rescheduleProviderEvent, rescheduleClientEvent
<1> QED BY <1>5, <1>6, <1>7, <1>8, <1>9, <1>10, <1>11, <1>12, <1>13
        DEF Intent, Confirm, Cancel, Reschedule

LEMMA StepReviewers ==
  ASSUME TypeOK, StampInv, [Next]_vars
  PROVE  ReviewersKept
<1>1. ASSUME NEW r \in Workers, Review(r)
      PROVE  ReviewersKept
  BY <1>1, GotoReviewers, FinishReviewers
  DEF Review, reviewFind, reviewInsert, at, ReviewPcs
<1>2. ASSUME NEW r \in Workers, fail(r)
      PROVE  ReviewersKept
  BY <1>2 DEF fail, Idle, ReviewPcs, ReviewersKept, TypeOK, RequestsTypeOK
<1>3. CASE crash
  BY <1>3 DEF crash, Idle, ReviewPcs, ReviewersKept
<1>4. CASE Customer \/ tick \/ Admin \/ UNCHANGED vars
  <2>1. req' = req
    BY <1>4 DEF Customer, tick, Admin, paymentRemove, reviewRemove, vars,
                process
  <2> QED BY <2>1 DEF ReviewersKept
<1> QED BY <1>1, <1>2, <1>3, <1>4, ArriveReviewers, DeliverReviewers,
           ForeignReviewers DEF Next, Proceed

---------------------------------------------------------------------------
\* The invariant

LEMMA StepReviews ==
  ASSUME TypeOK, ReviewInv, [Next]_vars, NEW b \in reviews'
  PROVE  bookings[b].completedAt
<1>1. CASE reviews' = reviews
  BY <1>1 DEF ReviewInv
<1>2. ASSUME NEW r \in Workers, Review(r)
      PROVE  bookings[b].completedAt
  BY <1>1, <1>2
  DEF Review, reviewFind, reviewInsert, at, ReviewPcs, ReviewInv, tables
<1>3. ASSUME NEW c \in BookingIds, reviewRemove(c) \/ paymentRemove(c)
      PROVE  bookings[b].completedAt
  BY <1>3 DEF reviewRemove, paymentRemove, ReviewInv
<1>4. ASSUME NEW r \in Workers,
             Arrive(r) \/ Deliver(r) \/ Create(r) \/ Intent(r) \/ fail(r)
      PROVE  reviews' = reviews
  BY <1>4
  DEF Arrive, create, createPaymentIntent, cancel, complete, reschedule,
      review, Deliver, paymentSucceeded, paymentFailed, Create, createInsert,
      Intent, intentCreate, intentPayment, intentLink, intentRespond,
      bookingUpdate, paymentCreate, fail, tables
<1>5. ASSUME NEW r \in Workers, Confirm(r) \/ Failed(r) \/ Complete(r)
      PROVE  reviews' = reviews
  BY <1>5
  DEF Confirm, confirmFindPayment, confirmCreatePayment, confirmProviderEvent,
      confirmClientEvent, confirmUpdate, confirmMailBooking,
      confirmMailPayment, webhookMail, webhookAnswer, Failed, failedUpdate,
      failedAnswer, Complete, completeUpdate, bookingUpdate, paymentCreate,
      tables
<1>6. ASSUME NEW r \in Workers, Cancel(r) \/ Reschedule(r)
      PROVE  reviews' = reviews
  BY <1>6
  DEF Cancel, cancelProviderEvent, cancelClientEvent, cancelUpdate,
      cancelMail, Reschedule, rescheduleCheck, rescheduleUpdate,
      rescheduleReadBack, rescheduleProviderEvent, rescheduleClientEvent,
      bookingUpdate, tables
<1>7. CASE Customer \/ crash \/ tick \/ UNCHANGED vars
  BY <1>1, <1>7 DEF Customer, crash, tick, vars, tables
<1> QED BY <1>1, <1>2, <1>3, <1>4, <1>5, <1>6, <1>7 DEF Next, Proceed, Admin

LEMMA StepReviewInv ==
  ASSUME TypeOK, TypeOK', PaidInv, AgendaInv, BoundInv, ReviewInv,
         [Next]_vars
  PROVE  ReviewInv'
<1>1. StampsKept /\ ReviewersKept
  BY StepStamps, StepReviewers DEF ReviewInv
<1>2. \A b \in BookingIds : paidFor(b) => paidFor(b)'
  BY StepEntry, EntryGrows
<1>3. StampInv'
  BY <1>1, <1>2 DEF ReviewInv, StampInv, StampsKept
<1>4. ASSUME NEW b \in reviews'
      PROVE  bookings'[b].completedAt
  <2>1. b \in BookingIds
    BY DEF TypeOK, TablesTypeOK
  <2> QED BY <1>1, <2>1, StepReviews DEF StampsKept
<1>5. ASSUME NEW r \in Workers, req'[r].pc \in ReviewPcs
      PROVE  bookings'[req'[r].id].completedAt
  <2>1. bookings[req'[r].id].completedAt
    BY <1>1, <1>5 DEF ReviewersKept, ReviewInv
  <2>2. req'[r].id \in BookingIds
    BY <1>5 DEF TypeOK, RequestsTypeOK, Request, ReviewPcs, NoBookingPcs
  <2> QED BY <1>1, <2>1, <2>2 DEF StampsKept
<1> QED BY <1>3, <1>4, <1>5 DEF ReviewInv

LEMMA InitReviewInv ==
  ASSUME Init
  PROVE  ReviewInv
<1>1. \A b \in BookingIds : bookings[b] = NoBooking
  BY DEF Init, TablesInit
<1>2. reviews = {} /\ \A r \in Workers : req[r] = Idle
  BY DEF Init, TablesInit, RequestsInit
<1> QED BY <1>1, <1>2 DEF ReviewInv, StampInv, NoBooking, Idle, ReviewPcs

\* A stamp of completion is never given without a payment and never cleared,
\* and whoever is about to insert a review has seen one (create and complete).
THEOREM ReviewInvHolds == Spec => []ReviewInv
BY InitReviewInv, StepReviewInv, TypeCorrect, PaidInvHolds, AgendaInvHolds,
   BoundInvHolds, PTL DEF Spec

\* Whatever a late webhook or a cancellation does to the status between the
\* check and the insert, a review is of a booking that was paid and completed.
THEOREM ReviewedOnlyIfCompletedHolds == Spec => []ReviewedOnlyIfCompleted
<1>1. TypeOK /\ ReviewInv => ReviewedOnlyIfCompleted
  BY DEF ReviewInv, StampInv, ReviewedOnlyIfCompleted, TypeOK, TablesTypeOK
<1> QED BY <1>1, ReviewInvHolds, TypeCorrect, PTL
=============================================================================
