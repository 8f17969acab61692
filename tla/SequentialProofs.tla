--------------------------- MODULE SequentialProofs ---------------------------
(***************************************************************************)
(* What the handlers' checks are worth when requests are served one at a   *)
(* time: a check then still holds when the statement it guards is reached. *)
(* Every theorem needs two things (Solo): OneAtATime and NothingDeclined,  *)
(* because the webhook for a declined payment sets a booking's status      *)
(* whatever it is.  Some need more (Calm): that nothing fails and no event *)
(* is delivered twice.  With what the runs show without these assumptions, *)
(* they tell which of the code's promises rest on which.                   *)
(***************************************************************************)
EXTENDS LedgerProofs

\* At most one request is open.
OneAtATime == \A r, w \in Workers : r = w

\* Stripe never reports payment_intent.payment_failed.  The webhook for it sets
\* PENDING_PAYMENT over any status: it would reopen a closed booking.
NothingDeclined == "decline" \notin Operations

Solo == OneAtATime /\ NothingDeclined

Open == {"PENDING_PAYMENT", "CONFIRMED"}

OpenPcs ==
  ReschedulePcs \cup {"cancel:providerEvent", "cancel:clientEvent",
                      "cancel:update"}

\* From the lookup of the booking to its update.
ConfirmingPcs ==
  {"confirm:findPayment", "confirm:createPayment", "confirm:providerEvent",
   "confirm:clientEvent", "confirm:update"}

\* What the guards of a handler have seen is still so.
Checked(q) ==
  /\ q.pc = "create:insert" =>
       /\ q.providerId \in Providers
       /\ slotAvailable(null, q.providerId, q.startTime, q.endTime)
  /\ q.pc = "reschedule:update" =>
       slotAvailable(q.id, q.providerId, q.startTime, q.endTime)
  /\ q.pc \in OpenPcs => bookings[q.id].status \in Open
  /\ q.pc \in ConfirmingPcs =>
       /\ bookings[q.id].status \in {"PENDING_PAYMENT", "COMPLETED"}
       /\ bookings[q.id].paymentIntentId = q.intent
  /\ q.pc = "complete:update" => bookings[q.id].status = "CONFIRMED"
  /\ q.pc \notin FailedPcs

\* The inductive invariant of requests served one at a time.
SoloInv ==
  /\ NoDoubleBooking
  /\ \A i \in Intents : ~intents[i].declined
  /\ \A r \in Workers : Checked(req[r])

---------------------------------------------------------------------------
\* What a statement may do to the bookings: one row has its turn.

\* The row is at times a client has asked for that nothing else overlaps.
Placed(b) ==
  LET row == bookings'[b] IN
    /\ asked(row)
    /\ slotAvailable(b, row.providerId, row.startTime, row.endTime)

Made(b) ==
  /\ bookings[b].status = "ABSENT"
  /\ bookings'[b].status = "PENDING_PAYMENT"
  /\ bookings'[b].providerId \in Providers
  /\ Placed(b)

Moved(b) ==
  /\ bookings[b].status \in Open
  /\ bookings'[b].status = bookings[b].status
  /\ bookings'[b].providerId = bookings[b].providerId
  /\ Placed(b)

Advanced(b, from, to) ==
  /\ bookings[b].status \in from
  /\ bookings'[b].status = to
  /\ bookings'[b].providerId = bookings[b].providerId
  /\ bookings'[b].startTime = bookings[b].startTime
  /\ bookings'[b].endTime = bookings[b].endTime

Turn(b) ==
  \/ Made(b)
  \/ Moved(b)
  \/ exists(b) /\ Advanced(b, {bookings[b].status}, bookings[b].status)
  \/ /\ paidFor(b)
     /\ \E r \in Workers : req[r].pc \in ConfirmingPcs /\ req[r].id = b
     /\ Advanced(b, {"PENDING_PAYMENT", "COMPLETED"}, "CONFIRMED")
  \/ Advanced(b, {"CONFIRMED"}, "COMPLETED")
  \/ Advanced(b, Open, "CANCELLED")

TakesTurn ==
  /\ intents' = intents
  /\ \E b \in BookingIds :
       /\ \A c \in BookingIds \ {b} : bookings'[c] = bookings[c]
       /\ Turn(b)

\* booking.update, for a row that has its turn.
LEMMA RowTurn ==
  ASSUME TypeOK, intents' = intents, NEW b \in BookingIds, NEW row,
         bookingUpdate(b, row), bookings'[b] = row => Turn(b)
  PROVE  TakesTurn
<1>1. /\ bookings'[b] = row
      /\ \A c \in BookingIds \ {b} : bookings'[c] = bookings[c]
  BY BookingShape DEF TypeOK
<1> QED BY <1>1 DEF TakesTurn

LEMMA CreateTurn ==
  ASSUME TypeOK, HoursInv, SoloInv, NEW r \in Workers, createInsert(r)
  PROVE  bookings' = bookings \/ TakesTurn
<1> DEFINE row == [NoBooking EXCEPT !.status = "PENDING_PAYMENT",
                     !.clientId = req[r].clientId,
                     !.providerId = req[r].providerId,
                     !.startTime = req[r].startTime,
                     !.endTime = req[r].endTime]
<1>1. /\ row.status = "PENDING_PAYMENT"
      /\ row.providerId = req[r].providerId
      /\ row.startTime = req[r].startTime
      /\ row.endTime = req[r].endTime
  BY DEF NoBooking
<1>2. /\ asked(req[r])
      /\ req[r].providerId \in Providers
      /\ slotAvailable(null, req[r].providerId, req[r].startTime,
                       req[r].endTime)
  BY DEF createInsert, at, HoursInv, RequestTimed, wellTimed, SoloInv, Checked,
      FailedPcs
<1>3. ASSUME NEW b \in BookingIds, isNextBookingId(b), bookingUpdate(b, row)
      PROVE  TakesTurn
  <2> HIDE DEF row
  <2>1. slotAvailable(b, row.providerId, row.startTime, row.endTime)
    BY <1>1, <1>2 DEF slotAvailable, BookingIds, null
  <2>2. asked(row)
    BY <1>1, <1>2 DEF asked
  <2>3. bookings'[b] = row => Turn(b)
    BY <1>1, <1>2, <1>3, <2>1, <2>2 DEF Turn, Made, Placed, isNextBookingId
  <2> QED BY <1>3, <2>3, RowTurn DEF createInsert, stripe
<1> QED BY <1>3 DEF createInsert, tables

\* A row that exists may be rewritten in the columns no turn is about.
LEMMA LinkTurn ==
  ASSUME TypeOK, AgendaInv, NEW r \in Workers, intentLink(r)
  PROVE  TakesTurn
<1> DEFINE b == req[r].id
           row == [bookings[b] EXCEPT !.paymentIntentId = req[r].intent]
<1>1. b \in BookingIds /\ exists(b) /\ bookings[b] \in Booking
  BY RequestRow DEF intentLink, at, NoBookingPcs
<1>2. /\ row.status = bookings[b].status
      /\ row.providerId = bookings[b].providerId
      /\ row.startTime = bookings[b].startTime
      /\ row.endTime = bookings[b].endTime
  BY <1>1 DEF Booking
<1>3. bookingUpdate(b, row) /\ intents' = intents
  BY DEF intentLink, stripe
<1> HIDE DEF row
<1>4. bookings'[b] = row => Turn(b)
  BY <1>1, <1>2 DEF Turn, Advanced
<1> QED BY <1>1, <1>3, <1>4, RowTurn

\* The row the update finds by the intent is the one the lookup has found.
LEMMA ConfirmTurn ==
  ASSUME TypeOK, PaidInv, SoloInv, NEW r \in Workers, confirmUpdate(r)
  PROVE  bookings' = bookings \/ TakesTurn
<1>1. /\ req[r].intent \in Intents
      /\ intents[req[r].intent].bookingId = req[r].id
      /\ paid(req[r].intent)
  BY DEF confirmUpdate, at, ConfirmPcs, PaidInv, RequestInv, madeFor
<1>2. ASSUME NEW b \in BookingIds,
             bookings[b].paymentIntentId = req[r].intent,
             bookingUpdate(b, confirmed(bookings[b], r))
      PROVE  TakesTurn
  <2> DEFINE row == confirmed(bookings[b], r)
  <2>1. b = req[r].id /\ paidFor(b)
    BY <1>1, <1>2 DEF PaidInv, IntentOwnership, paidFor
  <2>2. bookings[b].status \in {"PENDING_PAYMENT", "COMPLETED"}
    BY <2>1 DEF confirmUpdate, at, SoloInv, Checked, FailedPcs, ConfirmingPcs
  <2>3. /\ row.status = "CONFIRMED"
        /\ row.providerId = bookings[b].providerId
        /\ row.startTime = bookings[b].startTime
        /\ row.endTime = bookings[b].endTime
    <3>1. bookings[b] \in Booking
      BY DEF TypeOK, TablesTypeOK
    <3> QED BY <3>1 DEF confirmed, Booking
  <2>4. bookingUpdate(b, row) /\ intents' = intents
    BY <1>2 DEF confirmUpdate, stripe
  <2> HIDE DEF row
  <2>5. bookings'[b] = row => Turn(b)
    BY <2>1, <2>2, <2>3
    DEF Turn, Advanced, confirmUpdate, at, ConfirmingPcs
  <2> QED BY <2>4, <2>5, RowTurn
<1> QED BY <1>2 DEF confirmUpdate, tables

LEMMA CancelTurn ==
  ASSUME TypeOK, AgendaInv, SoloInv, NEW r \in Workers, cancelUpdate(r)
  PROVE  TakesTurn
<1> DEFINE b == req[r].id
           row == [bookings[b] EXCEPT !.status = "CANCELLED",
                     !.providerGoogleEventId = null,
                     !.clientGoogleEventId = null]
<1>1. b \in BookingIds /\ bookings[b] \in Booking
  BY RequestRow DEF cancelUpdate, at, NoBookingPcs
<1>2. bookings[b].status \in Open
  BY DEF cancelUpdate, at, SoloInv, Checked, FailedPcs, OpenPcs
<1>3. /\ row.status = "CANCELLED"
      /\ row.providerId = bookings[b].providerId
      /\ row.startTime = bookings[b].startTime
      /\ row.endTime = bookings[b].endTime
  BY <1>1 DEF Booking
<1>4. bookingUpdate(b, row) /\ intents' = intents
  BY DEF cancelUpdate, stripe
<1> HIDE DEF row
<1>5. bookings'[b] = row => Turn(b)
  BY <1>2, <1>3 DEF Turn, Advanced
<1> QED BY <1>1, <1>4, <1>5, RowTurn

LEMMA CompleteTurn ==
  ASSUME TypeOK, AgendaInv, SoloInv, NEW r \in Workers, completeUpdate(r)
  PROVE  TakesTurn
<1> DEFINE b == req[r].id
           row == [bookings[b] EXCEPT !.status = "COMPLETED",
                                      !.completedAt = TRUE]
<1>1. b \in BookingIds /\ bookings[b] \in Booking
  BY RequestRow DEF completeUpdate, at, NoBookingPcs
<1>2. bookings[b].status = "CONFIRMED"
  BY DEF completeUpdate, at, SoloInv, Checked, FailedPcs
<1>3. /\ row.status = "COMPLETED"
      /\ row.providerId = bookings[b].providerId
      /\ row.startTime = bookings[b].startTime
      /\ row.endTime = bookings[b].endTime
  BY <1>1 DEF Booking
<1>4. bookingUpdate(b, row) /\ intents' = intents
  BY DEF completeUpdate, stripe
<1> HIDE DEF row
<1>5. bookings'[b] = row => Turn(b)
  BY <1>2, <1>3 DEF Turn, Advanced
<1> QED BY <1>1, <1>4, <1>5, RowTurn

LEMMA MoveTurn ==
  ASSUME TypeOK, AgendaInv, HoursInv, SoloInv, NEW r \in Workers,
         rescheduleUpdate(r)
  PROVE  bookings' = bookings \/ TakesTurn
<1> DEFINE b == req[r].id
           row == [bookings[b] EXCEPT !.startTime = req[r].startTime,
                                      !.endTime = req[r].endTime]
<1>1. b \in BookingIds /\ bookings[b] \in Booking
  BY RequestRow DEF rescheduleUpdate, at, NoBookingPcs
<1>2. /\ bookings[b].status \in Open
      /\ req[r].providerId = bookings[b].providerId
      /\ asked(req[r])
      /\ slotAvailable(b, req[r].providerId, req[r].startTime, req[r].endTime)
  BY DEF rescheduleUpdate, at, SoloInv, Checked, FailedPcs, OpenPcs,
         ReschedulePcs, AgendaInv, RowInv, HoursInv, RequestTimed, wellTimed
<1>3. /\ row.status = bookings[b].status
      /\ row.providerId = bookings[b].providerId
      /\ row.startTime = req[r].startTime
      /\ row.endTime = req[r].endTime
  BY <1>1 DEF Booking
<1>4. CASE bookingUpdate(b, row)
  <2> HIDE DEF row
  <2>1. asked(row)
    BY <1>2, <1>3 DEF asked
  <2>2. bookings'[b] = row => Turn(b)
    BY <1>2, <1>3, <2>1 DEF Turn, Moved, Placed
  <2> QED BY <1>1, <1>4, <2>2, RowTurn DEF rescheduleUpdate, stripe
<1> QED BY <1>4 DEF rescheduleUpdate, tables

LEMMA StepTurn ==
  ASSUME TypeOK, PaidInv, AgendaInv, HoursInv, SoloInv, [Next]_vars
  PROVE  bookings' = bookings \/ TakesTurn
<1>1. ASSUME NEW r \in Workers,
             Arrive(r) \/ Deliver(r) \/ Review(r) \/ fail(r)
      PROVE  bookings' = bookings
  BY <1>1
  DEF Arrive, create, createPaymentIntent, cancel, complete, reschedule,
      review, Deliver, paymentSucceeded, paymentFailed, deliver, ack, Review,
      reviewFind, reviewInsert, fail, tables
<1>2. ASSUME NEW r \in Workers, Intent(r) \/ Confirm(r)
      PROVE  bookings' = bookings \/ TakesTurn
  BY <1>2, LinkTurn, ConfirmTurn
  DEF Intent, intentCreate, intentPayment, intentRespond, paymentCreate,
      Confirm, confirmFindPayment, confirmCreatePayment, confirmProviderEvent,
      confirmClientEvent, confirmMailBooking, confirmMailPayment, webhookMail,
      webhookAnswer, tables
<1>3. ASSUME NEW r \in Workers, Cancel(r) \/ Reschedule(r)
      PROVE  bookings' = bookings \/ TakesTurn
  BY <1>3, CancelTurn, MoveTurn
  DEF Cancel, cancelProviderEvent, cancelClientEvent, cancelMail, Reschedule,
      rescheduleCheck, rescheduleReadBack, rescheduleProviderEvent,
      rescheduleClientEvent, tables
<1>4. ASSUME NEW r \in Workers, Create(r) \/ Complete(r)
      PROVE  bookings' = bookings \/ TakesTurn
  BY <1>4, CreateTurn, CompleteTurn DEF Create, Complete
<1>5. ASSUME NEW r \in Workers
      PROVE  ~Failed(r)
  BY DEF Failed, failedUpdate, failedAnswer, at, SoloInv, Checked, FailedPcs
<1>6. CASE Customer \/ crash \/ tick \/ Admin \/ UNCHANGED vars
  BY <1>6
  DEF Customer, crash, tick, Admin, paymentRemove, reviewRemove, vars, tables
<1> QED BY <1>1, <1>2, <1>3, <1>4, <1>5, <1>6 DEF Next, Proceed

---------------------------------------------------------------------------
\* What a turn leaves true

LEMMA TurnDisjoint ==
  ASSUME TypeOK, NoDoubleBooking, TakesTurn
  PROVE  NoDoubleBooking'
<1>1. PICK b \in BookingIds :
        /\ \A c \in BookingIds \ {b} : bookings'[c] = bookings[c]
        /\ Turn(b)
  BY DEF TakesTurn
<1>2. \A c \in BookingIds \ {b} : active(c)' <=> active(c)
  BY <1>1 DEF active, exists
<1>3. CASE Placed(b)
  <2>1. ASSUME NEW a \in BookingIds \ {b}, active(a)',
               bookings'[a].providerId = bookings'[b].providerId
        PROVE  ~overlaps(bookings'[a].startTime, bookings'[a].endTime,
                         bookings'[b].startTime, bookings'[b].endTime)
    BY <1>1, <1>2, <1>3, <2>1 DEF Placed, slotAvailable
  <2>2. \A s1, e1, s2, e2 : overlaps(s1, e1, s2, e2) => overlaps(s2, e2, s1, e1)
    BY DEF overlaps
  <2>3. ASSUME NEW a \in BookingIds, NEW c \in BookingIds, a # c,
               active(a)', active(c)',
               bookings'[a].providerId = bookings'[c].providerId
        PROVE  ~overlaps(bookings'[a].startTime, bookings'[a].endTime,
                         bookings'[c].startTime, bookings'[c].endTime)
    BY <1>1, <1>2, <2>1, <2>2, <2>3 DEF NoDoubleBooking
  <2> QED BY <2>3 DEF NoDoubleBooking
<1>4. CASE ~Placed(b)
  <2>1. active(b)' =>
          /\ active(b)
          /\ bookings'[b].providerId = bookings[b].providerId
          /\ bookings'[b].startTime = bookings[b].startTime
          /\ bookings'[b].endTime = bookings[b].endTime
    BY <1>1, <1>4 DEF Turn, Made, Moved, Advanced, Open, active, exists
  <2>2. \A c \in BookingIds : active(c)' =>
          /\ active(c)
          /\ bookings'[c].providerId = bookings[c].providerId
          /\ bookings'[c].startTime = bookings[c].startTime
          /\ bookings'[c].endTime = bookings[c].endTime
    BY <1>1, <1>2, <2>1
  <2> QED BY <2>2 DEF NoDoubleBooking
<1> QED BY <1>3, <1>4

LEMMA TurnFinal ==
  ASSUME TakesTurn, NEW b \in BookingIds
  PROVE  /\ bookings[b].status = "CANCELLED" =>
              bookings'[b].status = "CANCELLED"
         /\ bookings[b].status \in {"CANCELLED", "COMPLETED"} =>
              bookings'[b].startTime = bookings[b].startTime
  BY DEF TakesTurn, Turn, Made, Moved, Advanced, Open

---------------------------------------------------------------------------
\* What a request has checked

\* Where a request has nothing to rely on.
UncheckedPcs ==
  Pcs \ ({"create:insert", "complete:update"}
           \cup OpenPcs \cup ConfirmingPcs \cup FailedPcs)

LEMMA UncheckedRequest ==
  ASSUME NEW r, req'[r].pc \in UncheckedPcs
  PROVE  Checked(req[r])'
  BY DEF Checked, FailedPcs, UncheckedPcs, OpenPcs, ReschedulePcs,
      ConfirmingPcs

\* A request that is let through the first guards of its handler.
LEMMA ArriveChecked ==
  ASSUME TypeOK, NEW r \in Workers, Arrive(r)
  PROVE  Checked(req[r])'
<1> USE DEF TypeOK
<1>1. bookings' = bookings
  BY DEF Arrive, create, createPaymentIntent, cancel, complete, reschedule,
         review, tables
<1>2. ASSUME NEW b \in BookingIds, exists(b), NEW u,
             canBeModified(bookings[b], u)
      PROVE  bookings[b].status \in Open
  BY <1>2 DEF canBeModified, exists, TablesTypeOK, Booking, BookingStatus, Open
<1>3. ASSUME NEW u \in Clients, NEW p \in Providers, NEW s \in StartTimes,
             NEW d \in Durations, create(r, u, p, s, d)
      PROVE  Checked(req[r])'
  <2> DEFINE q == [Idle EXCEPT !.pc = "create:insert", !.clientId = u,
                     !.providerId = p, !.startTime = s, !.endTime = s + d]
  <2>1. /\ q.pc = "create:insert" /\ q.providerId = p
        /\ q.startTime = s /\ q.endTime = s + d
    BY DEF Idle
  <2>2. enter(r, q) /\ slotAvailable(null, p, s, s + d)
    BY <1>3 DEF create
  <2> HIDE DEF q
  <2>3. req'[r] = q
    BY <2>2, EnterShape
  <2> QED BY <1>1, <2>1, <2>2, <2>3
          DEF Checked, FailedPcs, OpenPcs, ReschedulePcs, ConfirmingPcs,
              slotAvailable, active, exists
<1>4. ASSUME NEW u \in Users, NEW b \in BookingIds, cancel(r, u, b)
      PROVE  Checked(req[r])'
  <2> DEFINE q == [Idle EXCEPT !.pc = "cancel:providerEvent", !.id = b,
                     !.providerEvent = bookings[b].providerGoogleEventId,
                     !.clientEvent = bookings[b].clientGoogleEventId]
  <2>1. q.pc = "cancel:providerEvent" /\ q.id = b
    BY DEF Idle
  <2>2. enter(r, q) /\ bookings[b].status \in Open
    BY <1>2, <1>4 DEF cancel
  <2> HIDE DEF q
  <2>3. req'[r] = q
    BY <2>2, EnterShape
  <2> QED BY <1>1, <2>1, <2>2, <2>3 DEF Checked, FailedPcs, ConfirmingPcs
<1>5. ASSUME NEW u \in Users, NEW b \in BookingIds, NEW s \in StartTimes,
             NEW d \in Durations, reschedule(r, u, b, s, d)
      PROVE  Checked(req[r])'
  <2> DEFINE q == [Idle EXCEPT !.pc = "reschedule:check", !.id = b,
                     !.providerId = bookings[b].providerId,
                     !.startTime = s, !.endTime = s + d,
                     !.providerEvent = bookings[b].providerGoogleEventId,
                     !.clientEvent = bookings[b].clientGoogleEventId]
  <2>1. q.pc = "reschedule:check" /\ q.id = b
    BY DEF Idle
  <2>2. enter(r, q) /\ bookings[b].status \in Open
    BY <1>2, <1>5 DEF reschedule
  <2> HIDE DEF q
  <2>3. req'[r] = q
    BY <2>2, EnterShape
  <2> QED BY <1>1, <2>1, <2>2, <2>3 DEF Checked, FailedPcs, ConfirmingPcs
<1>6. ASSUME NEW u \in Providers, NEW b \in BookingIds, complete(r, u, b)
      PROVE  Checked(req[r])'
  <2> DEFINE q == [Idle EXCEPT !.pc = "complete:update", !.id = b]
  <2>1. q.pc = "complete:update" /\ q.id = b
    BY DEF Idle
  <2>2. enter(r, q) /\ bookings[b].status = "CONFIRMED"
    BY <1>6 DEF complete, canBeCompleted
  <2> HIDE DEF q
  <2>3. req'[r] = q
    BY <2>2, EnterShape
  <2> QED BY <1>1, <2>1, <2>2, <2>3
          DEF Checked, FailedPcs, OpenPcs, ReschedulePcs, ConfirmingPcs
<1>7. CASE \/ \E u \in Clients, b \in BookingIds : createPaymentIntent(r, u, b)
           \/ \E u \in Clients, b \in BookingIds : review(r, u, b)
  <2>1. PICK q : enter(r, q) /\ q.pc \in {"intent:create", "review:find"}
    <3>1. \A b : /\ [Idle EXCEPT !.pc = "intent:create", !.id = b].pc
                      = "intent:create"
                 /\ [Idle EXCEPT !.pc = "review:find", !.id = b].pc
                      = "review:find"
      BY DEF Idle
    <3> QED BY <1>7, <3>1 DEF createPaymentIntent, review
  <2>2. req'[r].pc \in UncheckedPcs
    BY <2>1, EnterShape
    DEF UncheckedPcs, Pcs, IntentPcs, OpenPcs, ReschedulePcs, ConfirmingPcs,
        FailedPcs
  <2> QED BY <2>2, UncheckedRequest
<1> QED BY <1>3, <1>4, <1>5, <1>6, <1>7 DEF Arrive

\* A delivery; nothing has been declined.
LEMMA DeliverChecked ==
  ASSUME TypeOK, SoloInv, NEW r \in Workers, Deliver(r)
  PROVE  Checked(req[r])'
<1> USE DEF TypeOK
<1>1. PICK i \in Intents : paymentSucceeded(r, i)
  BY DEF Deliver, paymentFailed, deliver, emitted, SoloInv
<1>2. bookings' = bookings
  BY <1>1 DEF paymentSucceeded, tables
<1>3. ASSUME NEW b \in BookingIds, bookings[b].paymentIntentId = i,
             bookings[b].status \in {"PENDING_PAYMENT", "COMPLETED"},
             enter(r, [Idle EXCEPT !.pc = "confirm:findPayment", !.id = b,
                         !.intent = i, !.startTime = bookings[b].startTime])
      PROVE  Checked(req[r])'
  <2> DEFINE q == [Idle EXCEPT !.pc = "confirm:findPayment", !.id = b,
                     !.intent = i, !.startTime = bookings[b].startTime]
  <2>1. q.pc = "confirm:findPayment" /\ q.id = b /\ q.intent = i
    BY DEF Idle
  <2>2. enter(r, q)
    BY <1>3
  <2> HIDE DEF q
  <2>3. req'[r] = q
    BY <2>2, EnterShape
  <2> QED BY <1>2, <1>3, <2>1, <2>3 DEF Checked, FailedPcs, OpenPcs,
      ReschedulePcs
<1>4. ASSUME NEW b \in BookingIds,
             enter(r, [Idle EXCEPT !.pc = "webhook:mail", !.id = b,
                                   !.intent = i])
      PROVE  Checked(req[r])'
  <2>1. [Idle EXCEPT !.pc = "webhook:mail", !.id = b, !.intent = i].pc
          = "webhook:mail"
    BY DEF Idle
  <2>2. req'[r].pc \in UncheckedPcs
    BY <1>4, <2>1, EnterShape
    DEF UncheckedPcs, Pcs, ConfirmPcs, FailedPcs, OpenPcs, ReschedulePcs,
        ConfirmingPcs
  <2> QED BY <2>2, UncheckedRequest
<1> QED BY <1>1, <1>3, <1>4 DEF paymentSucceeded, confirmByPaymentIntent

\* A request that has moved on, its booking as it was.
LEMMA MovedChecked ==
  ASSUME SoloInv, NEW r \in Workers, bookings' = bookings,
         req'[r].id = req[r].id, req'[r].intent = req[r].intent,
         \/ req[r].pc \in ConfirmingPcs /\ req'[r].pc \in ConfirmingPcs
         \/ /\ req[r].pc \in OpenPcs
            /\ req'[r].pc \in {"cancel:clientEvent", "cancel:update"}
  PROVE  Checked(req[r])'
<1>1. Checked(req[r])
  BY DEF SoloInv
<1> QED BY <1>1 DEF Checked, FailedPcs, OpenPcs, ReschedulePcs, ConfirmingPcs

LEMMA ConfirmChecked ==
  ASSUME TypeOK, SoloInv, NEW r \in Workers, Confirm(r)
  PROVE  Checked(req[r])'
<1> USE DEF TypeOK
<1>1. req[r] \in RequestRecord
  BY RequestCarries
<1>2. ConfirmPcs \ ConfirmingPcs \subseteq UncheckedPcs
      /\ "idle" \in UncheckedPcs
  BY DEF ConfirmPcs, FailedPcs, ConfirmingPcs, UncheckedPcs, Pcs, OpenPcs,
      ReschedulePcs
<1>3. CASE finish(r)
  BY <1>2, <1>3, FinishShape, UncheckedRequest
<1>4. CASE confirmFindPayment(r)
  BY <1>4, GotoShape, MovedChecked
  DEF confirmFindPayment, at, tables, ConfirmingPcs
<1>5. CASE confirmCreatePayment(r)
  BY <1>3, <1>5, GotoShape, MovedChecked
  DEF confirmCreatePayment, paymentCreate, at, ConfirmingPcs
<1>6. CASE confirmProviderEvent(r)
  <2>1. PICK e : enter(r, [req[r] EXCEPT !.pc = "confirm:clientEvent",
                                         !.providerEvent = e])
    BY <1>6 DEF confirmProviderEvent
  <2>2. /\ req'[r].pc = "confirm:clientEvent" /\ req'[r].id = req[r].id
        /\ req'[r].intent = req[r].intent
    BY <1>1, <2>1 DEF enter, RequestRecord, RequestsTypeOK
  <2> QED BY <1>6, <2>2, MovedChecked
          DEF confirmProviderEvent, at, tables, ConfirmingPcs
<1>7. CASE confirmClientEvent(r)
  <2>1. PICK e : enter(r, [req[r] EXCEPT !.pc = "confirm:update",
                                         !.startTime = 0, !.clientEvent = e])
    BY <1>7 DEF confirmClientEvent
  <2>2. /\ req'[r].pc = "confirm:update" /\ req'[r].id = req[r].id
        /\ req'[r].intent = req[r].intent
    BY <1>1, <2>1 DEF enter, RequestRecord, RequestsTypeOK
  <2> QED BY <1>7, <2>2, MovedChecked
          DEF confirmClientEvent, at, tables, ConfirmingPcs
<1>8. CASE confirmUpdate(r)
  <2>1. ASSUME NEW b,
               enter(r, [Idle EXCEPT !.pc = "confirm:mailBooking", !.id = b,
                                     !.intent = req[r].intent])
        PROVE  Checked(req[r])'
    <3>1. req'[r].pc = "confirm:mailBooking"
      BY <2>1 DEF enter, Idle, RequestsTypeOK
    <3> QED BY <1>2, <3>1, UncheckedRequest DEF ConfirmPcs, ConfirmingPcs
  <2> QED BY <1>3, <1>8, <2>1 DEF confirmUpdate
<1>9. CASE \/ confirmMailBooking(r) \/ confirmMailPayment(r)
           \/ webhookMail(r) \/ webhookAnswer(r)
  BY <1>2, <1>3, <1>9, GotoShape, UncheckedRequest
  DEF confirmMailBooking, confirmMailPayment, webhookMail, webhookAnswer,
      ConfirmPcs, ConfirmingPcs
<1> QED BY <1>4, <1>5, <1>6, <1>7, <1>8, <1>9 DEF Confirm

LEMMA CancelChecked ==
  ASSUME TypeOK, SoloInv, NEW r \in Workers, Cancel(r)
  PROVE  Checked(req[r])'
<1> USE DEF TypeOK
<1>1. req[r] \in RequestRecord
  BY RequestCarries
<1>2. {"idle", "cancel:mail"} \subseteq UncheckedPcs
  BY DEF ConfirmingPcs, UncheckedPcs, Pcs, OpenPcs, ReschedulePcs, FailedPcs
<1>3. CASE cancelProviderEvent(r)
  <2>1. /\ req'[r].pc = "cancel:clientEvent" /\ req'[r].id = req[r].id
        /\ req'[r].intent = req[r].intent
    BY <1>1, <1>3 DEF cancelProviderEvent, enter, RequestRecord, RequestsTypeOK
  <2> QED BY <1>3, <2>1, MovedChecked
          DEF cancelProviderEvent, at, tables, OpenPcs
<1>4. CASE cancelClientEvent(r)
  <2>1. /\ req'[r].pc = "cancel:update" /\ req'[r].id = req[r].id
        /\ req'[r].intent = req[r].intent
    BY <1>1, <1>4 DEF cancelClientEvent, enter, RequestRecord, RequestsTypeOK
  <2> QED BY <1>4, <2>1, MovedChecked
          DEF cancelClientEvent, at, tables, OpenPcs
<1>5. CASE cancelUpdate(r) \/ cancelMail(r)
  BY <1>2, <1>5, FinishShape, GotoShape, UncheckedRequest
  DEF cancelUpdate, cancelMail
<1> QED BY <1>3, <1>4, <1>5 DEF Cancel

LEMMA RescheduleChecked ==
  ASSUME TypeOK, SoloInv, NEW r \in Workers, Reschedule(r)
  PROVE  Checked(req[r])'
<1> USE DEF TypeOK
<1>1. req[r] \in RequestRecord
  BY RequestCarries
<1>2. {"idle", "reschedule:readBack", "reschedule:providerEvent",
       "reschedule:clientEvent"} \subseteq UncheckedPcs
  BY DEF ConfirmingPcs, UncheckedPcs, Pcs, OpenPcs, ReschedulePcs, FailedPcs
<1>3. CASE finish(r)
  BY <1>2, <1>3, FinishShape, UncheckedRequest
<1>4. CASE /\ rescheduleCheck(r)
           /\ goto(r, "reschedule:update")
           /\ slotAvailable(req[r].id, req[r].providerId, req[r].startTime,
                            req[r].endTime)
  <2>1. /\ req'[r].pc = "reschedule:update"
        /\ req'[r].id = req[r].id
        /\ req'[r].providerId = req[r].providerId
        /\ req'[r].startTime = req[r].startTime
        /\ req'[r].endTime = req[r].endTime
    BY <1>1, <1>4 DEF goto, RequestRecord, RequestsTypeOK
  <2>2. bookings' = bookings /\ bookings[req[r].id].status \in Open
    BY <1>4 DEF rescheduleCheck, tables, at, SoloInv, Checked, FailedPcs,
                OpenPcs, ReschedulePcs
  <2>3. slotAvailable(req[r].id, req[r].providerId, req[r].startTime,
                      req[r].endTime)'
    BY <1>4, <2>1, <2>2 DEF slotAvailable, active, exists
  <2> QED BY <2>1, <2>2, <2>3 DEF Checked, FailedPcs, ConfirmingPcs
<1>5. CASE rescheduleReadBack(r)
  <2>1. req'[r].pc = "reschedule:providerEvent"
    BY <1>1, <1>5 DEF rescheduleReadBack, enter, RequestRecord, RequestsTypeOK
  <2> QED BY <1>2, <2>1, UncheckedRequest
<1>6. CASE \/ goto(r, "reschedule:readBack")
           \/ goto(r, "reschedule:clientEvent")
  BY <1>2, <1>6, GotoShape, UncheckedRequest
<1> QED BY <1>3, <1>4, <1>5, <1>6
        DEF Reschedule, rescheduleCheck, rescheduleUpdate,
            rescheduleProviderEvent, rescheduleClientEvent

\* The handlers whose later statements rely on nothing.
LEMMA OtherChecked ==
  ASSUME TypeOK, SoloInv, NEW r \in Workers,
         Create(r) \/ Intent(r) \/ Complete(r) \/ Review(r) \/ fail(r)
  PROVE  Checked(req[r])'
<1> USE DEF TypeOK
<1>1. req[r] \in RequestRecord
  BY RequestCarries
<1>2. {"idle", "review:insert"} \cup IntentPcs \subseteq UncheckedPcs
  BY DEF ConfirmingPcs, UncheckedPcs, Pcs, IntentPcs, OpenPcs, ReschedulePcs,
      FailedPcs
<1>3. CASE finish(r) \/ fail(r)
  <2>1. req'[r].pc = "idle"
    BY <1>3, FinishShape DEF fail, Idle, RequestsTypeOK
  <2> QED BY <1>2, <2>1, UncheckedRequest
<1>4. ASSUME NEW b, enter(r, [Idle EXCEPT !.pc = "intent:create", !.id = b])
      PROVE  Checked(req[r])'
  <2>1. req'[r].pc = "intent:create"
    BY <1>4 DEF enter, Idle, RequestsTypeOK
  <2> QED BY <1>2, <2>1, UncheckedRequest DEF IntentPcs
<1>5. ASSUME NEW i,
             enter(r, [req[r] EXCEPT !.pc = "intent:payment", !.intent = i])
      PROVE  Checked(req[r])'
  <2>1. req'[r].pc = "intent:payment"
    BY <1>1, <1>5 DEF enter, RequestRecord, RequestsTypeOK
  <2> QED BY <1>2, <2>1, UncheckedRequest DEF IntentPcs
<1>6. ASSUME NEW pc \in {"intent:link", "intent:respond", "review:insert"},
             goto(r, pc)
      PROVE  Checked(req[r])'
  BY <1>2, <1>6, GotoShape, UncheckedRequest DEF IntentPcs
<1> QED BY <1>3, <1>4, <1>5, <1>6
        DEF Create, createInsert, Intent, intentCreate, intentPayment,
            intentLink, intentRespond, Complete, completeUpdate, Review,
            reviewFind, reviewInsert

---------------------------------------------------------------------------
\* The invariant

LEMMA StepDeclined ==
  ASSUME Solo, TypeOK, SoloInv, [Next]_vars, NEW i \in Intents
  PROVE  ~intents'[i].declined
<1>1. intents[i] \in PaymentIntent /\ ~intents[i].declined
  BY DEF SoloInv, TypeOK, StripeTypeOK
<1>2. CASE intents' = intents
  BY <1>1, <1>2
<1>3. ASSUME NEW j \in Intents, NEW b, paymentIntentsCreate(j, b)
      PROVE  ~intents'[i].declined
  BY <1>1, <1>3 DEF paymentIntentsCreate, TypeOK, StripeTypeOK
<1>4. ASSUME NEW j, issueSecret(j) \/ pay(j)
      PROVE  ~intents'[i].declined
  BY <1>1, <1>4
  DEF issueSecret, pay, PaymentIntent, TypeOK, StripeTypeOK
<1>5. CASE Customer
  BY <1>4, <1>5 DEF Customer, allowed, Solo, NothingDeclined
<1>6. ASSUME NEW r \in Workers, Intent(r)
      PROVE  ~intents'[i].declined
  BY <1>2, <1>3, <1>4, <1>6
  DEF Intent, intentCreate, intentPayment, intentLink, intentRespond, stripe
<1>7. ASSUME NEW r \in Workers,
             \/ Arrive(r) \/ Deliver(r) \/ fail(r)
             \/ Create(r) \/ Confirm(r) \/ Failed(r)
             \/ Cancel(r) \/ Complete(r) \/ Reschedule(r) \/ Review(r)
      PROVE  intents' = intents
  BY <1>7
  DEF Arrive, create, createPaymentIntent, cancel, complete, reschedule,
      review, Deliver, paymentSucceeded, paymentFailed, deliver, ack, fail,
      Create, createInsert, Confirm, confirmFindPayment, confirmCreatePayment,
      confirmProviderEvent, confirmClientEvent, confirmUpdate,
      confirmMailBooking, confirmMailPayment, webhookMail, webhookAnswer,
      Failed, failedUpdate, failedAnswer, Cancel, cancelProviderEvent,
      cancelClientEvent, cancelUpdate, cancelMail, Complete, completeUpdate,
      Reschedule, rescheduleCheck, rescheduleUpdate, rescheduleReadBack,
      rescheduleProviderEvent, rescheduleClientEvent, Review, reviewFind,
      reviewInsert, stripe
<1>8. CASE crash \/ tick \/ Admin \/ UNCHANGED vars
  BY <1>2, <1>8
  DEF crash, tick, Admin, paymentRemove, reviewRemove, vars, stripe
<1> QED BY <1>2, <1>5, <1>6, <1>7, <1>8 DEF Next, Proceed

LEMMA StepChecked ==
  ASSUME Solo, TypeOK, SoloInv, [Next]_vars, NEW w \in Workers
  PROVE  Checked(req[w])'
<1>1. "idle" \in UncheckedPcs
  BY DEF ConfirmingPcs, UncheckedPcs, Pcs, OpenPcs, ReschedulePcs, FailedPcs
<1>2. ASSUME NEW r \in Workers,
             Arrive(r) \/ Deliver(r) \/ Proceed(r) \/ fail(r)
      PROVE  Checked(req[w])'
  <2>1. ~Failed(r)
    BY DEF Failed, failedUpdate, failedAnswer, at, SoloInv, Checked, FailedPcs
  <2>2. Checked(req[r])'
    BY <1>2, <2>1, ArriveChecked, DeliverChecked, ConfirmChecked,
       CancelChecked, RescheduleChecked, OtherChecked
    DEF Proceed
  <2>3. r = w
    BY DEF Solo, OneAtATime
  <2> QED BY <2>2, <2>3
<1>3. CASE UNCHANGED <<bookings, req>>
  <2>1. Checked(req[w])
    BY DEF SoloInv
  <2> QED BY <1>3, <2>1 DEF Checked, FailedPcs, slotAvailable, active, exists
<1>4. CASE crash
  BY <1>1, <1>4, UncheckedRequest DEF crash, Idle
<1>5. CASE Customer \/ tick \/ Admin \/ UNCHANGED vars
  BY <1>3, <1>5
  DEF Customer, tick, Admin, paymentRemove, reviewRemove, vars, tables, process
<1> QED BY <1>2, <1>4, <1>5 DEF Next

LEMMA StepSoloInv ==
  ASSUME Solo, TypeOK, PaidInv, AgendaInv, HoursInv, SoloInv, [Next]_vars
  PROVE  SoloInv'
<1>1. NoDoubleBooking'
  <2>1. CASE bookings' = bookings
    BY <2>1 DEF SoloInv, NoDoubleBooking, active, exists
  <2> QED BY <2>1, StepTurn, TurnDisjoint DEF SoloInv
<1> QED BY <1>1, StepDeclined, StepChecked DEF SoloInv

\* With one request at a time and no payment declined, what a handler's guards
\* have seen is still so at the statement they guard, whatever statement fails,
\* restarts or is delivered again.
THEOREM SoloInvHolds ==
  ASSUME OneAtATime, NothingDeclined
  PROVE  Spec => []SoloInv
<1>0. Solo
  BY DEF Solo
<1>1. Init => SoloInv
  BY DEF Init, TablesInit, NoBooking, StripeInit, NoIntent, RequestsInit, Idle,
         SoloInv, NoDoubleBooking, active, exists, Checked, FailedPcs, OpenPcs,
         ReschedulePcs, ConfirmingPcs
<1>2. TypeOK /\ PaidInv /\ AgendaInv /\ HoursInv /\ SoloInv /\ [Next]_vars =>
        SoloInv'
  BY <1>0, StepSoloInv
<1> QED BY <1>1, <1>2, TypeCorrect, PaidInvHolds, AgendaInvHolds,
           HoursInvHolds, PTL DEF Spec

\* With one request at a time and no payment declined validateSlotAvailability
\* is enough: no two active bookings of a provider overlap, whatever statement
\* fails and however often payment_intent.succeeded is delivered.  A declined
\* payment reported late revives a cancelled booking, and with it an overlap.
THEOREM NoDoubleBookingHolds ==
  ASSUME OneAtATime, NothingDeclined
  PROVE  Spec => []NoDoubleBooking
<1>1. SoloInv => NoDoubleBooking
  BY DEF SoloInv
<1> QED BY <1>1, SoloInvHolds, PTL

\* ... and no confirmation brings a cancelled booking back: with one request at
\* a time confirmByPaymentIntent sees the cancellation.  The webhook for a
\* declined payment, which does not look, would; here no payment is declined.
THEOREM CancelledIsFinalHolds ==
  ASSUME OneAtATime, NothingDeclined
  PROVE  Spec => CancelledIsFinal
<1>0. Solo
  BY DEF Solo
<1>1. ASSUME TypeOK, PaidInv, AgendaInv, HoursInv, SoloInv, [Next]_vars
      PROVE  [\A b \in BookingIds : bookings[b].status = "CANCELLED" =>
                bookings'[b].status = "CANCELLED"]_vars
  BY <1>0, <1>1, StepTurn, TurnFinal
<1> QED BY <1>1, TypeCorrect, PaidInvHolds, AgendaInvHolds, HoursInvHolds,
           SoloInvHolds, PTL DEF Spec, CancelledIsFinal

\* ... and no closed booking is moved: what canBeModified has seen is still so
\* when reschedule writes the new times, after the agenda and the calendars have
\* been asked.  With a second request, or a declined payment, it need not be.
THEOREM ClosedKeepsTimeHolds ==
  ASSUME OneAtATime, NothingDeclined
  PROVE  Spec => ClosedKeepsTime
<1>0. Solo
  BY DEF Solo
<1>1. ASSUME TypeOK, PaidInv, AgendaInv, HoursInv, SoloInv, [Next]_vars
      PROVE  [\A b \in BookingIds :
                bookings[b].status \in {"CANCELLED", "COMPLETED"} =>
                  bookings'[b].startTime = bookings[b].startTime]_vars
  BY <1>0, <1>1, StepTurn, TurnFinal
<1> QED BY <1>1, TypeCorrect, PaidInvHolds, AgendaInvHolds, HoursInvHolds,
           SoloInvHolds, PTL DEF Spec, ClosedKeepsTime

---------------------------------------------------------------------------
\* When nothing fails either

\* Nothing fails, Stripe delivers no event more often than it has to, and no
\* admin deletes a payment row.
Undisturbed ==
  /\ MaxFaults = 0 /\ MaxDups = 0
  /\ "remove-payment" \notin Operations

Calm == Solo /\ Undisturbed

\* What is left of a delivery once the booking is confirmed.
AnswerPcs ==
  {"confirm:mailBooking", "confirm:mailPayment", "webhook:mail",
   "webhook:answer"}

\* A served booking names the intent it was paid with, whose event has been
\* answered or is about to be.
Answered(b) ==
  LET i == bookings[b].paymentIntentId IN
    /\ i # null
    /\ \/ <<i, "succeeded">> \in acked
       \/ \E r \in Workers : /\ req[r].pc \in AnswerPcs
                             /\ req[r].id = b /\ req[r].intent = i

\* The inductive invariant behind ContractKept.
CalmInv ==
  /\ removed = {} /\ dups = 0 /\ faults = 0
  /\ \A r \in Workers :
       req[r].pc \in ConfirmingPcs =>
         bookings[req[r].id].status = "PENDING_PAYMENT"
  /\ \A b \in BookingIds : served(b) => Answered(b)

LEMMA StepUndisturbed ==
  ASSUME Calm, TypeOK, CalmInv, [Next]_vars
  PROVE  removed' = {} /\ dups' = 0 /\ faults' = 0
<1> SUFFICES removed' = removed /\ dups' = dups /\ faults' = faults
  BY DEF CalmInv
<1>1. ~(faults < MaxFaults) /\ ~(dups < MaxDups)
  BY DEF Calm, Undisturbed, CalmInv
<1>2. ASSUME NEW r \in Workers, Arrive(r) \/ Deliver(r)
      PROVE  removed' = removed /\ dups' = dups /\ faults' = faults
  BY <1>1, <1>2
  DEF Arrive, create, createPaymentIntent, cancel, complete, reschedule,
      review, Deliver, paymentSucceeded, confirmByPaymentIntent,
      paymentFailed, deliver, ack, enter, tables, stripe, process
<1>3. ASSUME NEW r \in Workers,
             \/ Create(r) \/ Intent(r) \/ Cancel(r) \/ Reschedule(r)
             \/ Review(r)
      PROVE  removed' = removed /\ dups' = dups /\ faults' = faults
  BY <1>3
  DEF Create, createInsert, Intent, intentCreate, intentPayment, intentLink,
      intentRespond, Cancel, cancelProviderEvent, cancelClientEvent,
      cancelUpdate, cancelMail, Reschedule, rescheduleCheck, rescheduleUpdate,
      rescheduleReadBack, rescheduleProviderEvent, rescheduleClientEvent,
      Review, reviewFind, reviewInsert, paymentIntentsCreate, issueSecret,
      paymentCreate, bookingUpdate, goto, finish, enter, tables, stripe
<1>4. ASSUME NEW r \in Workers, Confirm(r) \/ Failed(r) \/ Complete(r)
      PROVE  removed' = removed /\ dups' = dups /\ faults' = faults
  BY <1>4
  DEF Confirm, confirmFindPayment, confirmCreatePayment, confirmProviderEvent,
      confirmClientEvent, confirmUpdate, confirmMailBooking,
      confirmMailPayment, webhookMail, webhookAnswer, Failed, failedUpdate,
      failedAnswer, Complete, completeUpdate, ack, paymentCreate,
      bookingUpdate, goto, finish, enter, tables, stripe
<1>5. CASE Customer \/ Admin
  BY <1>5
  DEF Customer, pay, decline, Admin, paymentRemove, reviewRemove, allowed,
      Calm, Undisturbed, tables, stripe, process
<1>6. CASE tick \/ UNCHANGED vars
  BY <1>6 DEF tick, vars, tables, stripe, process
<1> QED BY <1>1, <1>2, <1>3, <1>4, <1>5, <1>6
        DEF Next, Proceed, fail, crash

\* An answer that is due is given.
LEMMA StepAnswers ==
  ASSUME Calm, TypeOK, CalmInv, [Next]_vars, NEW w \in Workers,
         req[w].pc \in AnswerPcs
  PROVE  \/ <<req[w].intent, "succeeded">> \in acked'
         \/ /\ req'[w].pc \in AnswerPcs
            /\ req'[w].id = req[w].id
            /\ req'[w].intent = req[w].intent
<1> USE DEF TypeOK
<1>1. ~(faults < MaxFaults)
  BY DEF Calm, Undisturbed, CalmInv
<1>2. ASSUME NEW r \in Workers, Arrive(r) \/ Deliver(r) \/ Proceed(r)
      PROVE  \/ <<req[w].intent, "succeeded">> \in acked'
             \/ /\ req'[w].pc \in AnswerPcs
                /\ req'[w].id = req[w].id
                /\ req'[w].intent = req[w].intent
  <2>1. r = w
    BY DEF Calm, Solo, OneAtATime
  <2>2. ~Arrive(w)
    BY DEF Arrive, create, createPaymentIntent, cancel, complete, reschedule,
           review, at, AnswerPcs
  <2>3. CASE Deliver(w)
    BY <2>3 DEF Deliver, paymentSucceeded, paymentFailed, at, process, AnswerPcs
  <2>4. ~Create(w) /\ ~Intent(w) /\ ~Failed(w)
    BY DEF Create, createInsert, Intent, intentCreate, intentPayment,
           intentLink, intentRespond, Failed, failedUpdate, failedAnswer, at,
           AnswerPcs
  <2>5. ~Cancel(w) /\ ~Complete(w)
    BY DEF Cancel, cancelProviderEvent, cancelClientEvent, cancelUpdate,
           cancelMail, Complete, completeUpdate, at, AnswerPcs
  <2>6. ~Reschedule(w) /\ ~Review(w)
    BY DEF Reschedule, rescheduleCheck, rescheduleUpdate, rescheduleReadBack,
           rescheduleProviderEvent, rescheduleClientEvent, Review, reviewFind,
           reviewInsert, at, AnswerPcs
  <2>7. CASE Confirm(w)
    <3>1. CASE \/ goto(w, "confirm:mailPayment") \/ goto(w, "webhook:mail")
               \/ goto(w, "webhook:answer")
      BY <3>1, GotoShape DEF AnswerPcs
    <3>2. CASE webhookAnswer(w)
      BY <3>2 DEF webhookAnswer, ack
    <3>3. \/ confirmMailBooking(w) \/ confirmMailPayment(w)
          \/ webhookMail(w) \/ webhookAnswer(w)
      BY <2>7
      DEF Confirm, confirmFindPayment, confirmCreatePayment,
          confirmProviderEvent, confirmClientEvent, confirmUpdate, at,
          AnswerPcs
    <3> QED BY <3>1, <3>2, <3>3
            DEF confirmMailBooking, confirmMailPayment, webhookMail
  <2> QED BY <1>2, <2>1, <2>2, <2>3, <2>4, <2>5, <2>6, <2>7 DEF Proceed
<1>3. CASE Customer \/ Admin \/ tick \/ UNCHANGED vars
  BY <1>3
  DEF Customer, Admin, paymentRemove, reviewRemove, tick, vars, process
<1> QED BY <1>1, <1>2, <1>3 DEF Next, fail, crash

LEMMA AckedGrows ==
  ASSUME [Next]_vars
  PROVE  acked \subseteq acked'
<1>1. ASSUME NEW r \in Workers, Arrive(r) \/ Deliver(r) \/ fail(r)
      PROVE  acked \subseteq acked'
  BY <1>1
  DEF Arrive, create, createPaymentIntent, cancel, complete, reschedule,
      review, Deliver, paymentSucceeded, paymentFailed, deliver, ack, fail,
      stripe
<1>2. ASSUME NEW r \in Workers,
             \/ Create(r) \/ Intent(r) \/ Cancel(r) \/ Reschedule(r)
             \/ Review(r)
      PROVE  acked \subseteq acked'
  BY <1>2
  DEF Create, createInsert, Intent, intentCreate, intentPayment, intentLink,
      intentRespond, Cancel, cancelProviderEvent, cancelClientEvent,
      cancelUpdate, cancelMail, Reschedule, rescheduleCheck, rescheduleUpdate,
      rescheduleReadBack, rescheduleProviderEvent, rescheduleClientEvent,
      Review, reviewFind, reviewInsert, paymentIntentsCreate, issueSecret,
      stripe
<1>3. ASSUME NEW r \in Workers, Confirm(r) \/ Failed(r) \/ Complete(r)
      PROVE  acked \subseteq acked'
  BY <1>3
  DEF Confirm, confirmFindPayment, confirmCreatePayment, confirmProviderEvent,
      confirmClientEvent, confirmUpdate, confirmMailBooking,
      confirmMailPayment, webhookMail, webhookAnswer, Failed, failedUpdate,
      failedAnswer, Complete, completeUpdate, ack, stripe
<1>4. CASE Customer \/ Admin \/ crash \/ tick \/ UNCHANGED vars
  BY <1>4
  DEF Customer, pay, decline, Admin, paymentRemove, reviewRemove, crash, tick,
      vars, stripe
<1> QED BY <1>1, <1>2, <1>3, <1>4 DEF Next, Proceed

---------------------------------------------------------------------------
\* Which bookings are served after a statement

\* It was served before and names the same intent, or is being confirmed.
ServedBefore(b) ==
  /\ served(b)
  /\ bookings'[b].paymentIntentId = bookings[b].paymentIntentId

ConfirmedNow(b) ==
  /\ bookings'[b].paymentIntentId # null
  /\ \E r \in Workers : /\ req'[r].pc \in AnswerPcs
                        /\ req'[r].id = b
                        /\ req'[r].intent = bookings'[b].paymentIntentId

StaysServed ==
  \A b \in BookingIds : served(b)' => ServedBefore(b) \/ ConfirmedNow(b)

\* booking.update
LEMMA RowServed ==
  ASSUME TypeOK, NEW b \in BookingIds, NEW row, bookingUpdate(b, row),
         \/ row.status \notin {"CONFIRMED", "COMPLETED"}
         \/ served(b) /\ row.paymentIntentId = bookings[b].paymentIntentId
         \/ bookings'[b] = row => ConfirmedNow(b)
  PROVE  StaysServed
<1>1. /\ bookings'[b] = row
      /\ \A c \in BookingIds \ {b} : bookings'[c] = bookings[c]
  BY BookingShape DEF TypeOK
<1> QED BY <1>1 DEF StaysServed, ServedBefore, served

LEMMA CreateServed ==
  ASSUME TypeOK, NEW r \in Workers, createInsert(r)
  PROVE  bookings' = bookings \/ StaysServed
<1> DEFINE row == [NoBooking EXCEPT !.status = "PENDING_PAYMENT",
                     !.clientId = req[r].clientId,
                     !.providerId = req[r].providerId,
                     !.startTime = req[r].startTime,
                     !.endTime = req[r].endTime]
<1>1. row.status = "PENDING_PAYMENT"
  BY DEF NoBooking
<1>2. bookings' = bookings \/ \E b \in BookingIds : bookingUpdate(b, row)
  BY DEF createInsert, tables
<1> HIDE DEF row
<1> QED BY <1>1, <1>2, RowServed

\* A served booking is linked again only to the intent it names: the payment
\* row is there already, and one per booking.
LEMMA LinkServed ==
  ASSUME TypeOK, AgendaInv, ChargeInv, CalmInv, NEW r \in Workers,
         intentLink(r)
  PROVE  StaysServed
<1> DEFINE b == req[r].id
           row == [bookings[b] EXCEPT !.paymentIntentId = req[r].intent]
<1>1. b \in BookingIds /\ bookings[b] \in Booking
  BY RequestRow DEF intentLink, at, NoBookingPcs
<1>2. /\ row.status = bookings[b].status
      /\ row.paymentIntentId = req[r].intent
  BY <1>1 DEF Booking
<1>3. bookingUpdate(b, row)
  BY DEF intentLink
<1> HIDE DEF row
<1>4. ASSUME served(b)
      PROVE  bookings[b].paymentIntentId = req[r].intent
  <2>1. payments[b].paymentIntentId = bookings[b].paymentIntentId
    BY <1>1, <1>4 DEF CalmInv, Answered, ChargeInv, SameIntent
  <2>2. payments[b].paymentIntentId = req[r].intent
    BY DEF ChargeInv, CalmInv, filed, intentLink, at, LinkPcs
  <2> QED BY <2>1, <2>2
<1> QED BY <1>1, <1>2, <1>3, <1>4, RowServed DEF served

LEMMA ConfirmServed ==
  ASSUME TypeOK, NEW r \in Workers, confirmUpdate(r)
  PROVE  bookings' = bookings \/ StaysServed
<1>1. ASSUME NEW b \in BookingIds,
             bookings[b].paymentIntentId = req[r].intent,
             bookingUpdate(b, confirmed(bookings[b], r)),
             enter(r, [Idle EXCEPT !.pc = "confirm:mailBooking", !.id = b,
                                   !.intent = req[r].intent])
      PROVE  StaysServed
  <2> DEFINE row == confirmed(bookings[b], r)
  <2>1. row.paymentIntentId = req[r].intent
    <3>1. bookings[b] \in Booking
      BY DEF TypeOK, TablesTypeOK
    <3> QED BY <1>1, <3>1 DEF confirmed, Booking
  <2>2. /\ req'[r].pc \in AnswerPcs
        /\ req'[r].id = b
        /\ req'[r].intent = req[r].intent
    BY <1>1 DEF enter, Idle, AnswerPcs, TypeOK, RequestsTypeOK
  <2>3. req[r].intent \in Intents
    BY RequestCarries DEF TypeOK, confirmUpdate, at, PaymentPcs, ConfirmPcs,
        FailedPcs
  <2>4. req[r].intent # null
    BY <2>3 DEF Intents, null
  <2>5. bookingUpdate(b, row)
    BY <1>1
  <2> HIDE DEF row
  <2>6. bookings'[b] = row => ConfirmedNow(b)
    BY <2>1, <2>2, <2>4 DEF ConfirmedNow
  <2> QED BY <2>5, <2>6, RowServed
<1> QED BY <1>1 DEF confirmUpdate, tables

LEMMA StatusServed ==
  ASSUME TypeOK, AgendaInv, SoloInv, NEW r \in Workers,
         cancelUpdate(r) \/ completeUpdate(r) \/ rescheduleUpdate(r)
  PROVE  bookings' = bookings \/ StaysServed
<1> DEFINE b == req[r].id
<1>1. b \in BookingIds /\ bookings[b] \in Booking
  BY RequestRow DEF cancelUpdate, completeUpdate, rescheduleUpdate, at,
                    NoBookingPcs
<1>2. CASE cancelUpdate(r)
  <2> DEFINE row == [bookings[b] EXCEPT !.status = "CANCELLED",
                       !.providerGoogleEventId = null,
                       !.clientGoogleEventId = null]
  <2>1. row.status = "CANCELLED" /\ bookingUpdate(b, row)
    BY <1>1, <1>2 DEF cancelUpdate, Booking
  <2> HIDE DEF row
  <2> QED BY <1>1, <2>1, RowServed
<1>3. CASE completeUpdate(r)
  <2> DEFINE row == [bookings[b] EXCEPT !.status = "COMPLETED",
                                        !.completedAt = TRUE]
  <2>1. /\ row.paymentIntentId = bookings[b].paymentIntentId
        /\ bookingUpdate(b, row)
    BY <1>1, <1>3 DEF completeUpdate, Booking
  <2>2. served(b)
    BY <1>3 DEF completeUpdate, at, SoloInv, Checked, FailedPcs, served
  <2> HIDE DEF row
  <2> QED BY <1>1, <2>1, <2>2, RowServed
<1>4. CASE rescheduleUpdate(r)
  <2> DEFINE row == [bookings[b] EXCEPT !.startTime = req[r].startTime,
                                        !.endTime = req[r].endTime]
  <2>1. /\ row.paymentIntentId = bookings[b].paymentIntentId
        /\ row.status = bookings[b].status
    BY <1>1 DEF Booking
  <2>2. bookings' = bookings \/ bookingUpdate(b, row)
    BY <1>4 DEF rescheduleUpdate, tables
  <2> HIDE DEF row
  <2> QED BY <1>1, <2>1, <2>2, RowServed DEF served
<1> QED BY <1>2, <1>3, <1>4

LEMMA StepServed ==
  ASSUME TypeOK, AgendaInv, ChargeInv, SoloInv, CalmInv, [Next]_vars
  PROVE  StaysServed
<1>1. CASE bookings' = bookings
  BY <1>1 DEF StaysServed, ServedBefore, served
<1>2. ASSUME NEW r \in Workers,
             Arrive(r) \/ Deliver(r) \/ Review(r) \/ fail(r)
      PROVE  bookings' = bookings
  BY <1>2
  DEF Arrive, create, createPaymentIntent, cancel, complete, reschedule,
      review, Deliver, paymentSucceeded, paymentFailed, deliver, ack, Review,
      reviewFind, reviewInsert, fail, tables
<1>3. ASSUME NEW r \in Workers, Intent(r) \/ Confirm(r)
      PROVE  bookings' = bookings \/ StaysServed
  BY <1>3, LinkServed, ConfirmServed
  DEF Intent, intentCreate, intentPayment, intentRespond, paymentCreate,
      Confirm, confirmFindPayment, confirmCreatePayment, confirmProviderEvent,
      confirmClientEvent, confirmMailBooking, confirmMailPayment, webhookMail,
      webhookAnswer, tables
<1>4. ASSUME NEW r \in Workers, Cancel(r) \/ Complete(r) \/ Reschedule(r)
      PROVE  bookings' = bookings \/ StaysServed
  BY <1>4, StatusServed
  DEF Cancel, cancelProviderEvent, cancelClientEvent, cancelMail, Complete,
      Reschedule, rescheduleCheck, rescheduleReadBack, rescheduleProviderEvent,
      rescheduleClientEvent, tables
<1>5. ASSUME NEW r \in Workers, Create(r)
      PROVE  bookings' = bookings \/ StaysServed
  BY <1>5, CreateServed DEF Create
<1>6. ASSUME NEW r \in Workers
      PROVE  ~Failed(r)
  BY DEF Failed, failedUpdate, failedAnswer, at, SoloInv, Checked, FailedPcs
<1>7. CASE Customer \/ crash \/ tick \/ Admin \/ UNCHANGED vars
  BY <1>1, <1>7
  DEF Customer, crash, tick, Admin, paymentRemove, reviewRemove, vars, tables
<1> QED BY <1>1, <1>2, <1>3, <1>4, <1>5, <1>6, <1>7 DEF Next, Proceed

LEMMA StepAnswered ==
  ASSUME Calm, TypeOK, AgendaInv, ChargeInv, SoloInv, CalmInv, [Next]_vars,
         NEW b \in BookingIds, served(b)'
  PROVE  Answered(b)'
<1>1. CASE ServedBefore(b)
  <2> DEFINE i == bookings[b].paymentIntentId
  <2>1. Answered(b) /\ bookings'[b].paymentIntentId = i
    BY <1>1 DEF ServedBefore, CalmInv
  <2> HIDE DEF i
  <2>2. i # null /\ (<<i, "succeeded">> \in acked
                     \/ \E r \in Workers : /\ req[r].pc \in AnswerPcs
                                           /\ req[r].id = b
                                           /\ req[r].intent = i)
    BY <2>1 DEF Answered, i
  <2> QED BY <2>1, <2>2, StepAnswers, AckedGrows DEF Answered
<1>2. CASE ConfirmedNow(b)
  BY <1>2 DEF ConfirmedNow, Answered
<1> QED BY <1>1, <1>2, StepServed DEF StaysServed

---------------------------------------------------------------------------
\* Only a pending booking is confirmed

\* The event of a completed booking has been answered, and is not delivered
\* again.
LEMMA DeliverPending ==
  ASSUME Calm, TypeOK, CalmInv, NEW r \in Workers, NEW i \in Intents,
         paymentSucceeded(r, i), req'[r].pc \in ConfirmingPcs
  PROVE  bookings'[req'[r].id].status = "PENDING_PAYMENT"
<1>1. bookings' = bookings /\ req[r].pc = "idle"
  BY DEF paymentSucceeded, tables, at
<1>2. PICK b \in BookingIds :
        /\ bookings[b].paymentIntentId = i
        /\ bookings[b].status \in {"PENDING_PAYMENT", "COMPLETED"}
        /\ enter(r, [Idle EXCEPT !.pc = "confirm:findPayment", !.id = b,
                       !.intent = i, !.startTime = bookings[b].startTime])
  <2>1. ASSUME NEW b, enter(r, [Idle EXCEPT !.pc = "webhook:mail", !.id = b,
                                            !.intent = i])
        PROVE  FALSE
    <3>1. req'[r].pc = "webhook:mail"
      BY <2>1 DEF enter, Idle, TypeOK, RequestsTypeOK
    <3> QED BY <3>1 DEF ConfirmingPcs
  <2> QED BY <2>1 DEF paymentSucceeded, confirmByPaymentIntent
<1>3. req'[r].id = b
  BY <1>2 DEF enter, Idle, TypeOK, RequestsTypeOK
<1>4. <<i, "succeeded">> \notin acked
  BY DEF paymentSucceeded, deliver, Calm, Undisturbed, CalmInv
<1>5. ~Answered(b)
  <2>1. \A w \in Workers : req[w].pc \notin AnswerPcs
    BY <1>1 DEF Calm, Solo, OneAtATime, AnswerPcs
  <2> QED BY <1>2, <1>4, <2>1 DEF Answered
<1> QED BY <1>1, <1>2, <1>3, <1>5 DEF CalmInv, served

LEMMA ConfirmPending ==
  ASSUME TypeOK, CalmInv, NEW r \in Workers, Confirm(r),
         req'[r].pc \in ConfirmingPcs
  PROVE  bookings'[req'[r].id].status = "PENDING_PAYMENT"
<1> USE DEF TypeOK
<1>1. req[r] \in RequestRecord
  BY RequestCarries
<1>2. ASSUME bookings' = bookings, req[r].pc \in ConfirmingPcs,
             req'[r].id = req[r].id
      PROVE  bookings'[req'[r].id].status = "PENDING_PAYMENT"
  BY <1>2 DEF CalmInv
<1>3. ~finish(r)
  BY FinishShape DEF ConfirmingPcs
<1>4. CASE confirmFindPayment(r) \/ confirmCreatePayment(r)
  BY <1>2, <1>3, <1>4, GotoShape
  DEF confirmFindPayment, confirmCreatePayment, paymentCreate, at, tables,
      ConfirmingPcs
<1>5. CASE confirmProviderEvent(r)
  <2>1. req'[r].id = req[r].id
    BY <1>1, <1>5 DEF confirmProviderEvent, enter, RequestRecord, RequestsTypeOK
  <2> QED BY <1>2, <1>5, <2>1
          DEF confirmProviderEvent, at, tables, ConfirmingPcs
<1>6. CASE confirmClientEvent(r)
  <2>1. req'[r].id = req[r].id
    BY <1>1, <1>6 DEF confirmClientEvent, enter, RequestRecord, RequestsTypeOK
  <2> QED BY <1>2, <1>6, <2>1 DEF confirmClientEvent, at, tables, ConfirmingPcs
<1>7. CASE confirmUpdate(r)
  <2>1. ASSUME NEW b,
               enter(r, [Idle EXCEPT !.pc = "confirm:mailBooking", !.id = b,
                                     !.intent = req[r].intent])
        PROVE  FALSE
    <3>1. req'[r].pc = "confirm:mailBooking"
      BY <2>1 DEF enter, Idle, RequestsTypeOK
    <3> QED BY <3>1 DEF ConfirmingPcs
  <2> QED BY <1>3, <1>7, <2>1 DEF confirmUpdate
<1>8. /\ ~confirmMailBooking(r) /\ ~confirmMailPayment(r)
      /\ ~webhookMail(r) /\ ~webhookAnswer(r)
  BY <1>3, GotoShape
  DEF confirmMailBooking, confirmMailPayment, webhookMail, webhookAnswer,
      ConfirmingPcs
<1> QED BY <1>4, <1>5, <1>6, <1>7, <1>8 DEF Confirm

\* No other handler confirms.
LEMMA ForeignPending ==
  ASSUME TypeOK, NEW r \in Workers,
         \/ Create(r) \/ Intent(r) \/ Cancel(r) \/ Complete(r)
         \/ Reschedule(r) \/ Review(r)
  PROVE  req'[r].pc \notin ConfirmingPcs
<1> USE DEF TypeOK
<1>1. req[r] \in RequestRecord
  BY RequestCarries
<1>2. CASE finish(r)
  BY <1>2, FinishShape DEF ConfirmingPcs
<1>3. ASSUME NEW pc \in Pcs \ ConfirmingPcs, goto(r, pc)
      PROVE  req'[r].pc \notin ConfirmingPcs
  BY <1>3, GotoShape
<1>4. {"intent:link", "intent:respond", "review:insert", "cancel:mail",
       "reschedule:update", "reschedule:readBack", "reschedule:clientEvent"}
        \subseteq Pcs \ ConfirmingPcs
  BY DEF Pcs, IntentPcs, ConfirmingPcs, FailedPcs
<1>5. ASSUME NEW b, enter(r, [Idle EXCEPT !.pc = "intent:create", !.id = b])
      PROVE  req'[r].pc = "intent:create"
  BY <1>5 DEF enter, Idle, RequestsTypeOK
<1>6. ASSUME NEW i,
             enter(r, [req[r] EXCEPT !.pc = "intent:payment", !.intent = i])
      PROVE  req'[r].pc = "intent:payment"
  BY <1>1, <1>6 DEF enter, RequestRecord, RequestsTypeOK
<1>7. cancelProviderEvent(r) => req'[r].pc = "cancel:clientEvent"
  BY <1>1 DEF cancelProviderEvent, enter, RequestRecord, RequestsTypeOK
<1>8. cancelClientEvent(r) => req'[r].pc = "cancel:update"
  BY <1>1 DEF cancelClientEvent, enter, RequestRecord, RequestsTypeOK
<1>9. rescheduleReadBack(r) => req'[r].pc = "reschedule:providerEvent"
  BY <1>1 DEF rescheduleReadBack, enter, RequestRecord, RequestsTypeOK
<1>10. CASE Create(r) \/ Intent(r)
  BY <1>2, <1>3, <1>4, <1>5, <1>6, <1>10
  DEF Create, createInsert, Intent, intentCreate, intentPayment, intentLink,
      intentRespond, ConfirmingPcs
<1>11. CASE Cancel(r) \/ Complete(r) \/ Reschedule(r) \/ Review(r)
  BY <1>2, <1>3, <1>4, <1>7, <1>8, <1>9, <1>11
  DEF Cancel, cancelUpdate, cancelMail, Complete, completeUpdate, Reschedule,
      rescheduleCheck, rescheduleUpdate, rescheduleProviderEvent,
      rescheduleClientEvent, Review, reviewFind, reviewInsert, ConfirmingPcs
<1> QED BY <1>10, <1>11

LEMMA ArrivePending ==
  ASSUME TypeOK, NEW r \in Workers, Arrive(r)
  PROVE  req'[r].pc \notin ConfirmingPcs
<1>1. ASSUME NEW q, enter(r, q), q.pc \notin ConfirmingPcs
      PROVE  req'[r].pc \notin ConfirmingPcs
  BY <1>1, EnterShape DEF TypeOK
<1> QED BY <1>1
        DEF Arrive, create, createPaymentIntent, cancel, complete, reschedule,
            review, Idle, ConfirmingPcs

LEMMA StepPending ==
  ASSUME Calm, TypeOK, SoloInv, CalmInv, [Next]_vars, NEW w \in Workers,
         req'[w].pc \in ConfirmingPcs
  PROVE  bookings'[req'[w].id].status = "PENDING_PAYMENT"
<1>1. ~(faults < MaxFaults)
  BY DEF Calm, Undisturbed, CalmInv
<1>2. ASSUME NEW r \in Workers, Arrive(r) \/ Deliver(r) \/ Proceed(r)
      PROVE  bookings'[req'[w].id].status = "PENDING_PAYMENT"
  <2>1. r = w
    BY DEF Calm, Solo, OneAtATime
  <2>2. ~Failed(w)
    BY DEF Failed, failedUpdate, failedAnswer, at, SoloInv, Checked, FailedPcs
  <2>3. ASSUME NEW i \in Intents
        PROVE  ~paymentFailed(w, i)
    BY DEF paymentFailed, deliver, emitted, SoloInv
  <2> QED BY <1>2, <2>1, <2>2, <2>3, DeliverPending, ConfirmPending,
             ForeignPending, ArrivePending DEF Deliver, Proceed
<1>3. CASE Customer \/ Admin \/ tick \/ UNCHANGED vars
  BY <1>3
  DEF Customer, Admin, paymentRemove, reviewRemove, tick, vars, tables,
      process, CalmInv
<1> QED BY <1>1, <1>2, <1>3 DEF Next, fail, crash

LEMMA StepCalmInv ==
  ASSUME Calm, TypeOK, AgendaInv, ChargeInv, SoloInv, CalmInv, [Next]_vars
  PROVE  CalmInv'
<1>1. removed' = {} /\ dups' = 0 /\ faults' = 0
  BY StepUndisturbed
<1>2. \A r \in Workers :
        req'[r].pc \in ConfirmingPcs =>
          bookings'[req'[r].id].status = "PENDING_PAYMENT"
  BY StepPending
<1>3. \A b \in BookingIds : served(b)' => Answered(b)'
  BY StepAnswered
<1> QED BY <1>1, <1>2, <1>3 DEF CalmInv

\* One request at a time, no payment declined, nothing failing, every event
\* delivered once and no payment row deleted: a delivery that confirms finds its
\* booking pending, and the event of a confirmed booking is not delivered again.
THEOREM CalmInvHolds ==
  ASSUME OneAtATime, NothingDeclined, Undisturbed
  PROVE  Spec => []CalmInv
<1>1. Init => CalmInv
  BY DEF Init, TablesInit, NoBooking, StripeInit, RequestsInit, Idle, CalmInv,
         served, ConfirmingPcs
<1>2. Calm /\ Solo
  BY DEF Calm, Solo
<1>3. TypeOK /\ AgendaInv /\ ChargeInv /\ SoloInv /\ CalmInv /\ [Next]_vars =>
        CalmInv'
  BY <1>2, StepCalmInv
<1> QED BY <1>1, <1>2, <1>3, TypeCorrect, AgendaInvHolds, ChargeInvHolds,
           SoloInvHolds, PTL DEF Spec

---------------------------------------------------------------------------
\* The contract

\* One entry of the contract, or none.
Kept == Contract!Next \/ UNCHANGED Contract!contract

\* A step that writes no booking is a payment, or nothing to the contract.
LEMMA QuietKept ==
  ASSUME Entry, bookings' = bookings
  PROVE  Kept
<1>1. \/ settledBookings' = settledBookings
      \/ \E b \in BookingIds :
           /\ bookings[b].status # "ABSENT"
           /\ settledBookings' = settledBookings \cup {b}
  <2>1. ASSUME NEW b \in BookingIds, Ledger!Settle(b)
        PROVE  /\ bookings[b].status # "ABSENT"
               /\ settledBookings' = settledBookings \cup {b}
    BY <2>1 DEF Ledger!Settle, stageOf
  <2> QED BY <2>1
          DEF Entry, Ledger!Next, Ledger!ledger, Ledger!Book, Ledger!Move,
              Ledger!Serve, Ledger!Withdraw
<1>2. ASSUME NEW b \in BookingIds, bookings[b].status # "ABSENT",
             settledBookings' = settledBookings \cup {b}
      PROVE  Contract!Settle(b)
  BY <1>2 DEF Contract!Settle
<1>3. CASE settledBookings' = settledBookings
  BY <1>3 DEF Kept, Contract!contract
<1> QED BY <1>1, <1>2, <1>3 DEF Kept, Contract!Next

LEMMA PlacedKept ==
  ASSUME TypeOK, NEW b \in BookingIds, Placed(b)
  PROVE  /\ bookings'[b].startTime \in Times /\ bookings'[b].endTime \in Times
         /\ bookings'[b].startTime < bookings'[b].endTime
         /\ Contract!free(b, bookings'[b].providerId, bookings'[b].startTime,
                          bookings'[b].endTime)
<1>1. PICK s \in StartTimes, d \in Durations :
        bookings'[b].startTime = s /\ bookings'[b].endTime = s + d
  BY DEF Placed, asked
<1>2. s \in Nat /\ d \in Nat \ {0}
  BY BookingAssumption
<1>3. \A a \in BookingIds :
        bookings[a].startTime \in Nat /\ bookings[a].endTime \in Nat
  BY DEF TypeOK, TablesTypeOK, Booking
<1>4. \A a \in BookingIds : bookings[a].status \in Contract!Live => active(a)
  BY DEF Contract!Live, Contract!Open, active, exists
<1>5. Contract!free(b, bookings'[b].providerId, s, s + d)
  BY <1>1, <1>2, <1>3, <1>4
  DEF Contract!free, Placed, slotAvailable, overlaps
<1> QED BY <1>1, <1>2, <1>5 DEF Times

LEMMA MakeKept ==
  ASSUME NEW b \in BookingIds, NEW p \in Providers, NEW s \in Times,
         NEW e \in Times, Contract!Make(b, p, s, e)
  PROVE  Kept
  BY DEF Kept, Contract!Next

LEMMA MoveKept ==
  ASSUME NEW b \in BookingIds, NEW s \in Times, NEW e \in Times,
         Contract!Move(b, s, e)
  PROVE  Kept
  BY DEF Kept, Contract!Next

LEMMA TurnKept ==
  ASSUME TypeOK, CalmInv, TakesTurn
  PROVE  Kept
<1>1. PICK b \in BookingIds :
        /\ \A c \in BookingIds \ {b} : bookings'[c] = bookings[c]
        /\ Turn(b)
  BY DEF TakesTurn
<1>2. settledBookings' = settledBookings
  BY SameIntents DEF TakesTurn
<1>3. CASE Made(b)
  <2>1. PICK p \in Providers, s, e \in Times :
          /\ p = bookings'[b].providerId
          /\ s = bookings'[b].startTime /\ e = bookings'[b].endTime
    BY <1>3, PlacedKept DEF Made
  <2>2. Contract!Make(b, p, s, e)
    BY <1>1, <1>2, <1>3, <2>1, PlacedKept DEF Contract!Make, Made
  <2> QED BY <2>2, MakeKept
<1>4. CASE Moved(b)
  <2>1. PICK s, e \in Times :
          s = bookings'[b].startTime /\ e = bookings'[b].endTime
    BY <1>4, PlacedKept DEF Moved
  <2>2. Contract!Move(b, s, e)
    BY <1>1, <1>2, <1>4, <2>1, PlacedKept
    DEF Contract!Move, Contract!Open, Moved, Open
  <2> QED BY <2>2, MoveKept
<1>5. CASE Advanced(b, {bookings[b].status}, bookings[b].status)
  BY <1>1, <1>2, <1>5 DEF Kept, Contract!contract, Advanced
<1>6. ASSUME NEW from, NEW to, Advanced(b, from, to)
      PROVE  Contract!advance(b, from, to)
  BY <1>1, <1>2, <1>6 DEF Contract!advance, Advanced
<1>7. CASE /\ paidFor(b)
           /\ \E r \in Workers : req[r].pc \in ConfirmingPcs /\ req[r].id = b
           /\ Advanced(b, {"PENDING_PAYMENT", "COMPLETED"}, "CONFIRMED")
  <2>1. Advanced(b, {"PENDING_PAYMENT"}, "CONFIRMED")
    BY <1>7 DEF CalmInv, Advanced
  <2>2. b \in settledBookings
    BY <1>7 DEF settledBookings
  <2>3. Contract!Confirm(b)
    BY <1>6, <2>1, <2>2 DEF Contract!Confirm
  <2> QED BY <2>3 DEF Kept, Contract!Next
<1>8. CASE Advanced(b, {"CONFIRMED"}, "COMPLETED")
  BY <1>6, <1>8 DEF Kept, Contract!Next, Contract!Complete
<1>9. CASE Advanced(b, Open, "CANCELLED")
  BY <1>6, <1>9 DEF Kept, Contract!Next, Contract!Cancel, Contract!Open, Open
<1> QED BY <1>1, <1>3, <1>4, <1>5, <1>7, <1>8, <1>9 DEF Turn

LEMMA InitContract ==
  ASSUME Init
  PROVE  Contract!Init
<1>1. \A b \in BookingIds : bookings[b] = NoBooking
  BY DEF Init, TablesInit
<1>2. settledBookings = {}
  BY DEF Init, StripeInit, NoIntent, settledBookings, paidFor, paid
<1> QED BY <1>1, <1>2 DEF Contract!Init, NoBooking, null

\* The refinement: with one request at a time, no payment declined, nothing
\* failing, every event delivered once and no payment row deleted, the back end
\* keeps the contract of an agenda, and the handlers' checks are as good as
\* locks.
THEOREM ContractKeptHolds ==
  ASSUME OneAtATime, NothingDeclined, Undisturbed
  PROVE  Spec => ContractKept
<1>0. Calm /\ Solo
  BY DEF Calm, Solo
<1>1. ASSUME TypeOK, PaidInv, AgendaInv, BoundInv, HoursInv, SoloInv, CalmInv,
             [Next]_vars
      PROVE  [Contract!Next]_(Contract!contract)
  BY <1>1, <1>0, StepEntry, StepTurn, QuietKept, TurnKept DEF Kept
<1> QED BY <1>1, <1>0, InitContract, TypeCorrect, PaidInvHolds, AgendaInvHolds,
           BoundInvHolds, HoursInvHolds, SoloInvHolds, CalmInvHolds, PTL
        DEF Spec, ContractKept, Contract!Spec
=============================================================================
