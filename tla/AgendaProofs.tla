----------------------------- MODULE AgendaProofs -----------------------------
(***************************************************************************)
(* The agenda of Backend, for every value of the constants: AgendaInv is   *)
(* inductive, so two active bookings of a provider never start together,   *)
(* and so is HoursInv, so all lie in the provider's opening hours as far   *)
(* as the handlers check them, and the slots offered are those create      *)
(* accepts.                                                                *)
(***************************************************************************)
EXTENDS PaymentProofs, SlotFinder, WellFoundedInduction

\* The part of AgendaInv that is about the table alone.
RowsInv == DistinctStarts /\ AbsentRowsUnbound

---------------------------------------------------------------------------
\* Rows are never deleted and never change hands.

RowsStay ==
  \A b \in BookingIds :
    exists(b) =>
      exists(b)' /\ bookings'[b].providerId = bookings[b].providerId

LEMMA RowInvKept ==
  ASSUME NEW w \in Workers, RowsStay, RowInv(req[w]), req'[w] = req[w]
  PROVE  RowInv(req[w])'
<1>1. ReschedulePcs \cap NoBookingPcs = {}
  BY DEF ReschedulePcs, NoBookingPcs
<1> QED BY <1>1 DEF RowsStay, RowInv, exists

\* What is left to show of a step of one request.
LEMMA StepAgendaInv ==
  ASSUME AgendaInv, NEW r \in Workers, RowsStay, RowsInv',
         \A w \in Workers \ {r} : req'[w] = req[w], RowInv(req[r])'
  PROVE  AgendaInv'
<1>1. ASSUME NEW w \in Workers
      PROVE  RowInv(req[w])'
  BY <1>1, RowInvKept DEF AgendaInv
<1> QED BY <1>1 DEF AgendaInv, RowsInv

LEMMA UnchangedRows ==
  ASSUME AgendaInv, bookings' = bookings
  PROVE  RowsStay /\ RowsInv'
  BY DEF RowsStay, AgendaInv, RowsInv, DistinctStarts, AbsentRowsUnbound, exists

\* A row that is there is rewritten, at the same time of the same provider.
LEMMA RewrittenRow ==
  ASSUME AgendaInv, NEW b \in BookingIds, exists(b),
         \A c \in BookingIds \ {b} : bookings'[c] = bookings[c],
         bookings'[b].status # "ABSENT",
         bookings'[b].providerId = bookings[b].providerId,
         bookings'[b].startTime = bookings[b].startTime
  PROVE  RowsStay /\ RowsInv'
<1>1. \A c \in BookingIds :
        /\ exists(c)' <=> exists(c)
        /\ bookings'[c].providerId = bookings[c].providerId
        /\ bookings'[c].startTime = bookings[c].startTime
  BY DEF exists
<1>2. DistinctStarts'
  BY <1>1 DEF AgendaInv, DistinctStarts
<1>3. AbsentRowsUnbound'
  BY <1>1 DEF AgendaInv, AbsentRowsUnbound
<1> QED BY <1>1, <1>2, <1>3 DEF RowsStay, RowsInv

\* A row is inserted or moved, and the index does not object.
LEMMA IndexedRow ==
  ASSUME AgendaInv, NEW b \in BookingIds, NEW p, NEW s,
         ~startTimeTaken(b, p, s),
         \A c \in BookingIds \ {b} : bookings'[c] = bookings[c],
         bookings'[b].status # "ABSENT",
         bookings'[b].providerId = p, bookings'[b].startTime = s
  PROVE  RowsInv'
<1>1. \A c \in BookingIds \ {b} :
        exists(c)' => exists(c) /\ ~(bookings'[c].providerId = p
                                     /\ bookings'[c].startTime = s)
  BY DEF exists, startTimeTaken
<1>2. DistinctStarts'
  BY <1>1 DEF AgendaInv, DistinctStarts, exists
<1>3. AbsentRowsUnbound'
  BY DEF AgendaInv, AbsentRowsUnbound, exists
<1> QED BY <1>2, <1>3 DEF RowsInv

---------------------------------------------------------------------------
\* Steps that leave the bookings alone

\* Where a request has nothing to remember but the row it is about.
PlainPcs == Pcs \ ReschedulePcs

LEMMA FreeRowInv ==
  ASSUME NEW r, req'[r].pc \in NoBookingPcs
  PROVE  RowInv(req[r])'
  BY DEF RowInv, NoBookingPcs, ReschedulePcs

LEMMA SameRowInv ==
  ASSUME AgendaInv, RowsStay, NEW r \in Workers,
         req[r].pc \notin NoBookingPcs,
         req'[r].id = req[r].id, req'[r].pc \in PlainPcs
  PROVE  RowInv(req[r])'
<1>1. exists(req[r].id)'
  BY DEF AgendaInv, RowInv, RowsStay, exists
<1> QED BY <1>1 DEF RowInv, PlainPcs

\* The request moves on, about the same booking, or ends.
LEMMA MoveAgendaInv ==
  ASSUME AgendaInv, NEW r \in Workers, RowsStay, RowsInv',
         \A w \in Workers \ {r} : req'[w] = req[w],
         \/ req'[r].pc = "idle"
         \/ /\ req[r].pc \notin NoBookingPcs
            /\ req'[r].id = req[r].id
            /\ req'[r].pc \in PlainPcs
  PROVE  AgendaInv'
  BY StepAgendaInv, SameRowInv, FreeRowInv DEF NoBookingPcs

LEMMA ArriveAgendaInv ==
  ASSUME TypeOK, AgendaInv, NEW r \in Workers, Arrive(r)
  PROVE  AgendaInv'
<1> USE DEF TypeOK
<1>1. bookings' = bookings
  BY DEF Arrive, create, createPaymentIntent, cancel, complete, reschedule,
         review, tables
<1>2. ASSUME NEW q, enter(r, q), RowInv(q)
      PROVE  AgendaInv'
  <2>1. RowInv(req[r])'
    BY <1>1, <1>2, EnterShape DEF RowInv, exists
  <2> QED BY <1>1, <1>2, <2>1, EnterShape, UnchangedRows, StepAgendaInv
<1>3. ASSUME NEW b \in BookingIds, exists(b), NEW q, enter(r, q),
             q.pc \notin ReschedulePcs, q.id = b
      PROVE  AgendaInv'
  BY <1>2, <1>3 DEF RowInv
<1>4. ASSUME NEW u \in Clients, NEW p \in Providers, NEW s \in StartTimes,
             NEW d \in Durations, create(r, u, p, s, d)
      PROVE  AgendaInv'
  BY <1>2, <1>4 DEF create, RowInv, Idle, NoBookingPcs, ReschedulePcs
<1>5. ASSUME NEW u \in Clients, NEW b \in BookingIds,
             createPaymentIntent(r, u, b)
      PROVE  AgendaInv'
  BY <1>3, <1>5 DEF createPaymentIntent, Idle, ReschedulePcs
<1>6. ASSUME NEW u \in Users, NEW b \in BookingIds, cancel(r, u, b)
      PROVE  AgendaInv'
  BY <1>3, <1>6 DEF cancel, Idle, ReschedulePcs
<1>7. ASSUME NEW u \in Providers, NEW b \in BookingIds, complete(r, u, b)
      PROVE  AgendaInv'
  BY <1>3, <1>7 DEF complete, Idle, ReschedulePcs
<1>8. ASSUME NEW u \in Users, NEW b \in BookingIds, NEW s \in StartTimes,
             NEW d \in Durations, reschedule(r, u, b, s, d)
      PROVE  AgendaInv'
  BY <1>2, <1>8 DEF reschedule, RowInv, Idle
<1>9. ASSUME NEW u \in Clients, NEW b \in BookingIds, review(r, u, b)
      PROVE  AgendaInv'
  BY <1>3, <1>9 DEF review, Idle, ReschedulePcs
<1> QED BY <1>4, <1>5, <1>6, <1>7, <1>8, <1>9 DEF Arrive

\* A row found by an intent is there: the intent is not null.
LEMMA FoundRow ==
  ASSUME AgendaInv, NEW i \in Intents, NEW b \in BookingIds,
         bookings[b].paymentIntentId = i
  PROVE  exists(b)
<1>1. i # null
  BY DEF Intents, null
<1> QED BY <1>1 DEF AgendaInv, AbsentRowsUnbound

LEMMA DeliverAgendaInv ==
  ASSUME TypeOK, AgendaInv, NEW r \in Workers, Deliver(r)
  PROVE  AgendaInv'
<1> USE DEF TypeOK
<1> SUFFICES ASSUME NEW i \in Intents,
                    paymentSucceeded(r, i) \/ paymentFailed(r, i)
             PROVE  AgendaInv'
  BY DEF Deliver
<1>1. bookings' = bookings
  BY DEF paymentSucceeded, paymentFailed, tables
<1>2. ASSUME NEW b \in BookingIds, bookings[b].paymentIntentId = i,
             NEW q, enter(r, q), q.id = b, q.pc \notin ReschedulePcs
      PROVE  AgendaInv'
  <2>1. exists(b)'
    BY <1>1, <1>2, FoundRow DEF exists
  <2>2. RowInv(req[r])'
    BY <1>2, <2>1, EnterShape DEF RowInv
  <2> QED BY <1>1, <1>2, <2>2, EnterShape, UnchangedRows, StepAgendaInv
<1>3. CASE paymentSucceeded(r, i)
  BY <1>2, <1>3
  DEF paymentSucceeded, confirmByPaymentIntent, Idle, ReschedulePcs
<1>4. CASE paymentFailed(r, i)
  <2>1. CASE UNCHANGED process
    BY <1>1, <2>1, UnchangedRows, RowInvKept, StepAgendaInv
    DEF process, AgendaInv
  <2> QED BY <1>2, <1>4, <2>1 DEF paymentFailed, Idle, ReschedulePcs
<1> QED BY <1>3, <1>4

LEMMA QuietAgendaInv ==
  ASSUME AgendaInv, NEW r \in Workers, bookings' = bookings,
         \A w \in Workers \ {r} : req'[w] = req[w],
         \/ req'[r].pc = "idle"
         \/ /\ req[r].pc \notin NoBookingPcs
            /\ req'[r].id = req[r].id
            /\ req'[r].pc \in PlainPcs
  PROVE  AgendaInv'
  BY UnchangedRows, MoveAgendaInv

\* The two ways on from a statement that leaves the bookings alone.
LEMMA GotoAgendaInv ==
  ASSUME TypeOK, AgendaInv, NEW r \in Workers, bookings' = bookings,
         req[r].pc \notin NoBookingPcs, NEW pc \in PlainPcs, goto(r, pc)
  PROVE  AgendaInv'
  BY GotoShape, QuietAgendaInv DEF TypeOK

LEMMA FinishAgendaInv ==
  ASSUME TypeOK, AgendaInv, NEW r \in Workers, bookings' = bookings, finish(r)
  PROVE  AgendaInv'
  BY FinishShape, QuietAgendaInv DEF TypeOK

LEMMA EnterAgendaInv ==
  ASSUME TypeOK, AgendaInv, NEW r \in Workers, bookings' = bookings,
         req[r].pc \notin NoBookingPcs, NEW q, enter(r, q),
         q.id = req[r].id, q.pc \in PlainPcs
  PROVE  AgendaInv'
  BY EnterShape, QuietAgendaInv DEF TypeOK

---------------------------------------------------------------------------
\* Steps that write bookings

\* booking.update of the row a request is about, its time left alone.
LEMMA UpdateAgendaInv ==
  ASSUME TypeOK, AgendaInv, NEW r \in Workers, NEW b \in BookingIds, exists(b),
         NEW row, bookingUpdate(b, row), row.status # "ABSENT",
         row.providerId = bookings[b].providerId,
         row.startTime = bookings[b].startTime,
         \A w \in Workers \ {r} : req'[w] = req[w],
         \/ req'[r].pc = "idle"
         \/ /\ req[r].pc \notin NoBookingPcs
            /\ req'[r].id = req[r].id
            /\ req'[r].pc \in PlainPcs
  PROVE  AgendaInv'
<1>1. /\ bookings'[b] = row
      /\ \A c \in BookingIds \ {b} : bookings'[c] = bookings[c]
  BY BookingShape DEF TypeOK
<1>2. RowsStay /\ RowsInv'
  BY <1>1, RewrittenRow
<1> QED BY <1>2, MoveAgendaInv

\* What a request past its first guards knows.
LEMMA RequestRow ==
  ASSUME TypeOK, AgendaInv, NEW r \in Workers, req[r].pc \notin NoBookingPcs
  PROVE  /\ req[r].id \in BookingIds
         /\ exists(req[r].id)
         /\ bookings[req[r].id].status # "ABSENT"
         /\ bookings[req[r].id] \in Booking
         /\ req[r] \in RequestRecord
  BY RequestCarries DEF AgendaInv, RowInv, exists, TypeOK, TablesTypeOK

LEMMA CreateAgendaInv ==
  ASSUME TypeOK, AgendaInv, NEW r \in Workers, Create(r)
  PROVE  AgendaInv'
<1>1. CASE finish(r) /\ UNCHANGED tables
  BY <1>1, FinishAgendaInv DEF tables
<1>2. ASSUME NEW b \in BookingIds, NEW row,
             isNextBookingId(b),
             ~startTimeTaken(b, req[r].providerId, req[r].startTime),
             row.status = "PENDING_PAYMENT",
             row.providerId = req[r].providerId,
             row.startTime = req[r].startTime,
             bookingUpdate(b, row),
             enter(r, [Idle EXCEPT !.pc = "intent:create", !.id = b])
      PROVE  AgendaInv'
  <2>1. /\ bookings'[b] = row
        /\ \A c \in BookingIds \ {b} : bookings'[c] = bookings[c]
    BY <1>2, BookingShape DEF TypeOK
  <2>2. RowsInv'
    BY <1>2, <2>1, IndexedRow
  <2>3. RowsStay
    BY <1>2, <2>1 DEF RowsStay, exists, isNextBookingId
  <2>4. /\ req'[r].pc = "intent:create"
        /\ req'[r].id = b
        /\ \A w \in Workers \ {r} : req'[w] = req[w]
    BY <1>2 DEF enter, Idle, TypeOK, RequestsTypeOK
  <2>5. exists(b)'
    BY <1>2, <2>1 DEF exists
  <2>6. RowInv(req[r])'
    BY <2>4, <2>5 DEF RowInv, ReschedulePcs
  <2> QED BY <2>2, <2>3, <2>4, <2>6, StepAgendaInv
<1> DEFINE row == [NoBooking EXCEPT !.status = "PENDING_PAYMENT",
                     !.clientId = req[r].clientId,
                     !.providerId = req[r].providerId,
                     !.startTime = req[r].startTime,
                     !.endTime = req[r].endTime]
<1>3. /\ row.status = "PENDING_PAYMENT"
      /\ row.providerId = req[r].providerId
      /\ row.startTime = req[r].startTime
  BY DEF NoBooking
<1>4. \/ finish(r) /\ UNCHANGED tables
      \/ \E b \in BookingIds :
           /\ isNextBookingId(b)
           /\ ~startTimeTaken(b, req[r].providerId, req[r].startTime)
           /\ bookingUpdate(b, row)
           /\ enter(r, [Idle EXCEPT !.pc = "intent:create", !.id = b])
  BY DEF Create, createInsert
<1> HIDE DEF row
<1> QED BY <1>1, <1>2, <1>3, <1>4

LEMMA IntentAgendaInv ==
  ASSUME TypeOK, AgendaInv, NEW r \in Workers, Intent(r)
  PROVE  AgendaInv'
<1>1. req[r].pc \notin NoBookingPcs
  BY DEF Intent, intentCreate, intentPayment, intentLink, intentRespond, at,
         NoBookingPcs
<1>2. {"intent:payment", "intent:link", "intent:respond"} \subseteq PlainPcs
  BY DEF PlainPcs, Pcs, IntentPcs, ReschedulePcs, FailedPcs
<1>3. CASE intentCreate(r)
  <2>1. bookings' = bookings
    BY <1>3 DEF intentCreate, tables
  <2>2. ASSUME NEW i \in Intents,
               enter(r, [req[r] EXCEPT !.pc = "intent:payment", !.intent = i])
        PROVE  AgendaInv'
    <3> DEFINE q == [req[r] EXCEPT !.pc = "intent:payment", !.intent = i]
    <3>1. q.id = req[r].id /\ q.pc = "intent:payment"
      BY <1>1, RequestRow DEF RequestRecord
    <3> HIDE DEF q
    <3>2. enter(r, q)
      BY <2>2 DEF q
    <3> QED BY <1>1, <1>2, <2>1, <3>1, <3>2, EnterAgendaInv
  <2> QED BY <1>3, <2>1, <2>2, FinishAgendaInv DEF intentCreate
<1>4. CASE intentPayment(r)
  <2>1. bookings' = bookings
    BY <1>4 DEF intentPayment, tables, paymentCreate
  <2> QED BY <1>1, <1>2, <1>4, <2>1, GotoAgendaInv, FinishAgendaInv
          DEF intentPayment
<1>5. CASE intentLink(r)
  <2> DEFINE b == req[r].id
             row == [bookings[b] EXCEPT !.paymentIntentId = req[r].intent]
  <2>1. b \in BookingIds /\ exists(b)
    BY <1>1, RequestRow
  <2>2. /\ row.status # "ABSENT"
        /\ row.providerId = bookings[b].providerId
        /\ row.startTime = bookings[b].startTime
    BY <1>1, RequestRow DEF Booking
  <2>3. bookingUpdate(b, row) /\ goto(r, "intent:respond")
    BY <1>5 DEF intentLink
  <2> HIDE DEF row
  <2> QED BY <1>1, <1>2, <2>1, <2>2, <2>3, GotoShape, UpdateAgendaInv
          DEF TypeOK
<1>6. CASE intentRespond(r)
  BY <1>6, FinishAgendaInv DEF intentRespond, tables
<1> QED BY <1>3, <1>4, <1>5, <1>6 DEF Intent

LEMMA ConfirmAgendaInv ==
  ASSUME TypeOK, AgendaInv, NEW r \in Workers, Confirm(r)
  PROVE  AgendaInv'
<1>1. req[r].pc \in ConfirmPcs
  BY DEF Confirm, confirmFindPayment, confirmCreatePayment,
         confirmProviderEvent, confirmClientEvent, confirmUpdate,
         confirmMailBooking, confirmMailPayment, webhookMail, webhookAnswer,
         at, ConfirmPcs
<1>2. req[r].pc \notin NoBookingPcs /\ ConfirmPcs \subseteq PlainPcs
  BY <1>1 DEF ConfirmPcs, FailedPcs, NoBookingPcs, PlainPcs, Pcs, ReschedulePcs
<1>3. ASSUME NEW q, enter(r, q), bookings' = bookings,
             q.id = req[r].id, q.pc \in ConfirmPcs
      PROVE  AgendaInv'
  BY <1>2, <1>3, EnterAgendaInv
<1>4. ASSUME NEW pc \in ConfirmPcs, goto(r, pc), bookings' = bookings
      PROVE  AgendaInv'
  BY <1>2, <1>4, GotoAgendaInv
<1>5. CASE confirmFindPayment(r)
  BY <1>4, <1>5 DEF confirmFindPayment, tables, ConfirmPcs
<1>6. CASE confirmCreatePayment(r)
  <2>1. bookings' = bookings
    BY <1>6 DEF confirmCreatePayment, tables, paymentCreate
  <2> QED BY <1>4, <1>6, <2>1, FinishAgendaInv
          DEF confirmCreatePayment, ConfirmPcs
<1>7. CASE confirmProviderEvent(r)
  <2>1. bookings' = bookings
    BY <1>7 DEF confirmProviderEvent, tables
  <2>2. PICK e : enter(r, [req[r] EXCEPT !.pc = "confirm:clientEvent",
                                         !.providerEvent = e])
    BY <1>7 DEF confirmProviderEvent
  <2> DEFINE q == [req[r] EXCEPT !.pc = "confirm:clientEvent",
                                 !.providerEvent = e]
  <2>3. q.id = req[r].id /\ q.pc \in ConfirmPcs
    BY <1>2, RequestRow DEF RequestRecord, ConfirmPcs
  <2>4. enter(r, q)
    BY <2>2
  <2> HIDE DEF q
  <2> QED BY <1>3, <2>1, <2>3, <2>4
<1>8. CASE confirmClientEvent(r)
  <2>1. bookings' = bookings
    BY <1>8 DEF confirmClientEvent, tables
  <2>2. PICK e : enter(r, [req[r] EXCEPT !.pc = "confirm:update",
                                         !.startTime = 0, !.clientEvent = e])
    BY <1>8 DEF confirmClientEvent
  <2> DEFINE q == [req[r] EXCEPT !.pc = "confirm:update",
                                 !.startTime = 0, !.clientEvent = e]
  <2>3. q.id = req[r].id /\ q.pc \in ConfirmPcs
    BY <1>2, RequestRow DEF RequestRecord, ConfirmPcs
  <2>4. enter(r, q)
    BY <2>2
  <2> HIDE DEF q
  <2> QED BY <1>3, <2>1, <2>3, <2>4
<1>9. CASE confirmUpdate(r)
  <2>1. CASE finish(r) /\ UNCHANGED tables
    BY <2>1, FinishAgendaInv DEF tables
  <2>2. ASSUME NEW b \in BookingIds,
               bookings[b].paymentIntentId = req[r].intent,
               bookingUpdate(b, confirmed(bookings[b], r)),
               enter(r, [Idle EXCEPT !.pc = "confirm:mailBooking", !.id = b,
                                     !.intent = req[r].intent])
        PROVE  AgendaInv'
    <3>1. req[r].intent \in Intents
      BY <1>1, RequestCarries DEF TypeOK, PaymentPcs, FailedPcs
    <3>2. exists(b)
      BY <2>2, <3>1, FoundRow
    <3> DEFINE row == confirmed(bookings[b], r)
    <3>3. /\ row.status # "ABSENT"
          /\ row.providerId = bookings[b].providerId
          /\ row.startTime = bookings[b].startTime
      <4>1. bookings[b] \in Booking
        BY DEF TypeOK, TablesTypeOK
      <4> QED BY <4>1 DEF confirmed, Booking
    <3>4. bookingUpdate(b, row)
      BY <2>2
    <3> HIDE DEF row
    <3>5. /\ bookings'[b] = row
          /\ \A c \in BookingIds \ {b} : bookings'[c] = bookings[c]
      BY <3>4, BookingShape DEF TypeOK
    <3>6. RowsStay /\ RowsInv'
      BY <3>2, <3>3, <3>5, RewrittenRow
    <3>7. /\ req'[r].pc = "confirm:mailBooking"
          /\ req'[r].id = b
          /\ \A w \in Workers \ {r} : req'[w] = req[w]
      BY <2>2 DEF enter, Idle, TypeOK, RequestsTypeOK
    <3>8. RowInv(req[r])'
      BY <3>2, <3>6, <3>7 DEF RowInv, RowsStay, ReschedulePcs
    <3> QED BY <3>6, <3>7, <3>8, StepAgendaInv
  <2> QED BY <1>9, <2>1, <2>2 DEF confirmUpdate
<1>10. CASE confirmMailBooking(r) \/ confirmMailPayment(r) \/ webhookMail(r)
  BY <1>4, <1>10
  DEF confirmMailBooking, confirmMailPayment, webhookMail, tables, ConfirmPcs
<1>11. CASE webhookAnswer(r)
  BY <1>11, FinishAgendaInv DEF webhookAnswer, tables
<1> QED BY <1>5, <1>6, <1>7, <1>8, <1>9, <1>10, <1>11 DEF Confirm

LEMMA FailedAgendaInv ==
  ASSUME TypeOK, AgendaInv, NEW r \in Workers, Failed(r)
  PROVE  AgendaInv'
<1> DEFINE b == req[r].id
           row == [bookings[b] EXCEPT !.status = "PENDING_PAYMENT"]
<1>1. CASE failedUpdate(r)
  <2>1. req[r].pc \notin NoBookingPcs
    BY <1>1 DEF failedUpdate, at, NoBookingPcs
  <2>2. /\ row.status # "ABSENT"
        /\ row.providerId = bookings[b].providerId
        /\ row.startTime = bookings[b].startTime
    BY <2>1, RequestRow DEF Booking
  <2>3. b \in BookingIds /\ exists(b)
    BY <2>1, RequestRow
  <2>4. bookingUpdate(b, row) /\ goto(r, "failed:answer")
    BY <1>1 DEF failedUpdate
  <2>5. "failed:answer" \in PlainPcs
    BY DEF PlainPcs, Pcs, FailedPcs, NoBookingPcs, ReschedulePcs
  <2> HIDE DEF row
  <2>6. /\ req'[r].pc = "failed:answer" /\ req'[r].id = b
        /\ \A w \in Workers \ {r} : req'[w] = req[w]
    BY <2>4, GotoShape DEF TypeOK
  <2> QED BY <2>1, <2>2, <2>3, <2>4, <2>5, <2>6, UpdateAgendaInv
<1>2. CASE failedAnswer(r)
  BY <1>2, FinishAgendaInv DEF failedAnswer, tables
<1> QED BY <1>1, <1>2 DEF Failed

LEMMA CompleteAgendaInv ==
  ASSUME TypeOK, AgendaInv, NEW r \in Workers, Complete(r)
  PROVE  AgendaInv'
<1> DEFINE b == req[r].id
           row == [bookings[b] EXCEPT !.status = "COMPLETED",
                                      !.completedAt = TRUE]
<1>1. req[r].pc \notin NoBookingPcs
  BY DEF Complete, completeUpdate, at, NoBookingPcs
<1>2. /\ row.status # "ABSENT"
      /\ row.providerId = bookings[b].providerId
      /\ row.startTime = bookings[b].startTime
  BY <1>1, RequestRow DEF Booking
<1>3. b \in BookingIds /\ exists(b)
  BY <1>1, RequestRow
<1>4. bookingUpdate(b, row) /\ finish(r)
  BY DEF Complete, completeUpdate
<1> HIDE DEF row
<1> QED BY <1>2, <1>3, <1>4, FinishShape, UpdateAgendaInv DEF TypeOK

LEMMA CancelAgendaInv ==
  ASSUME TypeOK, AgendaInv, NEW r \in Workers, Cancel(r)
  PROVE  AgendaInv'
<1>1. req[r].pc \notin NoBookingPcs
  BY DEF Cancel, cancelProviderEvent, cancelClientEvent, cancelUpdate,
         cancelMail, at, NoBookingPcs
<1>2. {"cancel:clientEvent", "cancel:update", "cancel:mail"} \subseteq PlainPcs
  BY DEF PlainPcs, Pcs, ReschedulePcs, FailedPcs
<1>3. CASE cancelProviderEvent(r)
  <2> DEFINE q == [req[r] EXCEPT !.pc = "cancel:clientEvent",
                                 !.providerEvent = null]
  <2>1. q.id = req[r].id /\ q.pc \in PlainPcs
    BY <1>1, <1>2, RequestRow DEF RequestRecord
  <2>2. enter(r, q) /\ bookings' = bookings
    BY <1>3 DEF cancelProviderEvent, tables
  <2> HIDE DEF q
  <2> QED BY <1>1, <2>1, <2>2, EnterAgendaInv
<1>4. CASE cancelClientEvent(r)
  <2> DEFINE q == [req[r] EXCEPT !.pc = "cancel:update", !.clientEvent = null]
  <2>1. q.id = req[r].id /\ q.pc \in PlainPcs
    BY <1>1, <1>2, RequestRow DEF RequestRecord
  <2>2. enter(r, q) /\ bookings' = bookings
    BY <1>4 DEF cancelClientEvent, tables
  <2> HIDE DEF q
  <2> QED BY <1>1, <2>1, <2>2, EnterAgendaInv
<1>5. CASE cancelUpdate(r)
  <2> DEFINE b == req[r].id
             row == [bookings[b] EXCEPT !.status = "CANCELLED",
                       !.providerGoogleEventId = null,
                       !.clientGoogleEventId = null]
  <2>1. /\ row.status # "ABSENT"
        /\ row.providerId = bookings[b].providerId
        /\ row.startTime = bookings[b].startTime
    BY <1>1, RequestRow DEF Booking
  <2>2. b \in BookingIds /\ exists(b)
    BY <1>1, RequestRow
  <2>3. bookingUpdate(b, row) /\ goto(r, "cancel:mail")
    BY <1>5 DEF cancelUpdate
  <2> HIDE DEF row
  <2> QED BY <1>1, <1>2, <2>1, <2>2, <2>3, GotoShape, UpdateAgendaInv
          DEF TypeOK
<1>6. CASE cancelMail(r)
  BY <1>6, FinishAgendaInv DEF cancelMail, tables
<1> QED BY <1>3, <1>4, <1>5, <1>6 DEF Cancel

LEMMA RescheduleAgendaInv ==
  ASSUME TypeOK, AgendaInv, NEW r \in Workers, Reschedule(r)
  PROVE  AgendaInv'
<1>1. req[r].pc \notin NoBookingPcs
  BY DEF Reschedule, rescheduleCheck, rescheduleUpdate, rescheduleReadBack,
         rescheduleProviderEvent, rescheduleClientEvent, at, NoBookingPcs
<1>2. {"reschedule:readBack", "reschedule:providerEvent",
       "reschedule:clientEvent"} \subseteq PlainPcs
  BY DEF PlainPcs, Pcs, ReschedulePcs, FailedPcs
<1>3. CASE rescheduleCheck(r)
  <2>1. bookings' = bookings
    BY <1>3 DEF rescheduleCheck, tables
  <2>2. CASE goto(r, "reschedule:update")
    <3>1. /\ req'[r].id = req[r].id
          /\ req'[r].providerId = req[r].providerId
          /\ \A w \in Workers \ {r} : req'[w] = req[w]
      BY <1>1, <2>2, RequestRow
      DEF goto, RequestRecord, TypeOK, RequestsTypeOK
    <3>2. RowInv(req[r])
      BY DEF AgendaInv
    <3>3. req[r].pc \in ReschedulePcs
      BY <1>3 DEF rescheduleCheck, at, ReschedulePcs
    <3>4. RowInv(req[r])'
      BY <1>1, <2>1, <3>1, <3>2, <3>3 DEF RowInv, exists
    <3> QED BY <2>1, <3>1, <3>4, UnchangedRows, StepAgendaInv
  <2> QED BY <1>3, <2>1, <2>2, FinishAgendaInv DEF rescheduleCheck
<1>4. CASE rescheduleUpdate(r)
  <2>1. CASE finish(r) /\ UNCHANGED tables
    BY <2>1, FinishAgendaInv DEF tables
  <2> DEFINE b == req[r].id
             row == [bookings[b] EXCEPT !.startTime = req[r].startTime,
                                        !.endTime = req[r].endTime]
  <2>2. ASSUME ~startTimeTaken(b, req[r].providerId, req[r].startTime),
               bookingUpdate(b, row), goto(r, "reschedule:readBack")
        PROVE  AgendaInv'
    <3>1. /\ b \in BookingIds
          /\ exists(b)
          /\ req[r].providerId = bookings[b].providerId
      BY <1>1, <1>4, RequestRow
      DEF AgendaInv, RowInv, rescheduleUpdate, at, ReschedulePcs
    <3>2. /\ row.status # "ABSENT"
          /\ row.providerId = bookings[b].providerId
          /\ row.startTime = req[r].startTime
      BY <1>1, RequestRow DEF Booking
    <3> HIDE DEF row
    <3>3. /\ bookings'[b] = row
          /\ \A c \in BookingIds \ {b} : bookings'[c] = bookings[c]
      BY <2>2, <3>1, BookingShape DEF TypeOK
    <3>4. RowsInv'
      BY <2>2, <3>1, <3>2, <3>3, IndexedRow
    <3>5. RowsStay
      BY <3>1, <3>2, <3>3 DEF RowsStay, exists
    <3> QED BY <1>1, <1>2, <2>2, <3>4, <3>5, GotoShape, MoveAgendaInv
            DEF TypeOK
  <2> HIDE DEF row
  <2>3. \/ finish(r) /\ UNCHANGED tables
        \/ /\ ~startTimeTaken(b, req[r].providerId, req[r].startTime)
           /\ bookingUpdate(b, row)
           /\ goto(r, "reschedule:readBack")
    BY <1>4 DEF rescheduleUpdate, row
  <2> QED BY <2>1, <2>2, <2>3
<1>5. CASE rescheduleReadBack(r)
  <2> DEFINE q == [req[r] EXCEPT !.pc = "reschedule:providerEvent",
                     !.startTime = bookings[req[r].id].startTime,
                     !.endTime = 0, !.providerId = null]
  <2>1. q.id = req[r].id /\ q.pc \in PlainPcs
    BY <1>1, <1>2, RequestRow DEF RequestRecord
  <2>2. enter(r, q) /\ bookings' = bookings
    BY <1>5 DEF rescheduleReadBack, tables
  <2> HIDE DEF q
  <2> QED BY <1>1, <2>1, <2>2, EnterAgendaInv
<1>6. CASE rescheduleProviderEvent(r)
  BY <1>1, <1>2, <1>6, GotoAgendaInv DEF rescheduleProviderEvent, tables
<1>7. CASE rescheduleClientEvent(r)
  BY <1>7, FinishAgendaInv DEF rescheduleClientEvent, tables
<1> QED BY <1>3, <1>4, <1>5, <1>6, <1>7 DEF Reschedule

LEMMA ReviewAgendaInv ==
  ASSUME TypeOK, AgendaInv, NEW r \in Workers, Review(r)
  PROVE  AgendaInv'
<1>1. bookings' = bookings
  BY DEF Review, reviewFind, reviewInsert, tables
<1>2. req[r].pc \notin NoBookingPcs /\ "review:insert" \in PlainPcs
  BY DEF Review, reviewFind, reviewInsert, at, NoBookingPcs, PlainPcs, Pcs,
         ReschedulePcs, FailedPcs
<1> QED BY <1>1, <1>2, GotoAgendaInv, FinishAgendaInv
        DEF Review, reviewFind, reviewInsert

---------------------------------------------------------------------------
\* The customer, the admin, faults, the clock and stuttering leave every row
\* where it is; a request goes on waiting or is lost.
LEMMA OutsideAgendaInv ==
  ASSUME AgendaInv, bookings' = bookings,
         \A w \in Workers : req'[w] = req[w] \/ req'[w].pc = "idle"
  PROVE  AgendaInv'
<1>1. RowsStay /\ RowsInv'
  BY UnchangedRows
<1>2. ASSUME NEW w \in Workers
      PROVE  RowInv(req[w])'
  <2>1. CASE req'[w] = req[w]
    BY <1>1, <2>1, RowInvKept DEF AgendaInv
  <2>2. CASE req'[w].pc = "idle"
    BY <2>2, FreeRowInv DEF NoBookingPcs
  <2> QED BY <2>1, <2>2
<1> QED BY <1>1, <1>2 DEF AgendaInv, RowsInv

LEMMA InitAgendaInv ==
  ASSUME Init
  PROVE  AgendaInv
  BY DEF Init, TablesInit, NoBooking, RequestsInit, Idle, AgendaInv,
         DistinctStarts, AbsentRowsUnbound, RowInv, exists, NoBookingPcs,
         ReschedulePcs

\* The inductive invariant: every write to bookings goes to a row that exists
\* and respects the unique index, however long ago its handler looked.
THEOREM AgendaInvHolds == Spec => []AgendaInv
<1>1. ASSUME TypeOK, AgendaInv, [Next]_vars
      PROVE  AgendaInv'
  <2>1. ASSUME NEW r \in Workers, Arrive(r) \/ Deliver(r) \/ Proceed(r)
        PROVE  AgendaInv'
    BY <1>1, <2>1, ArriveAgendaInv, DeliverAgendaInv, CreateAgendaInv,
       IntentAgendaInv, ConfirmAgendaInv, FailedAgendaInv, CancelAgendaInv,
       CompleteAgendaInv, RescheduleAgendaInv, ReviewAgendaInv
    DEF Proceed
  <2>2. ASSUME NEW r \in Workers, fail(r)
        PROVE  AgendaInv'
    BY <1>1, <2>2, OutsideAgendaInv
    DEF fail, Idle, TypeOK, RequestsTypeOK, tables
  <2>3. CASE crash
    BY <1>1, <2>3, OutsideAgendaInv DEF crash, Idle, tables
  <2>4. CASE tick \/ Customer
    BY <1>1, <2>4, OutsideAgendaInv DEF tick, Customer, tables, process
  <2>5. CASE Admin
    BY <1>1, <2>5, OutsideAgendaInv
    DEF Admin, paymentRemove, reviewRemove, process
  <2>6. CASE UNCHANGED vars
    BY <1>1, <2>6, OutsideAgendaInv DEF vars, tables, process
  <2> QED BY <1>1, <2>1, <2>2, <2>3, <2>4, <2>5, <2>6 DEF Next
<1> QED BY <1>1, InitAgendaInv, TypeCorrect, PTL DEF Spec

\* Two active bookings of a provider never start together, although both may
\* have passed validateSlotAvailability and a late webhook may have brought
\* either of them back.
THEOREM NoSameStartHolds == Spec => []NoSameStart
<1>1. AgendaInv => NoSameStart
  BY DEF AgendaInv, DistinctStarts, NoSameStart, active
<1> QED BY <1>1, AgendaInvHolds, PTL

---------------------------------------------------------------------------
\* Opening hours

\* The times of a row or of a request are those of a booking a client asks for.
asked(x) ==
  \E s \in StartTimes, d \in Durations : x.startTime = s /\ x.endTime = s + d

\* ... and have passed validateProviderAvailability.
wellTimed(x) ==
  asked(x) /\ providerAvailable(x.providerId, x.startTime, x.endTime)

\* The times a request is about to write, or to check.
RequestTimed(q) ==
  /\ q.pc \in {"create:insert", "reschedule:update"} => wellTimed(q)
  /\ q.pc = "reschedule:check" => asked(q)

RowsTimed == \A b \in BookingIds : exists(b) => wellTimed(bookings[b])

\* The inductive invariant behind WithinOpeningHours: nothing is written that
\* has not passed the check, and cancelled rows keep their times.
HoursInv == RowsTimed /\ \A r \in Workers : RequestTimed(req[r])

TimedPcs == {"create:insert", "reschedule:update", "reschedule:check"}

\* What is left to show of a step of one request.
LEMMA StepHours ==
  ASSUME HoursInv, NEW r \in Workers, RowsTimed',
         \A w \in Workers \ {r} : req'[w] = req[w], RequestTimed(req'[r])
  PROVE  HoursInv'
<1>1. ASSUME NEW w \in Workers
      PROVE  RequestTimed(req'[w])
  BY <1>1 DEF HoursInv
<1> QED BY <1>1 DEF HoursInv, RequestTimed, wellTimed, asked,
    providerAvailable, candidates

LEMMA MoveHours ==
  ASSUME HoursInv, NEW r \in Workers, RowsTimed',
         \A w \in Workers \ {r} : req'[w] = req[w], req'[r].pc \notin TimedPcs
  PROVE  HoursInv'
<1>1. RequestTimed(req'[r])
  BY DEF RequestTimed, TimedPcs
<1> QED BY <1>1, StepHours

LEMMA SameRowsTimed ==
  ASSUME HoursInv, bookings' = bookings
  PROVE  RowsTimed'
  BY DEF HoursInv, RowsTimed, exists, wellTimed, asked, providerAvailable,
      candidates

\* One row is rewritten, at its old times or at times that have been checked.
LEMMA UpdatedRowsTimed ==
  ASSUME TypeOK, HoursInv, NEW b, NEW row, bookingUpdate(b, row),
         b \in BookingIds => wellTimed(row)
  PROVE  RowsTimed'
<1>1. \A c \in BookingIds : bookings'[c] = IF c = b THEN row ELSE bookings[c]
  BY BookingShape DEF TypeOK
<1>2. ASSUME NEW c \in BookingIds, exists(c)'
      PROVE  wellTimed(bookings'[c])
  BY <1>1, <1>2 DEF HoursInv, RowsTimed, exists
<1> QED BY <1>2 DEF RowsTimed, wellTimed, asked, providerAvailable, candidates

LEMMA RewrittenRowsTimed ==
  ASSUME TypeOK, HoursInv, NEW b, b \in BookingIds => exists(b), NEW row,
         bookingUpdate(b, row),
         b \in BookingIds => /\ row.providerId = bookings[b].providerId
                             /\ row.startTime = bookings[b].startTime
                             /\ row.endTime = bookings[b].endTime
  PROVE  RowsTimed'
<1>1. ASSUME b \in BookingIds
      PROVE  wellTimed(row)
  BY <1>1 DEF HoursInv, RowsTimed, wellTimed, asked
<1> QED BY <1>1, UpdatedRowsTimed

LEMMA ArriveHours ==
  ASSUME TypeOK, HoursInv, NEW r \in Workers, Arrive(r)
  PROVE  HoursInv'
<1> USE DEF TypeOK
<1>1. RowsTimed'
  BY SameRowsTimed
  DEF Arrive, create, createPaymentIntent, cancel, complete, reschedule,
      review, tables
<1>2. ASSUME NEW q, enter(r, q), RequestTimed(q)
      PROVE  HoursInv'
  BY <1>1, <1>2, EnterShape, StepHours
<1>3. ASSUME NEW q, enter(r, q), q.pc \notin TimedPcs
      PROVE  HoursInv'
  BY <1>2, <1>3 DEF RequestTimed, TimedPcs
<1>4. ASSUME NEW u \in Clients, NEW p \in Providers, NEW s \in StartTimes,
             NEW d \in Durations, create(r, u, p, s, d)
      PROVE  HoursInv'
  <2> DEFINE q == [Idle EXCEPT !.pc = "create:insert", !.clientId = u,
                     !.providerId = p, !.startTime = s, !.endTime = s + d]
  <2>1. /\ q.pc = "create:insert" /\ q.providerId = p
        /\ q.startTime = s /\ q.endTime = s + d
    BY DEF Idle
  <2>2. enter(r, q) /\ providerAvailable(p, s, s + d)
    BY <1>4 DEF create
  <2> HIDE DEF q
  <2>3. RequestTimed(q)
    BY <2>1, <2>2 DEF RequestTimed, wellTimed, asked
  <2> QED BY <1>2, <2>2, <2>3
<1>5. ASSUME NEW u \in Users, NEW b \in BookingIds, NEW s \in StartTimes,
             NEW d \in Durations, reschedule(r, u, b, s, d)
      PROVE  HoursInv'
  <2> DEFINE q == [Idle EXCEPT !.pc = "reschedule:check", !.id = b,
                     !.providerId = bookings[b].providerId,
                     !.startTime = s, !.endTime = s + d,
                     !.providerEvent = bookings[b].providerGoogleEventId,
                     !.clientEvent = bookings[b].clientGoogleEventId]
  <2>1. q.pc = "reschedule:check" /\ q.startTime = s /\ q.endTime = s + d
    BY DEF Idle
  <2>2. enter(r, q)
    BY <1>5 DEF reschedule
  <2> HIDE DEF q
  <2>3. RequestTimed(q)
    BY <2>1 DEF RequestTimed, asked
  <2> QED BY <1>2, <2>2, <2>3
<1>6. CASE \/ \E u \in Clients, b \in BookingIds : createPaymentIntent(r, u, b)
           \/ \E u \in Users, b \in BookingIds : cancel(r, u, b)
           \/ \E u \in Providers, b \in BookingIds : complete(r, u, b)
           \/ \E u \in Clients, b \in BookingIds : review(r, u, b)
  BY <1>3, <1>6
  DEF createPaymentIntent, cancel, complete, review, Idle, TimedPcs
<1> QED BY <1>4, <1>5, <1>6 DEF Arrive

LEMMA DeliverHours ==
  ASSUME TypeOK, HoursInv, NEW r \in Workers, Deliver(r)
  PROVE  HoursInv'
<1> USE DEF TypeOK
<1>1. RowsTimed'
  BY SameRowsTimed DEF Deliver, paymentSucceeded, paymentFailed, tables
<1>2. ASSUME NEW q, enter(r, q), q.pc \notin TimedPcs
      PROVE  HoursInv'
  BY <1>1, <1>2, EnterShape, MoveHours
<1>3. CASE UNCHANGED process
  BY <1>1, <1>3, StepHours DEF process, HoursInv
<1> QED BY <1>2, <1>3
        DEF Deliver, paymentSucceeded, confirmByPaymentIntent, paymentFailed,
            Idle, TimedPcs

\* A statement that leaves the bookings alone and is not followed by a write
\* to the times of one.
LEMMA QuietHours ==
  ASSUME TypeOK, HoursInv, NEW r \in Workers, bookings' = bookings,
         \/ finish(r)
         \/ \E pc \in Pcs \ TimedPcs : goto(r, pc)
         \/ \E q : enter(r, q) /\ q.pc \notin TimedPcs
  PROVE  HoursInv'
<1>1. /\ req'[r].pc \notin TimedPcs
      /\ \A w \in Workers \ {r} : req'[w] = req[w]
  BY EnterShape, FinishShape, GotoShape DEF TypeOK, TimedPcs
<1> QED BY <1>1, SameRowsTimed, MoveHours

\* A statement that rewrites the row the request is about, not its times.
LEMMA RewriteHours ==
  ASSUME TypeOK, HoursInv, NEW r \in Workers, NEW b,
         b \in BookingIds => exists(b), NEW row, bookingUpdate(b, row),
         b \in BookingIds => /\ row.providerId = bookings[b].providerId
                             /\ row.startTime = bookings[b].startTime
                             /\ row.endTime = bookings[b].endTime,
         \/ finish(r)
         \/ \E pc \in Pcs \ TimedPcs : goto(r, pc)
         \/ \E q : enter(r, q) /\ q.pc \notin TimedPcs
  PROVE  HoursInv'
<1>1. /\ req'[r].pc \notin TimedPcs
      /\ \A w \in Workers \ {r} : req'[w] = req[w]
  BY EnterShape, FinishShape, GotoShape DEF TypeOK, TimedPcs
<1>2. RowsTimed'
  BY RewrittenRowsTimed
<1> QED BY <1>1, <1>2, MoveHours

LEMMA CreateHours ==
  ASSUME TypeOK, HoursInv, NEW r \in Workers, Create(r)
  PROVE  HoursInv'
<1>1. CASE finish(r) /\ UNCHANGED tables
  BY <1>1, QuietHours DEF tables
<1> DEFINE row == [NoBooking EXCEPT !.status = "PENDING_PAYMENT",
                     !.clientId = req[r].clientId,
                     !.providerId = req[r].providerId,
                     !.startTime = req[r].startTime,
                     !.endTime = req[r].endTime]
<1>2. ASSUME NEW b \in BookingIds, bookingUpdate(b, row),
             enter(r, [Idle EXCEPT !.pc = "intent:create", !.id = b])
      PROVE  HoursInv'
  <2>1. /\ row.providerId = req[r].providerId
        /\ row.startTime = req[r].startTime
        /\ row.endTime = req[r].endTime
    BY DEF NoBooking
  <2>2. wellTimed(req[r])
    BY DEF HoursInv, RequestTimed, Create, createInsert, at
  <2> HIDE DEF row
  <2>3. wellTimed(row)
    BY <2>1, <2>2 DEF wellTimed, asked
  <2>4. RowsTimed'
    BY <1>2, <2>3, UpdatedRowsTimed
  <2>5. /\ req'[r].pc \notin TimedPcs
        /\ \A w \in Workers \ {r} : req'[w] = req[w]
    BY <1>2 DEF enter, Idle, TimedPcs, TypeOK, RequestsTypeOK
  <2> QED BY <2>4, <2>5, MoveHours
<1> QED BY <1>1, <1>2 DEF Create, createInsert

LEMMA IntentHours ==
  ASSUME TypeOK, AgendaInv, HoursInv, NEW r \in Workers, Intent(r)
  PROVE  HoursInv'
<1>1. req[r].pc \notin NoBookingPcs
  BY DEF Intent, intentCreate, intentPayment, intentLink, intentRespond, at,
         NoBookingPcs
<1>2. IntentPcs \subseteq Pcs \ TimedPcs
  BY DEF Pcs, IntentPcs, TimedPcs, FailedPcs
<1>3. CASE intentCreate(r)
  <2>1. ASSUME NEW i,
               enter(r, [req[r] EXCEPT !.pc = "intent:payment", !.intent = i])
        PROVE  \E q : enter(r, q) /\ q.pc \notin TimedPcs
    <3>1. [req[r] EXCEPT !.pc = "intent:payment", !.intent = i].pc
            \notin TimedPcs
      BY <1>1, RequestRow DEF RequestRecord, TimedPcs
    <3> QED BY <2>1, <3>1
  <2> QED BY <1>3, <2>1, QuietHours DEF intentCreate, tables
<1>4. CASE intentPayment(r)
  BY <1>2, <1>4, QuietHours DEF intentPayment, paymentCreate, tables, IntentPcs
<1>5. CASE intentLink(r)
  <2> DEFINE b == req[r].id
             row == [bookings[b] EXCEPT !.paymentIntentId = req[r].intent]
  <2>1. /\ exists(b)
        /\ row.providerId = bookings[b].providerId
        /\ row.startTime = bookings[b].startTime
        /\ row.endTime = bookings[b].endTime
    BY <1>1, RequestRow DEF Booking
  <2>2. bookingUpdate(b, row) /\ goto(r, "intent:respond")
    BY <1>5 DEF intentLink
  <2> HIDE DEF row
  <2> QED BY <1>2, <2>1, <2>2, RewriteHours DEF IntentPcs
<1>6. CASE intentRespond(r)
  BY <1>6, QuietHours DEF intentRespond, tables
<1> QED BY <1>3, <1>4, <1>5, <1>6 DEF Intent

LEMMA ConfirmHours ==
  ASSUME TypeOK, AgendaInv, HoursInv, NEW r \in Workers, Confirm(r)
  PROVE  HoursInv'
<1>1. req[r].pc \in ConfirmPcs
  BY DEF Confirm, confirmFindPayment, confirmCreatePayment,
         confirmProviderEvent, confirmClientEvent, confirmUpdate,
         confirmMailBooking, confirmMailPayment, webhookMail, webhookAnswer,
         at, ConfirmPcs
<1>2. ConfirmPcs \subseteq Pcs \ TimedPcs
  BY DEF Pcs, ConfirmPcs, FailedPcs, TimedPcs
<1>3. req[r] \in RequestRecord
  BY RequestCarries DEF TypeOK
<1>4. CASE confirmFindPayment(r) \/ confirmCreatePayment(r)
           \/ confirmMailBooking(r) \/ confirmMailPayment(r) \/ webhookMail(r)
  BY <1>2, <1>4, QuietHours
  DEF confirmFindPayment, confirmCreatePayment, confirmMailBooking,
      confirmMailPayment, webhookMail, paymentCreate, tables, ConfirmPcs
<1>5. CASE confirmProviderEvent(r)
  <2>1. PICK e : enter(r, [req[r] EXCEPT !.pc = "confirm:clientEvent",
                                         !.providerEvent = e])
    BY <1>5 DEF confirmProviderEvent
  <2>2. [req[r] EXCEPT !.pc = "confirm:clientEvent", !.providerEvent = e].pc
          \notin TimedPcs
    BY <1>3 DEF RequestRecord, TimedPcs
  <2> QED BY <1>5, <2>1, <2>2, QuietHours DEF confirmProviderEvent, tables
<1>6. CASE confirmClientEvent(r)
  <2>1. PICK e : enter(r, [req[r] EXCEPT !.pc = "confirm:update",
                                         !.startTime = 0, !.clientEvent = e])
    BY <1>6 DEF confirmClientEvent
  <2>2. [req[r] EXCEPT !.pc = "confirm:update", !.startTime = 0,
                       !.clientEvent = e].pc \notin TimedPcs
    BY <1>3 DEF RequestRecord, TimedPcs
  <2> QED BY <1>6, <2>1, <2>2, QuietHours DEF confirmClientEvent, tables
<1>7. CASE confirmUpdate(r)
  <2>1. CASE finish(r) /\ UNCHANGED tables
    BY <2>1, QuietHours DEF tables
  <2>2. ASSUME NEW b \in BookingIds,
               bookings[b].paymentIntentId = req[r].intent,
               bookingUpdate(b, confirmed(bookings[b], r)),
               enter(r, [Idle EXCEPT !.pc = "confirm:mailBooking", !.id = b,
                                     !.intent = req[r].intent])
        PROVE  HoursInv'
    <3>1. exists(b)
      BY <1>1, <2>2, FoundRow, RequestCarries DEF TypeOK, PaymentPcs, FailedPcs
    <3> DEFINE row == confirmed(bookings[b], r)
    <3>2. /\ row.providerId = bookings[b].providerId
          /\ row.startTime = bookings[b].startTime
          /\ row.endTime = bookings[b].endTime
      <4>1. bookings[b] \in Booking
        BY DEF TypeOK, TablesTypeOK
      <4> QED BY <4>1 DEF confirmed, Booking
    <3>3. bookingUpdate(b, row)
      BY <2>2
    <3>4. \E q : enter(r, q) /\ q.pc \notin TimedPcs
      <4>1. [Idle EXCEPT !.pc = "confirm:mailBooking", !.id = b,
                         !.intent = req[r].intent].pc \notin TimedPcs
        BY DEF Idle, TimedPcs
      <4> QED BY <2>2, <4>1
    <3> HIDE DEF row
    <3> QED BY <3>1, <3>2, <3>3, <3>4, RewriteHours
  <2> QED BY <1>7, <2>1, <2>2 DEF confirmUpdate
<1>8. CASE webhookAnswer(r)
  BY <1>8, QuietHours DEF webhookAnswer, tables
<1> QED BY <1>4, <1>5, <1>6, <1>7, <1>8 DEF Confirm

\* failed:update, cancel:update and complete:update set a status.
LEMMA StatusHours ==
  ASSUME TypeOK, AgendaInv, HoursInv, NEW r \in Workers,
         failedUpdate(r) \/ Complete(r) \/ cancelUpdate(r)
  PROVE  HoursInv'
<1> DEFINE b == req[r].id
<1>1. b \in BookingIds /\ exists(b) /\ bookings[b] \in Booking
  <2>1. req[r].pc \notin NoBookingPcs
    BY DEF failedUpdate, Complete, completeUpdate, cancelUpdate, at,
           NoBookingPcs
  <2> QED BY <2>1, RequestRow
<1>2. finish(r) \/ \E pc \in {"cancel:mail", "failed:answer"} : goto(r, pc)
  BY DEF failedUpdate, Complete, completeUpdate, cancelUpdate
<1>3. {"cancel:mail", "failed:answer"} \subseteq Pcs \ TimedPcs
  BY DEF Pcs, TimedPcs, FailedPcs
<1>4. ASSUME NEW row, bookingUpdate(b, row),
             row.providerId = bookings[b].providerId,
             row.startTime = bookings[b].startTime,
             row.endTime = bookings[b].endTime
      PROVE  HoursInv'
  BY <1>1, <1>2, <1>3, <1>4, RewriteHours
<1>5. CASE failedUpdate(r)
  <2> DEFINE row == [bookings[b] EXCEPT !.status = "PENDING_PAYMENT"]
  <2>1. /\ row.providerId = bookings[b].providerId
        /\ row.startTime = bookings[b].startTime
        /\ row.endTime = bookings[b].endTime
    BY <1>1 DEF Booking
  <2>2. bookingUpdate(b, row)
    BY <1>5 DEF failedUpdate
  <2> HIDE DEF row
  <2> QED BY <1>4, <2>1, <2>2
<1>6. CASE Complete(r)
  <2> DEFINE row == [bookings[b] EXCEPT !.status = "COMPLETED",
                                        !.completedAt = TRUE]
  <2>1. /\ row.providerId = bookings[b].providerId
        /\ row.startTime = bookings[b].startTime
        /\ row.endTime = bookings[b].endTime
    BY <1>1 DEF Booking
  <2>2. bookingUpdate(b, row)
    BY <1>6 DEF Complete, completeUpdate
  <2> HIDE DEF row
  <2> QED BY <1>4, <2>1, <2>2
<1>7. CASE cancelUpdate(r)
  <2> DEFINE row == [bookings[b] EXCEPT !.status = "CANCELLED",
                       !.providerGoogleEventId = null,
                       !.clientGoogleEventId = null]
  <2>1. /\ row.providerId = bookings[b].providerId
        /\ row.startTime = bookings[b].startTime
        /\ row.endTime = bookings[b].endTime
    BY <1>1 DEF Booking
  <2>2. bookingUpdate(b, row)
    BY <1>7 DEF cancelUpdate
  <2> HIDE DEF row
  <2> QED BY <1>4, <2>1, <2>2
<1> QED BY <1>5, <1>6, <1>7

LEMMA FailedHours ==
  ASSUME TypeOK, AgendaInv, HoursInv, NEW r \in Workers, Failed(r)
  PROVE  HoursInv'
  BY StatusHours, QuietHours DEF Failed, failedAnswer, tables

LEMMA CancelHours ==
  ASSUME TypeOK, AgendaInv, HoursInv, NEW r \in Workers, Cancel(r)
  PROVE  HoursInv'
<1>1. req[r] \in RequestRecord
  BY RequestCarries DEF TypeOK
<1>2. CASE cancelProviderEvent(r)
  <2>1. [req[r] EXCEPT !.pc = "cancel:clientEvent", !.providerEvent = null].pc
          \notin TimedPcs
    BY <1>1 DEF RequestRecord, TimedPcs
  <2> QED BY <1>2, <2>1, QuietHours DEF cancelProviderEvent, tables
<1>3. CASE cancelClientEvent(r)
  <2>1. [req[r] EXCEPT !.pc = "cancel:update", !.clientEvent = null].pc
          \notin TimedPcs
    BY <1>1 DEF RequestRecord, TimedPcs
  <2> QED BY <1>3, <2>1, QuietHours DEF cancelClientEvent, tables
<1>4. CASE cancelUpdate(r)
  BY <1>4, StatusHours
<1>5. CASE cancelMail(r)
  BY <1>5, QuietHours DEF cancelMail, tables
<1> QED BY <1>2, <1>3, <1>4, <1>5 DEF Cancel

LEMMA RescheduleHours ==
  ASSUME TypeOK, AgendaInv, HoursInv, NEW r \in Workers, Reschedule(r)
  PROVE  HoursInv'
<1>1. req[r].pc \notin NoBookingPcs
  BY DEF Reschedule, rescheduleCheck, rescheduleUpdate, rescheduleReadBack,
         rescheduleProviderEvent, rescheduleClientEvent, at, NoBookingPcs
<1>2. {"reschedule:readBack", "reschedule:clientEvent"} \subseteq Pcs \ TimedPcs
  BY DEF Pcs, TimedPcs, FailedPcs
<1>3. CASE rescheduleCheck(r)
  <2>1. bookings' = bookings
    BY <1>3 DEF rescheduleCheck, tables
  <2>2. CASE /\ goto(r, "reschedule:update")
             /\ providerAvailable(req[r].providerId, req[r].startTime,
                                  req[r].endTime)
    <3>1. wellTimed(req[r])
      BY <1>3, <2>2 DEF HoursInv, RequestTimed, rescheduleCheck, at, wellTimed
    <3>2. /\ req'[r].providerId = req[r].providerId
          /\ req'[r].startTime = req[r].startTime
          /\ req'[r].endTime = req[r].endTime
          /\ \A w \in Workers \ {r} : req'[w] = req[w]
      BY <1>1, <2>2, RequestRow
      DEF goto, RequestRecord, TypeOK, RequestsTypeOK
    <3>3. RequestTimed(req'[r])
      BY <3>1, <3>2 DEF RequestTimed, wellTimed, asked
    <3> QED BY <2>1, <3>2, <3>3, SameRowsTimed, StepHours
  <2> QED BY <1>3, <2>1, <2>2, QuietHours DEF rescheduleCheck
<1>4. CASE rescheduleUpdate(r)
  <2> DEFINE b == req[r].id
             row == [bookings[b] EXCEPT !.startTime = req[r].startTime,
                                        !.endTime = req[r].endTime]
  <2>1. CASE finish(r) /\ UNCHANGED tables
    BY <2>1, QuietHours DEF tables
  <2>2. CASE bookingUpdate(b, row) /\ goto(r, "reschedule:readBack")
    <3>1. /\ row.providerId = req[r].providerId
          /\ row.startTime = req[r].startTime
          /\ row.endTime = req[r].endTime
      BY <1>1, <1>4, RequestRow
      DEF Booking, AgendaInv, RowInv, rescheduleUpdate, at, ReschedulePcs
    <3>2. wellTimed(req[r])
      BY <1>4 DEF HoursInv, RequestTimed, rescheduleUpdate, at
    <3> HIDE DEF row
    <3>3. wellTimed(row)
      BY <3>1, <3>2 DEF wellTimed, asked
    <3>4. RowsTimed'
      BY <2>2, <3>3, UpdatedRowsTimed
    <3> QED BY <1>2, <2>2, <3>4, GotoShape, MoveHours DEF TypeOK
  <2> QED BY <1>4, <2>1, <2>2 DEF rescheduleUpdate
<1>5. CASE rescheduleReadBack(r)
  <2>1. [req[r] EXCEPT !.pc = "reschedule:providerEvent",
           !.startTime = bookings[req[r].id].startTime,
           !.endTime = 0, !.providerId = null].pc \notin TimedPcs
    BY <1>1, RequestRow DEF RequestRecord, TimedPcs
  <2> QED BY <1>5, <2>1, QuietHours DEF rescheduleReadBack, tables
<1>6. CASE rescheduleProviderEvent(r) \/ rescheduleClientEvent(r)
  BY <1>2, <1>6, QuietHours
  DEF rescheduleProviderEvent, rescheduleClientEvent, tables
<1> QED BY <1>3, <1>4, <1>5, <1>6 DEF Reschedule

LEMMA ReviewHours ==
  ASSUME TypeOK, HoursInv, NEW r \in Workers, Review(r)
  PROVE  HoursInv'
<1>1. "review:insert" \in Pcs \ TimedPcs
  BY DEF Pcs, TimedPcs, FailedPcs
<1> QED BY <1>1, QuietHours DEF Review, reviewFind, reviewInsert, tables

LEMMA OutsideHours ==
  ASSUME HoursInv, bookings' = bookings,
         \A w \in Workers : req'[w] = req[w] \/ req'[w].pc = "idle"
  PROVE  HoursInv'
<1>1. ASSUME NEW w \in Workers
      PROVE  RequestTimed(req'[w])
  BY <1>1 DEF HoursInv, RequestTimed
<1> QED BY <1>1, SameRowsTimed
        DEF HoursInv, RequestTimed, wellTimed, asked, providerAvailable,
            candidates

\* Every row, whatever its status, is at a time that has passed
\* validateProviderAvailability for its provider, although the check is an
\* await or more away from the write.
THEOREM HoursInvHolds == Spec => []HoursInv
<1>1. Init => HoursInv
  BY DEF Init, TablesInit, NoBooking, RequestsInit, Idle, HoursInv, RowsTimed,
         RequestTimed, exists
<1>2. ASSUME TypeOK, AgendaInv, HoursInv, [Next]_vars
      PROVE  HoursInv'
  <2>1. ASSUME NEW r \in Workers, Arrive(r) \/ Deliver(r) \/ Proceed(r)
        PROVE  HoursInv'
    BY <1>2, <2>1, ArriveHours, DeliverHours, CreateHours, IntentHours,
       ConfirmHours, FailedHours, StatusHours, CancelHours, RescheduleHours,
       ReviewHours
    DEF Proceed
  <2>2. ASSUME NEW r \in Workers, fail(r)
        PROVE  HoursInv'
    BY <1>2, <2>2, OutsideHours
    DEF fail, Idle, TypeOK, RequestsTypeOK, tables
  <2>3. CASE crash
    BY <1>2, <2>3, OutsideHours DEF crash, Idle, tables
  <2>4. CASE tick \/ Customer
    BY <1>2, <2>4, OutsideHours DEF tick, Customer, tables, process
  <2>5. CASE Admin
    BY <1>2, <2>5, OutsideHours DEF Admin, paymentRemove, reviewRemove, process
  <2>6. CASE UNCHANGED vars
    BY <1>2, <2>6, OutsideHours DEF vars, tables, process
  <2> QED BY <1>2, <2>1, <2>2, <2>3, <2>4, <2>5, <2>6 DEF Next
<1> QED BY <1>1, <1>2, TypeCorrect, AgendaInvHolds, PTL DEF Spec

\* What the code does not check: a booking ends on the day it starts.
EndsSameDay ==
  \A s \in StartTimes, d \in Durations :
    (s + d) \div DayLength = s \div DayLength

LEMMA Midnight ==
  ASSUME NEW t \in Nat
  PROVE  /\ t = DayLength * (t \div DayLength) + minuteOfDay(t)
         /\ minuteOfDay(t) \in 0..(DayLength - 1)
         /\ t \div DayLength \in Nat
         /\ DayLength * (t \div DayLength) \in Nat
  BY DayLengthAssumption DEF minuteOfDay

\* ... and then it lies in a window as a whole.
THEOREM WithinOpeningHoursHolds ==
  ASSUME EndsSameDay
  PROVE  Spec => []WithinOpeningHours
<1>1. HoursInv => WithinOpeningHours
  <2> SUFFICES ASSUME HoursInv, NEW b \in BookingIds, active(b)
               PROVE  \E row \in Availability :
                        LET start == bookings[b].startTime
                            midnight == start - minuteOfDay(start)
                        IN /\ row.providerId = bookings[b].providerId
                           /\ row.dayOfWeek = getDay(start)
                           /\ midnight + row.startTime <= start
                           /\ bookings[b].endTime <= midnight + row.endTime
    BY DEF WithinOpeningHours
  <2>1. wellTimed(bookings[b])
    BY DEF HoursInv, RowsTimed, active
  <2>2. PICK s \in StartTimes, d \in Durations :
          bookings[b].startTime = s /\ bookings[b].endTime = s + d
    BY <2>1 DEF wellTimed, asked
  <2>3. PICK row \in Availability :
          /\ row.providerId = bookings[b].providerId
          /\ row.dayOfWeek = getDay(s)
          /\ fitsAvailability(row, s, s + d)
    BY <2>1, <2>2 DEF wellTimed, providerAvailable, candidates
  <2>4. /\ s \in Nat /\ s + d \in Nat
        /\ row.startTime \in Nat /\ row.endTime \in Nat
    BY BookingAssumption DEF AvailabilityRow
  <2>5. minuteOfDay(s) \in Int /\ minuteOfDay(s + d) \in Int
    BY <2>4, Midnight
  <2>6. s - minuteOfDay(s) = (s + d) - minuteOfDay(s + d)
    <3> DEFINE midnight == DayLength * (s \div DayLength)
    <3>1. midnight \in Int /\ s = midnight + minuteOfDay(s)
      BY <2>4, Midnight
    <3>2. s + d = midnight + minuteOfDay(s + d)
      BY <2>4, Midnight DEF EndsSameDay
    <3> HIDE DEF midnight
    <3> QED BY <2>4, <2>5, <3>1, <3>2
  <2>7. /\ s - minuteOfDay(s) + row.startTime <= s
        /\ s + d <= s - minuteOfDay(s) + row.endTime
    BY <2>3, <2>4, <2>5, <2>6 DEF fitsAvailability
  <2> QED BY <2>2, <2>3, <2>7
<1> QED BY <1>1, HoursInvHolds, PTL

---------------------------------------------------------------------------
\* The slots offered

\* A set of naturals has a least element.
LEMMA Least ==
  ASSUME NEW S, S \subseteq Nat, S # {}
  PROVE  \E m \in S : \A k \in S : m <= k
<1> DEFINE R == OpToRel(<, Nat)
<1>1. IsWellFoundedOn(R, Nat)
  BY NatLessThanWellFounded
<1>2. \A k, m \in Nat : k < m => <<k, m>> \in R
  BY DEF OpToRel
<1> HIDE DEF R
<1>3. PICK m \in S : \A k \in S : <<k, m>> \notin R
  BY <1>1, WFMin
<1>4. ASSUME NEW k \in S
      PROVE  m <= k
  <2>1. k \in Nat /\ m \in Nat
    BY <1>3
  <2>2. ~(k < m)
    BY <1>2, <1>3, <2>1
  <2> QED BY <2>1, <2>2
<1> QED BY <1>3, <1>4

\* Multiples of d, one stride apart and below the first.
LEMMA Stride ==
  ASSUME NEW d \in Nat \ {0}, NEW x \in Nat
  PROVE  /\ x % d = 0 <=> (x + d) % d = 0
         /\ x < d => (x % d = 0 <=> x = 0)
<1> DEFINE a == x \div d
           b == (x + d) \div d
<1>1. /\ a \in Int /\ x = d * a + (x % d) /\ x % d \in 0..(d-1)
      /\ b \in Int /\ x + d = d * b + ((x + d) % d) /\ (x + d) % d \in 0..(d-1)
  OBVIOUS
<1> HIDE DEF a, b
<1>2. x % d = (x + d) % d
  <2> DEFINE m == b - a - 1
  <2>1. m \in Int /\ d * m = (x % d) - ((x + d) % d)
    BY <1>1
  <2> HIDE DEF m
  <2>2. m >= 1 => d * m >= d
    BY <2>1
  <2>3. m <= -1 => d * m <= -d
    BY <2>1
  <2>4. m = 0 => d * m = 0
    BY <2>1
  <2> QED BY <1>1, <2>1, <2>2, <2>3, <2>4
<1>3. x < d => a = 0
  <2>1. a >= 1 => d * a >= d
    BY <1>1
  <2>2. a <= -1 => d * a <= -d
    BY <1>1
  <2> QED BY <1>1, <2>1, <2>2
<1>4. a = 0 => d * a = 0
  BY <1>1
<1> QED BY <1>1, <1>2, <1>3, <1>4

\* The rest of a loop that steps from t by d while t + d fits.
Rest(t, d, end, P) ==
  {s \in Nat : s >= t /\ (s - t) % d = 0 /\ s + d <= end /\ s \in P}

\* ... which is the equation of the loop in findAvailableSlots.
LEMMA RestStep ==
  ASSUME NEW d \in Nat \ {0}, NEW end \in Nat, NEW P, NEW t \in Nat
  PROVE  Rest(t, d, end, P) =
           IF t + d > end THEN {}
           ELSE {s \in {t} : s \in P} \cup Rest(t + d, d, end, P)
<1>1. ASSUME NEW s \in Nat, s >= t
      PROVE  (s - t) % d = 0 <=>
               s = t \/ (s >= t + d /\ (s - (t + d)) % d = 0)
  <2>1. CASE s < t + d
    BY <1>1, <2>1, Stride
  <2>2. CASE s >= t + d
    <3>1. PICK x \in Nat : x = s - (t + d)
      BY <2>2
    <3>2. x + d = s - t
      BY <3>1
    <3>3. x % d = 0 <=> (s - t) % d = 0
      BY <3>2, Stride
    <3> QED BY <2>2, <3>1, <3>3
  <2> QED BY <2>1, <2>2
<1>2. CASE t + d > end
  BY <1>2 DEF Rest
<1>3. CASE t + d <= end
  <2>1. ASSUME NEW s \in Nat
        PROVE  s \in Rest(t, d, end, P) <=>
                 (s = t /\ s \in P) \/ s \in Rest(t + d, d, end, P)
    BY <1>1, <1>3, <2>1 DEF Rest
  <2> QED BY <1>3, <2>1 DEF Rest
<1> QED BY <1>2, <1>3


\* Two functions that satisfy the loop's equation agree.
LEMMA LoopUnique ==
  ASSUME NEW d \in Nat \ {0}, NEW end \in Nat, NEW P, NEW f,
         f = [t \in Nat |-> IF t + d > end THEN {}
                            ELSE {s \in {t} : s \in P} \cup f[t + d]],
         NEW t \in Nat
  PROVE  f[t] = Rest(t, d, end, P)
<1> DEFINE S == {n \in Nat : \E u \in Nat : /\ n = end - u
                                            /\ f[u] # Rest(u, d, end, P)}
<1>1. ASSUME NEW u \in Nat, u + d > end
      PROVE  f[u] = Rest(u, d, end, P)
  BY <1>1, RestStep
<1>2. ASSUME NEW u \in Nat, u + d <= end, f[u + d] = Rest(u + d, d, end, P)
      PROVE  f[u] = Rest(u, d, end, P)
  <2>1. f[u] = {s \in {u} : s \in P} \cup f[u + d]
    BY <1>2
  <2> QED BY <1>2, <2>1, RestStep
<1>3. S = {}
  <2> SUFFICES ASSUME S # {}
               PROVE  FALSE
    OBVIOUS
  <2>1. PICK n \in S : \A k \in S : n <= k
    <3>1. S \subseteq Nat
      OBVIOUS
    <3> HIDE DEF S
    <3> QED BY <3>1, Least
  <2>2. PICK u \in Nat : n = end - u /\ f[u] # Rest(u, d, end, P)
    OBVIOUS
  <2>3. u + d <= end
    BY <1>1, <2>2
  <2>4. f[u + d] # Rest(u + d, d, end, P)
    BY <1>2, <2>2, <2>3
  <2>5. PICK m \in Nat : m = end - (u + d)
    BY <2>3
  <2>6. m < n
    BY <2>2, <2>5
  <2>7. m \in S
    <3>1. u + d \in Nat
      OBVIOUS
    <3> QED BY <2>4, <2>5, <3>1
  <2> QED BY <2>1, <2>2, <2>6, <2>7
<1>4. CASE t + d <= end
  <2>1. PICK n \in Nat : n = end - t
    BY <1>4
  <2>2. n \notin S
    BY <1>3
  <2> QED BY <2>1, <2>2
<1> QED BY <1>1, <1>4

\* What the loop of a window finds.
LEMMA LoopFinds ==
  ASSUME NEW row \in AvailabilityRow, NEW day \in Nat, NEW d \in Nat \ {0},
         NEW taken
  PROVE  slotsFrom(row, day, d, taken) =
           Rest(day * DayLength + row.startTime, d,
                day * DayLength + row.endTime,
                {t \in Nat : /\ t >= now
                             /\ \A b \in taken :
                                  ~overlaps(t, t + d, bookings[b].startTime,
                                            bookings[b].endTime)})
<1> DEFINE start == day * DayLength + row.startTime
           end == day * DayLength + row.endTime
           P == {t \in Nat : /\ t >= now
                             /\ \A b \in taken :
                                  ~overlaps(t, t + d, bookings[b].startTime,
                                            bookings[b].endTime)}
           body(f) == [t \in Nat |->
                         IF t + d > end THEN {}
                         ELSE {s \in {t} : s \in P} \cup f[t + d]]
           loop == CHOOSE f : f = body(f)
<1>1. start \in Nat /\ end \in Nat
  BY DayLengthAssumption DEF AvailabilityRow
<1>2. slotsFrom(row, day, d, taken) = loop[start]
  <2> DEFINE free(t) == ~(\E b \in taken :
                           overlaps(t, t + d, bookings[b].startTime,
                                    bookings[b].endTime)) /\ t >= now
             code(f) == [t \in Nat |->
                           IF t + d > end THEN {}
                           ELSE {s \in {t} : free(s)} \cup f[t + d]]
  <2>1. slotsFrom(row, day, d, taken) = (CHOOSE f : f = code(f))[start]
    BY DEF slotsFrom
  <2>2. ASSUME NEW f
        PROVE  code(f) = body(f)
    <3>1. ASSUME NEW t \in Nat
          PROVE  {s \in {t} : free(s)} = {s \in {t} : s \in P}
      OBVIOUS
    <3> HIDE DEF free, P
    <3> QED BY <3>1
  <2> HIDE DEF body, code
  <2> QED BY <2>1, <2>2
<1> HIDE DEF P, start, end
<1>3. loop = body(loop)
  <2> DEFINE g == [t \in Nat |-> Rest(t, d, end, P)]
  <2>1. g = body(g)
    <3>1. ASSUME NEW t \in Nat
          PROVE  g[t] = IF t + d > end THEN {}
                        ELSE {s \in {t} : s \in P} \cup g[t + d]
      BY <1>1, RestStep
    <3> QED BY <3>1
  <2> HIDE DEF g, body
  <2> QED BY <2>1
<1>4. loop[start] = Rest(start, d, end, P)
  <2> HIDE DEF loop
  <2> QED BY <1>1, <1>3, LoopUnique
<1> QED BY <1>2, <1>4 DEF start, end, P


\* The times of a window are times of one day.
WindowsWithinDay ==
  \A row \in Availability : row.endTime <= DayLength

\* A booking of another day leaves the slots of the day alone.
LEMMA OtherDay ==
  ASSUME EndsSameDay, NEW day \in Nat, NEW t \in Nat, NEW d \in Nat,
         day * DayLength <= t, t + d <= (day + 1) * DayLength,
         NEW s \in StartTimes, NEW e \in Durations, s \div DayLength # day
  PROVE  ~overlaps(t, t + d, s, s + e)
<1>1. s \in Nat /\ s + e \in Nat
  BY BookingAssumption
<1> DEFINE n == s \div DayLength
<1>2. /\ n \in Nat
      /\ DayLength * n <= s /\ s + e < DayLength * n + DayLength
  <2>1. s + e = DayLength * n + minuteOfDay(s + e)
    BY <1>1, Midnight DEF EndsSameDay
  <2>2. s = DayLength * n + minuteOfDay(s) /\ n \in Nat
    BY <1>1, Midnight
  <2>3. /\ minuteOfDay(s) \in 0..(DayLength - 1)
        /\ minuteOfDay(s + e) \in 0..(DayLength - 1)
    BY <1>1, Midnight
  <2>4. PICK midnight \in Nat : midnight = DayLength * n
    BY <2>2, DayLengthAssumption
  <2> HIDE DEF n
  <2> QED BY <2>1, <2>2, <2>3, <2>4, DayLengthAssumption
<1>3. n # day
  OBVIOUS
<1> HIDE DEF n
<1>4. CASE n < day
  <2>1. DayLength * (n + 1) <= DayLength * day
    BY <1>2, <1>4, DayLengthAssumption
  <2>2. s + e < day * DayLength
    BY <1>1, <1>2, <2>1, DayLengthAssumption
  <2> QED BY <1>1, <2>2, DayLengthAssumption DEF overlaps
<1>5. CASE day < n
  <2>1. DayLength * (day + 1) <= DayLength * n
    BY <1>2, <1>5, DayLengthAssumption
  <2>2. (day + 1) * DayLength <= s
    BY <1>1, <1>2, <2>1, DayLengthAssumption
  <2> QED BY <1>1, <2>2, DayLengthAssumption DEF overlaps
<1> QED BY <1>2, <1>3, <1>4, <1>5

\* On a slot of the day, the query of findAvailableSlots and the one of
\* validateSlotAvailability agree.
LEMMA SameVerdict ==
  ASSUME TypeOK, HoursInv, EndsSameDay, NEW p, NEW day \in Nat, NEW t \in Nat,
         NEW d \in Nat, day * DayLength <= t, t + d <= (day + 1) * DayLength
  PROVE  (\A b \in existingBookings(p, day) :
            ~overlaps(t, t + d, bookings[b].startTime, bookings[b].endTime))
         <=> slotAvailable(null, p, t, t + d)
<1>1. ASSUME NEW b \in BookingIds, active(b)
      PROVE  /\ overlaps(t, t + d, bookings[b].startTime, bookings[b].endTime)
                  <=> overlaps(bookings[b].startTime, bookings[b].endTime,
                               t, t + d)
             /\ bookings[b].startTime \div DayLength # day =>
                  ~overlaps(t, t + d, bookings[b].startTime,
                            bookings[b].endTime)
  <2>1. PICK s \in StartTimes, e \in Durations :
          bookings[b].startTime = s /\ bookings[b].endTime = s + e
    BY <1>1 DEF HoursInv, RowsTimed, active, wellTimed, asked
  <2>2. s \in Nat /\ s + e \in Nat
    BY BookingAssumption
  <2>3. overlaps(t, t + d, s, s + e) <=> overlaps(s, s + e, t, t + d)
    BY <2>2 DEF overlaps
  <2> QED BY <2>1, <2>3, OtherDay
<1>2. BookingIds \ {null} = BookingIds
  BY DEF BookingIds, null
<1> QED BY <1>1, <1>2 DEF existingBookings, slotAvailable

\* Every free slot of the day the server makes of the date is offered and no
\* other: findAvailableSlots looks only at the bookings that start on that day
\* and steps by the duration from the opening of each window, and yet finds
\* exactly the multiples that fit and overlap no active booking.  That create
\* takes them is not said: it also meets the unique index, which counts
\* cancelled rows.
THEOREM OfferedSlotsExactHolds ==
  ASSUME EndsSameDay, WindowsWithinDay
  PROVE  Spec => []OfferedSlotsExact
<1>1. ASSUME TypeOK, HoursInv
      PROVE  OfferedSlotsExact
  <2> SUFFICES ASSUME NEW p \in Providers, NEW date \in Dates,
                      NEW d \in Durations, NEW t
               PROVE  t \in findAvailableSlots(p, date, d) <=>
                        t \in freeSlots(p, localDay(date), d)
    BY DEF OfferedSlotsExact
  <2> PICK day \in Days : localDay(date) = day
    <3>1. PICK day \in Days : date = day - UtcOffset \div DayLength
      BY DEF Dates
    <3>2. day \in Nat
      BY <3>1, BookingAssumption, Midnight DEF Days
    <3>3. UtcOffset \div DayLength \in Int
      BY UtcOffsetAssumption, DayLengthAssumption
    <3> QED BY <3>1, <3>2, <3>3 DEF localDay
  <2>1. d \in Nat \ {0} /\ now \in Nat /\ DayLength \in Nat \ {0}
    BY <1>1, BookingAssumption, DayLengthAssumption DEF TypeOK, RequestsTypeOK
  <2>2. day \in Nat
    <3>1. PICK s \in StartTimes : day = s \div DayLength
      BY DEF Days
    <3>2. s \in Nat
      BY BookingAssumption
    <3> QED BY <3>1, <3>2, Midnight
  <2> DEFINE fits(row) ==
               LET offset == t - (day * DayLength + row.startTime) IN
                 /\ offset >= 0
                 /\ offset % d = 0
                 /\ t + d <= day * DayLength + row.endTime
             free == \A b \in existingBookings(p, day) :
                       ~overlaps(t, t + d, bookings[b].startTime,
                                 bookings[b].endTime)
  <2>3. ASSUME NEW row \in windowsOn(p, day)
        PROVE  t \in slotsFrom(row, day, d, existingBookings(p, day)) <=>
                 t \in Nat /\ fits(row) /\ t >= now /\ free
    <3>1. /\ row \in AvailabilityRow
          /\ row.startTime \in Nat /\ row.endTime \in Nat
      BY BookingAssumption DEF windowsOn, AvailabilityRow
    <3>2. PICK start \in Nat : start = day * DayLength + row.startTime
      BY <2>1, <2>2, <3>1
    <3>3. t \in Nat => (t >= start <=> t - start >= 0)
      BY <3>2
    <3> QED BY <2>1, <2>2, <3>1, <3>2, <3>3, LoopFinds DEF Rest
  <2>4. ASSUME t \in Nat, NEW row \in windowsOn(p, day), fits(row)
        PROVE  /\ t \in day * DayLength .. (day + 1) * DayLength - 1
               /\ t + d <= (day + 1) * DayLength
    <3>1. /\ row.startTime \in Nat /\ row.endTime \in Nat
          /\ row.endTime <= DayLength
      BY BookingAssumption DEF windowsOn, AvailabilityRow, WindowsWithinDay
    <3>2. PICK midnight \in Nat : midnight = day * DayLength
      BY <2>1, <2>2
    <3>3. (day + 1) * DayLength = midnight + DayLength
      BY <2>1, <2>2, <3>2
    <3> QED BY <2>1, <2>4, <3>1, <3>2, <3>3
  <2>5. t \in findAvailableSlots(p, date, d) <=>
          /\ t \in Nat
          /\ \E row \in windowsOn(p, day) : fits(row)
          /\ t >= now /\ free
    <3> HIDE DEF fits, free
    <3> QED BY <2>3 DEF findAvailableSlots
  <2>6. t \in freeSlots(p, day, d) <=>
          /\ t \in day * DayLength .. (day + 1) * DayLength - 1
          /\ \E row \in windowsOn(p, day) : fits(row)
          /\ t >= now /\ slotAvailable(null, p, t, t + d)
    BY DEF freeSlots
  <2>7. t \in day * DayLength .. (day + 1) * DayLength - 1 => t \in Nat
    <3>1. day * DayLength \in Nat
      BY <2>1, <2>2
    <3> QED BY <3>1
  <2>8. ASSUME t \in Nat, NEW row \in windowsOn(p, day), fits(row)
        PROVE  free <=> slotAvailable(null, p, t, t + d)
    <3>1. day * DayLength <= t /\ t + d <= (day + 1) * DayLength
      BY <2>1, <2>2, <2>4, <2>8
    <3> QED BY <1>1, <2>1, <2>2, <2>8, <3>1, SameVerdict
  <2> HIDE DEF fits, free
  <2> QED BY <2>4, <2>5, <2>6, <2>7, <2>8
<1> QED BY <1>1, HoursInvHolds, TypeCorrect, PTL
=============================================================================
