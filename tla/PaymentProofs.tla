---------------------------- MODULE PaymentProofs ----------------------------
(***************************************************************************)
(* Payment safety of Backend, for every value of the constants: PaidInv    *)
(* is inductive, so ServedOnlyIfPaid and IntentOwnership always hold, and  *)
(* so is ChargeInv, hence ChargedAtMostOnce and SameIntent.                *)
(***************************************************************************)
EXTENDS TypeProofs

---------------------------------------------------------------------------
\* How a statement changes the requests and the bookings

LEMMA EnterShape ==
  ASSUME RequestsTypeOK, NEW r \in Workers, NEW q, enter(r, q)
  PROVE  req'[r] = q /\ \A w \in Workers \ {r} : req'[w] = req[w]
  BY DEF RequestsTypeOK, enter

LEMMA FinishShape ==
  ASSUME RequestsTypeOK, NEW r \in Workers, finish(r)
  PROVE  req'[r].pc = "idle" /\ \A w \in Workers \ {r} : req'[w] = req[w]
  BY EnterShape DEF finish, Idle

LEMMA GotoShape ==
  ASSUME RequestsTypeOK, NEW r \in Workers, NEW pc, goto(r, pc)
  PROVE  /\ req'[r].pc = pc
         /\ req'[r].id = req[r].id
         /\ req'[r].intent = req[r].intent
         /\ \A w \in Workers \ {r} : req'[w] = req[w]
<1>1. req[r] \in RequestRecord
  BY RequestCarries
<1> QED BY <1>1 DEF RequestsTypeOK, goto, RequestRecord

LEMMA BookingShape ==
  ASSUME TablesTypeOK, NEW b, NEW row, bookingUpdate(b, row)
  PROVE  /\ \A c \in BookingIds : bookings'[c] = IF c = b THEN row
                                                 ELSE bookings[c]
         /\ payments' = payments
  BY DEF TablesTypeOK, bookingUpdate

LEMMA PaymentShape ==
  ASSUME TablesTypeOK, NEW b, NEW i, NEW status, paymentCreate(b, i, status)
  PROVE  /\ \A c \in BookingIds :
              payments'[c].paymentIntentId =
                IF c = b THEN i ELSE payments[c].paymentIntentId
         /\ bookings' = bookings
  BY DEF TablesTypeOK, paymentCreate

---------------------------------------------------------------------------
\* Stripe never takes anything back: an intent stays bound to its booking and
\* a paid intent stays paid.

IntentsGrow ==
  \A i \in Intents :
    intents[i].status # "ABSENT" =>
      /\ intents'[i].bookingId = intents[i].bookingId
      /\ paid(i) => intents'[i].status = "succeeded"

LEMMA UnchangedIntentsGrow ==
  ASSUME intents' = intents
  PROVE  IntentsGrow /\ (AbsentIntentsUnbound => AbsentIntentsUnbound')
  BY DEF IntentsGrow, AbsentIntentsUnbound, paid

LEMMA PaidForGrows ==
  ASSUME IntentsGrow, NEW b, paidFor(b)
  PROVE  paidFor(b)'
  BY DEF IntentsGrow, paidFor, paid

LEMMA MadeForGrows ==
  ASSUME IntentsGrow, AbsentIntentsUnbound, NEW i, NEW b \in BookingIds,
         madeFor(i, b)
  PROVE  madeFor(i, b)'
  BY DEF IntentsGrow, AbsentIntentsUnbound, madeFor, BookingIds, null

\* A request that does not move keeps what it remembers.
LEMMA RequestInvKept ==
  ASSUME TypeOK, PaidInv, IntentsGrow, NEW w \in Workers, req'[w] = req[w]
  PROVE  RequestInv(req[w])'
<1>1. /\ req[w].pc \notin NoBookingPcs => req[w].id \in BookingIds
      /\ RequestInv(req[w])
  BY RequestCarries DEF TypeOK, PaidInv
<1>2. /\ req[w].pc \in IntentPcs => req[w].pc \notin NoBookingPcs
      /\ req[w].pc \in ConfirmPcs => req[w].pc \notin NoBookingPcs
  BY DEF IntentPcs, ConfirmPcs, NoBookingPcs
<1>3. req[w].pc = "complete:update" => paidFor(req[w].id)'
  BY <1>1, PaidForGrows DEF RequestInv
<1>4. /\ req[w].pc \in IntentPcs \ {"intent:create"} =>
            madeFor(req[w].intent, req[w].id)'
      /\ req[w].pc \in ConfirmPcs => madeFor(req[w].intent, req[w].id)'
  BY <1>1, <1>2, MadeForGrows DEF RequestInv, PaidInv
<1>5. req[w].pc \in ConfirmPcs => paid(req[w].intent)'
  BY <1>1 DEF RequestInv, IntentsGrow, paid
<1> QED BY <1>3, <1>4, <1>5 DEF RequestInv, IntentPcs, ConfirmPcs

\* What is left to show of a step of one request.
LEMMA StepPaidInv ==
  ASSUME TypeOK, PaidInv, NEW r \in Workers, IntentsGrow,
         AbsentIntentsUnbound', IntentOwnership', ServedOnlyIfPaid',
         \A w \in Workers \ {r} : req'[w] = req[w], RequestInv(req[r])'
  PROVE  PaidInv'
<1>1. ASSUME NEW w \in Workers
      PROVE  RequestInv(req[w])'
  BY <1>1, RequestInvKept
<1> QED BY <1>1 DEF PaidInv

\* ... and when it leaves Stripe, bookings and payments alone.
LEMMA QuietStepPaidInv ==
  ASSUME TypeOK, PaidInv, NEW r \in Workers,
         intents' = intents, bookings' = bookings, payments' = payments,
         \A w \in Workers \ {r} : req'[w] = req[w], RequestInv(req[r])'
  PROVE  PaidInv'
<1>1. IntentsGrow /\ AbsentIntentsUnbound'
  BY UnchangedIntentsGrow DEF PaidInv
<1>2. IntentOwnership' /\ ServedOnlyIfPaid'
  BY DEF PaidInv, IntentOwnership, ServedOnlyIfPaid, served, paidFor, paid
<1> QED BY <1>1, <1>2, StepPaidInv

\* One row of bookings changes: it must name an intent made for it, if any, and
\* not become served unpaid.
LEMMA RowPaidInv ==
  ASSUME TypeOK, PaidInv, intents' = intents, payments' = payments,
         NEW b, \A c \in BookingIds \ {b} : bookings'[c] = bookings[c],
         b \in BookingIds =>
           /\ \A i \in Intents :
                bookings'[b].paymentIntentId = i => intents[i].bookingId = b
           /\ served(b)' => paidFor(b)
  PROVE  IntentOwnership' /\ ServedOnlyIfPaid'
<1>1. IntentOwnership'
  BY DEF PaidInv, IntentOwnership
<1>2. ASSUME NEW c \in BookingIds, served(c)'
      PROVE  paidFor(c)
  BY <1>2 DEF PaidInv, ServedOnlyIfPaid, served
<1>3. ASSUME NEW c, paidFor(c)
      PROVE  paidFor(c)'
  BY <1>3 DEF paidFor, paid
<1> QED BY <1>1, <1>2, <1>3 DEF ServedOnlyIfPaid

---------------------------------------------------------------------------
\* The actions

\* A request that waits where it remembers nothing about payments.
FreePcs ==
  Pcs \ (ConfirmPcs \cup (IntentPcs \ {"intent:create"})
           \cup {"complete:update"})

LEMMA FreeRequestInv ==
  ASSUME NEW r, req'[r].pc \in FreePcs
  PROVE  RequestInv(req[r])'
  BY DEF RequestInv, FreePcs

LEMMA ArrivePaidInv ==
  ASSUME TypeOK, PaidInv, NEW r \in Workers, Arrive(r)
  PROVE  PaidInv'
<1> USE DEF TypeOK
<1>1. /\ intents' = intents
      /\ bookings' = bookings
      /\ payments' = payments
  BY DEF Arrive, create, createPaymentIntent, cancel, complete, reschedule,
         review, tables, stripe
<1>2. CASE req'[r].pc \in FreePcs /\ \A w \in Workers \ {r} : req'[w] = req[w]
  BY <1>1, <1>2, FreeRequestInv, QuietStepPaidInv
<1>3. ASSUME NEW u \in Clients, NEW p \in Providers, NEW s \in StartTimes,
             NEW d \in Durations, create(r, u, p, s, d)
      PROVE  PaidInv'
  <2>1. /\ req'[r].pc = "create:insert"
        /\ \A w \in Workers \ {r} : req'[w] = req[w]
    BY <1>3 DEF create, enter, Idle, RequestsTypeOK
  <2> QED BY <1>2, <2>1 DEF FreePcs, Pcs, ConfirmPcs, FailedPcs, IntentPcs
<1>4. ASSUME NEW u \in Clients, NEW b \in BookingIds,
             createPaymentIntent(r, u, b)
      PROVE  PaidInv'
  <2>1. /\ req'[r].pc = "intent:create"
        /\ \A w \in Workers \ {r} : req'[w] = req[w]
    BY <1>4 DEF createPaymentIntent, enter, Idle, RequestsTypeOK
  <2> QED BY <1>2, <2>1 DEF FreePcs, Pcs, ConfirmPcs, FailedPcs, IntentPcs
<1>5. ASSUME NEW u \in Users, NEW b \in BookingIds, cancel(r, u, b)
      PROVE  PaidInv'
  <2>1. /\ req'[r].pc = "cancel:providerEvent"
        /\ \A w \in Workers \ {r} : req'[w] = req[w]
    BY <1>5 DEF cancel, enter, Idle, RequestsTypeOK
  <2> QED BY <1>2, <2>1 DEF FreePcs, Pcs, ConfirmPcs, FailedPcs, IntentPcs
<1>6. ASSUME NEW u \in Providers, NEW b \in BookingIds, complete(r, u, b)
      PROVE  PaidInv'
  <2>1. /\ req'[r] = [Idle EXCEPT !.pc = "complete:update", !.id = b]
        /\ \A w \in Workers \ {r} : req'[w] = req[w]
    BY <1>6, EnterShape DEF complete
  <2>2. paidFor(b)
    BY <1>6 DEF complete, canBeCompleted, PaidInv, ServedOnlyIfPaid, served
  <2>3. paidFor(b)'
    BY <1>1, <2>2 DEF paidFor, paid
  <2>4. req'[r].pc = "complete:update" /\ req'[r].id = b
    BY <2>1 DEF Idle
  <2>5. RequestInv(req[r])'
    BY <2>3, <2>4 DEF RequestInv, IntentPcs, ConfirmPcs
  <2> QED BY <1>1, <2>1, <2>5, QuietStepPaidInv
<1>7. ASSUME NEW u \in Users, NEW b \in BookingIds, NEW s \in StartTimes,
             NEW d \in Durations, reschedule(r, u, b, s, d)
      PROVE  PaidInv'
  <2>1. /\ req'[r].pc = "reschedule:check"
        /\ \A w \in Workers \ {r} : req'[w] = req[w]
    BY <1>7 DEF reschedule, enter, Idle, RequestsTypeOK
  <2> QED BY <1>2, <2>1 DEF FreePcs, Pcs, ConfirmPcs, FailedPcs, IntentPcs
<1>8. ASSUME NEW u \in Clients, NEW b \in BookingIds, review(r, u, b)
      PROVE  PaidInv'
  <2>1. /\ req'[r].pc = "review:find"
        /\ \A w \in Workers \ {r} : req'[w] = req[w]
    BY <1>8 DEF review, enter, Idle, RequestsTypeOK
  <2> QED BY <1>2, <2>1 DEF FreePcs, Pcs, ConfirmPcs, FailedPcs, IntentPcs
<1> QED BY <1>3, <1>4, <1>5, <1>6, <1>7, <1>8 DEF Arrive

LEMMA DeliverPaidInv ==
  ASSUME TypeOK, PaidInv, NEW r \in Workers, Deliver(r)
  PROVE  PaidInv'
<1> USE DEF TypeOK
<1> SUFFICES ASSUME NEW i \in Intents,
                    paymentSucceeded(r, i) \/ paymentFailed(r, i)
             PROVE  PaidInv'
  BY DEF Deliver
<1>1. /\ intents' = intents
      /\ bookings' = bookings
      /\ payments' = payments
  BY DEF paymentSucceeded, paymentFailed, deliver, ack, tables
<1>2. CASE paymentSucceeded(r, i)
  <2>1. PICK b \in BookingIds :
          /\ bookings[b].paymentIntentId = i
          /\ \/ enter(r, [Idle EXCEPT !.pc = "webhook:mail", !.id = b,
                                       !.intent = i])
             \/ enter(r, [Idle EXCEPT !.pc = "confirm:findPayment", !.id = b,
                            !.intent = i, !.startTime = bookings[b].startTime])
    BY <1>2 DEF paymentSucceeded, confirmByPaymentIntent
  <2>2. /\ req'[r].pc \in ConfirmPcs
        /\ req'[r].id = b
        /\ req'[r].intent = i
        /\ \A w \in Workers \ {r} : req'[w] = req[w]
    BY <2>1 DEF enter, Idle, RequestsTypeOK, ConfirmPcs
  <2>3. madeFor(i, b) /\ paid(i)
    BY <1>2, <2>1
    DEF PaidInv, IntentOwnership, madeFor, paymentSucceeded, deliver, emitted,
        paid
  <2>4. RequestInv(req[r])'
    BY <1>1, <2>2, <2>3
    DEF RequestInv, madeFor, paid, ConfirmPcs, IntentPcs
  <2> QED BY <1>1, <2>2, <2>4, QuietStepPaidInv
<1>3. CASE paymentFailed(r, i)
  <2>1. CASE UNCHANGED process
    BY <1>1, <2>1, RequestInvKept, UnchangedIntentsGrow, QuietStepPaidInv
    DEF PaidInv, process
  <2>2. ASSUME NEW b \in BookingIds,
               enter(r, [Idle EXCEPT !.pc = "failed:update", !.id = b,
                                     !.intent = i])
        PROVE  PaidInv'
    <3>1. /\ req'[r].pc = "failed:update"
          /\ \A w \in Workers \ {r} : req'[w] = req[w]
      BY <2>2 DEF enter, Idle, RequestsTypeOK
    <3>2. RequestInv(req[r])'
      BY <3>1, FreeRequestInv DEF FreePcs, Pcs, ConfirmPcs, FailedPcs,
          IntentPcs
    <3> QED BY <1>1, <3>1, <3>2, QuietStepPaidInv
  <2> QED BY <1>3, <2>1, <2>2 DEF paymentFailed
<1> QED BY <1>2, <1>3

LEMMA CreatePaidInv ==
  ASSUME TypeOK, PaidInv, NEW r \in Workers, Create(r)
  PROVE  PaidInv'
<1> USE DEF TypeOK
<1>1. /\ intents' = intents
      /\ payments' = payments
  BY DEF Create, createInsert, stripe, tables, bookingUpdate
<1>2. /\ req'[r].pc \in {"idle", "intent:create"}
      /\ \A w \in Workers \ {r} : req'[w] = req[w]
  <2>1. CASE finish(r)
    BY <2>1, FinishShape
  <2>2. ASSUME NEW b, enter(r, [Idle EXCEPT !.pc = "intent:create", !.id = b])
        PROVE  /\ req'[r].pc = "intent:create"
               /\ \A w \in Workers \ {r} : req'[w] = req[w]
    BY <2>2 DEF enter, Idle, RequestsTypeOK
  <2> QED BY <2>1, <2>2 DEF Create, createInsert
<1>3. RequestInv(req[r])'
  BY <1>2, FreeRequestInv DEF FreePcs, Pcs, IntentPcs, ConfirmPcs, FailedPcs
<1>4. IntentOwnership' /\ ServedOnlyIfPaid'
  <2>1. CASE UNCHANGED tables
    BY <1>1, <2>1
    DEF tables, PaidInv, IntentOwnership, ServedOnlyIfPaid, served, paidFor, paid
  <2>2. ASSUME NEW b \in BookingIds, NEW row,
               row.status = "PENDING_PAYMENT", row.paymentIntentId = null,
               bookingUpdate(b, row)
        PROVE  IntentOwnership' /\ ServedOnlyIfPaid'
    <3>1. /\ bookings'[b] = row
          /\ \A c \in BookingIds \ {b} : bookings'[c] = bookings[c]
      BY <2>2, BookingShape
    <3>2. /\ \A i \in Intents : bookings'[b].paymentIntentId # i
          /\ ~served(b)'
      BY <2>2, <3>1 DEF served, Intents, null
    <3> QED BY <1>1, <3>1, <3>2, RowPaidInv
  <2> DEFINE row == [NoBooking EXCEPT !.status = "PENDING_PAYMENT",
                       !.clientId = req[r].clientId,
                       !.providerId = req[r].providerId,
                       !.startTime = req[r].startTime,
                       !.endTime = req[r].endTime]
  <2>3. row.status = "PENDING_PAYMENT" /\ row.paymentIntentId = null
    BY DEF NoBooking
  <2>4. UNCHANGED tables \/ \E b \in BookingIds : bookingUpdate(b, row)
    BY DEF Create, createInsert
  <2> HIDE DEF row
  <2> QED BY <2>1, <2>2, <2>3, <2>4
<1> QED BY <1>1, <1>2, <1>3, <1>4, UnchangedIntentsGrow, StepPaidInv
        DEF PaidInv

LEMMA IntentPaidInv ==
  ASSUME TypeOK, PaidInv, NEW r \in Workers, Intent(r)
  PROVE  PaidInv'
<1> USE DEF TypeOK
<1>1. CASE intentCreate(r)
  <2>1. CASE finish(r) /\ UNCHANGED stripe
    <3>1. RequestInv(req[r])'
      BY <2>1, FinishShape, FreeRequestInv
      DEF FreePcs, Pcs, IntentPcs, ConfirmPcs, FailedPcs
    <3> QED BY <1>1, <2>1, <3>1, FinishShape, QuietStepPaidInv
            DEF intentCreate, tables, stripe
  <2>2. ASSUME NEW i \in Intents, paymentIntentsCreate(i, req[r].id),
               enter(r, [req[r] EXCEPT !.pc = "intent:payment", !.intent = i])
        PROVE  PaidInv'
    <3>1. req[r] \in RequestRecord /\ req[r].id \in BookingIds
      BY <1>1, RequestCarries DEF intentCreate, at, NoBookingPcs
    <3>2. /\ req'[r].pc = "intent:payment"
          /\ req'[r].intent = i
          /\ req'[r].id = req[r].id
          /\ \A w \in Workers \ {r} : req'[w] = req[w]
      BY <2>2, <3>1 DEF enter, RequestsTypeOK, RequestRecord
    <3>3. /\ intents[i].status = "ABSENT"
          /\ intents'[i].bookingId = req[r].id
          /\ intents'[i].status = "created"
          /\ \A j \in Intents \ {i} : intents'[j] = intents[j]
      BY <2>2 DEF paymentIntentsCreate, StripeTypeOK
    <3>4. bookings' = bookings /\ payments' = payments
      BY <1>1 DEF intentCreate, tables
    <3>5. IntentsGrow /\ AbsentIntentsUnbound'
      BY <3>3 DEF IntentsGrow, AbsentIntentsUnbound, PaidInv, paid
    <3>6. IntentOwnership'
      BY <3>3, <3>4
      DEF PaidInv, IntentOwnership, AbsentIntentsUnbound, BookingIds, null
    <3>7. ServedOnlyIfPaid'
      BY <3>4, <3>5, PaidForGrows DEF PaidInv, ServedOnlyIfPaid, served
    <3>8. RequestInv(req[r])'
      BY <3>2, <3>3 DEF RequestInv, madeFor, IntentPcs, ConfirmPcs
    <3> QED BY <3>2, <3>5, <3>6, <3>7, <3>8, StepPaidInv
  <2> QED BY <1>1, <2>1, <2>2 DEF intentCreate
<1>2. ASSUME req[r].pc \in IntentPcs \ {"intent:create"}
      PROVE  /\ req[r].id \in BookingIds
             /\ req[r].intent \in Intents
             /\ intents[req[r].intent].bookingId = req[r].id
  BY <1>2, RequestCarries
  DEF PaidInv, RequestInv, madeFor, NoBookingPcs, IntentPcs
<1>3. CASE intentPayment(r)
  <2>1. req[r].pc \in IntentPcs \ {"intent:create"}
    BY <1>3 DEF intentPayment, at, IntentPcs
  <2>2. intents' = intents /\ bookings' = bookings
    BY <1>3 DEF intentPayment, stripe, tables, paymentCreate
  <2>3. IntentOwnership'
    BY <1>2, <1>3, <2>1, <2>2, PaymentShape
    DEF intentPayment, PaidInv, IntentOwnership, tables
  <2>4. ServedOnlyIfPaid'
    BY <2>2 DEF PaidInv, ServedOnlyIfPaid, served, paidFor, paid
  <2>5. /\ RequestInv(req[r])'
        /\ \A w \in Workers \ {r} : req'[w] = req[w]
    <3>1. CASE goto(r, "intent:link")
      BY <1>2, <2>1, <2>2, <3>1, GotoShape
      DEF RequestInv, madeFor, ConfirmPcs, IntentPcs
    <3>2. CASE finish(r)
      BY <3>2, FinishShape, FreeRequestInv
      DEF FreePcs, Pcs, IntentPcs, ConfirmPcs, FailedPcs
    <3> QED BY <1>3, <3>1, <3>2 DEF intentPayment
  <2> QED BY <2>2, <2>3, <2>4, <2>5, UnchangedIntentsGrow, StepPaidInv
          DEF PaidInv
<1>4. CASE intentLink(r)
  <2>1. req[r].pc \in IntentPcs \ {"intent:create"}
    BY <1>4 DEF intentLink, at, IntentPcs
  <2>2. intents' = intents /\ payments' = payments
    BY <1>4 DEF intentLink, stripe, bookingUpdate
  <2>3. /\ bookings'[req[r].id].paymentIntentId = req[r].intent
        /\ bookings'[req[r].id].status = bookings[req[r].id].status
        /\ \A c \in BookingIds \ {req[r].id} : bookings'[c] = bookings[c]
    <3>1. bookings[req[r].id] \in Booking
      BY <1>2, <2>1 DEF TablesTypeOK
    <3> QED BY <1>2, <1>4, <2>1, <3>1
            DEF intentLink, bookingUpdate, TablesTypeOK, Booking
  <2>4. IntentOwnership' /\ ServedOnlyIfPaid'
    BY <1>2, <2>1, <2>2, <2>3, RowPaidInv
    DEF PaidInv, ServedOnlyIfPaid, served
  <2>5. RequestInv(req[r])'
    BY <1>2, <1>4, <2>1, <2>2, GotoShape
    DEF intentLink, RequestInv, madeFor, ConfirmPcs, IntentPcs
  <2> QED BY <1>4, <2>2, <2>4, <2>5, GotoShape, UnchangedIntentsGrow,
             StepPaidInv
          DEF intentLink, PaidInv
<1>5. CASE intentRespond(r)
  <2>1. bookings' = bookings /\ payments' = payments
    BY <1>5 DEF intentRespond, tables
  <2>2. ASSUME NEW i \in Intents
        PROVE  /\ intents'[i].bookingId = intents[i].bookingId
               /\ intents'[i].status = "ABSENT" => intents[i].status = "ABSENT"
               /\ intents[i].status = "succeeded" =>
                    intents'[i].status = "succeeded"
    <3>1. intents[i] \in PaymentIntent
      BY DEF StripeTypeOK
    <3> QED BY <1>5, <3>1
            DEF intentRespond, issueSecret, StripeTypeOK, PaymentIntent
  <2>3. IntentsGrow /\ AbsentIntentsUnbound'
    BY <2>2 DEF IntentsGrow, AbsentIntentsUnbound, PaidInv, paid
  <2>4. IntentOwnership'
    BY <2>1, <2>2 DEF PaidInv, IntentOwnership
  <2>5. ServedOnlyIfPaid'
    BY <2>1, <2>3, PaidForGrows DEF PaidInv, ServedOnlyIfPaid, served
  <2>6. /\ RequestInv(req[r])'
        /\ \A w \in Workers \ {r} : req'[w] = req[w]
    BY <1>5, FinishShape, FreeRequestInv
    DEF intentRespond, FreePcs, Pcs, IntentPcs, ConfirmPcs, FailedPcs
  <2> QED BY <2>3, <2>4, <2>5, <2>6, StepPaidInv
<1> QED BY <1>1, <1>3, <1>4, <1>5 DEF Intent

\* The webhook moves on with what it carries.
LEMMA ConfirmStepPaidInv ==
  ASSUME TypeOK, PaidInv, NEW r \in Workers, req[r].pc \in ConfirmPcs,
         intents' = intents, bookings' = bookings, payments' = payments,
         \A w \in Workers \ {r} : req'[w] = req[w],
         req'[r].pc \in ConfirmPcs,
         req'[r].id = req[r].id, req'[r].intent = req[r].intent
  PROVE  PaidInv'
<1>1. RequestInv(req[r])'
  BY DEF PaidInv, RequestInv, madeFor, paid, ConfirmPcs, IntentPcs
<1> QED BY <1>1, QuietStepPaidInv

\* A request that ends having left Stripe, bookings and payments alone.
LEMMA FinishPaidInv ==
  ASSUME TypeOK, PaidInv, NEW r \in Workers, finish(r),
         intents' = intents, bookings' = bookings, payments' = payments
  PROVE  PaidInv'
<1>1. RequestInv(req[r])'
  BY FinishShape, FreeRequestInv DEF TypeOK, FreePcs, Pcs, IntentPcs,
      ConfirmPcs, FailedPcs
<1> QED BY <1>1, FinishShape, QuietStepPaidInv DEF TypeOK

LEMMA ConfirmPaidInv ==
  ASSUME TypeOK, PaidInv, NEW r \in Workers, Confirm(r)
  PROVE  PaidInv'
<1> USE DEF TypeOK
<1>1. /\ req[r].pc \in ConfirmPcs
      /\ intents' = intents
  BY DEF Confirm, confirmFindPayment, confirmCreatePayment,
         confirmProviderEvent, confirmClientEvent, confirmUpdate,
         confirmMailBooking, confirmMailPayment, webhookMail, webhookAnswer,
         at, ack, stripe, ConfirmPcs
<1>2. /\ req[r] \in RequestRecord
      /\ req[r].id \in BookingIds
      /\ req[r].intent \in Intents
      /\ intents[req[r].intent].bookingId = req[r].id
      /\ paid(req[r].intent)
  BY <1>1, RequestCarries
  DEF PaidInv, RequestInv, madeFor, NoBookingPcs, PaymentPcs, ConfirmPcs,
      FailedPcs
<1>3. ASSUME NEW pc \in ConfirmPcs, goto(r, pc),
             bookings' = bookings, payments' = payments
      PROVE  PaidInv'
  BY <1>1, <1>3, GotoShape, ConfirmStepPaidInv
<1>4. CASE confirmFindPayment(r)
  BY <1>3, <1>4 DEF confirmFindPayment, tables, ConfirmPcs
<1>5. CASE confirmCreatePayment(r)
  <2>1. CASE paymentTaken(req[r].id, req[r].intent) /\ finish(r)
             /\ UNCHANGED tables
    BY <1>1, <2>1, FinishPaidInv DEF tables
  <2>2. CASE paymentCreate(req[r].id, req[r].intent, "SUCCEEDED")
             /\ goto(r, "confirm:providerEvent")
    <3>1. /\ req'[r].pc \in ConfirmPcs
          /\ req'[r].id = req[r].id
          /\ req'[r].intent = req[r].intent
          /\ \A w \in Workers \ {r} : req'[w] = req[w]
      BY <2>2, GotoShape DEF ConfirmPcs
    <3>2. RequestInv(req[r])'
      BY <1>1, <1>2, <3>1 DEF RequestInv, madeFor, paid, ConfirmPcs, IntentPcs
    <3>3. bookings' = bookings
      BY <2>2 DEF paymentCreate
    <3>4. IntentOwnership'
      BY <1>1, <1>2, <2>2, <3>3, PaymentShape DEF PaidInv, IntentOwnership
    <3>5. ServedOnlyIfPaid'
      BY <1>1, <3>3 DEF PaidInv, ServedOnlyIfPaid, served, paidFor, paid
    <3> QED BY <1>1, <3>1, <3>2, <3>4, <3>5, UnchangedIntentsGrow, StepPaidInv
            DEF PaidInv
  <2> QED BY <1>5, <2>1, <2>2 DEF confirmCreatePayment
<1>6. CASE confirmProviderEvent(r)
  <2>1. /\ req'[r].pc = "confirm:clientEvent"
        /\ req'[r].id = req[r].id
        /\ req'[r].intent = req[r].intent
        /\ \A w \in Workers \ {r} : req'[w] = req[w]
    BY <1>2, <1>6
    DEF confirmProviderEvent, enter, RequestsTypeOK, RequestRecord
  <2> QED BY <1>1, <1>6, <2>1, ConfirmStepPaidInv
          DEF confirmProviderEvent, tables, ConfirmPcs
<1>7. CASE confirmClientEvent(r)
  <2>1. /\ req'[r].pc = "confirm:update"
        /\ req'[r].id = req[r].id
        /\ req'[r].intent = req[r].intent
        /\ \A w \in Workers \ {r} : req'[w] = req[w]
    BY <1>2, <1>7
    DEF confirmClientEvent, enter, RequestsTypeOK, RequestRecord
  <2> QED BY <1>1, <1>7, <2>1, ConfirmStepPaidInv
          DEF confirmClientEvent, tables, ConfirmPcs
<1>8. CASE confirmUpdate(r)
  <2>1. CASE finish(r) /\ UNCHANGED tables
    BY <1>1, <2>1, FinishPaidInv DEF tables
  <2>2. ASSUME NEW b \in BookingIds,
               bookings[b].paymentIntentId = req[r].intent,
               bookingUpdate(b, confirmed(bookings[b], r)),
               enter(r, [Idle EXCEPT !.pc = "confirm:mailBooking", !.id = b,
                                     !.intent = req[r].intent])
        PROVE  PaidInv'
    <3>1. intents[req[r].intent].bookingId = b
      BY <1>2, <2>2 DEF PaidInv, IntentOwnership
    <3>2. paidFor(b)
      BY <1>2, <3>1 DEF paidFor
    <3>3. /\ bookings'[b].paymentIntentId = req[r].intent
          /\ \A c \in BookingIds \ {b} : bookings'[c] = bookings[c]
          /\ payments' = payments
      <4>1. bookings[b] \in Booking
        BY DEF TablesTypeOK
      <4>2. confirmed(bookings[b], r).paymentIntentId = req[r].intent
        BY <2>2, <4>1 DEF confirmed, Booking
      <4> QED BY <2>2, <4>2, BookingShape
    <3>4. IntentOwnership' /\ ServedOnlyIfPaid'
      BY <1>1, <3>1, <3>2, <3>3, RowPaidInv
    <3>5. /\ req'[r].pc = "confirm:mailBooking"
          /\ req'[r].id = b
          /\ req'[r].intent = req[r].intent
          /\ \A w \in Workers \ {r} : req'[w] = req[w]
      BY <2>2 DEF enter, Idle, RequestsTypeOK
    <3>6. RequestInv(req[r])'
      BY <1>1, <1>2, <3>1, <3>5
      DEF RequestInv, madeFor, paid, ConfirmPcs, IntentPcs
    <3> QED BY <1>1, <3>4, <3>5, <3>6, UnchangedIntentsGrow, StepPaidInv
            DEF PaidInv
  <2> QED BY <1>8, <2>1, <2>2 DEF confirmUpdate
<1>9. CASE confirmMailBooking(r)
  BY <1>3, <1>9 DEF confirmMailBooking, tables, ConfirmPcs
<1>10. CASE confirmMailPayment(r)
  BY <1>3, <1>10 DEF confirmMailPayment, tables, ConfirmPcs
<1>11. CASE webhookMail(r)
  BY <1>3, <1>11 DEF webhookMail, tables, ConfirmPcs
<1>12. CASE webhookAnswer(r)
  BY <1>1, <1>12, FinishPaidInv DEF webhookAnswer, tables
<1> QED
  BY <1>4, <1>5, <1>6, <1>7, <1>8, <1>9, <1>10, <1>11, <1>12 DEF Confirm

\* One row of bookings changes and keeps its intent; the request goes where it
\* remembers nothing about payments.
LEMMA UpdatePaidInv ==
  ASSUME TypeOK, PaidInv, NEW r \in Workers, NEW b \in BookingIds, NEW row,
         bookingUpdate(b, row), intents' = intents,
         row.paymentIntentId = bookings[b].paymentIntentId,
         row.status \in {"CONFIRMED", "COMPLETED"} => paidFor(b),
         req'[r].pc \in FreePcs,
         \A w \in Workers \ {r} : req'[w] = req[w]
  PROVE  PaidInv'
<1> USE DEF TypeOK
<1>1. /\ bookings'[b] = row
      /\ \A c \in BookingIds \ {b} : bookings'[c] = bookings[c]
      /\ payments' = payments
  BY BookingShape
<1>2. \A i \in Intents :
        bookings'[b].paymentIntentId = i => intents[i].bookingId = b
  BY <1>1 DEF PaidInv, IntentOwnership
<1>3. IntentOwnership' /\ ServedOnlyIfPaid'
  BY <1>1, <1>2, RowPaidInv DEF served
<1> QED BY <1>3, FreeRequestInv, UnchangedIntentsGrow, StepPaidInv DEF PaidInv

\* A request that stays clear of payments.
LEMMA FreeStepPaidInv ==
  ASSUME TypeOK, PaidInv, NEW r \in Workers, req'[r].pc \in FreePcs,
         intents' = intents, bookings' = bookings, payments' = payments,
         \A w \in Workers \ {r} : req'[w] = req[w]
  PROVE  PaidInv'
  BY FreeRequestInv, QuietStepPaidInv

LEMMA FailedPaidInv ==
  ASSUME TypeOK, PaidInv, NEW r \in Workers, Failed(r)
  PROVE  PaidInv'
<1> USE DEF TypeOK
<1>1. CASE failedUpdate(r)
  <2>1. req[r].id \in BookingIds
    BY <1>1, RequestCarries DEF failedUpdate, at, NoBookingPcs
  <2>2. bookings[req[r].id] \in Booking
    BY <2>1 DEF TablesTypeOK
  <2> DEFINE row == [bookings[req[r].id] EXCEPT !.status = "PENDING_PAYMENT"]
  <2>3. /\ row.paymentIntentId = bookings[req[r].id].paymentIntentId
        /\ row.status = "PENDING_PAYMENT"
    BY <2>2 DEF Booking
  <2>4. /\ bookingUpdate(req[r].id, row)
        /\ goto(r, "failed:answer")
        /\ intents' = intents
    BY <1>1 DEF failedUpdate, stripe
  <2> HIDE DEF row
  <2>5. req'[r].pc \in FreePcs
    BY <2>4, GotoShape DEF FreePcs, Pcs, IntentPcs, ConfirmPcs, FailedPcs
  <2> QED BY <2>1, <2>3, <2>4, <2>5, GotoShape, UpdatePaidInv
<1>2. CASE failedAnswer(r)
  BY <1>2, FinishPaidInv DEF failedAnswer, ack, tables
<1> QED BY <1>1, <1>2 DEF Failed

LEMMA CancelPaidInv ==
  ASSUME TypeOK, PaidInv, NEW r \in Workers, Cancel(r)
  PROVE  PaidInv'
<1> USE DEF TypeOK
<1>1. intents' = intents
  BY DEF Cancel, cancelProviderEvent, cancelClientEvent, cancelUpdate,
         cancelMail, stripe
<1>2. /\ req[r] \in RequestRecord
      /\ req[r].id \in BookingIds
  BY RequestCarries
  DEF Cancel, cancelProviderEvent, cancelClientEvent, cancelUpdate,
      cancelMail, at, NoBookingPcs
<1>3. CASE cancelProviderEvent(r)
  <2>1. /\ req'[r].pc = "cancel:clientEvent"
        /\ \A w \in Workers \ {r} : req'[w] = req[w]
    BY <1>2, <1>3
    DEF cancelProviderEvent, enter, RequestsTypeOK, RequestRecord
  <2>2. req'[r].pc \in FreePcs
    BY <2>1 DEF FreePcs, Pcs, IntentPcs, ConfirmPcs, FailedPcs
  <2> QED BY <1>1, <1>3, <2>1, <2>2, FreeStepPaidInv
          DEF cancelProviderEvent, tables
<1>4. CASE cancelClientEvent(r)
  <2>1. /\ req'[r].pc = "cancel:update"
        /\ \A w \in Workers \ {r} : req'[w] = req[w]
    BY <1>2, <1>4
    DEF cancelClientEvent, enter, RequestsTypeOK, RequestRecord
  <2>2. req'[r].pc \in FreePcs
    BY <2>1 DEF FreePcs, Pcs, IntentPcs, ConfirmPcs, FailedPcs
  <2> QED BY <1>1, <1>4, <2>1, <2>2, FreeStepPaidInv
          DEF cancelClientEvent, tables
<1>5. CASE cancelUpdate(r)
  <2>1. bookings[req[r].id] \in Booking
    BY <1>2 DEF TablesTypeOK
  <2> DEFINE row == [bookings[req[r].id] EXCEPT !.status = "CANCELLED",
                !.providerGoogleEventId = null, !.clientGoogleEventId = null]
  <2>2. /\ row.paymentIntentId = bookings[req[r].id].paymentIntentId
        /\ row.status = "CANCELLED"
    BY <2>1 DEF Booking
  <2>3. bookingUpdate(req[r].id, row) /\ goto(r, "cancel:mail")
    BY <1>5 DEF cancelUpdate
  <2> HIDE DEF row
  <2>4. req'[r].pc \in FreePcs
    BY <2>3, GotoShape DEF FreePcs, Pcs, IntentPcs, ConfirmPcs, FailedPcs
  <2> QED BY <1>1, <1>2, <2>2, <2>3, <2>4, GotoShape, UpdatePaidInv
<1>6. CASE cancelMail(r)
  BY <1>1, <1>6, FinishPaidInv DEF cancelMail, tables
<1> QED BY <1>3, <1>4, <1>5, <1>6 DEF Cancel

LEMMA CompletePaidInv ==
  ASSUME TypeOK, PaidInv, NEW r \in Workers, Complete(r)
  PROVE  PaidInv'
<1> USE DEF TypeOK
<1>1. req[r].id \in BookingIds
  BY RequestCarries DEF Complete, completeUpdate, at, NoBookingPcs
<1>2. bookings[req[r].id] \in Booking
  BY <1>1 DEF TablesTypeOK
<1> DEFINE row == [bookings[req[r].id] EXCEPT !.status = "COMPLETED",
                                              !.completedAt = TRUE]
<1>3. row.paymentIntentId = bookings[req[r].id].paymentIntentId
  BY <1>2 DEF Booking
<1>4. bookingUpdate(req[r].id, row) /\ finish(r) /\ intents' = intents
  BY DEF Complete, completeUpdate, stripe
<1>5. paidFor(req[r].id)
  BY DEF Complete, completeUpdate, at, PaidInv, RequestInv
<1> HIDE DEF row
<1>6. req'[r].pc \in FreePcs
  BY <1>4, FinishShape DEF FreePcs, Pcs, IntentPcs, ConfirmPcs, FailedPcs
<1> QED BY <1>1, <1>3, <1>4, <1>5, <1>6, FinishShape, UpdatePaidInv

LEMMA ReschedulePaidInv ==
  ASSUME TypeOK, PaidInv, NEW r \in Workers, Reschedule(r)
  PROVE  PaidInv'
<1> USE DEF TypeOK
<1>1. intents' = intents
  BY DEF Reschedule, rescheduleCheck, rescheduleUpdate, rescheduleReadBack,
         rescheduleProviderEvent, rescheduleClientEvent, stripe
<1>2. /\ req[r] \in RequestRecord
      /\ req[r].id \in BookingIds
  BY RequestCarries
  DEF Reschedule, rescheduleCheck, rescheduleUpdate, rescheduleReadBack,
      rescheduleProviderEvent, rescheduleClientEvent, at, NoBookingPcs
<1>3. ASSUME NEW pc \in FreePcs, goto(r, pc), UNCHANGED tables
      PROVE  PaidInv'
  BY <1>1, <1>3, GotoShape, FreeStepPaidInv DEF tables
<1>4. ASSUME finish(r), UNCHANGED tables
      PROVE  PaidInv'
  BY <1>1, <1>4, FinishPaidInv DEF tables
<1>5. CASE rescheduleCheck(r)
  <2>1. "reschedule:update" \in FreePcs
    BY DEF FreePcs, Pcs, IntentPcs, ConfirmPcs, FailedPcs
  <2> QED BY <1>3, <1>4, <1>5, <2>1 DEF rescheduleCheck
<1>6. CASE rescheduleUpdate(r)
  <2>1. bookings[req[r].id] \in Booking
    BY <1>2 DEF TablesTypeOK
  <2> DEFINE row == [bookings[req[r].id] EXCEPT !.startTime = req[r].startTime,
                                               !.endTime = req[r].endTime]
  <2>2. /\ row.paymentIntentId = bookings[req[r].id].paymentIntentId
        /\ row.status = bookings[req[r].id].status
    BY <2>1 DEF Booking
  <2>3. \/ finish(r) /\ UNCHANGED tables
        \/ bookingUpdate(req[r].id, row) /\ goto(r, "reschedule:readBack")
    BY <1>6 DEF rescheduleUpdate
  <2> HIDE DEF row
  <2>4. CASE bookingUpdate(req[r].id, row) /\ goto(r, "reschedule:readBack")
    <3>1. req'[r].pc \in FreePcs
      BY <2>4, GotoShape DEF FreePcs, Pcs, IntentPcs, ConfirmPcs, FailedPcs
    <3>2. row.status \in {"CONFIRMED", "COMPLETED"} => paidFor(req[r].id)
      BY <1>2, <2>2 DEF PaidInv, ServedOnlyIfPaid, served
    <3> QED BY <1>1, <1>2, <2>2, <2>4, <3>1, <3>2, GotoShape, UpdatePaidInv
  <2> QED BY <1>4, <2>3, <2>4
<1>7. CASE rescheduleReadBack(r)
  <2>1. /\ req'[r].pc = "reschedule:providerEvent"
        /\ \A w \in Workers \ {r} : req'[w] = req[w]
    BY <1>2, <1>7
    DEF rescheduleReadBack, enter, RequestsTypeOK, RequestRecord
  <2>2. req'[r].pc \in FreePcs
    BY <2>1 DEF FreePcs, Pcs, IntentPcs, ConfirmPcs, FailedPcs
  <2> QED BY <1>1, <1>7, <2>1, <2>2, FreeStepPaidInv
          DEF rescheduleReadBack, tables
<1>8. CASE rescheduleProviderEvent(r)
  <2>1. "reschedule:clientEvent" \in FreePcs
    BY DEF FreePcs, Pcs, IntentPcs, ConfirmPcs, FailedPcs
  <2> QED BY <1>3, <1>8, <2>1 DEF rescheduleProviderEvent
<1>9. CASE rescheduleClientEvent(r)
  BY <1>4, <1>9 DEF rescheduleClientEvent
<1> QED BY <1>5, <1>6, <1>7, <1>8, <1>9 DEF Reschedule

LEMMA ReviewPaidInv ==
  ASSUME TypeOK, PaidInv, NEW r \in Workers, Review(r)
  PROVE  PaidInv'
<1> USE DEF TypeOK
<1>1. CASE finish(r)
  BY <1>1, FinishPaidInv DEF Review, reviewFind, reviewInsert, tables, stripe
<1>2. CASE goto(r, "review:insert") /\ UNCHANGED <<tables, stripe>>
  <2>1. req'[r].pc \in FreePcs
    BY <1>2, GotoShape DEF FreePcs, Pcs, IntentPcs, ConfirmPcs, FailedPcs
  <2> QED BY <1>2, <2>1, GotoShape, FreeStepPaidInv DEF tables, stripe
<1> QED BY <1>1, <1>2 DEF Review, reviewFind, reviewInsert

\* A step without a request.
LEMMA IdleStepPaidInv ==
  ASSUME TypeOK, PaidInv, IntentsGrow, AbsentIntentsUnbound',
         IntentOwnership', ServedOnlyIfPaid',
         \A w \in Workers : req'[w] = req[w] \/ req'[w].pc = "idle"
  PROVE  PaidInv'
<1>1. ASSUME NEW w \in Workers
      PROVE  RequestInv(req[w])'
  <2>1. CASE req'[w] = req[w]
    BY <2>1, RequestInvKept
  <2>2. CASE req'[w].pc = "idle"
    BY <2>2, FreeRequestInv DEF FreePcs, Pcs, IntentPcs, ConfirmPcs, FailedPcs
  <2> QED BY <2>1, <2>2
<1> QED BY <1>1 DEF PaidInv

LEMMA CustomerPaidInv ==
  ASSUME TypeOK, PaidInv, Customer
  PROVE  PaidInv'
<1>1. bookings' = bookings /\ payments' = payments /\ req' = req
  BY DEF Customer, tables, process
<1>2. ASSUME NEW i \in Intents
      PROVE  /\ intents'[i].bookingId = intents[i].bookingId
             /\ intents'[i].status = "ABSENT" => intents[i].status = "ABSENT"
             /\ intents[i].status = "succeeded" =>
                  intents'[i].status = "succeeded"
  <2>1. intents[i] \in PaymentIntent
    BY DEF TypeOK, StripeTypeOK
  <2>2. PICK j \in Intents : pay(j) \/ decline(j)
    BY DEF Customer
  <2> QED BY <2>1, <2>2
          DEF pay, decline, TypeOK, StripeTypeOK, PaymentIntent
<1>3. IntentsGrow /\ AbsentIntentsUnbound'
  BY <1>2 DEF IntentsGrow, AbsentIntentsUnbound, PaidInv, paid
<1>4. IntentOwnership'
  BY <1>1, <1>2 DEF PaidInv, IntentOwnership
<1>5. ServedOnlyIfPaid'
  BY <1>1, <1>3, PaidForGrows DEF PaidInv, ServedOnlyIfPaid, served
<1> QED BY <1>1, <1>3, <1>4, <1>5, IdleStepPaidInv

LEMMA AdminPaidInv ==
  ASSUME TypeOK, PaidInv, Admin
  PROVE  PaidInv'
<1>1. bookings' = bookings /\ intents' = intents /\ req' = req
  BY DEF Admin, paymentRemove, reviewRemove, stripe, process
<1>2. ASSUME NEW b \in BookingIds
      PROVE  payments'[b].paymentIntentId \in
               {null, payments[b].paymentIntentId}
  BY DEF Admin, paymentRemove, reviewRemove, TypeOK, TablesTypeOK, NoPayment
<1>3. IntentOwnership'
  BY <1>1, <1>2 DEF PaidInv, IntentOwnership, Intents, null
<1>4. ServedOnlyIfPaid'
  BY <1>1 DEF PaidInv, ServedOnlyIfPaid, served, paidFor, paid
<1> QED BY <1>1, <1>3, <1>4, UnchangedIntentsGrow, IdleStepPaidInv DEF PaidInv

\* Faults, the clock and stuttering change no table and no intent.
LEMMA OutsidePaidInv ==
  ASSUME TypeOK, PaidInv, UNCHANGED <<tables, stripe>>,
         \A w \in Workers : req'[w] = req[w] \/ req'[w].pc = "idle"
  PROVE  PaidInv'
<1>1. /\ bookings' = bookings
      /\ payments' = payments
      /\ intents' = intents
  BY DEF tables, stripe
<1>2. IntentOwnership' /\ ServedOnlyIfPaid'
  BY <1>1 DEF PaidInv, IntentOwnership, ServedOnlyIfPaid, served, paidFor, paid
<1> QED BY <1>1, <1>2, UnchangedIntentsGrow, IdleStepPaidInv DEF PaidInv

LEMMA InitPaidInv ==
  ASSUME Init
  PROVE  PaidInv
  BY DEF Init, TablesInit, NoBooking, NoPayment, StripeInit, NoIntent,
         RequestsInit, Idle, PaidInv, AbsentIntentsUnbound, IntentOwnership,
         ServedOnlyIfPaid, served, RequestInv, IntentPcs, ConfirmPcs, Intents,
         null

---------------------------------------------------------------------------
LEMMA NextPaidInv ==
  ASSUME TypeOK, PaidInv, [Next]_vars
  PROVE  PaidInv'
<1>1. ASSUME NEW r \in Workers, Arrive(r) \/ Deliver(r) \/ Proceed(r)
      PROVE  PaidInv'
  BY <1>1, ArrivePaidInv, DeliverPaidInv, CreatePaidInv,
     IntentPaidInv, ConfirmPaidInv, FailedPaidInv, CancelPaidInv,
     CompletePaidInv, ReschedulePaidInv, ReviewPaidInv
  DEF Proceed
<1>2. ASSUME NEW r \in Workers, fail(r)
      PROVE  PaidInv'
  BY <1>2, OutsidePaidInv DEF fail, Idle, TypeOK, RequestsTypeOK
<1>3. CASE crash
  BY <1>3, OutsidePaidInv DEF crash, Idle
<1>4. CASE tick
  BY <1>4, OutsidePaidInv DEF tick, process
<1>5. CASE UNCHANGED vars
  BY <1>5, OutsidePaidInv DEF vars, process
<1> QED BY <1>1, <1>2, <1>3, <1>4, <1>5, CustomerPaidInv, AdminPaidInv
        DEF Next

\* The inductive invariant: tables, Stripe and open requests agree about which
\* payment belongs to which booking, after every prefix of every execution.
THEOREM PaidInvHolds == Spec => []PaidInv
<1>1. TypeOK /\ PaidInv /\ [Next]_vars => PaidInv'
  BY NextPaidInv
<1> QED BY <1>1, InitPaidInv, TypeCorrect, PTL DEF Spec

\* However webhooks, retries, cancellations, completions and faults interleave,
\* nothing is confirmed or completed that has not been paid for.
THEOREM ServedOnlyIfPaidHolds == Spec => []ServedOnlyIfPaid
<1>1. PaidInv => ServedOnlyIfPaid
  BY DEF PaidInv
<1> QED BY <1>1, PaidInvHolds, PTL

\* A payment is never taken for, or filed under, another booking.
THEOREM IntentOwnershipHolds == Spec => []IntentOwnership
<1>1. PaidInv => IntentOwnership
  BY DEF PaidInv
<1> QED BY <1>1, PaidInvHolds, PTL

---------------------------------------------------------------------------
\* What a client can be charged: the payment row, one per booking and intent,
\* is written before the booking names the intent or the client gets its
\* secret (ChargeInv).

---------------------------------------------------------------------------
\* Steps that issue no secret, file no payment and link no intent

\* No booking comes to name another intent.
LinksKept ==
  \A b \in BookingIds :
    bookings'[b].paymentIntentId \in {null, bookings[b].paymentIntentId}

\* No request comes to carry an intent that has been filed.
CarriersKept ==
  \A w \in Workers : req'[w] = req[w] \/ req'[w].pc \notin LinkPcs

LEMMA KeptChargeInv ==
  ASSUME ChargeInv, LinksKept, CarriersKept,
         payments' = payments, removed' = removed, intents' = intents
  PROVE  ChargeInv'
<1>1. SameIntent'
  BY DEF ChargeInv, SameIntent, LinksKept
<1>2. ASSUME NEW r \in Workers, req'[r].pc \in LinkPcs
      PROVE  filed(req[r].intent, req[r].id)'
  BY <1>2 DEF ChargeInv, CarriersKept, filed
<1> QED BY <1>1, <1>2 DEF ChargeInv, filed

LEMMA UnchangedLinks ==
  ASSUME bookings' = bookings
  PROVE  LinksKept
  BY DEF LinksKept

LEMMA UpdateLinks ==
  ASSUME TypeOK, NEW b \in BookingIds, NEW row, bookingUpdate(b, row),
         row.paymentIntentId \in {null, bookings[b].paymentIntentId}
  PROVE  LinksKept /\ payments' = payments /\ removed' = removed
  BY BookingShape DEF LinksKept, TypeOK, bookingUpdate

LEMMA EnterCarriers ==
  ASSUME TypeOK, NEW r \in Workers, NEW q, enter(r, q), q.pc \notin LinkPcs
  PROVE  CarriersKept
  BY EnterShape DEF TypeOK, CarriersKept

LEMMA FinishCarriers ==
  ASSUME TypeOK, NEW r \in Workers, finish(r)
  PROVE  CarriersKept
  BY FinishShape DEF TypeOK, CarriersKept, LinkPcs

LEMMA GotoCarriers ==
  ASSUME TypeOK, NEW r \in Workers, NEW pc, goto(r, pc), pc \notin LinkPcs
  PROVE  CarriersKept
  BY GotoShape DEF TypeOK, CarriersKept

LEMMA ArriveChargeInv ==
  ASSUME TypeOK, ChargeInv, NEW r \in Workers, Arrive(r)
  PROVE  ChargeInv'
<1>1. /\ bookings' = bookings
      /\ payments' = payments
      /\ removed' = removed
      /\ intents' = intents
  BY DEF Arrive, create, createPaymentIntent, cancel, complete, reschedule,
         review, tables, stripe
<1>2. CarriersKept
  <2>1. ASSUME NEW q, enter(r, q),
               q.pc \in {"create:insert", "intent:create",
                         "cancel:providerEvent", "complete:update",
                         "reschedule:check", "review:find"}
        PROVE  CarriersKept
    BY <2>1, EnterCarriers DEF LinkPcs
  <2>2. ASSUME NEW u \in Clients, NEW p \in Providers, NEW s \in StartTimes,
               NEW d \in Durations, create(r, u, p, s, d)
        PROVE  CarriersKept
    BY <2>1, <2>2 DEF create, Idle
  <2>3. ASSUME NEW u, NEW b \in BookingIds,
               \/ createPaymentIntent(r, u, b)
               \/ cancel(r, u, b)
               \/ complete(r, u, b)
               \/ review(r, u, b)
        PROVE  CarriersKept
    BY <2>1, <2>3 DEF createPaymentIntent, cancel, complete, review, Idle
  <2>4. ASSUME NEW u \in Users, NEW b \in BookingIds, NEW s \in StartTimes,
               NEW d \in Durations, reschedule(r, u, b, s, d)
        PROVE  CarriersKept
    BY <2>1, <2>4 DEF reschedule, Idle
  <2> QED BY <2>2, <2>3, <2>4 DEF Arrive
<1> QED BY <1>1, <1>2, UnchangedLinks, KeptChargeInv

LEMMA DeliverChargeInv ==
  ASSUME TypeOK, ChargeInv, NEW r \in Workers, Deliver(r)
  PROVE  ChargeInv'
<1> SUFFICES ASSUME NEW i \in Intents,
                    paymentSucceeded(r, i) \/ paymentFailed(r, i)
             PROVE  ChargeInv'
  BY DEF Deliver
<1>1. /\ bookings' = bookings
      /\ payments' = payments
      /\ removed' = removed
      /\ intents' = intents
  BY DEF paymentSucceeded, paymentFailed, deliver, ack, tables
<1>2. ASSUME NEW q, enter(r, q),
             q.pc \in {"webhook:mail", "confirm:findPayment", "failed:update"}
      PROVE  CarriersKept
  BY <1>2, EnterCarriers DEF LinkPcs
<1>3. UNCHANGED process => CarriersKept
  BY DEF CarriersKept, process
<1>4. CASE paymentSucceeded(r, i)
  <2>1. CarriersKept
    BY <1>2, <1>4 DEF paymentSucceeded, confirmByPaymentIntent, Idle
  <2> QED BY <1>1, <2>1, UnchangedLinks, KeptChargeInv
<1>5. CASE paymentFailed(r, i)
  <2>1. CarriersKept
    BY <1>2, <1>3, <1>5 DEF paymentFailed, Idle
  <2> QED BY <1>1, <2>1, UnchangedLinks, KeptChargeInv
<1> QED BY <1>4, <1>5

LEMMA CreateChargeInv ==
  ASSUME TypeOK, ChargeInv, NEW r \in Workers, Create(r)
  PROVE  ChargeInv'
<1> DEFINE row == [NoBooking EXCEPT !.status = "PENDING_PAYMENT",
                     !.clientId = req[r].clientId,
                     !.providerId = req[r].providerId,
                     !.startTime = req[r].startTime,
                     !.endTime = req[r].endTime]
<1>1. row.paymentIntentId = null
  BY DEF NoBooking
<1>2. /\ \/ UNCHANGED tables
         \/ \E b \in BookingIds : bookingUpdate(b, row)
      /\ intents' = intents
  BY DEF Create, createInsert, stripe
<1> HIDE DEF row
<1>3. LinksKept /\ payments' = payments /\ removed' = removed
  BY <1>1, <1>2, UnchangedLinks, UpdateLinks DEF tables
<1>4. ASSUME NEW q, enter(r, q), q.pc = "intent:create"
      PROVE  CarriersKept
  BY <1>4, EnterCarriers DEF LinkPcs
<1>5. CarriersKept
  BY <1>4, FinishCarriers DEF Create, createInsert, Idle
<1> QED BY <1>2, <1>3, <1>5, KeptChargeInv

---------------------------------------------------------------------------
\* The webhook

LEMMA ConfirmCarriers ==
  ASSUME TypeOK, NEW r \in Workers, Confirm(r)
  PROVE  CarriersKept
<1>1. ASSUME NEW q, enter(r, q), q.pc \in ConfirmPcs
      PROVE  CarriersKept
  BY <1>1, EnterCarriers DEF ConfirmPcs, LinkPcs
<1>2. ASSUME NEW pc \in ConfirmPcs, goto(r, pc)
      PROVE  CarriersKept
  BY <1>2, GotoCarriers DEF ConfirmPcs, LinkPcs
<1>3. CASE \/ confirmFindPayment(r)
           \/ confirmCreatePayment(r)
           \/ confirmMailBooking(r)
           \/ confirmMailPayment(r)
           \/ webhookMail(r)
           \/ webhookAnswer(r)
  BY <1>2, <1>3, FinishCarriers
  DEF confirmFindPayment, confirmCreatePayment, confirmMailBooking,
      confirmMailPayment, webhookMail, webhookAnswer, ConfirmPcs
<1>4. req[r] \in RequestRecord
  BY RequestCarries DEF TypeOK
<1>5. CASE confirmProviderEvent(r)
  <2>1. PICK e : enter(r, [req[r] EXCEPT !.pc = "confirm:clientEvent",
                                         !.providerEvent = e])
    BY <1>5 DEF confirmProviderEvent
  <2>2. [req[r] EXCEPT !.pc = "confirm:clientEvent",
                       !.providerEvent = e].pc \in ConfirmPcs
    BY <1>4 DEF RequestRecord, ConfirmPcs
  <2> QED BY <1>1, <2>1, <2>2
<1>6. CASE confirmClientEvent(r)
  <2>1. PICK e : enter(r, [req[r] EXCEPT !.pc = "confirm:update",
                                         !.startTime = 0, !.clientEvent = e])
    BY <1>6 DEF confirmClientEvent
  <2>2. [req[r] EXCEPT !.pc = "confirm:update", !.startTime = 0,
                       !.clientEvent = e].pc \in ConfirmPcs
    BY <1>4 DEF RequestRecord, ConfirmPcs
  <2> QED BY <1>1, <2>1, <2>2
<1>7. CASE confirmUpdate(r)
  BY <1>1, <1>7, FinishCarriers DEF confirmUpdate, Idle, ConfirmPcs
<1> QED BY <1>3, <1>5, <1>6, <1>7 DEF Confirm

\* A new payment row is about an intent nothing has been promised for: if its
\* booking had named an intent or a secret were out, there would be a row.
LEMMA CreatedPaymentKept ==
  ASSUME TypeOK, ChargeInv, NEW b \in BookingIds, NEW i, NEW status,
         paymentCreate(b, i, status), status # "ABSENT"
  PROVE  /\ SameIntent'
         /\ \A c \in BookingIds :
              payments'[c].status = "ABSENT" =>
                payments'[c].paymentIntentId = null
         /\ \A j \in Intents : \A c : filed(j, c) => filed(j, c)'
<1>1. /\ payments[b].status = "ABSENT"
      /\ payments' = [payments EXCEPT ![b] =
                        [status |-> status, paymentIntentId |-> i]]
      /\ bookings' = bookings
      /\ removed' = removed
  BY DEF paymentCreate, paymentTaken, isPaymentRow
<1>2. payments[b].paymentIntentId = null
  BY <1>1 DEF ChargeInv
<1>3. \A c \in BookingIds \ {b} : payments'[c] = payments[c]
  BY <1>1 DEF TypeOK, TablesTypeOK
<1>4. /\ payments'[b].status = status
      /\ payments'[b].paymentIntentId = i
  BY <1>1 DEF TypeOK, TablesTypeOK
<1>5. SameIntent'
  BY <1>1, <1>2, <1>3 DEF ChargeInv, SameIntent
<1>6. ASSUME NEW c \in BookingIds, payments'[c].status = "ABSENT"
      PROVE  payments'[c].paymentIntentId = null
  BY <1>3, <1>4, <1>6 DEF ChargeInv
<1>7. ASSUME NEW j \in Intents, NEW c, filed(j, c)
      PROVE  filed(j, c)'
  <2>1. j # null
    BY DEF Intents, null
  <2>2. c # b \/ c \in removed
    BY <1>2, <1>7, <2>1 DEF filed
  <2>3. CASE c \in removed
    BY <1>1, <2>3 DEF filed
  <2>4. CASE c \in BookingIds \ {b} /\ payments[c].paymentIntentId = j
    BY <1>3, <2>4 DEF filed
  <2> QED BY <1>7, <2>2, <2>3, <2>4 DEF filed
<1> QED BY <1>5, <1>6, <1>7

\* A step that files a payment and sends one request on.
LEMMA FiledChargeInv ==
  ASSUME TypeOK, ChargeInv, intents' = intents, NEW r \in Workers,
         SameIntent',
         \A c \in BookingIds :
           payments'[c].status = "ABSENT" => payments'[c].paymentIntentId = null,
         \A j \in Intents : \A c : filed(j, c) => filed(j, c)',
         \A w \in Workers \ {r} : req'[w] = req[w],
         req'[r].pc \in LinkPcs => filed(req[r].intent, req[r].id)'
  PROVE  ChargeInv'
<1>1. ASSUME NEW w \in Workers, req'[w].pc \in LinkPcs
      PROVE  filed(req[w].intent, req[w].id)'
  <2>1. CASE w = r
    BY <1>1, <2>1
  <2>2. CASE w # r
    <3>1. req'[w] = req[w] /\ req[w].pc \in PaymentPcs
      BY <1>1, <2>2 DEF LinkPcs, PaymentPcs, IntentPcs, FailedPcs
    <3>2. req[w].intent \in Intents
      BY <3>1, RequestCarries DEF TypeOK
    <3>3. filed(req[w].intent, req[w].id)
      BY <1>1, <3>1 DEF ChargeInv
    <3>4. filed(req[w].intent, req[w].id)' <=> \/ req[w].id \in removed'
            \/ /\ req[w].id \in BookingIds
               /\ payments'[req[w].id].paymentIntentId = req[w].intent
      BY <3>1 DEF filed
    <3> QED BY <3>2, <3>3, <3>4 DEF filed
  <2> QED BY <2>1, <2>2
<1>2. ASSUME NEW i \in Intents, intents'[i].status \in {"issued", "succeeded"}
      PROVE  filed(i, intents[i].bookingId)'
  BY <1>2 DEF ChargeInv, filed
<1> QED BY <1>1, <1>2 DEF ChargeInv

LEMMA ConfirmChargeInv ==
  ASSUME TypeOK, ChargeInv, NEW r \in Workers, Confirm(r)
  PROVE  ChargeInv'
<1>1. intents' = intents
  BY DEF Confirm, confirmFindPayment, confirmCreatePayment,
         confirmProviderEvent, confirmClientEvent, confirmUpdate,
         confirmMailBooking, confirmMailPayment, webhookMail, webhookAnswer,
         ack, stripe
<1>2. CarriersKept
  BY ConfirmCarriers
<1>3. CASE UNCHANGED tables
  BY <1>1, <1>2, <1>3, UnchangedLinks, KeptChargeInv DEF tables
<1>4. ASSUME confirmCreatePayment(r),
             paymentCreate(req[r].id, req[r].intent, "SUCCEEDED")
      PROVE  ChargeInv'
  <2>1. req[r].id \in BookingIds
    BY <1>4, RequestCarries DEF TypeOK, confirmCreatePayment, at, NoBookingPcs
  <2>2. goto(r, "confirm:providerEvent")
    BY <1>4 DEF confirmCreatePayment, paymentCreate
  <2>3. /\ req'[r].pc \notin LinkPcs
        /\ \A w \in Workers \ {r} : req'[w] = req[w]
    BY <2>2, GotoShape DEF TypeOK, LinkPcs
  <2> QED BY <1>1, <1>4, <2>1, <2>3, CreatedPaymentKept, FiledChargeInv
<1>5. ASSUME NEW b \in BookingIds,
             bookingUpdate(b, confirmed(bookings[b], r))
      PROVE  ChargeInv'
  <2>1. bookings[b] \in Booking
    BY DEF TypeOK, TablesTypeOK
  <2>2. confirmed(bookings[b], r).paymentIntentId = bookings[b].paymentIntentId
    BY <2>1 DEF confirmed, Booking
  <2> QED BY <1>1, <1>2, <1>5, <2>2, UpdateLinks, KeptChargeInv
<1> QED BY <1>3, <1>4, <1>5
        DEF Confirm, confirmFindPayment, confirmCreatePayment,
            confirmProviderEvent, confirmClientEvent, confirmUpdate,
            confirmMailBooking, confirmMailPayment, webhookMail, webhookAnswer

---------------------------------------------------------------------------
\* createPaymentIntent

\* Intents change and the tables do not: an intent a client can pay is filed.
LEMMA IntentsChargeInv ==
  ASSUME ChargeInv, UNCHANGED tables, CarriersKept,
         \A i \in Intents :
           intents'[i].status \in {"issued", "succeeded"} =>
             filed(i, intents'[i].bookingId)
  PROVE  ChargeInv'
<1>1. SameIntent'
  BY DEF ChargeInv, SameIntent, tables
<1>2. ASSUME NEW r \in Workers, req'[r].pc \in LinkPcs
      PROVE  filed(req[r].intent, req[r].id)'
  BY <1>2 DEF ChargeInv, CarriersKept, filed, tables
<1> QED BY <1>1, <1>2 DEF ChargeInv, filed, tables

LEMMA IntentChargeInv ==
  ASSUME TypeOK, PaidInv, ChargeInv, NEW r \in Workers, Intent(r)
  PROVE  ChargeInv'
<1>1. /\ req[r] \in RequestRecord
      /\ req[r].id \in BookingIds
      /\ req[r].pc # "intent:create" => req[r].intent \in Intents
      /\ req[r].pc # "intent:create" =>
           intents[req[r].intent].bookingId = req[r].id
  BY RequestCarries
  DEF TypeOK, PaidInv, RequestInv, madeFor, Intent, intentCreate,
      intentPayment, intentLink, intentRespond, at, NoBookingPcs, PaymentPcs,
      IntentPcs, FailedPcs
<1>2. CASE intentCreate(r)
  <2>1. CASE finish(r) /\ UNCHANGED stripe
    BY <1>2, <2>1, FinishCarriers, UnchangedLinks, KeptChargeInv
    DEF intentCreate, tables, stripe
  <2>2. ASSUME NEW i \in Intents, paymentIntentsCreate(i, req[r].id),
               enter(r, [req[r] EXCEPT !.pc = "intent:payment", !.intent = i])
        PROVE  ChargeInv'
    <3>1. [req[r] EXCEPT !.pc = "intent:payment", !.intent = i].pc
            = "intent:payment"
      BY <1>1 DEF RequestRecord
    <3>2. CarriersKept
      BY <2>2, <3>1, EnterCarriers DEF LinkPcs
    <3>3. /\ intents'[i].status = "created"
          /\ \A j \in Intents \ {i} : intents'[j] = intents[j]
      BY <2>2 DEF paymentIntentsCreate, TypeOK, StripeTypeOK
    <3>4. UNCHANGED tables
      BY <1>2 DEF intentCreate
    <3> QED BY <3>2, <3>3, <3>4, IntentsChargeInv DEF ChargeInv
  <2> QED BY <1>2, <2>1, <2>2 DEF intentCreate
<1>3. CASE intentPayment(r)
  <2>1. intents' = intents
    BY <1>3 DEF intentPayment, stripe
  <2>2. CASE finish(r) /\ UNCHANGED tables
    BY <2>1, <2>2, FinishCarriers, UnchangedLinks, KeptChargeInv DEF tables
  <2>3. ASSUME paymentCreate(req[r].id, req[r].intent, "PENDING"),
               goto(r, "intent:link")
        PROVE  ChargeInv'
    <3>1. /\ req'[r].id = req[r].id
          /\ req'[r].intent = req[r].intent
          /\ \A w \in Workers \ {r} : req'[w] = req[w]
      BY <2>3, GotoShape DEF TypeOK
    <3>2. payments'[req[r].id].paymentIntentId = req[r].intent
      BY <1>1, <2>3, PaymentShape DEF TypeOK
    <3>3. filed(req[r].intent, req[r].id)'
      BY <1>1, <3>1, <3>2 DEF filed
    <3> QED BY <1>1, <2>1, <2>3, <3>1, <3>3, CreatedPaymentKept, FiledChargeInv
  <2> QED BY <1>3, <2>2, <2>3 DEF intentPayment
<1>4. CASE intentLink(r)
  <2>1. bookings[req[r].id] \in Booking
    BY <1>1 DEF TypeOK, TablesTypeOK
  <2> DEFINE row == [bookings[req[r].id] EXCEPT
                       !.paymentIntentId = req[r].intent]
  <2>2. row.paymentIntentId = req[r].intent
    BY <2>1 DEF Booking
  <2>3. /\ bookingUpdate(req[r].id, row)
        /\ goto(r, "intent:respond")
        /\ intents' = intents
    BY <1>4 DEF intentLink, stripe
  <2> HIDE DEF row
  <2>4. /\ bookings'[req[r].id].paymentIntentId = req[r].intent
        /\ \A c \in BookingIds \ {req[r].id} : bookings'[c] = bookings[c]
        /\ payments' = payments
        /\ removed' = removed
    <3>1. removed' = removed
      BY <2>3 DEF bookingUpdate
    <3>2. /\ \A c \in BookingIds :
               bookings'[c] = IF c = req[r].id THEN row ELSE bookings[c]
          /\ payments' = payments
      BY <2>3, BookingShape DEF TypeOK
    <3> QED BY <1>1, <2>2, <3>1, <3>2
  <2>5. filed(req[r].intent, req[r].id)
    BY <1>4 DEF intentLink, at, ChargeInv, LinkPcs
  <2>6. SameIntent'
    BY <2>4, <2>5 DEF ChargeInv, SameIntent, filed
  <2>7. /\ req'[r].id = req[r].id
        /\ req'[r].intent = req[r].intent
        /\ \A w \in Workers \ {r} : req'[w] = req[w]
    BY <2>3, GotoShape DEF TypeOK
  <2>8. filed(req[r].intent, req[r].id)'
    BY <2>4, <2>5, <2>7 DEF filed
  <2>9. /\ \A c \in BookingIds :
             payments'[c].status = "ABSENT" =>
               payments'[c].paymentIntentId = null
        /\ \A j \in Intents : \A c : filed(j, c) => filed(j, c)'
    BY <2>4 DEF ChargeInv, filed
  <2> QED BY <2>3, <2>6, <2>7, <2>8, <2>9, FiledChargeInv
<1>5. CASE intentRespond(r)
  <2>1. filed(req[r].intent, intents[req[r].intent].bookingId)
    BY <1>1, <1>5 DEF intentRespond, at, ChargeInv, LinkPcs
  <2>2. ASSUME NEW i \in Intents,
               intents'[i].status \in {"issued", "succeeded"}
        PROVE  filed(i, intents'[i].bookingId)
    <3>1. intents[i] \in PaymentIntent
      BY DEF TypeOK, StripeTypeOK
    <3>2. /\ intents'[i].bookingId = intents[i].bookingId
          /\ i # req[r].intent => intents'[i].status = intents[i].status
      BY <1>5, <3>1
      DEF intentRespond, issueSecret, TypeOK, StripeTypeOK, PaymentIntent
    <3> QED BY <2>1, <2>2, <3>2 DEF ChargeInv
  <2>3. UNCHANGED tables /\ CarriersKept
    BY <1>5, FinishCarriers DEF intentRespond
  <2> QED BY <2>2, <2>3, IntentsChargeInv
<1> QED BY <1>2, <1>3, <1>4, <1>5 DEF Intent

---------------------------------------------------------------------------
\* The other requests write no intent

LEMMA FailedChargeInv ==
  ASSUME TypeOK, ChargeInv, NEW r \in Workers, Failed(r)
  PROVE  ChargeInv'
<1>1. intents' = intents
  BY DEF Failed, failedUpdate, failedAnswer, ack, stripe
<1>2. CASE failedUpdate(r)
  <2>1. /\ req[r].id \in BookingIds
        /\ bookings[req[r].id] \in Booking
    BY <1>2, RequestCarries
    DEF TypeOK, TablesTypeOK, failedUpdate, at, NoBookingPcs
  <2> DEFINE row == [bookings[req[r].id] EXCEPT !.status = "PENDING_PAYMENT"]
  <2>2. row.paymentIntentId = bookings[req[r].id].paymentIntentId
    BY <2>1 DEF Booking
  <2>3. bookingUpdate(req[r].id, row)
    BY <1>2 DEF failedUpdate
  <2>4. CarriersKept
    BY <1>2, GotoCarriers DEF failedUpdate, LinkPcs
  <2> HIDE DEF row
  <2> QED BY <1>1, <2>1, <2>2, <2>3, <2>4, UpdateLinks, KeptChargeInv
<1>3. CASE failedAnswer(r)
  BY <1>1, <1>3, UnchangedLinks, FinishCarriers, KeptChargeInv
  DEF failedAnswer, tables
<1> QED BY <1>2, <1>3 DEF Failed

LEMMA CancelChargeInv ==
  ASSUME TypeOK, ChargeInv, NEW r \in Workers, Cancel(r)
  PROVE  ChargeInv'
<1>1. intents' = intents
  BY DEF Cancel, cancelProviderEvent, cancelClientEvent, cancelUpdate,
         cancelMail, stripe
<1>2. /\ req[r] \in RequestRecord
      /\ req[r].id \in BookingIds
  BY RequestCarries
  DEF TypeOK, Cancel, cancelProviderEvent, cancelClientEvent, cancelUpdate,
      cancelMail, at, NoBookingPcs
<1>3. CASE cancelProviderEvent(r)
  <2>1. [req[r] EXCEPT !.pc = "cancel:clientEvent", !.providerEvent = null].pc
          = "cancel:clientEvent"
    BY <1>2 DEF RequestRecord
  <2>2. CarriersKept
    BY <1>3, <2>1, EnterCarriers DEF cancelProviderEvent, LinkPcs
  <2> QED BY <1>1, <1>3, <2>2, UnchangedLinks, KeptChargeInv
          DEF cancelProviderEvent, tables
<1>4. CASE cancelClientEvent(r)
  <2>1. [req[r] EXCEPT !.pc = "cancel:update", !.clientEvent = null].pc
          = "cancel:update"
    BY <1>2 DEF RequestRecord
  <2>2. CarriersKept
    BY <1>4, <2>1, EnterCarriers DEF cancelClientEvent, LinkPcs
  <2> QED BY <1>1, <1>4, <2>2, UnchangedLinks, KeptChargeInv
          DEF cancelClientEvent, tables
<1>5. CASE cancelUpdate(r)
  <2>1. bookings[req[r].id] \in Booking
    BY <1>2 DEF TypeOK, TablesTypeOK
  <2> DEFINE row == [bookings[req[r].id] EXCEPT !.status = "CANCELLED",
                !.providerGoogleEventId = null, !.clientGoogleEventId = null]
  <2>2. row.paymentIntentId = bookings[req[r].id].paymentIntentId
    BY <2>1 DEF Booking
  <2>3. bookingUpdate(req[r].id, row) /\ goto(r, "cancel:mail")
    BY <1>5 DEF cancelUpdate
  <2> HIDE DEF row
  <2>4. CarriersKept
    BY <2>3, GotoCarriers DEF LinkPcs
  <2> QED BY <1>1, <1>2, <2>2, <2>3, <2>4, UpdateLinks, KeptChargeInv
<1>6. CASE cancelMail(r)
  BY <1>1, <1>6, FinishCarriers, UnchangedLinks, KeptChargeInv
  DEF cancelMail, tables
<1> QED BY <1>3, <1>4, <1>5, <1>6 DEF Cancel

LEMMA CompleteChargeInv ==
  ASSUME TypeOK, ChargeInv, NEW r \in Workers, Complete(r)
  PROVE  ChargeInv'
<1>1. /\ req[r].id \in BookingIds
      /\ bookings[req[r].id] \in Booking
  BY RequestCarries
  DEF TypeOK, TablesTypeOK, Complete, completeUpdate, at, NoBookingPcs
<1> DEFINE row == [bookings[req[r].id] EXCEPT !.status = "COMPLETED",
                                              !.completedAt = TRUE]
<1>2. row.paymentIntentId = bookings[req[r].id].paymentIntentId
  BY <1>1 DEF Booking
<1>3. bookingUpdate(req[r].id, row) /\ finish(r) /\ intents' = intents
  BY DEF Complete, completeUpdate, stripe
<1> HIDE DEF row
<1> QED BY <1>1, <1>2, <1>3, UpdateLinks, FinishCarriers, KeptChargeInv

LEMMA RescheduleChargeInv ==
  ASSUME TypeOK, ChargeInv, NEW r \in Workers, Reschedule(r)
  PROVE  ChargeInv'
<1>1. intents' = intents
  BY DEF Reschedule, rescheduleCheck, rescheduleUpdate, rescheduleReadBack,
         rescheduleProviderEvent, rescheduleClientEvent, stripe
<1>2. /\ req[r] \in RequestRecord
      /\ req[r].id \in BookingIds
  BY RequestCarries
  DEF TypeOK, Reschedule, rescheduleCheck, rescheduleUpdate,
      rescheduleReadBack, rescheduleProviderEvent, rescheduleClientEvent, at,
      NoBookingPcs
<1>3. CASE \/ rescheduleCheck(r)
           \/ rescheduleProviderEvent(r)
           \/ rescheduleClientEvent(r)
  <2>1. CarriersKept
    BY <1>3, GotoCarriers, FinishCarriers
    DEF rescheduleCheck, rescheduleProviderEvent, rescheduleClientEvent,
        LinkPcs
  <2> QED BY <1>1, <1>3, <2>1, UnchangedLinks, KeptChargeInv
          DEF rescheduleCheck, rescheduleProviderEvent, rescheduleClientEvent,
              tables
<1>4. CASE rescheduleUpdate(r)
  <2>1. bookings[req[r].id] \in Booking
    BY <1>2 DEF TypeOK, TablesTypeOK
  <2> DEFINE row == [bookings[req[r].id] EXCEPT !.startTime = req[r].startTime,
                                               !.endTime = req[r].endTime]
  <2>2. row.paymentIntentId = bookings[req[r].id].paymentIntentId
    BY <2>1 DEF Booking
  <2>3. \/ finish(r) /\ UNCHANGED tables
        \/ bookingUpdate(req[r].id, row) /\ goto(r, "reschedule:readBack")
    BY <1>4 DEF rescheduleUpdate
  <2> HIDE DEF row
  <2>4. CarriersKept
    BY <2>3, GotoCarriers, FinishCarriers DEF LinkPcs
  <2>5. LinksKept /\ payments' = payments /\ removed' = removed
    BY <1>2, <2>2, <2>3, UnchangedLinks, UpdateLinks DEF tables
  <2> QED BY <1>1, <2>4, <2>5, KeptChargeInv
<1>5. CASE rescheduleReadBack(r)
  <2> DEFINE q == [req[r] EXCEPT !.pc = "reschedule:providerEvent",
                     !.startTime = bookings[req[r].id].startTime,
                     !.endTime = 0, !.providerId = null]
  <2>1. q.pc = "reschedule:providerEvent"
    BY <1>2 DEF RequestRecord
  <2>2. enter(r, q)
    BY <1>5 DEF rescheduleReadBack
  <2> HIDE DEF q
  <2>3. CarriersKept
    BY <2>1, <2>2, EnterCarriers DEF LinkPcs
  <2> QED BY <1>1, <1>5, <2>3, UnchangedLinks, KeptChargeInv
          DEF rescheduleReadBack, tables
<1> QED BY <1>3, <1>4, <1>5 DEF Reschedule

LEMMA ReviewChargeInv ==
  ASSUME TypeOK, ChargeInv, NEW r \in Workers, Review(r)
  PROVE  ChargeInv'
<1>1. CarriersKept
  BY FinishCarriers, GotoCarriers DEF Review, reviewFind, reviewInsert, LinkPcs
<1>2. /\ bookings' = bookings
      /\ payments' = payments
      /\ removed' = removed
      /\ intents' = intents
  BY DEF Review, reviewFind, reviewInsert, tables, stripe
<1> QED BY <1>1, <1>2, UnchangedLinks, KeptChargeInv

---------------------------------------------------------------------------
\* Steps of the customer, the administrator and the environment

LEMMA CustomerChargeInv ==
  ASSUME TypeOK, ChargeInv, Customer
  PROVE  ChargeInv'
<1>1. UNCHANGED tables /\ CarriersKept
  BY DEF Customer, CarriersKept, process
<1>2. ASSUME NEW i \in Intents, intents'[i].status \in {"issued", "succeeded"}
      PROVE  filed(i, intents'[i].bookingId)
  <2>1. intents[i] \in PaymentIntent
    BY DEF TypeOK, StripeTypeOK
  <2>2. PICK j \in Intents : pay(j) \/ decline(j)
    BY DEF Customer
  <2>3. /\ intents'[i].bookingId = intents[i].bookingId
        /\ intents[i].status \in {"issued", "succeeded"}
    BY <1>2, <2>1, <2>2
    DEF pay, decline, TypeOK, StripeTypeOK, PaymentIntent
  <2> QED BY <2>3 DEF ChargeInv
<1> QED BY <1>1, <1>2, IntentsChargeInv

\* Deleting a payment row takes its booking out of the invariant's reach.
LEMMA AdminChargeInv ==
  ASSUME TypeOK, ChargeInv, Admin
  PROVE  ChargeInv'
<1>1. CASE \E b \in BookingIds : reviewRemove(b)
  <2>1. /\ CarriersKept
        /\ bookings' = bookings
        /\ payments' = payments
        /\ removed' = removed
        /\ intents' = intents
    BY <1>1 DEF reviewRemove, CarriersKept, process, stripe
  <2> QED BY <2>1, UnchangedLinks, KeptChargeInv
<1>2. ASSUME NEW b \in BookingIds, paymentRemove(b)
      PROVE  ChargeInv'
  <2>1. /\ bookings' = bookings
        /\ intents' = intents
        /\ req' = req
        /\ removed' = removed \cup {b}
        /\ \A c \in BookingIds \ {b} : payments'[c] = payments[c]
        /\ payments'[b].paymentIntentId = null
    <3>1. payments' = [payments EXCEPT ![b] = NoPayment]
      BY <1>2 DEF paymentRemove
    <3> QED BY <1>2, <3>1
            DEF paymentRemove, stripe, process, TypeOK, TablesTypeOK, NoPayment
  <2>2. ASSUME NEW i, NEW c \in BookingIds, filed(i, c)
        PROVE  filed(i, c)'
    BY <2>1, <2>2 DEF filed
  <2>3. SameIntent'
    BY <2>1 DEF ChargeInv, SameIntent
  <2>4. ASSUME NEW i \in Intents, intents'[i].status \in {"issued", "succeeded"}
        PROVE  filed(i, intents[i].bookingId)'
    BY <2>1, <2>4 DEF ChargeInv, filed
  <2>5. ASSUME NEW r \in Workers, req'[r].pc \in LinkPcs
        PROVE  filed(req[r].intent, req[r].id)'
    <3>1. req[r].id \in BookingIds
      BY <2>1, <2>5, RequestCarries DEF TypeOK, LinkPcs, NoBookingPcs
    <3>2. filed(req[r].intent, req[r].id)
      BY <2>1, <2>5 DEF ChargeInv
    <3> QED BY <2>1, <3>1, <3>2 DEF filed
  <2> QED BY <2>1, <2>3, <2>4, <2>5 DEF ChargeInv
<1> QED BY <1>1, <1>2 DEF Admin

\* Faults, the clock and stuttering change no table and no intent.
LEMMA OutsideChargeInv ==
  ASSUME ChargeInv, UNCHANGED <<tables, stripe>>,
         \A w \in Workers : req'[w] = req[w] \/ req'[w].pc = "idle"
  PROVE  ChargeInv'
<1>1. CarriersKept
  BY DEF CarriersKept, LinkPcs
<1> QED BY <1>1, UnchangedLinks, KeptChargeInv DEF tables, stripe

LEMMA InitChargeInv ==
  ASSUME Init
  PROVE  ChargeInv
  BY DEF Init, TablesInit, NoBooking, NoPayment, StripeInit, NoIntent,
         RequestsInit, Idle, ChargeInv, SameIntent, LinkPcs

---------------------------------------------------------------------------
LEMMA NextChargeInv ==
  ASSUME TypeOK, PaidInv, ChargeInv, [Next]_vars
  PROVE  ChargeInv'
<1>1. ASSUME NEW r \in Workers, Arrive(r) \/ Deliver(r) \/ Proceed(r)
      PROVE  ChargeInv'
  BY <1>1, ArriveChargeInv, DeliverChargeInv, CreateChargeInv,
     IntentChargeInv, ConfirmChargeInv, FailedChargeInv, CancelChargeInv,
     CompleteChargeInv, RescheduleChargeInv, ReviewChargeInv
  DEF Proceed
<1>2. ASSUME NEW r \in Workers, fail(r)
      PROVE  ChargeInv'
  BY <1>2, OutsideChargeInv DEF fail, Idle, TypeOK, RequestsTypeOK
<1>3. CASE crash
  BY <1>3, OutsideChargeInv DEF crash, Idle
<1>4. CASE tick
  BY <1>4, OutsideChargeInv DEF tick, process
<1>5. CASE UNCHANGED vars
  BY <1>5, OutsideChargeInv DEF vars, process
<1> QED BY <1>1, <1>2, <1>3, <1>4, <1>5, CustomerChargeInv,
           AdminChargeInv
        DEF Next

\* The inductive invariant: the one payment row of a booking is there before
\* the booking names its intent and before a client can pay it.
THEOREM ChargeInvHolds == Spec => []ChargeInv
<1>1. TypeOK /\ PaidInv /\ ChargeInv /\ [Next]_vars => ChargeInv'
  BY NextChargeInv
<1> QED BY <1>1, InitChargeInv, TypeCorrect, PaidInvHolds, PTL DEF Spec

\* However create, create-intent, retries and faults interleave, the client of
\* a booking can be charged for it once at most, unless an admin has deleted
\* its payment row.
THEOREM ChargedAtMostOnceHolds == Spec => []ChargedAtMostOnce
<1>1. ChargeInv => ChargedAtMostOnce
  <2> SUFFICES ASSUME ChargeInv, NEW i \in Intents, NEW j \in Intents,
                      i # j, intents[i].bookingId = intents[j].bookingId,
                      intents[i].status \in {"issued", "succeeded"},
                      intents[j].status \in {"issued", "succeeded"}
               PROVE  intents[i].bookingId \in removed
    BY DEF ChargedAtMostOnce
  <2>1. filed(i, intents[i].bookingId) /\ filed(j, intents[i].bookingId)
    BY DEF ChargeInv
  <2> QED BY <2>1 DEF filed
<1> QED BY <1>1, ChargeInvHolds, PTL

\* A booking and its payment row never name two different intents.
THEOREM SameIntentHolds == Spec => []SameIntent
<1>1. ChargeInv => SameIntent
  BY DEF ChargeInv
<1> QED BY <1>1, ChargeInvHolds, PTL
=============================================================================
