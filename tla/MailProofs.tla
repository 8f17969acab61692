------------------------------ MODULE MailProofs ------------------------------
(***************************************************************************)
(* The mails the handlers order, for every value of the constants: none is *)
(* forgotten while nothing fails (OrderInv), the letter about a payment    *)
(* always finds the row it needs (FiledInv), and so no mail is lost on its *)
(* way through the queue, restarts included (NoMailLost).  When requests   *)
(* are served one at a time the last letter about a booking is true.       *)
(***************************************************************************)
EXTENDS MailWorker, AgendaProofs

\* The client has been told, or the handler is about to see to it.
Told(b) ==
  \/ mail[b]["booking-confirmation"] > 0
  \/ \E r \in Workers : at(r, "confirm:mailBooking") /\ req[r].id = b

CancellationTold(b) ==
  \/ mail[b]["cancellation"] > 0
  \/ \E r \in Workers : at(r, "cancel:mail") /\ req[r].id = b

MailInv ==
  /\ \A b \in BookingIds :
       /\ served(b) => Told(b)
       /\ bookings[b].status = "CANCELLED" => CancellationTold(b)
  /\ \A r \in Workers : at(r, "complete:update") => Told(req[r].id)

\* The inductive invariant of the mails that are ordered.
OrderInv == faults = 0 => MailInv

---------------------------------------------------------------------------
\* How a statement changes the mails

\* Jobs are only ever added.
MailGrows ==
  \A b \in BookingIds, name \in MailJobs :
    mail[b][name] > 0 => mail'[b][name] > 0

LEMMA AddShape ==
  ASSUME TypeOK, NEW b \in BookingIds, NEW name \in MailJobs, add(b, name)
  PROVE  /\ mail'[b][name] > 0
         /\ MailGrows
         /\ \A c \in BookingIds, n \in MailJobs :
              c # b \/ n # name => mail'[c][n] = mail[c][n]
<1>1. mail \in [BookingIds -> [MailJobs -> Nat]]
  BY DEF TypeOK, MailTypeOK
<1>2. mail'[b] = [mail[b] EXCEPT ![name] = mail[b][name] + 1]
  BY <1>1 DEF add
<1>3. \A c \in BookingIds : c # b => mail'[c] = mail[c]
  BY <1>1 DEF add
<1>4. mail[b] \in [MailJobs -> Nat]
  BY <1>1
<1>5. mail'[b][name] = mail[b][name] + 1 /\ mail[b][name] \in Nat
  BY <1>2, <1>4
<1>6. \A n \in MailJobs : n # name => mail'[b][n] = mail[b][n]
  BY <1>2, <1>4
<1> QED BY <1>3, <1>5, <1>6 DEF MailGrows

LEMMA SameMail ==
  ASSUME mail' = mail
  PROVE  MailGrows
  BY DEF MailGrows

\* A request that waits to order a mail does so in its next step.
LEMMA ToldKept ==
  ASSUME TypeOK, NEW r \in Workers, MailGrows,
         \A w \in Workers \ {r} : req'[w] = req[w],
         at(r, "confirm:mailBooking") =>
           mail'[req[r].id]["booking-confirmation"] > 0,
         at(r, "cancel:mail") => mail'[req[r].id]["cancellation"] > 0
  PROVE  \A b \in BookingIds : /\ Told(b) => Told(b)'
                               /\ CancellationTold(b) => CancellationTold(b)'
  BY DEF Told, CancellationTold, MailGrows, MailJobs, at

\* What is left to show of a step of one request.
LEMMA StepMail ==
  ASSUME TypeOK, MailInv, NEW r \in Workers,
         \A w \in Workers \ {r} : req'[w] = req[w],
         \A b \in BookingIds : /\ Told(b) => Told(b)'
                               /\ CancellationTold(b) => CancellationTold(b)',
         \A b \in BookingIds :
           /\ served(b)' => served(b) \/ Told(b)'
           /\ bookings'[b].status = "CANCELLED" =>
                bookings[b].status = "CANCELLED" \/ CancellationTold(b)',
         req'[r].pc = "complete:update" =>
           req'[r].id \in BookingIds /\ served(req'[r].id)
  PROVE  MailInv'
<1>1. ASSUME NEW b \in BookingIds
      PROVE  /\ served(b)' => Told(b)'
             /\ bookings'[b].status = "CANCELLED" => CancellationTold(b)'
  BY DEF MailInv
<1>2. ASSUME NEW w \in Workers, req'[w].pc = "complete:update"
      PROVE  \E b \in BookingIds : b = req'[w].id /\ Told(b)'
  <2>1. CASE w = r
    BY <1>2, <2>1 DEF MailInv
  <2>2. CASE w # r
    <3>1. req'[w] = req[w] /\ req[w].id \in BookingIds
      BY <1>2, <2>2, RequestCarries DEF TypeOK, NoBookingPcs
    <3> QED BY <1>2, <3>1 DEF MailInv, at
  <2> QED BY <2>1, <2>2
<1>3. ASSUME NEW w \in Workers, at(w, "complete:update")'
      PROVE  Told(req[w].id)'
  BY <1>2, <1>3 DEF at, Told
<1> QED BY <1>1, <1>3 DEF MailInv

MailingPcs == {"confirm:mailBooking", "cancel:mail"}

\* A request that writes no booking and orders no mail goes on or is over.
Goes(r) ==
  /\ req[r].pc \notin MailingPcs
  /\ \/ finish(r)
     \/ \E pc \in Pcs \ {"complete:update"} : goto(r, pc)
     \/ \E q : q.pc # "complete:update" /\ enter(r, q)

LEMMA GoesShape ==
  ASSUME TypeOK, NEW r \in Workers, Goes(r)
  PROVE  /\ \A w \in Workers \ {r} : req'[w] = req[w]
         /\ req'[r].pc # "complete:update"
         /\ ~at(r, "confirm:mailBooking") /\ ~at(r, "cancel:mail")
  BY FinishShape, GotoShape, EnterShape DEF TypeOK, Goes, MailingPcs, at

LEMMA QuietMail ==
  ASSUME TypeOK, MailInv, NEW r \in Workers, Goes(r), bookings' = bookings,
         mail' = mail
  PROVE  MailInv'
<1>1. \A b \in BookingIds : /\ Told(b) => Told(b)'
                            /\ CancellationTold(b) => CancellationTold(b)'
  BY GoesShape, SameMail, ToldKept
<1> QED BY <1>1, GoesShape, StepMail DEF served

LEMMA ArriveMail ==
  ASSUME TypeOK, MailInv, NEW r \in Workers, Arrive(r)
  PROVE  MailInv'
<1>1. bookings' = bookings /\ mail' = mail
  BY DEF Arrive, create, createPaymentIntent, cancel, complete, reschedule,
         review, tables
<1>2. CASE \E u \in Providers, b \in BookingIds : complete(r, u, b)
  <2>1. PICK b \in BookingIds :
          /\ bookings[b].status = "CONFIRMED"
          /\ enter(r, [Idle EXCEPT !.pc = "complete:update", !.id = b])
          /\ at(r, "idle")
    BY <1>2 DEF complete, canBeCompleted
  <2>2. req'[r].id = b
    BY <2>1 DEF enter, Idle, TypeOK, RequestsTypeOK
  <2>3. \A w \in Workers \ {r} : req'[w] = req[w]
    BY <2>1 DEF enter, TypeOK, RequestsTypeOK
  <2>4. \A c \in BookingIds : /\ Told(c) => Told(c)'
                              /\ CancellationTold(c) => CancellationTold(c)'
    BY <1>1, <2>1, <2>3, SameMail, ToldKept DEF at
  <2> QED BY <1>1, <2>1, <2>2, <2>3, <2>4, StepMail DEF served
<1>3. CASE ~\E u \in Providers, b \in BookingIds : complete(r, u, b)
  <2>1. ASSUME NEW u \in Clients, NEW p \in Providers, NEW s \in StartTimes,
               NEW d \in Durations, create(r, u, p, s, d)
        PROVE  Goes(r)
    <3> DEFINE q == [Idle EXCEPT !.pc = "create:insert", !.clientId = u,
                       !.providerId = p, !.startTime = s, !.endTime = s + d]
    <3>1. q.pc = "create:insert" /\ enter(r, q) /\ at(r, "idle")
      BY <2>1 DEF create, Idle
    <3> HIDE DEF q
    <3> QED BY <3>1 DEF Goes, MailingPcs, at
  <2>2. ASSUME NEW u, NEW b, createPaymentIntent(r, u, b)
        PROVE  Goes(r)
    <3> DEFINE q == [Idle EXCEPT !.pc = "intent:create", !.id = b]
    <3>1. q.pc = "intent:create" /\ enter(r, q) /\ at(r, "idle")
      BY <2>2 DEF createPaymentIntent, Idle
    <3> HIDE DEF q
    <3> QED BY <3>1 DEF Goes, MailingPcs, at
  <2>3. ASSUME NEW u, NEW b, cancel(r, u, b)
        PROVE  Goes(r)
    <3> DEFINE q == [Idle EXCEPT !.pc = "cancel:providerEvent", !.id = b,
                       !.providerEvent = bookings[b].providerGoogleEventId,
                       !.clientEvent = bookings[b].clientGoogleEventId]
    <3>1. q.pc = "cancel:providerEvent" /\ enter(r, q) /\ at(r, "idle")
      BY <2>3 DEF cancel, Idle
    <3> HIDE DEF q
    <3> QED BY <3>1 DEF Goes, MailingPcs, at
  <2>4. ASSUME NEW u, NEW b, NEW s, NEW d, reschedule(r, u, b, s, d)
        PROVE  Goes(r)
    <3> DEFINE q == [Idle EXCEPT !.pc = "reschedule:check", !.id = b,
                       !.providerId = bookings[b].providerId,
                       !.startTime = s, !.endTime = s + d,
                       !.providerEvent = bookings[b].providerGoogleEventId,
                       !.clientEvent = bookings[b].clientGoogleEventId]
    <3>1. q.pc = "reschedule:check" /\ enter(r, q) /\ at(r, "idle")
      BY <2>4 DEF reschedule, Idle
    <3> HIDE DEF q
    <3> QED BY <3>1 DEF Goes, MailingPcs, at
  <2>5. ASSUME NEW u, NEW b, review(r, u, b)
        PROVE  Goes(r)
    <3> DEFINE q == [Idle EXCEPT !.pc = "review:find", !.id = b]
    <3>1. q.pc = "review:find" /\ enter(r, q) /\ at(r, "idle")
      BY <2>5 DEF review, Idle
    <3> HIDE DEF q
    <3> QED BY <3>1 DEF Goes, MailingPcs, at
  <2> QED BY <1>1, <1>3, <2>1, <2>2, <2>3, <2>4, <2>5, QuietMail DEF Arrive
<1> QED BY <1>2, <1>3

LEMMA DeliverMail ==
  ASSUME TypeOK, MailInv, NEW r \in Workers, Deliver(r)
  PROVE  MailInv'
<1>1. bookings' = bookings /\ mail' = mail
  BY DEF Deliver, paymentSucceeded, paymentFailed, tables
<1>2. ASSUME NEW i, NEW b, NEW pc,
             pc \in {"webhook:mail", "failed:update"}, at(r, "idle"),
             enter(r, [Idle EXCEPT !.pc = pc, !.id = b, !.intent = i])
      PROVE  Goes(r)
  <2> DEFINE q == [Idle EXCEPT !.pc = pc, !.id = b, !.intent = i]
  <2>1. q.pc = pc
    BY DEF Idle
  <2> HIDE DEF q
  <2> QED BY <1>2, <2>1 DEF Goes, MailingPcs, at, q
<1>3. ASSUME NEW i, NEW b, at(r, "idle"),
             enter(r, [Idle EXCEPT !.pc = "confirm:findPayment", !.id = b,
                         !.intent = i, !.startTime = bookings[b].startTime])
      PROVE  Goes(r)
  <2> DEFINE q == [Idle EXCEPT !.pc = "confirm:findPayment", !.id = b,
                     !.intent = i, !.startTime = bookings[b].startTime]
  <2>1. q.pc = "confirm:findPayment" /\ enter(r, q)
    BY <1>3 DEF Idle
  <2> HIDE DEF q
  <2> QED BY <1>3, <2>1 DEF Goes, MailingPcs, at
<1>4. CASE Goes(r)
  BY <1>1, <1>4, QuietMail
<1>5. CASE UNCHANGED process
  BY <1>1, <1>5 DEF process, MailInv, Told, CancellationTold, served, at
<1> QED BY <1>2, <1>3, <1>4, <1>5
        DEF Deliver, paymentSucceeded, confirmByPaymentIntent, paymentFailed

\* booking.update
LEMMA RowMail ==
  ASSUME TypeOK, MailInv, NEW r \in Workers, Goes(r), mail' = mail,
         NEW b, NEW row, bookingUpdate(b, row),
         b \in BookingIds =>
           \/ row.status \in {bookings[b].status, "PENDING_PAYMENT"}
           \/ row.status \in {"CONFIRMED", "COMPLETED"} /\ (Told(b) \/ Told(b)')
           \/ row.status = "CANCELLED" /\ CancellationTold(b)'
  PROVE  MailInv'
<1>1. \A c \in BookingIds : /\ Told(c) => Told(c)'
                            /\ CancellationTold(c) => CancellationTold(c)'
  BY GoesShape, SameMail, ToldKept
<1>2. \A c \in BookingIds : bookings'[c] = IF c = b THEN row ELSE bookings[c]
  BY BookingShape DEF TypeOK
<1>3. \A c \in BookingIds :
        /\ served(c)' => served(c) \/ Told(c)'
        /\ bookings'[c].status = "CANCELLED" =>
             bookings[c].status = "CANCELLED" \/ CancellationTold(c)'
  BY <1>1, <1>2 DEF served
<1> QED BY <1>1, <1>3, GoesShape, StepMail

LEMMA CreateMail ==
  ASSUME TypeOK, MailInv, NEW r \in Workers, Create(r)
  PROVE  MailInv'
<1>1. at(r, "create:insert") /\ mail' = mail
  BY DEF Create, createInsert
<1>2. CASE finish(r) /\ UNCHANGED tables
  BY <1>1, <1>2, QuietMail DEF Goes, MailingPcs, at, tables
<1>3. ASSUME NEW b \in BookingIds,
             bookingUpdate(b,
               [NoBooking EXCEPT !.status = "PENDING_PAYMENT",
                  !.clientId = req[r].clientId,
                  !.providerId = req[r].providerId,
                  !.startTime = req[r].startTime,
                  !.endTime = req[r].endTime]),
             enter(r, [Idle EXCEPT !.pc = "intent:create", !.id = b])
      PROVE  MailInv'
  <2> DEFINE row == [NoBooking EXCEPT !.status = "PENDING_PAYMENT",
                       !.clientId = req[r].clientId,
                       !.providerId = req[r].providerId,
                       !.startTime = req[r].startTime,
                       !.endTime = req[r].endTime]
             q == [Idle EXCEPT !.pc = "intent:create", !.id = b]
  <2>1. row.status = "PENDING_PAYMENT" /\ q.pc = "intent:create"
    BY DEF NoBooking, Idle
  <2>2. bookingUpdate(b, row) /\ enter(r, q)
    BY <1>3
  <2> HIDE DEF row, q
  <2>3. Goes(r)
    BY <1>1, <2>1, <2>2 DEF Goes, MailingPcs, at
  <2> QED BY <1>1, <2>1, <2>2, <2>3, RowMail
<1> QED BY <1>2, <1>3 DEF Create, createInsert

LEMMA IntentMail ==
  ASSUME TypeOK, AgendaInv, MailInv, NEW r \in Workers, Intent(r)
  PROVE  MailInv'
<1>1. req[r].pc \in IntentPcs /\ mail' = mail
  BY DEF Intent, intentCreate, intentPayment, intentLink, intentRespond, at,
         IntentPcs
<1>2. req[r].pc \notin MailingPcs
  BY <1>1 DEF IntentPcs, MailingPcs
<1>3. CASE intentCreate(r)
  <2>1. ASSUME NEW i,
               enter(r, [req[r] EXCEPT !.pc = "intent:payment", !.intent = i])
        PROVE  Goes(r)
    <3> DEFINE q == [req[r] EXCEPT !.pc = "intent:payment", !.intent = i]
    <3>1. q.pc = "intent:payment" /\ enter(r, q)
      BY <2>1, RequestCarries DEF TypeOK, RequestRecord
    <3> HIDE DEF q
    <3> QED BY <1>2, <3>1 DEF Goes
  <2> QED BY <1>1, <1>2, <1>3, <2>1, QuietMail DEF intentCreate, Goes, tables
<1>4. CASE intentPayment(r)
  <2>1. Goes(r)
    BY <1>2, <1>4 DEF intentPayment, Goes, Pcs, IntentPcs, FailedPcs
  <2> QED BY <1>1, <1>4, <2>1, QuietMail
          DEF intentPayment, paymentCreate, tables
<1>5. CASE intentLink(r)
  <2> DEFINE b == req[r].id
             row == [bookings[b] EXCEPT !.paymentIntentId = req[r].intent]
  <2>1. b \in BookingIds /\ bookings[b] \in Booking
    BY <1>5, RequestRow DEF intentLink, at, NoBookingPcs
  <2>2. row.status = bookings[b].status /\ bookingUpdate(b, row)
    BY <1>5, <2>1 DEF intentLink, Booking
  <2>3. Goes(r)
    BY <1>2, <1>5 DEF intentLink, Goes, Pcs, IntentPcs, FailedPcs
  <2> HIDE DEF row
  <2> QED BY <1>1, <2>2, <2>3, RowMail
<1>6. CASE intentRespond(r)
  BY <1>1, <1>2, <1>6, QuietMail DEF intentRespond, Goes, tables
<1> QED BY <1>3, <1>4, <1>5, <1>6 DEF Intent

\* A request orders a mail about its booking and goes on.
LEMMA AddMail ==
  ASSUME TypeOK, MailInv, NEW r \in Workers, NEW name \in MailJobs,
         req[r].pc \notin NoBookingPcs, add(req[r].id, name),
         bookings' = bookings,
         finish(r) \/ \E pc \in Pcs \ {"complete:update"} : goto(r, pc),
         at(r, "confirm:mailBooking") => name = "booking-confirmation",
         at(r, "cancel:mail") => name = "cancellation"
  PROVE  MailInv'
<1>1. req[r].id \in BookingIds
  BY RequestCarries DEF TypeOK
<1>2. mail'[req[r].id][name] > 0 /\ MailGrows
  BY <1>1, AddShape
<1>3. /\ \A w \in Workers \ {r} : req'[w] = req[w]
      /\ req'[r].pc # "complete:update"
  BY FinishShape, GotoShape DEF TypeOK
<1>4. \A b \in BookingIds : /\ Told(b) => Told(b)'
                            /\ CancellationTold(b) => CancellationTold(b)'
  BY <1>2, <1>3, ToldKept
<1> QED BY <1>3, <1>4, StepMail DEF served

LEMMA ConfirmMail ==
  ASSUME TypeOK, MailInv, NEW r \in Workers, Confirm(r)
  PROVE  MailInv'
<1>1. req[r] \in RequestRecord
  BY RequestCarries DEF TypeOK
<1>2. CASE confirmFindPayment(r)
  <2>1. Goes(r)
    BY <1>2 DEF confirmFindPayment, Goes, MailingPcs, at, Pcs, ConfirmPcs,
        FailedPcs
  <2> QED BY <1>2, <2>1, QuietMail DEF confirmFindPayment, tables
<1>3. CASE confirmCreatePayment(r)
  <2>1. Goes(r)
    BY <1>3 DEF confirmCreatePayment, Goes, MailingPcs, at, Pcs, ConfirmPcs,
        FailedPcs
  <2> QED BY <1>3, <2>1, QuietMail
          DEF confirmCreatePayment, paymentCreate, tables
<1>4. CASE confirmProviderEvent(r)
  <2>1. PICK e : enter(r, [req[r] EXCEPT !.pc = "confirm:clientEvent",
                                         !.providerEvent = e])
    BY <1>4 DEF confirmProviderEvent
  <2> DEFINE q == [req[r] EXCEPT !.pc = "confirm:clientEvent",
                                 !.providerEvent = e]
  <2>2. q.pc = "confirm:clientEvent" /\ enter(r, q)
    BY <1>1, <2>1 DEF RequestRecord
  <2> HIDE DEF q
  <2>3. Goes(r)
    BY <1>4, <2>2 DEF confirmProviderEvent, Goes, MailingPcs, at
  <2> QED BY <1>4, <2>3, QuietMail DEF confirmProviderEvent, tables
<1>5. CASE confirmClientEvent(r)
  <2>1. PICK e : enter(r, [req[r] EXCEPT !.pc = "confirm:update",
                             !.startTime = 0, !.clientEvent = e])
    BY <1>5 DEF confirmClientEvent
  <2> DEFINE q == [req[r] EXCEPT !.pc = "confirm:update", !.startTime = 0,
                                 !.clientEvent = e]
  <2>2. q.pc = "confirm:update" /\ enter(r, q)
    BY <1>1, <2>1 DEF RequestRecord
  <2> HIDE DEF q
  <2>3. Goes(r)
    BY <1>5, <2>2 DEF confirmClientEvent, Goes, MailingPcs, at
  <2> QED BY <1>5, <2>3, QuietMail DEF confirmClientEvent, tables
<1>6. CASE confirmUpdate(r)
  <2>1. CASE finish(r) /\ UNCHANGED tables
    BY <1>6, <2>1, QuietMail DEF confirmUpdate, Goes, MailingPcs, at, tables
  <2>2. ASSUME NEW b \in BookingIds,
               bookingUpdate(b, confirmed(bookings[b], r)),
               enter(r, [Idle EXCEPT !.pc = "confirm:mailBooking", !.id = b,
                                     !.intent = req[r].intent])
        PROVE  MailInv'
    <3> DEFINE row == confirmed(bookings[b], r)
               q == [Idle EXCEPT !.pc = "confirm:mailBooking", !.id = b,
                                 !.intent = req[r].intent]
    <3>1. bookings[b] \in Booking
      BY DEF TypeOK, TablesTypeOK
    <3>2. row.status = "CONFIRMED" /\ bookingUpdate(b, row)
      BY <2>2, <3>1 DEF confirmed, Booking
    <3>3. q.pc = "confirm:mailBooking" /\ q.id = b /\ enter(r, q)
      BY <2>2 DEF Idle
    <3> HIDE DEF row, q
    <3>4. Told(b)'
      BY <3>3, EnterShape DEF Told, at, TypeOK
    <3>5. Goes(r) /\ mail' = mail
      BY <1>6, <3>3 DEF confirmUpdate, Goes, MailingPcs, at
    <3> QED BY <3>2, <3>4, <3>5, RowMail
  <2> QED BY <1>6, <2>1, <2>2 DEF confirmUpdate
<1>7. CASE confirmMailBooking(r) \/ confirmMailPayment(r) \/ webhookMail(r)
  BY <1>7, AddMail
  DEF confirmMailBooking, confirmMailPayment, webhookMail, at, NoBookingPcs,
      Pcs, ConfirmPcs, FailedPcs, MailJobs, tables
<1>8. CASE webhookAnswer(r)
  BY <1>8, QuietMail DEF webhookAnswer, Goes, MailingPcs, at, tables
<1> QED BY <1>2, <1>3, <1>4, <1>5, <1>6, <1>7, <1>8 DEF Confirm

\* The status is written, and a cancellation is followed by its mail.
LEMMA StatusMail ==
  ASSUME TypeOK, AgendaInv, MailInv, NEW r \in Workers,
         \/ failedUpdate(r) \/ Complete(r)
         \/ cancelUpdate(r) \/ rescheduleUpdate(r)
  PROVE  MailInv'
<1> DEFINE b == req[r].id
<1>1. b \in BookingIds /\ bookings[b] \in Booking
  BY RequestRow DEF failedUpdate, Complete, completeUpdate, cancelUpdate,
                    rescheduleUpdate, at, NoBookingPcs
<1>2. mail' = mail
  BY DEF failedUpdate, Complete, completeUpdate, cancelUpdate, rescheduleUpdate
<1>3. Goes(r)
  BY DEF failedUpdate, Complete, completeUpdate, cancelUpdate,
         rescheduleUpdate, Goes, at, MailingPcs, Pcs, FailedPcs
<1>4. CASE failedUpdate(r)
  <2> DEFINE row == [bookings[b] EXCEPT !.status = "PENDING_PAYMENT"]
  <2>1. row.status = "PENDING_PAYMENT" /\ bookingUpdate(b, row)
    BY <1>1, <1>4 DEF failedUpdate, Booking
  <2> HIDE DEF row
  <2> QED BY <1>2, <1>3, <2>1, RowMail
<1>5. CASE Complete(r)
  <2> DEFINE row == [bookings[b] EXCEPT !.status = "COMPLETED",
                                        !.completedAt = TRUE]
  <2>1. row.status = "COMPLETED" /\ bookingUpdate(b, row)
    BY <1>1, <1>5 DEF Complete, completeUpdate, Booking
  <2>2. Told(b)
    BY <1>5 DEF Complete, completeUpdate, MailInv
  <2> HIDE DEF row
  <2> QED BY <1>2, <1>3, <2>1, <2>2, RowMail
<1>6. CASE cancelUpdate(r)
  <2>1. PICK c \in BookingIds : c = req[r].id
    BY <1>1
  <2> DEFINE row == [bookings[c] EXCEPT !.status = "CANCELLED",
                       !.providerGoogleEventId = null,
                       !.clientGoogleEventId = null]
  <2>2. row.status = "CANCELLED" /\ bookingUpdate(c, row)
    BY <1>1, <1>6, <2>1 DEF cancelUpdate, Booking
  <2>3. CancellationTold(c)'
    BY <1>6, <2>1, GotoShape DEF cancelUpdate, CancellationTold, at, TypeOK
  <2> HIDE DEF row
  <2> QED BY <1>2, <1>3, <2>2, <2>3, RowMail
<1>7. CASE rescheduleUpdate(r)
  <2> DEFINE row == [bookings[b] EXCEPT !.startTime = req[r].startTime,
                                        !.endTime = req[r].endTime]
  <2>1. row.status = bookings[b].status
    BY <1>1 DEF Booking
  <2>2. bookings' = bookings \/ bookingUpdate(b, row)
    BY <1>7 DEF rescheduleUpdate, tables
  <2> HIDE DEF row
  <2> QED BY <1>2, <1>3, <2>1, <2>2, RowMail, QuietMail
<1> QED BY <1>4, <1>5, <1>6, <1>7

LEMMA FailedMail ==
  ASSUME TypeOK, AgendaInv, MailInv, NEW r \in Workers, Failed(r)
  PROVE  MailInv'
<1>1. CASE failedAnswer(r)
  BY <1>1, QuietMail DEF failedAnswer, Goes, MailingPcs, at, tables
<1> QED BY <1>1, StatusMail DEF Failed

LEMMA CancelMail ==
  ASSUME TypeOK, AgendaInv, MailInv, NEW r \in Workers, Cancel(r)
  PROVE  MailInv'
<1>1. req[r] \in RequestRecord
  BY RequestCarries DEF TypeOK
<1>2. CASE cancelProviderEvent(r)
  <2> DEFINE q == [req[r] EXCEPT !.pc = "cancel:clientEvent",
                                 !.providerEvent = null]
  <2>1. q.pc = "cancel:clientEvent" /\ enter(r, q)
    BY <1>1, <1>2 DEF cancelProviderEvent, RequestRecord
  <2> HIDE DEF q
  <2>2. Goes(r)
    BY <1>2, <2>1 DEF cancelProviderEvent, Goes, MailingPcs, at
  <2> QED BY <1>2, <2>2, QuietMail DEF cancelProviderEvent, tables
<1>3. CASE cancelClientEvent(r)
  <2> DEFINE q == [req[r] EXCEPT !.pc = "cancel:update", !.clientEvent = null]
  <2>1. q.pc = "cancel:update" /\ enter(r, q)
    BY <1>1, <1>3 DEF cancelClientEvent, RequestRecord
  <2> HIDE DEF q
  <2>2. Goes(r)
    BY <1>3, <2>1 DEF cancelClientEvent, Goes, MailingPcs, at
  <2> QED BY <1>3, <2>2, QuietMail DEF cancelClientEvent, tables
<1>4. CASE cancelMail(r)
  BY <1>4, AddMail DEF cancelMail, at, NoBookingPcs, MailJobs, tables
<1> QED BY <1>2, <1>3, <1>4, StatusMail DEF Cancel

LEMMA RescheduleMail ==
  ASSUME TypeOK, AgendaInv, MailInv, NEW r \in Workers, Reschedule(r)
  PROVE  MailInv'
<1>1. req[r] \in RequestRecord
  BY RequestCarries DEF TypeOK
<1>2. CASE rescheduleReadBack(r)
  <2> DEFINE q == [req[r] EXCEPT !.pc = "reschedule:providerEvent",
                     !.startTime = bookings[req[r].id].startTime,
                     !.endTime = 0, !.providerId = null]
  <2>1. q.pc = "reschedule:providerEvent" /\ enter(r, q)
    BY <1>1, <1>2 DEF rescheduleReadBack, RequestRecord
  <2> HIDE DEF q
  <2>2. Goes(r)
    BY <1>2, <2>1 DEF rescheduleReadBack, Goes, MailingPcs, at
  <2> QED BY <1>2, <2>2, QuietMail DEF rescheduleReadBack, tables
<1>3. CASE rescheduleCheck(r)
  <2>1. Goes(r)
    BY <1>3 DEF rescheduleCheck, Goes, MailingPcs, at, Pcs, FailedPcs
  <2> QED BY <1>3, <2>1, QuietMail DEF rescheduleCheck, tables
<1>4. CASE rescheduleProviderEvent(r) \/ rescheduleClientEvent(r)
  <2>1. Goes(r)
    BY <1>4 DEF rescheduleProviderEvent, rescheduleClientEvent, Goes,
                MailingPcs, at, Pcs, FailedPcs
  <2> QED BY <1>4, <2>1, QuietMail
          DEF rescheduleProviderEvent, rescheduleClientEvent, tables
<1> QED BY <1>2, <1>3, <1>4, StatusMail DEF Reschedule

LEMMA ReviewMail ==
  ASSUME TypeOK, MailInv, NEW r \in Workers, Review(r)
  PROVE  MailInv'
<1>1. Goes(r)
  BY DEF Review, reviewFind, reviewInsert, Goes, MailingPcs, at, Pcs, FailedPcs
<1> QED BY <1>1, QuietMail DEF Review, reviewFind, reviewInsert, tables

LEMMA OutsideMail ==
  ASSUME MailInv, bookings' = bookings, mail' = mail, req' = req
  PROVE  MailInv'
  BY DEF MailInv, Told, CancellationTold, served, at

\* Handlers themselves do not fail.
LEMMA HandlerFaults ==
  ASSUME NEW r \in Workers, Arrive(r) \/ Deliver(r) \/ Proceed(r)
  PROVE  faults' = faults
  BY DEF Arrive, create, createPaymentIntent, cancel, complete, reschedule,
         review, Deliver, paymentSucceeded, confirmByPaymentIntent,
         paymentFailed, Proceed, Create, createInsert, Intent, intentCreate,
         intentPayment, intentLink, intentRespond, Confirm, confirmFindPayment,
         confirmCreatePayment, confirmProviderEvent, confirmClientEvent,
         confirmUpdate, confirmMailBooking, confirmMailPayment, webhookMail,
         webhookAnswer, Failed, failedUpdate, failedAnswer, Cancel,
         cancelProviderEvent, cancelClientEvent, cancelUpdate, cancelMail,
         Complete, completeUpdate, Reschedule, rescheduleCheck,
         rescheduleUpdate, rescheduleReadBack, rescheduleProviderEvent,
         rescheduleClientEvent, Review, reviewFind, reviewInsert, finish, goto,
         enter, process

\* A fault costs mails; nothing else does.
LEMMA StepOrderInv ==
  ASSUME TypeOK, AgendaInv, OrderInv, [Next]_vars
  PROVE  OrderInv'
<1> SUFFICES ASSUME faults' = 0
             PROVE  MailInv'
  BY DEF OrderInv
<1>1. faults \in Nat
  BY DEF TypeOK, RequestsTypeOK
<1>2. ASSUME NEW r \in Workers
      PROVE  ~fail(r) /\ ~crash
  BY <1>1 DEF fail, crash
<1>3. ~crash
  BY <1>1 DEF crash
<1>5. ASSUME NEW r \in Workers, Arrive(r) \/ Deliver(r) \/ Proceed(r)
      PROVE  MailInv'
  <2>1. MailInv
    BY <1>5, HandlerFaults DEF OrderInv
  <2> QED BY <1>5, <2>1, ArriveMail, DeliverMail, CreateMail, IntentMail,
             ConfirmMail, FailedMail, CancelMail, StatusMail, RescheduleMail,
             ReviewMail
          DEF Proceed
<1>6. CASE Customer \/ Admin \/ tick \/ UNCHANGED vars
  <2>1. /\ bookings' = bookings /\ mail' = mail
        /\ req' = req /\ faults' = faults
    BY <1>6 DEF Customer, Admin, paymentRemove, reviewRemove, tick, vars,
                tables, process
  <2> QED BY <2>1, OutsideMail DEF OrderInv
<1> QED BY <1>2, <1>3, <1>5, <1>6 DEF Next

LEMMA InitOrderInv ==
  ASSUME Init
  PROVE  OrderInv
  BY DEF Init, TablesInit, NoBooking, RequestsInit, Idle, OrderInv, MailInv,
         served, at

\* As long as nothing has failed, every booking that is confirmed or completed,
\* and every one that is cancelled, has had its mail ordered or has a handler
\* that is about to order it, however many handlers interleave: the update and
\* the mail are two statements, and a completion can come between them.
THEOREM OrderInvHolds == Spec => []OrderInv
<1>1. TypeOK /\ AgendaInv /\ OrderInv /\ [Next]_vars => OrderInv'
  BY StepOrderInv
<1> QED BY <1>1, InitOrderInv, TypeCorrect, AgendaInvHolds, PTL DEF Spec

\* No interleaving of the handlers loses a mail: as long as no statement has
\* failed and the process has not restarted, whenever nothing is under way the
\* clients of the confirmed, completed and cancelled bookings have been written
\* to.
THEOREM MailsAgreeHolds == Spec => []MailsAgree
<1>1. OrderInv => MailsAgree
  <2>1. ASSUME Quiescent
        PROVE  \A r \in Workers : req[r].pc = "idle"
    BY <2>1 DEF Quiescent, Idle
  <2> QED BY <2>1 DEF OrderInv, MailInv, Told, CancellationTold, at, MailsAgree
<1> QED BY <1>1, OrderInvHolds, PTL

---------------------------------------------------------------------------
\* The letter about a payment finds its row

\* The booking has a payment row, unless an admin has deleted it.
hasRow(b) == isPaymentRow(b) \/ b \in removed

\* From the payment row on.
RowPcs == ConfirmPcs \ {"confirm:findPayment", "confirm:createPayment"}

\* The mail about a payment is ordered when its row is there.
FiledInv ==
  /\ \A b \in BookingIds : mail[b]["payment-confirmed"] > 0 => hasRow(b)
  /\ \A r \in Workers : req[r].pc \in RowPcs => hasRow(req[r].id)

RowsRemain == \A b \in BookingIds : hasRow(b) => hasRow(b)'

PaymentMails ==
  \A b \in BookingIds :
    mail'[b]["payment-confirmed"] > 0 =>
      mail[b]["payment-confirmed"] > 0 \/ hasRow(b)

\* What is left to show of a step of one request.
LEMMA StepFiled ==
  ASSUME TypeOK, FiledInv, NEW r \in Workers, RowsRemain, PaymentMails,
         \A w \in Workers \ {r} : req'[w] = req[w],
         req'[r].pc \in RowPcs =>
           \E b \in BookingIds : req'[r].id = b /\ hasRow(b)'
  PROVE  FiledInv'
<1>1. ASSUME NEW w \in Workers, req'[w].pc \in RowPcs
      PROVE  \E b \in BookingIds : req'[w].id = b /\ hasRow(b)'
  <2>1. CASE w # r
    <3>1. req'[w] = req[w] /\ req[w].id \in BookingIds
      BY <1>1, <2>1, RequestCarries
      DEF TypeOK, RowPcs, ConfirmPcs, NoBookingPcs
    <3> QED BY <1>1, <3>1 DEF FiledInv, RowsRemain
  <2> QED BY <1>1, <2>1
<1>2. \A w \in Workers : req'[w].pc \in RowPcs => hasRow(req[w].id)'
  BY <1>1 DEF hasRow, isPaymentRow
<1> QED BY <1>2 DEF FiledInv, RowsRemain, PaymentMails

LEMMA SameRows ==
  ASSUME payments' = payments, removed' = removed
  PROVE  RowsRemain
  BY DEF RowsRemain, hasRow, isPaymentRow

LEMMA CreatedRow ==
  ASSUME TypeOK, NEW b, NEW i, NEW status, status # "ABSENT",
         paymentCreate(b, i, status)
  PROVE  RowsRemain /\ (b \in BookingIds => hasRow(b)')
<1>1. \A c \in BookingIds :
        payments'[c].status = IF c = b THEN status ELSE payments[c].status
  BY DEF paymentCreate, TypeOK, TablesTypeOK, Payment
<1>2. removed' = removed
  BY DEF paymentCreate
<1> QED BY <1>1, <1>2 DEF RowsRemain, hasRow, isPaymentRow

LEMMA SamePaymentMails ==
  ASSUME mail' = mail
  PROVE  PaymentMails
  BY DEF PaymentMails

LEMMA OtherMail ==
  ASSUME TypeOK, NEW b \in BookingIds, NEW name \in MailJobs, add(b, name),
         name = "payment-confirmed" => hasRow(b)
  PROVE  PaymentMails
<1>1. \A c \in BookingIds, n \in MailJobs :
        c # b \/ n # name => mail'[c][n] = mail[c][n]
  BY AddShape
<1> QED BY <1>1 DEF PaymentMails, MailJobs

\* A new request is before all statements about payments.
ArrivedPcs ==
  {"create:insert", "intent:create", "complete:update",
   "cancel:providerEvent", "reschedule:check", "review:find"}

LEMMA ArriveShape ==
  ASSUME TypeOK, NEW r \in Workers, Arrive(r)
  PROVE  /\ \A w \in Workers \ {r} : req'[w] = req[w]
         /\ req'[r].pc \in ArrivedPcs
<1>1. ASSUME NEW u, NEW p, NEW s, NEW d, create(r, u, p, s, d)
      PROVE  /\ \A w \in Workers \ {r} : req'[w] = req[w]
             /\ req'[r].pc = "create:insert"
  BY <1>1 DEF create, enter, Idle, TypeOK, RequestsTypeOK
<1>2. ASSUME NEW u, NEW b, createPaymentIntent(r, u, b)
      PROVE  /\ \A w \in Workers \ {r} : req'[w] = req[w]
             /\ req'[r].pc = "intent:create"
  BY <1>2 DEF createPaymentIntent, enter, Idle, TypeOK, RequestsTypeOK
<1>3. ASSUME NEW u, NEW b, cancel(r, u, b)
      PROVE  /\ \A w \in Workers \ {r} : req'[w] = req[w]
             /\ req'[r].pc = "cancel:providerEvent"
  BY <1>3 DEF cancel, enter, Idle, TypeOK, RequestsTypeOK
<1>4. ASSUME NEW u, NEW b, complete(r, u, b)
      PROVE  /\ \A w \in Workers \ {r} : req'[w] = req[w]
             /\ req'[r].pc = "complete:update"
  BY <1>4 DEF complete, enter, Idle, TypeOK, RequestsTypeOK
<1>5. ASSUME NEW u, NEW b, NEW s, NEW d, reschedule(r, u, b, s, d)
      PROVE  /\ \A w \in Workers \ {r} : req'[w] = req[w]
             /\ req'[r].pc = "reschedule:check"
  BY <1>5 DEF reschedule, enter, Idle, TypeOK, RequestsTypeOK
<1>6. ASSUME NEW u, NEW b, review(r, u, b)
      PROVE  /\ \A w \in Workers \ {r} : req'[w] = req[w]
             /\ req'[r].pc = "review:find"
  BY <1>6 DEF review, enter, Idle, TypeOK, RequestsTypeOK
<1> QED BY <1>1, <1>2, <1>3, <1>4, <1>5, <1>6 DEF Arrive, ArrivedPcs

LEMMA ArriveFiled ==
  ASSUME TypeOK, FiledInv, NEW r \in Workers, Arrive(r)
  PROVE  FiledInv'
<1>1. payments' = payments /\ removed' = removed /\ mail' = mail
  BY DEF Arrive, create, createPaymentIntent, cancel, complete, reschedule,
         review, tables
<1> QED BY <1>1, ArriveShape, SameRows, SamePaymentMails, StepFiled
        DEF RowPcs, ConfirmPcs, ArrivedPcs

LEMMA DeliverFiled ==
  ASSUME TypeOK, ChargeInv, FiledInv, NEW r \in Workers, Deliver(r)
  PROVE  FiledInv'
<1>1. payments' = payments /\ removed' = removed /\ mail' = mail
  BY DEF Deliver, paymentSucceeded, paymentFailed, tables
<1>2. CASE UNCHANGED process
  BY <1>1, <1>2 DEF FiledInv, hasRow, isPaymentRow, process
<1>3. ASSUME NEW i \in Intents, NEW b \in BookingIds,
             bookings[b].paymentIntentId = i,
             enter(r, [Idle EXCEPT !.pc = "webhook:mail", !.id = b,
                                   !.intent = i])
      PROVE  FiledInv'
  <2>1. i # null
    BY DEF Intents, null
  <2>2. hasRow(b)
    BY <1>3, <2>1 DEF ChargeInv, SameIntent, hasRow, isPaymentRow
  <2>3. /\ \A w \in Workers \ {r} : req'[w] = req[w]
        /\ req'[r].id = b
    BY <1>3 DEF enter, Idle, TypeOK, RequestsTypeOK
  <2> QED BY <1>1, <2>2, <2>3, SameRows, SamePaymentMails, StepFiled
          DEF RowsRemain
<1>4. ASSUME NEW i \in Intents, NEW b \in BookingIds,
             \/ enter(r, [Idle EXCEPT !.pc = "confirm:findPayment", !.id = b,
                            !.intent = i,
                            !.startTime = bookings[b].startTime])
             \/ enter(r, [Idle EXCEPT !.pc = "failed:update", !.id = b,
                                      !.intent = i])
      PROVE  FiledInv'
  <2>1. /\ \A w \in Workers \ {r} : req'[w] = req[w]
        /\ req'[r].pc \in {"confirm:findPayment", "failed:update"}
    BY <1>4 DEF enter, Idle, TypeOK, RequestsTypeOK
  <2> QED BY <1>1, <2>1, SameRows, SamePaymentMails, StepFiled
          DEF RowPcs, ConfirmPcs
<1> QED BY <1>2, <1>3, <1>4
        DEF Deliver, paymentSucceeded, confirmByPaymentIntent, paymentFailed

LEMMA ConfirmFiled ==
  ASSUME TypeOK, PaidInv, ChargeInv, FiledInv, NEW r \in Workers, Confirm(r)
  PROVE  FiledInv'
<1>1. /\ req[r] \in RequestRecord
      /\ req[r].id \in BookingIds /\ req[r].intent \in Intents
      /\ req[r].pc \in ConfirmPcs
  BY RequestCarries
  DEF TypeOK, Confirm, confirmFindPayment, confirmCreatePayment,
      confirmProviderEvent, confirmClientEvent, confirmUpdate,
      confirmMailBooking, confirmMailPayment, webhookMail, webhookAnswer, at,
      NoBookingPcs, PaymentPcs, ConfirmPcs, FailedPcs
<1>2. intents[req[r].intent].bookingId = req[r].id /\ req[r].intent # null
  BY <1>1 DEF PaidInv, RequestInv, madeFor, Intents, null
<1>3. req[r].pc \in RowPcs => hasRow(req[r].id)
  BY DEF FiledInv
<1>4. CASE confirmFindPayment(r)
  <2>1. payments' = payments /\ removed' = removed /\ mail' = mail
    BY <1>4 DEF confirmFindPayment, tables
  <2>2. CASE \E b \in BookingIds : payments[b].paymentIntentId = req[r].intent
    <3>1. hasRow(req[r].id)
      BY <1>1, <1>2, <2>2
      DEF PaidInv, IntentOwnership, ChargeInv, hasRow, isPaymentRow
    <3>2. goto(r, "confirm:providerEvent")
      BY <1>4, <2>2 DEF confirmFindPayment
    <3> QED BY <1>1, <2>1, <3>1, <3>2, GotoShape, SameRows, SamePaymentMails,
               StepFiled
            DEF TypeOK, RowsRemain
  <2>3. CASE goto(r, "confirm:createPayment")
    BY <2>1, <2>3, GotoShape, SameRows, SamePaymentMails, StepFiled
    DEF TypeOK, RowPcs
  <2> QED BY <1>4, <2>2, <2>3 DEF confirmFindPayment
<1>5. CASE confirmCreatePayment(r)
  <2>1. mail' = mail
    BY <1>5 DEF confirmCreatePayment
  <2>2. CASE paymentCreate(req[r].id, req[r].intent, "SUCCEEDED")
    <3>1. PICK b \in BookingIds : b = req[r].id
      BY <1>1
    <3>2. RowsRemain /\ hasRow(b)'
      BY <2>2, <3>1, CreatedRow
    <3>3. /\ \A w \in Workers \ {r} : req'[w] = req[w]
          /\ req'[r].pc \in RowPcs => req'[r].id = b
      BY <1>5, <3>1, GotoShape, FinishShape
      DEF confirmCreatePayment, TypeOK, RowPcs, ConfirmPcs
    <3> QED BY <2>1, <3>2, <3>3, SamePaymentMails, StepFiled
  <2>3. CASE finish(r) /\ UNCHANGED tables
    BY <2>1, <2>3, FinishShape, SameRows, SamePaymentMails, StepFiled
    DEF TypeOK, RowPcs, ConfirmPcs, tables
  <2> QED BY <1>5, <2>2, <2>3 DEF confirmCreatePayment
<1>6. CASE confirmProviderEvent(r) \/ confirmClientEvent(r)
  <2>1. payments' = payments /\ removed' = removed /\ mail' = mail
    BY <1>6 DEF confirmProviderEvent, confirmClientEvent, tables
  <2>2. hasRow(req[r].id)
    BY <1>3, <1>6
    DEF confirmProviderEvent, confirmClientEvent, at, RowPcs, ConfirmPcs
  <2>3. /\ \A w \in Workers \ {r} : req'[w] = req[w]
        /\ req'[r].id = req[r].id
    BY <1>1, <1>6
    DEF confirmProviderEvent, confirmClientEvent, enter, TypeOK,
        RequestsTypeOK, RequestRecord
  <2> QED BY <1>1, <2>1, <2>2, <2>3, SameRows, SamePaymentMails, StepFiled
          DEF RowsRemain
<1>7. CASE confirmUpdate(r)
  <2>1. payments' = payments /\ removed' = removed /\ mail' = mail
    BY <1>7 DEF confirmUpdate, bookingUpdate, tables
  <2>2. hasRow(req[r].id)
    BY <1>3, <1>7 DEF confirmUpdate, at, RowPcs, ConfirmPcs
  <2>3. ASSUME NEW b \in BookingIds,
               bookings[b].paymentIntentId = req[r].intent,
               enter(r, [Idle EXCEPT !.pc = "confirm:mailBooking", !.id = b,
                                     !.intent = req[r].intent])
        PROVE  FiledInv'
    <3>1. b = req[r].id
      BY <1>1, <1>2, <2>3 DEF PaidInv, IntentOwnership
    <3>2. /\ \A w \in Workers \ {r} : req'[w] = req[w]
          /\ req'[r].id = b
      BY <2>3 DEF enter, Idle, TypeOK, RequestsTypeOK
    <3> QED BY <2>1, <2>2, <3>1, <3>2, SameRows, SamePaymentMails, StepFiled
            DEF RowsRemain
  <2>4. CASE finish(r)
    BY <2>1, <2>4, FinishShape, SameRows, SamePaymentMails, StepFiled
    DEF TypeOK, RowPcs, ConfirmPcs
  <2> QED BY <1>7, <2>3, <2>4 DEF confirmUpdate
<1>8. CASE \/ confirmMailBooking(r) \/ confirmMailPayment(r)
           \/ webhookMail(r) \/ webhookAnswer(r)
  <2>1. payments' = payments /\ removed' = removed
    BY <1>8 DEF confirmMailBooking, confirmMailPayment, webhookMail,
        webhookAnswer, tables
  <2>2. hasRow(req[r].id)
    BY <1>3, <1>8
    DEF confirmMailBooking, confirmMailPayment, webhookMail, webhookAnswer, at,
        RowPcs, ConfirmPcs
  <2>3. PaymentMails
    BY <1>1, <1>8, <2>2, OtherMail, SamePaymentMails
    DEF confirmMailBooking, confirmMailPayment, webhookMail, webhookAnswer,
        MailJobs
  <2>4. /\ \A w \in Workers \ {r} : req'[w] = req[w]
        /\ req'[r].pc = "idle" \/ req'[r].id = req[r].id
    BY <1>8, GotoShape, FinishShape
    DEF confirmMailBooking, confirmMailPayment, webhookMail, webhookAnswer,
        TypeOK
  <2> QED BY <1>1, <2>1, <2>2, <2>3, <2>4, SameRows, StepFiled
          DEF RowsRemain, RowPcs, ConfirmPcs
<1> QED BY <1>4, <1>5, <1>6, <1>7, <1>8 DEF Confirm

\* The other handlers order no mail about a payment; createPaymentIntent
\* creates the row.
LEMMA ProceedShape ==
  ASSUME TypeOK, NEW r \in Workers,
         \/ Create(r) \/ Intent(r) \/ Failed(r) \/ Cancel(r) \/ Complete(r)
         \/ Reschedule(r) \/ Review(r)
  PROVE  /\ \A w \in Workers \ {r} : req'[w] = req[w]
         /\ req'[r].pc \notin ConfirmPcs
<1>1. req[r] \in RequestRecord
  BY RequestCarries DEF TypeOK
<1>2. CASE finish(r)
  BY <1>2, FinishShape DEF TypeOK, ConfirmPcs
<1>3. CASE \E pc \in Pcs \ ConfirmPcs : goto(r, pc)
  BY <1>3, GotoShape DEF TypeOK
<1>4. CASE Create(r)
  BY <1>2, <1>4
  DEF Create, createInsert, enter, Idle, TypeOK, RequestsTypeOK, ConfirmPcs
<1>5. CASE intentCreate(r)
  BY <1>1, <1>2, <1>5
  DEF intentCreate, enter, RequestRecord, TypeOK, RequestsTypeOK, ConfirmPcs
<1>6. CASE intentPayment(r) \/ intentLink(r) \/ intentRespond(r)
  BY <1>2, <1>3, <1>6
  DEF intentPayment, intentLink, intentRespond, Pcs, IntentPcs, ConfirmPcs,
      FailedPcs
<1>7. CASE cancelProviderEvent(r)
  BY <1>1, <1>7
  DEF cancelProviderEvent, enter, RequestRecord, TypeOK, RequestsTypeOK,
      ConfirmPcs
<1>8. CASE cancelClientEvent(r)
  BY <1>1, <1>8
  DEF cancelClientEvent, enter, RequestRecord, TypeOK, RequestsTypeOK,
      ConfirmPcs
<1>9. CASE rescheduleReadBack(r)
  BY <1>1, <1>9
  DEF rescheduleReadBack, enter, RequestRecord, TypeOK, RequestsTypeOK,
      ConfirmPcs
<1>10. CASE \/ Failed(r) \/ cancelUpdate(r) \/ cancelMail(r) \/ Complete(r)
            \/ rescheduleCheck(r) \/ rescheduleUpdate(r)
            \/ rescheduleProviderEvent(r) \/ rescheduleClientEvent(r)
            \/ Review(r)
  BY <1>2, <1>3, <1>10
  DEF Failed, failedUpdate, failedAnswer, cancelUpdate, cancelMail, Complete,
      completeUpdate, rescheduleCheck, rescheduleUpdate,
      rescheduleProviderEvent, rescheduleClientEvent, Review, reviewFind,
      reviewInsert, Pcs, ConfirmPcs, FailedPcs
<1> QED BY <1>4, <1>5, <1>6, <1>7, <1>8, <1>9, <1>10
        DEF Intent, Cancel, Reschedule

LEMMA ProceedFiled ==
  ASSUME TypeOK, FiledInv, NEW r \in Workers,
         \/ Create(r) \/ Intent(r) \/ Failed(r) \/ Cancel(r) \/ Complete(r)
         \/ Reschedule(r) \/ Review(r)
  PROVE  FiledInv'
<1>1. RowsRemain
  <2>1. CASE payments' = payments /\ removed' = removed
    BY <2>1, SameRows
  <2>2. CASE paymentCreate(req[r].id, req[r].intent, "PENDING")
    BY <2>2, CreatedRow
  <2> QED BY <2>1, <2>2
          DEF Create, createInsert, Intent, intentCreate, intentPayment,
              intentLink, intentRespond, Failed, failedUpdate, failedAnswer,
              Cancel, cancelProviderEvent, cancelClientEvent, cancelUpdate,
              cancelMail, Complete, completeUpdate, Reschedule,
              rescheduleCheck, rescheduleUpdate, rescheduleReadBack,
              rescheduleProviderEvent, rescheduleClientEvent, Review,
              reviewFind, reviewInsert, bookingUpdate, tables
<1>2. PaymentMails
  <2>1. CASE mail' = mail
    BY <2>1, SamePaymentMails
  <2>2. CASE cancelMail(r)
    <3>1. req[r].id \in BookingIds
      BY <2>2, RequestCarries DEF cancelMail, at, NoBookingPcs, TypeOK
    <3> QED BY <2>2, <3>1, OtherMail DEF cancelMail, MailJobs
  <2> QED BY <2>1, <2>2
          DEF Create, createInsert, Intent, intentCreate, intentPayment,
              intentLink, intentRespond, Failed, failedUpdate, failedAnswer,
              Cancel, cancelProviderEvent, cancelClientEvent, cancelUpdate,
              Complete, completeUpdate, Reschedule, rescheduleCheck,
              rescheduleUpdate, rescheduleReadBack, rescheduleProviderEvent,
              rescheduleClientEvent, Review, reviewFind, reviewInsert
<1> QED BY <1>1, <1>2, ProceedShape, StepFiled DEF RowPcs

\* The admin, the customer, faults, the clock and the mail worker.
LEMMA OutsideFiled ==
  ASSUME TypeOK, FiledInv, mail' = mail, RowsRemain,
         \A w \in Workers : req'[w] = req[w] \/ req'[w].pc = "idle"
  PROVE  FiledInv'
<1>1. ASSUME NEW w \in Workers, req'[w].pc \in RowPcs
      PROVE  req'[w] = req[w] /\ req[w].id \in BookingIds
  BY <1>1, RequestCarries DEF TypeOK, RowPcs, ConfirmPcs, NoBookingPcs
<1>2. ASSUME NEW w \in Workers, req'[w].pc \in RowPcs
      PROVE  hasRow(req[w].id)'
  <2>1. PICK b \in BookingIds : b = req[w].id /\ b = req'[w].id
    BY <1>1, <1>2
  <2>2. hasRow(b)'
    BY <1>1, <1>2, <2>1 DEF FiledInv, RowsRemain
  <2> QED BY <2>1, <2>2 DEF hasRow, isPaymentRow
<1> QED BY <1>2 DEF FiledInv, RowsRemain

LEMMA AdminRows ==
  ASSUME TypeOK, Admin
  PROVE  RowsRemain
  BY DEF Admin, paymentRemove, reviewRemove, RowsRemain, hasRow, isPaymentRow,
         TypeOK, TablesTypeOK

LEMMA NextFiledInv ==
  ASSUME TypeOK, PaidInv, ChargeInv, FiledInv, [Next]_vars
  PROVE  FiledInv'
<1>1. ASSUME NEW r \in Workers, Arrive(r) \/ Deliver(r) \/ Proceed(r)
      PROVE  FiledInv'
  BY <1>1, ArriveFiled, DeliverFiled, ConfirmFiled, ProceedFiled DEF Proceed
<1>2. ASSUME NEW r \in Workers, fail(r)
      PROVE  FiledInv'
  BY <1>2, SameRows, OutsideFiled
  DEF fail, Idle, TypeOK, RequestsTypeOK, tables
<1>3. CASE crash
  BY <1>3, SameRows, OutsideFiled DEF crash, Idle, tables
<1>4. CASE Customer \/ tick \/ UNCHANGED vars
  BY <1>4, SameRows, OutsideFiled DEF Customer, tick, vars, tables, process
<1>5. CASE Admin
  BY <1>5, AdminRows, OutsideFiled
  DEF Admin, paymentRemove, reviewRemove, process
<1> QED BY <1>1, <1>2, <1>3, <1>4, <1>5 DEF Next

LEMMA InitFiledInv ==
  ASSUME Init
  PROVE  FiledInv
  BY DEF Init, MailInit, MailJobs, RequestsInit, Idle, FiledInv, RowPcs,
         ConfirmPcs

\* No letter about a payment is ordered before there is a row to write it
\* from: confirmByPaymentIntent finds or creates the row first, and a repeated
\* delivery, which skips that, only mails about a booking whose row is there.
THEOREM FiledInvHolds == Spec => []FiledInv
<1>1. TypeOK /\ PaidInv /\ ChargeInv /\ FiledInv /\ [Next]_vars => FiledInv'
  BY NextFiledInv
<1> QED BY <1>1, InitFiledInv, TypeCorrect, PaidInvHolds, ChargeInvHolds, PTL
        DEF Spec

---------------------------------------------------------------------------
\* The worker of the queue

\* What the tables and the requests keep whatever the worker does.
CoreInv == TypeOK /\ PaidInv /\ ChargeInv /\ FiledInv

\* A fault of the worker or a restart, to the rest of the back end.
LEMMA FaultCore ==
  ASSUME CoreInv, UNCHANGED <<tables, stripe, calendar, mail, now>>,
         faults' \in Nat,
         req' = req \/ req' = [r \in Workers |-> Idle]
  PROVE  CoreInv'
<1>1. TypeOK'
  <2>1. RequestsTypeOK'
    BY IdleIsRequest DEF CoreInv, TypeOK, RequestsTypeOK
  <2> QED BY <2>1, UntouchedTypeOK DEF CoreInv, TypeOK
<1>2. \A w \in Workers : req'[w] = req[w] \/ req'[w].pc = "idle"
  BY DEF Idle
<1>3. PaidInv'
  BY <1>2, OutsidePaidInv DEF CoreInv
<1>4. ChargeInv'
  BY <1>2, OutsideChargeInv DEF CoreInv
<1>5. FiledInv'
  BY <1>2, SameRows, OutsideFiled DEF CoreInv, tables
<1> QED BY <1>1, <1>3, <1>4, <1>5 DEF CoreInv

LEMMA StepIsNext ==
  ASSUME Step
  PROVE  Next
  BY DEF Step, Next

LEMMA NextCore ==
  ASSUME CoreInv, [Next]_vars
  PROVE  CoreInv'
  BY NextTypeOK, NextPaidInv, NextChargeInv, NextFiledInv DEF CoreInv

LEMMA MailerCore ==
  ASSUME CoreInv, [MailerNext]_mailVars
  PROVE  CoreInv'
<1>1. CASE Step
  BY <1>1, StepIsNext, NextCore
<1>2. CASE Process \/ retryStalled \/ UNCHANGED mailVars
  BY <1>2, NextCore
  DEF Process, takeJob, readBooking, sendLetter, retryStalled, mailVars
<1>3. CASE readFails \/ sendRefused \/ restart
  <2>1. faults' \in Nat
    BY <1>3 DEF readFails, sendRefused, restart, CoreInv, TypeOK, RequestsTypeOK
  <2> QED BY <1>3, <2>1, FaultCore DEF readFails, sendRefused, restart
<1> QED BY <1>1, <1>2, <1>3 DEF MailerNext

---------------------------------------------------------------------------
\* The jobs in the queue

isQueued(q, j) == \E n \in DOMAIN q : q[n] = j

LEMMA TakenQueued ==
  ASSUME NEW q \in Seq(Job), q # <<>>
  PROVE  /\ Head(q) \in Job /\ Tail(q) \in Seq(Job)
         /\ \A j : isQueued(q, j) <=> j = Head(q) \/ isQueued(Tail(q), j)
<1>1. Len(q) \in Nat \ {0} /\ DOMAIN q = 1..Len(q)
  OBVIOUS
<1>2. /\ Tail(q) \in Seq(Job) /\ Head(q) = q[1] /\ Head(q) \in Job
      /\ Len(Tail(q)) = Len(q) - 1
      /\ \A n \in 1..Len(q) - 1 : Tail(q)[n] = q[n + 1]
  BY <1>1
<1>3. DOMAIN Tail(q) = 1..Len(q) - 1
  BY <1>2
<1>4. ASSUME NEW j, isQueued(q, j)
      PROVE  j = Head(q) \/ isQueued(Tail(q), j)
  <2>1. PICK n \in 1..Len(q) : q[n] = j
    BY <1>1, <1>4 DEF isQueued
  <2>2. CASE n # 1
    <3>1. n - 1 \in 1..Len(q) - 1 /\ Tail(q)[n - 1] = j
      BY <1>1, <1>2, <2>1, <2>2
    <3> QED BY <1>3, <3>1 DEF isQueued
  <2> QED BY <1>2, <2>1, <2>2
<1>5. ASSUME NEW j, j = Head(q) \/ isQueued(Tail(q), j)
      PROVE  isQueued(q, j)
  <2>1. CASE j = Head(q)
    BY <1>1, <1>2, <2>1 DEF isQueued
  <2>2. ASSUME NEW n \in 1..Len(q) - 1, Tail(q)[n] = j
        PROVE  isQueued(q, j)
    <3>1. n + 1 \in 1..Len(q) /\ q[n + 1] = j
      BY <1>1, <1>2, <2>2
    <3> QED BY <1>1, <3>1 DEF isQueued
  <2> QED BY <1>3, <1>5, <2>1, <2>2 DEF isQueued
<1> QED BY <1>2, <1>4, <1>5

LEMMA AppendedQueued ==
  ASSUME NEW q \in Seq(Job), NEW k \in Job
  PROVE  /\ Append(q, k) \in Seq(Job)
         /\ \A j : isQueued(Append(q, k), j) <=> isQueued(q, j) \/ j = k
<1>1. Len(q) \in Nat /\ DOMAIN q = 1..Len(q)
  OBVIOUS
<1>2. /\ Append(q, k) \in Seq(Job)
      /\ DOMAIN Append(q, k) = 1..Len(q) + 1
      /\ \A n \in 1..Len(q) : Append(q, k)[n] = q[n]
      /\ Append(q, k)[Len(q) + 1] = k
  OBVIOUS
<1>3. \A n \in 1..Len(q) + 1 : n \in 1..Len(q) \/ n = Len(q) + 1
  BY <1>1
<1>4. 1..Len(q) \subseteq 1..Len(q) + 1 /\ Len(q) + 1 \in 1..Len(q) + 1
  BY <1>1
<1> QED BY <1>1, <1>2, <1>3, <1>4 DEF isQueued

LEMMA RetriedQueued ==
  ASSUME NEW q \in Seq(Job), NEW k \in Job
  PROVE  /\ <<k>> \o q \in Seq(Job)
         /\ \A j : isQueued(<<k>> \o q, j) <=> j = k \/ isQueued(q, j)
<1> DEFINE s == <<k>> \o q
<1>1. Len(q) \in Nat /\ DOMAIN q = 1..Len(q)
  OBVIOUS
<1>2. /\ s \in Seq(Job) /\ s # <<>>
      /\ Head(s) = k /\ Tail(s) = q
  <2>1. s \in Seq(Job) /\ Len(s) = Len(q) + 1
    OBVIOUS
  <2>2. s[1] = k /\ \A n \in 1..Len(q) : s[n + 1] = q[n]
    OBVIOUS
  <2>3. Len(Tail(s)) = Len(q) /\ \A n \in 1..Len(q) : Tail(s)[n] = s[n + 1]
    BY <1>1, <2>1
  <2>4. Tail(s) \in Seq(Job) /\ s # <<>>
    BY <1>1, <2>1
  <2>5. Tail(s) = q
    BY <2>2, <2>3, <2>4, <1>1
  <2> QED BY <2>1, <2>2, <2>4, <2>5
<1> HIDE DEF s
<1>3. s \in Seq(Job) /\ \A j : isQueued(s, j) <=> j = k \/ isQueued(q, j)
  BY <1>2, TakenQueued
<1> QED BY <1>3 DEF s

---------------------------------------------------------------------------
\* No mail is lost

\* Every job on its way has been ordered, and one that is dropped for want of
\* a payment row has had its row deleted.
JobsInv ==
  /\ \A j \in Job : waiting(j) => mail[j.bookingId][j.name] > 0
  /\ job.pc = "send" /\ ~worthALetter(job) => job.bookingId \in removed

\* The inductive invariant of the worker.
WorkerInv == MailerTypeOK /\ JobsInv /\ NoMailLost

LEMMA WaitingIs ==
  \A j : waiting(j) <=> \/ isQueued(queue, j)
                        \/ job # NoJob /\ data(job) = j
                        \/ j \in stalled
  BY DEF waiting, isQueued

LEMMA JobShape ==
  ASSUME MailerTypeOK
  PROVE  /\ job # NoJob => data(job) \in Job
         /\ job.pc # "none" => job # NoJob
         /\ job # NoJob => job.bookingId \in BookingIds /\ job.name \in MailJobs
  BY DEF MailerTypeOK, data, Job, NoJob

LEMMA BegunShape ==
  ASSUME NEW j \in Job
  PROVE  /\ begun(j) \in [bookingId : BookingIds, name : MailJobs,
                          pc : {"read", "send"}, isPaid : BOOLEAN]
         /\ begun(j) # NoJob /\ data(begun(j)) = j /\ begun(j).pc = "read"
<1>1. /\ begun(j).bookingId = j.bookingId /\ begun(j).name = j.name
      /\ begun(j).pc = "read" /\ begun(j).isPaid = FALSE
  BY DEF begun
<1>2. j.bookingId \in BookingIds /\ j.name \in MailJobs
  BY DEF Job
<1>3. data(begun(j)) = j
  BY <1>1, <1>2 DEF data, Job
<1>4. begun(j) # NoJob
  BY <1>1 DEF NoJob
<1> QED BY <1>1, <1>2, <1>3, <1>4 DEF begun

\* A step of the worker loses no job: each is where it was, further on, or done.
LEMMA WorkerKeeps ==
  ASSUME WorkerInv, mail' = mail, removed' = removed, MailerTypeOK',
         \A j \in Job :
           waiting(j) => \/ waiting(j)' \/ written(j)'
                         \/ j \in failed' \/ j \in refused'
                         \/ j.name = "payment-confirmed"
                              /\ j.bookingId \in removed,
         \A j \in Job : written(j) => written(j)',
         \A j \in Job : waiting(j)' => waiting(j),
         failed \subseteq failed', refused \subseteq refused',
         job'.pc = "send" /\ ~worthALetter(job') => job'.bookingId \in removed
  PROVE  WorkerInv'
<1>1. NoMailLost'
  BY DEF WorkerInv, NoMailLost
<1>2. JobsInv'
  BY DEF WorkerInv, JobsInv, worthALetter
<1> QED BY <1>1, <1>2 DEF WorkerInv

LEMMA TakeKeeps ==
  ASSUME WorkerInv, takeJob
  PROVE  WorkerInv'
<1>1. queue \in Seq(Job) /\ queue # <<>> /\ job = NoJob
  BY DEF takeJob, WorkerInv, MailerTypeOK
<1>2. /\ Head(queue) \in Job /\ queue' \in Seq(Job)
      /\ \A j : isQueued(queue, j) <=> j = Head(queue) \/ isQueued(queue', j)
  BY <1>1, TakenQueued DEF takeJob
<1>3. /\ job' # NoJob /\ data(job') = Head(queue) /\ job'.pc = "read"
      /\ job' \in [bookingId : BookingIds, name : MailJobs,
                   pc : {"read", "send"}, isPaid : BOOLEAN]
  BY <1>2, BegunShape DEF takeJob
<1>4. /\ mail' = mail /\ removed' = removed
      /\ stalled' = stalled /\ failed' = failed /\ refused' = refused
      /\ letters' = letters
  BY DEF takeJob, vars, tables
<1>5. MailerTypeOK'
  BY <1>2, <1>3, <1>4 DEF WorkerInv, MailerTypeOK
<1>6. \A j : waiting(j)' <=> waiting(j)
  <2>1. \A j : waiting(j)' <=> \/ isQueued(queue', j)
                               \/ job' # NoJob /\ data(job') = j
                               \/ j \in stalled'
    BY DEF waiting, isQueued
  <2> QED BY <1>1, <1>2, <1>3, <1>4, <2>1, WaitingIs
<1>7. \A j \in Job : written(j) => written(j)'
  BY <1>4 DEF written
<1> QED BY <1>3, <1>4, <1>5, <1>6, <1>7, WorkerKeeps

LEMMA ReadKeeps ==
  ASSUME CoreInv, WorkerInv, readBooking
  PROVE  WorkerInv'
<1>1. /\ job # NoJob /\ data(job) \in Job
      /\ job.bookingId \in BookingIds /\ job.name \in MailJobs
  BY JobShape DEF readBooking, WorkerInv
<1>2. job \in [bookingId : BookingIds, name : MailJobs,
               pc : {"read", "send"}, isPaid : BOOLEAN]
  BY <1>1 DEF WorkerInv, MailerTypeOK
<1>3. /\ job'.bookingId = job.bookingId /\ job'.name = job.name
      /\ job'.pc = "send" /\ job'.isPaid = isPaymentRow(job.bookingId)
      /\ job' \in [bookingId : BookingIds, name : MailJobs,
                   pc : {"read", "send"}, isPaid : BOOLEAN]
  BY <1>2 DEF readBooking, isPaymentRow
<1>4. /\ mail' = mail /\ removed' = removed /\ queue' = queue
      /\ stalled' = stalled /\ failed' = failed /\ refused' = refused
      /\ letters' = letters
  BY DEF readBooking, vars, tables
<1>5. MailerTypeOK'
  BY <1>3, <1>4 DEF WorkerInv, MailerTypeOK
<1>6. data(job') = data(job) /\ job' # NoJob
  BY <1>3 DEF data, NoJob
<1>7. \A j : waiting(j)' <=> waiting(j)
  BY <1>1, <1>4, <1>6 DEF waiting
<1>8. \A j \in Job : written(j) => written(j)'
  BY <1>4 DEF written
<1>9. ~worthALetter(job') => job'.bookingId \in removed
  <2>1. waiting(data(job))
    BY <1>1 DEF waiting
  <2>2. mail[job.bookingId][job.name] > 0
    BY <1>1, <2>1 DEF WorkerInv, JobsInv, data
  <2>3. job.name = "payment-confirmed" => hasRow(job.bookingId)
    BY <1>1, <2>2 DEF CoreInv, FiledInv
  <2> QED BY <1>3, <2>3 DEF worthALetter, hasRow
<1> QED BY <1>3, <1>4, <1>5, <1>7, <1>8, <1>9, WorkerKeeps

LEMMA SendKeeps ==
  ASSUME WorkerInv, sendLetter
  PROVE  WorkerInv'
<1> DEFINE b == job.bookingId
<1>1. /\ job # NoJob /\ data(job) \in Job
      /\ b \in BookingIds /\ job.name \in MailJobs
  BY JobShape DEF sendLetter, WorkerInv
<1>2. /\ mail' = mail /\ removed' = removed /\ queue' = queue
      /\ stalled' = stalled /\ failed' = failed /\ refused' = refused
      /\ job' = NoJob
  BY DEF sendLetter, vars, tables
<1>3. /\ letters \in [BookingIds -> [kinds : SUBSET MailJobs,
                                     lastWord : MailJobs \cup {"none"}]]
      /\ letters[b] \in [kinds : SUBSET MailJobs,
                         lastWord : MailJobs \cup {"none"}]
  BY <1>1 DEF WorkerInv, MailerTypeOK
<1>4. /\ sent(letters[b], job.name) \in
           [kinds : SUBSET MailJobs, lastWord : MailJobs \cup {"none"}]
      /\ sent(letters[b], job.name).kinds = letters[b].kinds \cup {job.name}
  BY <1>1, <1>3 DEF sent
<1>5. /\ letters' \in [BookingIds -> [kinds : SUBSET MailJobs,
                                      lastWord : MailJobs \cup {"none"}]]
      /\ \A c \in BookingIds : letters[c].kinds \subseteq letters'[c].kinds
      /\ worthALetter(job) => job.name \in letters'[b].kinds
  BY <1>1, <1>3, <1>4 DEF sendLetter
<1>6. MailerTypeOK'
  BY <1>2, <1>5 DEF WorkerInv, MailerTypeOK
<1>7. \A j \in Job : written(j) => written(j)'
  BY <1>5 DEF written, Job
<1>8. \A j : waiting(j)' => waiting(j)
  BY <1>2 DEF waiting
<1>9. ASSUME NEW j \in Job, waiting(j)
      PROVE  \/ waiting(j)' \/ written(j)'
             \/ j.name = "payment-confirmed" /\ j.bookingId \in removed
  <2>1. CASE data(job) = j
    <3>1. j.bookingId = b /\ j.name = job.name
      BY <2>1 DEF data
    <3>2. CASE worthALetter(job)
      BY <1>5, <3>1, <3>2 DEF written
    <3>3. CASE ~worthALetter(job)
      BY <3>1, <3>3 DEF WorkerInv, JobsInv, sendLetter, worthALetter
    <3> QED BY <3>2, <3>3
  <2>2. CASE data(job) # j
    BY <1>2, <1>9, <2>2 DEF waiting
  <2> QED BY <2>1, <2>2
<1> QED BY <1>2, <1>6, <1>7, <1>8, <1>9, WorkerKeeps DEF NoJob

LEMMA RetryKeeps ==
  ASSUME WorkerInv, retryStalled
  PROVE  WorkerInv'
<1>1. PICK k \in stalled : queue' = <<k>> \o queue /\ stalled' = stalled \ {k}
  BY DEF retryStalled
<1>2. queue \in Seq(Job) /\ k \in Job
  BY <1>1 DEF WorkerInv, MailerTypeOK
<1>3. /\ queue' \in Seq(Job)
      /\ \A j : isQueued(queue', j) <=> j = k \/ isQueued(queue, j)
  BY <1>1, <1>2, RetriedQueued
<1>4. /\ mail' = mail /\ removed' = removed /\ job' = job
      /\ failed' = failed /\ refused' = refused /\ letters' = letters
  BY DEF retryStalled, vars, tables
<1>5. MailerTypeOK'
  BY <1>1, <1>3, <1>4 DEF WorkerInv, MailerTypeOK
<1>6. \A j : waiting(j)' <=> waiting(j)
  <2>1. \A j : waiting(j)' <=> \/ isQueued(queue', j)
                               \/ job' # NoJob /\ data(job') = j
                               \/ j \in stalled'
    BY DEF waiting, isQueued
  <2> QED BY <1>1, <1>3, <1>4, <2>1, WaitingIs
<1>7. \A j \in Job : written(j) => written(j)'
  BY <1>4 DEF written
<1>8. job.pc = "send" /\ ~worthALetter(job) => job.bookingId \in removed
  BY DEF WorkerInv, JobsInv
<1> QED BY <1>4, <1>5, <1>6, <1>7, <1>8, WorkerKeeps

LEMMA ReadFailsKeeps ==
  ASSUME WorkerInv, readFails
  PROVE  WorkerInv'
<1>1. job # NoJob /\ data(job) \in Job
  BY JobShape DEF readFails, WorkerInv
<1>2. /\ mail' = mail /\ removed' = removed /\ queue' = queue
      /\ stalled' = stalled /\ failed' = failed \cup {data(job)}
      /\ job' = NoJob /\ refused' = refused /\ letters' = letters
  BY DEF readFails, tables
<1>3. MailerTypeOK'
  BY <1>1, <1>2 DEF WorkerInv, MailerTypeOK
<1>4. \A j \in Job : /\ waiting(j) => waiting(j)' \/ j \in failed'
                     /\ waiting(j)' => waiting(j)
                     /\ written(j) => written(j)'
  BY <1>2 DEF waiting, written
<1> QED BY <1>2, <1>3, <1>4, WorkerKeeps DEF NoJob

LEMMA RefusedKeeps ==
  ASSUME WorkerInv, sendRefused
  PROVE  WorkerInv'
<1>1. job # NoJob /\ data(job) \in Job
  BY JobShape DEF sendRefused, WorkerInv
<1>2. /\ mail' = mail /\ removed' = removed /\ queue' = queue
      /\ stalled' = stalled /\ failed' = failed
      /\ refused' = refused \cup {data(job)}
      /\ job' = NoJob /\ letters' = letters
  BY DEF sendRefused, tables
<1>3. MailerTypeOK'
  BY <1>1, <1>2 DEF WorkerInv, MailerTypeOK
<1>4. \A j \in Job : /\ waiting(j) => waiting(j)' \/ j \in refused'
                     /\ waiting(j)' => waiting(j)
                     /\ written(j) => written(j)'
  BY <1>2 DEF waiting, written
<1> QED BY <1>2, <1>3, <1>4, WorkerKeeps DEF NoJob

LEMMA RestartKeeps ==
  ASSUME WorkerInv, restart
  PROVE  WorkerInv'
<1>1. job # NoJob => data(job) \in Job
  BY JobShape DEF WorkerInv
<1>2. /\ mail' = mail /\ removed' = removed /\ queue' = queue
      /\ stalled' = stalled \cup IF job = NoJob THEN {} ELSE {data(job)}
      /\ failed' = failed /\ refused' = refused
      /\ job' = NoJob /\ letters' = letters
  BY DEF restart, tables
<1>3. MailerTypeOK'
  BY <1>1, <1>2 DEF WorkerInv, MailerTypeOK
<1>4. \A j \in Job : /\ waiting(j) => waiting(j)'
                     /\ waiting(j)' => waiting(j)
                     /\ written(j) => written(j)'
  BY <1>2 DEF waiting, written
<1> QED BY <1>2, <1>3, <1>4, WorkerKeeps DEF NoJob

LEMMA RemovedGrows ==
  ASSUME Step
  PROVE  removed \subseteq removed'
<1>1. ASSUME NEW r \in Workers, Arrive(r) \/ Deliver(r) \/ fail(r)
      PROVE  removed' = removed
  BY <1>1
  DEF Arrive, create, createPaymentIntent, cancel, complete, reschedule,
      review, Deliver, paymentSucceeded, paymentFailed, fail, tables
<1>2. ASSUME NEW r \in Workers, Proceed(r)
      PROVE  removed' = removed
  BY <1>2
  DEF Proceed, Create, createInsert, Intent, intentCreate, intentPayment,
      intentLink, intentRespond, Confirm, confirmFindPayment,
      confirmCreatePayment, confirmProviderEvent, confirmClientEvent,
      confirmUpdate, confirmMailBooking, confirmMailPayment, webhookMail,
      webhookAnswer, Failed, failedUpdate, failedAnswer, Cancel,
      cancelProviderEvent, cancelClientEvent, cancelUpdate, cancelMail,
      Complete, completeUpdate, Reschedule, rescheduleCheck, rescheduleUpdate,
      rescheduleReadBack, rescheduleProviderEvent, rescheduleClientEvent,
      Review, reviewFind, reviewInsert, paymentCreate, bookingUpdate, tables
<1>3. CASE Customer \/ Admin \/ tick
  BY <1>3 DEF Customer, Admin, paymentRemove, reviewRemove, tick, tables
<1> QED BY <1>1, <1>2, <1>3 DEF Step

\* A job that is added waits.
LEMMA EnqueueKeeps ==
  ASSUME TypeOK, WorkerInv, Step, enqueue
  PROVE  WorkerInv'
<1>1. /\ job' = job /\ stalled' = stalled
      /\ failed' = failed /\ refused' = refused /\ letters' = letters
      /\ removed \subseteq removed'
  BY RemovedGrows DEF enqueue
<1>2. queue \in Seq(Job)
  BY DEF WorkerInv, MailerTypeOK
<1>3. \A j : waiting(j)' <=> \/ isQueued(queue', j)
                             \/ job' # NoJob /\ data(job') = j
                             \/ j \in stalled'
  BY DEF waiting, isQueued
<1>4. \A j \in Job : written(j)' <=> written(j)
  BY <1>1 DEF written
<1>5. job'.pc = "send" /\ ~worthALetter(job') => job'.bookingId \in removed'
  BY <1>1 DEF WorkerInv, JobsInv
<1>6. CASE mail' = mail /\ queue' = queue
  <2>1. \A j : waiting(j)' <=> waiting(j)
    BY <1>1, <1>3, <1>6, WaitingIs
  <2>2. MailerTypeOK'
    BY <1>1, <1>6 DEF WorkerInv, MailerTypeOK
  <2>3. NoMailLost'
    BY <1>1, <1>4, <1>6, <2>1 DEF WorkerInv, NoMailLost
  <2>4. JobsInv'
    BY <1>5, <1>6, <2>1 DEF WorkerInv, JobsInv, worthALetter
  <2> QED BY <2>2, <2>3, <2>4 DEF WorkerInv
<1>7. ASSUME NEW k \in Job,
             mail' = [mail EXCEPT ![k.bookingId][k.name] = @ + 1],
             queue' = Append(queue, k)
      PROVE  WorkerInv'
  <2>1. k.bookingId \in BookingIds /\ k.name \in MailJobs
    BY DEF Job
  <2>2. add(k.bookingId, k.name)
    BY <1>7 DEF add
  <2>3. /\ mail'[k.bookingId][k.name] > 0 /\ MailGrows
        /\ \A c \in BookingIds, n \in MailJobs :
             c # k.bookingId \/ n # k.name => mail'[c][n] = mail[c][n]
    BY <2>1, <2>2, AddShape
  <2>4. /\ queue' \in Seq(Job)
        /\ \A j : isQueued(queue', j) <=> isQueued(queue, j) \/ j = k
    BY <1>2, <1>7, AppendedQueued
  <2>5. \A j : waiting(j)' <=> waiting(j) \/ j = k
    BY <1>1, <1>3, <2>4, WaitingIs
  <2>6. \A j \in Job : j.bookingId = k.bookingId /\ j.name = k.name => j = k
    BY DEF Job
  <2>7. \A j \in Job : j.bookingId \in BookingIds /\ j.name \in MailJobs
    BY DEF Job
  <2>8. MailerTypeOK'
    BY <1>1, <2>4 DEF WorkerInv, MailerTypeOK
  <2>9. NoMailLost'
    BY <1>1, <1>4, <2>3, <2>5, <2>6, <2>7 DEF WorkerInv, NoMailLost
  <2>10. JobsInv'
    BY <1>5, <2>3, <2>5, <2>7 DEF WorkerInv, JobsInv, MailGrows, worthALetter
  <2> QED BY <2>8, <2>9, <2>10 DEF WorkerInv
<1> QED BY <1>6, <1>7 DEF enqueue

LEMMA NextWorkerInv ==
  ASSUME CoreInv, WorkerInv, [MailerNext]_mailVars
  PROVE  WorkerInv'
<1>1. CASE UNCHANGED mailVars
  <2>1. /\ mail' = mail /\ removed' = removed /\ queue' = queue /\ job' = job
        /\ stalled' = stalled /\ failed' = failed /\ refused' = refused
      /\ letters' = letters
    BY <1>1 DEF mailVars, vars, tables
  <2> QED BY <2>1
          DEF WorkerInv, MailerTypeOK, JobsInv, NoMailLost, waiting, written,
              worthALetter
<1> QED BY <1>1, EnqueueKeeps, TakeKeeps, ReadKeeps, SendKeeps, RetryKeeps,
           ReadFailsKeeps, RefusedKeeps, RestartKeeps
        DEF MailerNext, Process, CoreInv

LEMMA InitWorkerInv ==
  ASSUME MailerInit
  PROVE  CoreInv /\ WorkerInv
<1>1. CoreInv
  BY InitTypeOK, InitPaidInv, InitChargeInv, InitFiledInv
  DEF MailerInit, CoreInv
<1>2. MailerTypeOK
  BY DEF MailerInit, MailerTypeOK
<1>3. JobsInv
  BY DEF MailerInit, JobsInv, waiting, NoJob
<1>4. NoMailLost
  BY DEF MailerInit, Init, MailInit, NoMailLost, Job
<1> QED BY <1>1, <1>2, <1>3, <1>4 DEF WorkerInv

\* With the worker behind them, through its faults and restarts, tables,
\* requests, queue, letters and the jobs that failed, stalled or were refused
\* by the SMTP server agree.
THEOREM WorkerInvHolds == MailerSpec => [](CoreInv /\ WorkerInv)
<1>1. CoreInv /\ WorkerInv /\ [MailerNext]_mailVars => (CoreInv /\ WorkerInv)'
  BY MailerCore, NextWorkerInv
<1> QED BY <1>1, InitWorkerInv, PTL DEF MailerSpec

\* The queue, the worker and the letters keep their types; a job in the queue
\* is one that a handler has added, without the state of the worker.
THEOREM MailerTypeCorrect == MailerSpec => []MailerTypeOK
<1>1. CoreInv /\ WorkerInv => MailerTypeOK
  BY DEF WorkerInv
<1> QED BY <1>1, WorkerInvHolds, PTL

\* A mail that a handler has ordered is on its way, sent, among the failed jobs
\* or refused by the SMTP server (an error sendEmail swallows: that letter is
\* lost), through restarts and retries of stalled jobs, unless it is about a
\* payment whose row an admin has deleted.  Nothing else loses a mail.
THEOREM NoMailLostHolds == MailerSpec => []NoMailLost
<1>1. CoreInv /\ WorkerInv => NoMailLost
  BY DEF WorkerInv
<1> QED BY <1>1, WorkerInvHolds, PTL

---------------------------------------------------------------------------
\* The last letter is true, one request at a time


\* One request is served at a time.
Alone == \A r, w \in Workers : r = w

\* A job or letter that says what has become of the booking.
about(p, b) == p.bookingId = b /\ p.name # "payment-confirmed"

\* What the client will have heard last once the queue has been worked off.
lastOrdered(b, word) ==
  \/ \E n \in DOMAIN queue :
       /\ about(queue[n], b) /\ queue[n].name = word
       /\ \A m \in DOMAIN queue : m > n => ~about(queue[m], b)
  \/ /\ \A n \in DOMAIN queue : ~about(queue[n], b)
     /\ IF about(job, b) THEN job.name = word ELSE letters[b].lastWord = word

ordering(b, pc) == \E r \in Workers : at(r, pc) /\ req[r].id = b

SettledPcs == MailingPcs \cup {"complete:update"}

\* The status is still what the request has read or written.
Settled(q) ==
  /\ q.pc \in {"confirm:mailBooking", "complete:update"} =>
       bookings[q.id].status = "CONFIRMED"
  /\ q.pc = "cancel:mail" => bookings[q.id].status = "CANCELLED"

WordInv ==
  /\ stalled = {}
  /\ \A b \in BookingIds :
       /\ served(b) => \/ lastOrdered(b, "booking-confirmation")
                       \/ ordering(b, "confirm:mailBooking")
       /\ bookings[b].status = "CANCELLED" =>
            lastOrdered(b, "cancellation") \/ ordering(b, "cancel:mail")
  /\ \A r \in Workers : Settled(req[r])

\* The inductive invariant behind LastLetterAgrees.
LastInv == faults = 0 => WordInv

---------------------------------------------------------------------------
\* The order of the queue

LEMMA NoJobAbout ==
  ASSUME NEW b \in BookingIds
  PROVE  ~about(NoJob, b)
  BY DEF about, NoJob, BookingIds, null

LEMMA TakeWord ==
  ASSUME MailerTypeOK, takeJob, NEW b \in BookingIds, NEW word,
         lastOrdered(b, word)
  PROVE  lastOrdered(b, word)'
<1>1. queue \in Seq(Job) /\ queue # <<>> /\ job = NoJob /\ letters' = letters
  BY DEF takeJob, MailerTypeOK
<1>2. Len(queue) \in Nat \ {0} /\ DOMAIN queue = 1..Len(queue)
  BY <1>1
<1>3. /\ DOMAIN queue' = 1..Len(queue) - 1
      /\ \A n \in 1..Len(queue) - 1 : queue'[n] = queue[n + 1]
  BY <1>1, <1>2 DEF takeJob
<1>4. job'.bookingId = queue[1].bookingId /\ job'.name = queue[1].name
  BY <1>1, <1>2 DEF takeJob, begun
<1>5. about(job', b) <=> about(queue[1], b)
  BY <1>4 DEF about
<1>6. ASSUME NEW n \in DOMAIN queue, about(queue[n], b), queue[n].name = word,
             \A m \in DOMAIN queue : m > n => ~about(queue[m], b)
      PROVE  lastOrdered(b, word)'
  <2>1. CASE n = 1
    <3>1. \A m \in DOMAIN queue' : ~about(queue'[m], b)
      BY <1>2, <1>3, <1>6, <2>1
    <3> QED BY <1>4, <1>5, <1>6, <2>1, <3>1 DEF lastOrdered, about
  <2>2. CASE n # 1
    <3>1. n - 1 \in DOMAIN queue' /\ queue'[n - 1] = queue[n]
      BY <1>2, <1>3, <2>2
    <3>2. \A m \in DOMAIN queue' : m > n - 1 => ~about(queue'[m], b)
      BY <1>2, <1>3, <1>6, <2>2
    <3> QED BY <1>6, <3>1, <3>2 DEF lastOrdered, about
  <2> QED BY <2>1, <2>2
<1>7. ASSUME \A n \in DOMAIN queue : ~about(queue[n], b),
             letters[b].lastWord = word
      PROVE  lastOrdered(b, word)'
  <2>1. ~about(queue[1], b) /\ \A m \in DOMAIN queue' : ~about(queue'[m], b)
    BY <1>2, <1>3, <1>7
  <2> QED BY <1>1, <1>5, <1>7, <2>1 DEF lastOrdered, about
<1> QED BY <1>1, <1>6, <1>7, NoJobAbout DEF lastOrdered

LEMMA ReadWord ==
  ASSUME MailerTypeOK, readBooking, NEW b \in BookingIds, NEW word,
         lastOrdered(b, word)
  PROVE  lastOrdered(b, word)'
<1>1. job # NoJob
  BY DEF readBooking, NoJob
<1>2. job'.bookingId = job.bookingId /\ job'.name = job.name
  BY <1>1 DEF readBooking, MailerTypeOK
<1> QED BY <1>2 DEF readBooking, lastOrdered, about

LEMMA SendWord ==
  ASSUME MailerTypeOK, sendLetter, NEW b \in BookingIds, NEW word,
         lastOrdered(b, word)
  PROVE  lastOrdered(b, word)'
<1>1. queue' = queue /\ job' = NoJob
  BY DEF sendLetter
<1>2. letters'[b].lastWord =
        IF about(job, b) THEN job.name ELSE letters[b].lastWord
  <2>1. letters[b] \in [kinds : SUBSET MailJobs,
                        lastWord : MailJobs \cup {"none"}]
    BY DEF MailerTypeOK
  <2>2. CASE job.bookingId = b
    BY <2>1, <2>2 DEF sendLetter, MailerTypeOK, worthALetter, sent, about
  <2>3. CASE job.bookingId # b
    BY <2>3 DEF sendLetter, MailerTypeOK, about
  <2> QED BY <2>2, <2>3
<1> QED BY <1>1, <1>2, NoJobAbout DEF lastOrdered, about

LEMMA AppendWord ==
  ASSUME MailerTypeOK, NEW k \in Job, queue' = Append(queue, k), job' = job,
         letters' = letters, NEW b \in BookingIds
  PROVE  /\ about(k, b) => lastOrdered(b, k.name)'
         /\ ~about(k, b) =>
              \A word : lastOrdered(b, word) => lastOrdered(b, word)'
<1>1. queue \in Seq(Job)
  BY DEF MailerTypeOK
<1>2. Len(queue) \in Nat /\ DOMAIN queue = 1..Len(queue)
  BY <1>1
<1>3. /\ DOMAIN queue' = 1..Len(queue) + 1
      /\ \A n \in 1..Len(queue) : queue'[n] = queue[n]
      /\ queue'[Len(queue) + 1] = k
  BY <1>1, <1>2
<1>4. ASSUME about(k, b)
      PROVE  lastOrdered(b, k.name)'
  <2>1. /\ Len(queue) + 1 \in DOMAIN queue'
        /\ \A m \in DOMAIN queue' : ~(m > Len(queue) + 1)
    BY <1>2, <1>3
  <2> QED BY <1>3, <1>4, <2>1 DEF lastOrdered, about
<1>5. ASSUME ~about(k, b), NEW word, lastOrdered(b, word)
      PROVE  lastOrdered(b, word)'
  <2>1. ASSUME NEW n \in DOMAIN queue, about(queue[n], b),
               queue[n].name = word,
               \A m \in DOMAIN queue : m > n => ~about(queue[m], b)
        PROVE  lastOrdered(b, word)'
    <3>1. n \in DOMAIN queue' /\ queue'[n] = queue[n]
      BY <1>2, <1>3
    <3>2. \A m \in DOMAIN queue' : m > n => ~about(queue'[m], b)
      <4>1. ASSUME NEW m \in DOMAIN queue', m > n
            PROVE  ~about(queue'[m], b)
        <5>1. CASE m = Len(queue) + 1
          BY <1>3, <1>5, <5>1
        <5>2. CASE m # Len(queue) + 1
          <6>1. m \in DOMAIN queue /\ queue'[m] = queue[m]
            BY <1>2, <1>3, <5>2
          <6> QED BY <2>1, <4>1, <6>1
        <5> QED BY <5>1, <5>2
      <4> QED BY <4>1
    <3> QED BY <2>1, <3>1, <3>2 DEF lastOrdered, about
  <2>2. ASSUME \A n \in DOMAIN queue : ~about(queue[n], b)
        PROVE  \A n \in DOMAIN queue' : ~about(queue'[n], b)
    <3>1. ASSUME NEW n \in DOMAIN queue'
          PROVE  ~about(queue'[n], b)
      <4>1. CASE n = Len(queue) + 1
        BY <1>3, <1>5, <4>1
      <4>2. CASE n # Len(queue) + 1
        BY <1>2, <1>3, <2>2, <4>2
      <4> QED BY <4>1, <4>2
    <3> QED BY <3>1
  <2> QED BY <1>5, <2>1, <2>2 DEF lastOrdered, about
<1> QED BY <1>4, <1>5

\* A step that orders nothing leaves the queue, one that orders a mail queues
\* this job and no other.
LEMMA AddCounts ==
  ASSUME TypeOK, NEW b \in BookingIds, NEW name \in MailJobs, add(b, name)
  PROVE  /\ mail'[b][name] # mail[b][name]
         /\ \A c \in BookingIds, n \in MailJobs :
              c # b \/ n # name => mail'[c][n] = mail[c][n]
<1>1. mail \in [BookingIds -> [MailJobs -> Nat]]
  BY DEF TypeOK, MailTypeOK
<1>2. mail'[b] = [mail[b] EXCEPT ![name] = mail[b][name] + 1]
  BY <1>1 DEF add
<1>3. mail[b] \in [MailJobs -> Nat]
  BY <1>1
<1>4. mail'[b][name] = mail[b][name] + 1 /\ mail[b][name] \in Nat
  BY <1>2, <1>3
<1> QED BY <1>4, AddShape

LEMMA JobAdds ==
  ASSUME TypeOK, NEW j \in Job,
         mail' = [mail EXCEPT ![j.bookingId][j.name] = @ + 1]
  PROVE  /\ mail'[j.bookingId][j.name] # mail[j.bookingId][j.name]
         /\ \A c \in BookingIds, n \in MailJobs :
              c # j.bookingId \/ n # j.name => mail'[c][n] = mail[c][n]
<1>1. j.bookingId \in BookingIds /\ j.name \in MailJobs
  BY DEF Job
<1>2. add(j.bookingId, j.name)
  BY DEF add
<1> QED BY <1>1, <1>2, AddCounts

LEMMA NothingQueued ==
  ASSUME TypeOK, enqueue, mail' = mail
  PROVE  /\ queue' = queue
         /\ \A b, word : lastOrdered(b, word)' <=> lastOrdered(b, word)
<1>1. queue' = queue
  BY JobAdds DEF enqueue
<1> QED BY <1>1 DEF enqueue, lastOrdered, about

LEMMA OneQueued ==
  ASSUME TypeOK, MailerTypeOK, enqueue, NEW b \in BookingIds,
         NEW name \in MailJobs, add(b, name)
  PROVE  \E k \in Job : /\ k.bookingId = b /\ k.name = name
                        /\ queue' = Append(queue, k)
<1>1. mail' # mail
  BY AddCounts
<1>2. PICK j \in Job : /\ mail' = [mail EXCEPT ![j.bookingId][j.name] = @ + 1]
                       /\ queue' = Append(queue, j)
  BY <1>1 DEF enqueue
<1>3. j.bookingId \in BookingIds /\ j.name \in MailJobs
  BY DEF Job
<1>4. j.bookingId = b /\ j.name = name
  BY <1>2, <1>3, JobAdds, AddCounts
<1> QED BY <1>2, <1>4

---------------------------------------------------------------------------
\* The handlers

\* What is left to show of a statement that orders no mail.
LEMMA StillWord ==
  ASSUME Alone, TypeOK, WordInv, NEW r \in Workers, enqueue, mail' = mail,
         req[r].pc \notin MailingPcs,
         \A b \in BookingIds :
           LET status == bookings'[b].status IN
           \/ status \in {bookings[b].status, "PENDING_PAYMENT"}
           \/ status = "COMPLETED" /\ served(b)
           \/ /\ status = "CONFIRMED"
              /\ req'[r].pc = "confirm:mailBooking" /\ req'[r].id = b
           \/ /\ status = "CANCELLED"
              /\ req'[r].pc = "cancel:mail" /\ req'[r].id = b,
         Settled(req[r])'
  PROVE  WordInv'
<1>1. \A b \in BookingIds : /\ ~ordering(b, "confirm:mailBooking")
                            /\ ~ordering(b, "cancel:mail")
  BY DEF Alone, ordering, at, MailingPcs
<1>2. \A b, word : lastOrdered(b, word)' <=> lastOrdered(b, word)
  BY NothingQueued
<1>3. stalled' = {}
  BY DEF enqueue, WordInv
<1>4. ASSUME NEW b \in BookingIds
      PROVE  /\ served(b)' => \/ lastOrdered(b, "booking-confirmation")'
                              \/ ordering(b, "confirm:mailBooking")'
             /\ bookings'[b].status = "CANCELLED" =>
                  lastOrdered(b, "cancellation")' \/ ordering(b, "cancel:mail")'
  <2>1. /\ served(b) => lastOrdered(b, "booking-confirmation")
        /\ bookings[b].status = "CANCELLED" => lastOrdered(b, "cancellation")
    BY <1>1 DEF WordInv
  <2> QED BY <1>2, <2>1 DEF served, ordering, at
<1>5. \A w \in Workers : Settled(req[w])'
  BY DEF Alone
<1> QED BY <1>3, <1>4, <1>5 DEF WordInv

\* A request goes on to a statement at which nothing is settled, or is over.
Onward(r) ==
  /\ req[r].pc \notin MailingPcs
  /\ \/ finish(r)
     \/ \E pc : pc \notin SettledPcs /\ goto(r, pc)
     \/ \E q : q.pc \notin SettledPcs /\ enter(r, q)

LEMMA OnwardShape ==
  ASSUME TypeOK, NEW r \in Workers,
         \/ finish(r)
         \/ \E pc : pc \notin SettledPcs /\ goto(r, pc)
         \/ \E q : q.pc \notin SettledPcs /\ enter(r, q)
  PROVE  req'[r].pc \notin SettledPcs /\ Settled(req[r])'
<1>1. req'[r].pc \notin SettledPcs
  BY FinishShape, GotoShape, EnterShape DEF TypeOK, SettledPcs, MailingPcs
<1> QED BY <1>1 DEF Settled, SettledPcs, MailingPcs

LEMMA OnwardWord ==
  ASSUME Alone, TypeOK, WordInv, NEW r \in Workers, enqueue, mail' = mail,
         Onward(r),
         \A b \in BookingIds :
           \/ bookings'[b].status \in {bookings[b].status, "PENDING_PAYMENT"}
           \/ bookings'[b].status = "COMPLETED" /\ served(b)
  PROVE  WordInv'
  BY OnwardShape, StillWord DEF Onward

\* A mail about the booking of the request is ordered.
LEMMA AddWord ==
  ASSUME Alone, TypeOK, MailerTypeOK, WordInv, NEW r \in Workers, enqueue,
         NEW name \in MailJobs, add(req[r].id, name), bookings' = bookings,
         req[r].pc \notin NoBookingPcs,
         finish(r) \/ \E pc : pc \notin SettledPcs /\ goto(r, pc),
         req[r].pc = "confirm:mailBooking" <=> name = "booking-confirmation",
         req[r].pc = "cancel:mail" <=> name = "cancellation"
  PROVE  WordInv'
<1>1. PICK b \in BookingIds : b = req[r].id
  BY RequestCarries DEF TypeOK
<1>2. PICK k \in Job : /\ k.bookingId = b /\ k.name = name
                       /\ queue' = Append(queue, k)
  BY <1>1, OneQueued
<1>3. job' = job /\ letters' = letters /\ stalled' = {}
  BY DEF enqueue, WordInv
<1>4. \A w \in Workers : Settled(req[w])'
  BY OnwardShape DEF Alone
<1>5. /\ name = "booking-confirmation" => bookings[b].status = "CONFIRMED"
      /\ name = "cancellation" => bookings[b].status = "CANCELLED"
  BY <1>1 DEF WordInv, Settled
<1>6. ASSUME NEW c \in BookingIds, served(c)
      PROVE  lastOrdered(c, "booking-confirmation")'
  <2>1. CASE about(k, c)
    <3>1. name = "booking-confirmation"
      BY <1>2, <1>5, <1>6, <2>1 DEF about, served, MailJobs
    <3> QED BY <1>2, <1>3, <2>1, <3>1, AppendWord
  <2>2. CASE ~about(k, c)
    <3>1. ~ordering(c, "confirm:mailBooking")
      BY <1>1, <1>2, <2>2 DEF Alone, ordering, at, about
    <3>2. lastOrdered(c, "booking-confirmation")
      BY <1>6, <3>1 DEF WordInv
    <3> QED BY <1>2, <1>3, <2>2, <3>2, AppendWord
  <2> QED BY <2>1, <2>2
<1>7. ASSUME NEW c \in BookingIds, bookings[c].status = "CANCELLED"
      PROVE  lastOrdered(c, "cancellation")'
  <2>1. CASE about(k, c)
    <3>1. name = "cancellation"
      BY <1>2, <1>5, <1>7, <2>1 DEF about, MailJobs
    <3> QED BY <1>2, <1>3, <2>1, <3>1, AppendWord
  <2>2. CASE ~about(k, c)
    <3>1. ~ordering(c, "cancel:mail")
      BY <1>1, <1>2, <2>2 DEF Alone, ordering, at, about
    <3>2. lastOrdered(c, "cancellation")
      BY <1>7, <3>1 DEF WordInv
    <3> QED BY <1>2, <1>3, <2>2, <3>2, AppendWord
  <2> QED BY <2>1, <2>2
<1> QED BY <1>3, <1>4, <1>6, <1>7 DEF WordInv, served

LEMMA ArriveWord ==
  ASSUME Alone, TypeOK, WordInv, NEW r \in Workers, enqueue, Arrive(r)
  PROVE  WordInv'
<1>1. /\ bookings' = bookings /\ mail' = mail
      /\ req[r].pc \notin MailingPcs
  BY DEF Arrive, create, createPaymentIntent, cancel, complete, reschedule,
         review, tables, at, MailingPcs
<1>2. req'[r].pc \in ArrivedPcs
  BY ArriveShape
<1>3. req'[r].pc = "complete:update" =>
        bookings[req'[r].id].status = "CONFIRMED"
  <2>1. ASSUME NEW u, NEW b, complete(r, u, b)
        PROVE  bookings[req'[r].id].status = "CONFIRMED"
    BY <2>1 DEF complete, canBeCompleted, enter, Idle, TypeOK, RequestsTypeOK
  <2>2. ASSUME NEW q, enter(r, q), q.pc # "complete:update"
        PROVE  req'[r].pc # "complete:update"
    BY <2>2, EnterShape DEF TypeOK
  <2>3. ASSUME NEW u, NEW b, NEW p, NEW s, NEW d,
               \/ create(r, u, p, s, d) \/ createPaymentIntent(r, u, b)
               \/ cancel(r, u, b) \/ reschedule(r, u, b, s, d)
               \/ review(r, u, b)
        PROVE  req'[r].pc # "complete:update"
    BY <2>2, <2>3
    DEF create, createPaymentIntent, cancel, reschedule, review, Idle
  <2> QED BY <2>1, <2>3 DEF Arrive
<1>4. Settled(req[r])'
  BY <1>1, <1>2, <1>3 DEF Settled, ArrivedPcs
<1> QED BY <1>1, <1>4, StillWord

LEMMA DeliverWord ==
  ASSUME Alone, TypeOK, WordInv, NEW r \in Workers, enqueue, Deliver(r)
  PROVE  WordInv'
<1>1. bookings' = bookings /\ mail' = mail /\ req[r].pc = "idle"
  BY DEF Deliver, paymentSucceeded, paymentFailed, tables, at
<1>2. ASSUME NEW q, enter(r, q), q.pc \notin SettledPcs
      PROVE  WordInv'
  BY <1>1, <1>2, OnwardWord DEF Onward, MailingPcs
<1>3. CASE UNCHANGED process
  BY <1>1, <1>3, StillWord DEF process, MailingPcs, Settled
<1>4. ASSUME NEW i \in Intents, paymentSucceeded(r, i) \/ paymentFailed(r, i)
      PROVE  WordInv'
  BY <1>2, <1>3, <1>4
  DEF paymentSucceeded, confirmByPaymentIntent, paymentFailed, Idle,
      SettledPcs, MailingPcs
<1> QED BY <1>4 DEF Deliver

LEMMA CreateWord ==
  ASSUME Alone, TypeOK, WordInv, NEW r \in Workers, enqueue, Create(r)
  PROVE  WordInv'
<1>1. mail' = mail /\ req[r].pc = "create:insert"
  BY DEF Create, createInsert, at
<1>2. Onward(r)
  BY <1>1
  DEF Create, createInsert, Onward, Idle, SettledPcs, MailingPcs
<1>3. \A b \in BookingIds :
        bookings'[b].status \in {bookings[b].status, "PENDING_PAYMENT"}
  <2>1. CASE UNCHANGED tables
    BY <2>1 DEF tables
  <2>2. ASSUME NEW b \in BookingIds, NEW row,
               row.status = "PENDING_PAYMENT", bookingUpdate(b, row)
        PROVE  \A c \in BookingIds :
                 bookings'[c].status \in
                   {bookings[c].status, "PENDING_PAYMENT"}
    BY <2>2, BookingShape DEF TypeOK
  <2> QED BY <2>1, <2>2 DEF Create, createInsert, NoBooking
<1> QED BY <1>1, <1>2, <1>3, OnwardWord

\* booking.update of the row the request is about.
LEMMA RowWord ==
  ASSUME Alone, TypeOK, WordInv, NEW r \in Workers, enqueue, mail' = mail,
         Onward(r), NEW b \in BookingIds, NEW row, bookingUpdate(b, row),
         \/ row.status \in {bookings[b].status, "PENDING_PAYMENT"}
         \/ row.status = "COMPLETED" /\ served(b)
  PROVE  WordInv'
<1>1. \A c \in BookingIds : bookings'[c] = IF c = b THEN row ELSE bookings[c]
  BY BookingShape DEF TypeOK
<1>2. \A c \in BookingIds :
        \/ bookings'[c].status \in {bookings[c].status, "PENDING_PAYMENT"}
        \/ bookings'[c].status = "COMPLETED" /\ served(c)
  BY <1>1
<1> QED BY <1>2, OnwardWord

LEMMA SameRowsWord ==
  ASSUME Alone, TypeOK, WordInv, NEW r \in Workers, enqueue, mail' = mail,
         Onward(r), bookings' = bookings
  PROVE  WordInv'
  BY OnwardWord

LEMMA IntentWord ==
  ASSUME Alone, TypeOK, WordInv, NEW r \in Workers, enqueue, Intent(r)
  PROVE  WordInv'
<1>1. req[r] \in RequestRecord /\ mail' = mail /\ req[r].pc \in IntentPcs
  BY RequestCarries
  DEF TypeOK, Intent, intentCreate, intentPayment, intentLink, intentRespond,
      at, IntentPcs
<1>2. Onward(r)
  <2>1. IntentPcs \cap SettledPcs = {} /\ req[r].pc \notin MailingPcs
    BY <1>1 DEF IntentPcs, SettledPcs, MailingPcs
  <2>2. \A i \in Intents :
          [req[r] EXCEPT !.pc = "intent:payment", !.intent = i].pc
            = "intent:payment"
    BY <1>1 DEF RequestRecord
  <2>3. {"intent:payment", "intent:link", "intent:respond"} \subseteq IntentPcs
    BY DEF IntentPcs
  <2>4. CASE intentCreate(r)
    BY <2>1, <2>2, <2>3, <2>4 DEF intentCreate, Onward
  <2>5. CASE intentPayment(r) \/ intentLink(r) \/ intentRespond(r)
    BY <2>1, <2>3, <2>5 DEF intentPayment, intentLink, intentRespond, Onward
  <2> QED BY <2>4, <2>5 DEF Intent
<1>3. CASE intentLink(r)
  <2>1. PICK b \in BookingIds : b = req[r].id
    BY <1>3, RequestCarries DEF intentLink, at, NoBookingPcs, TypeOK
  <2> DEFINE row == [bookings[b] EXCEPT !.paymentIntentId = req[r].intent]
  <2>2. bookings[b] \in Booking
    BY DEF TypeOK, TablesTypeOK
  <2>3. row.status = bookings[b].status /\ bookingUpdate(b, row)
    BY <1>3, <2>1, <2>2 DEF intentLink, Booking
  <2> HIDE DEF row
  <2> QED BY <1>1, <1>2, <2>3, RowWord
<1>4. CASE bookings' = bookings
  BY <1>1, <1>2, <1>4, SameRowsWord
<1> QED BY <1>3, <1>4
        DEF Intent, intentCreate, intentPayment, intentRespond, paymentCreate,
            tables

LEMMA ConfirmUpdateWord ==
  ASSUME Alone, TypeOK, WordInv, NEW r \in Workers, enqueue, confirmUpdate(r)
  PROVE  WordInv'
<1>1. mail' = mail /\ req[r].pc \notin MailingPcs
  BY DEF confirmUpdate, at, MailingPcs
<1>2. CASE finish(r) /\ UNCHANGED tables
  BY <1>1, <1>2, SameRowsWord DEF Onward, tables
<1>3. ASSUME NEW b \in BookingIds,
             bookingUpdate(b, confirmed(bookings[b], r)),
             enter(r, [Idle EXCEPT !.pc = "confirm:mailBooking", !.id = b,
                                   !.intent = req[r].intent])
      PROVE  WordInv'
  <2> DEFINE row == confirmed(bookings[b], r)
             q == [Idle EXCEPT !.pc = "confirm:mailBooking", !.id = b,
                               !.intent = req[r].intent]
  <2>1. bookings[b] \in Booking
    BY DEF TypeOK, TablesTypeOK
  <2>2. row.status = "CONFIRMED" /\ bookingUpdate(b, row)
    BY <1>3, <2>1 DEF confirmed, Booking
  <2>3. q.pc = "confirm:mailBooking" /\ q.id = b /\ enter(r, q)
    BY <1>3 DEF Idle
  <2> HIDE DEF row, q
  <2>4. req'[r].pc = "confirm:mailBooking" /\ req'[r].id = b
    BY <2>3, EnterShape DEF TypeOK
  <2>5. \A c \in BookingIds : bookings'[c] = IF c = b THEN row ELSE bookings[c]
    BY <2>2, BookingShape DEF TypeOK
  <2>6. Settled(req[r])'
    BY <2>2, <2>4, <2>5 DEF Settled
  <2>7. \A c \in BookingIds :
          \/ bookings'[c].status = bookings[c].status
          \/ c = b /\ bookings'[c].status = "CONFIRMED"
    BY <2>2, <2>5
  <2> QED BY <1>1, <2>4, <2>6, <2>7, StillWord
<1> QED BY <1>2, <1>3 DEF confirmUpdate

LEMMA ConfirmWord ==
  ASSUME Alone, TypeOK, MailerTypeOK, WordInv, NEW r \in Workers, enqueue,
         Confirm(r)
  PROVE  WordInv'
<1>1. req[r] \in RequestRecord
  BY RequestCarries DEF TypeOK
<1>2. CASE confirmFindPayment(r) \/ confirmCreatePayment(r)
  <2>1. Onward(r)
    BY <1>2 DEF confirmFindPayment, confirmCreatePayment, Onward, at,
                SettledPcs, MailingPcs
  <2> QED BY <1>2, <2>1, SameRowsWord
          DEF confirmFindPayment, confirmCreatePayment, paymentCreate, tables
<1>3. CASE confirmProviderEvent(r) \/ confirmClientEvent(r)
  <2>1. \A e : /\ [req[r] EXCEPT !.pc = "confirm:clientEvent",
                                 !.providerEvent = e].pc
                    = "confirm:clientEvent"
               /\ [req[r] EXCEPT !.pc = "confirm:update", !.startTime = 0,
                                 !.clientEvent = e].pc = "confirm:update"
    BY <1>1 DEF RequestRecord
  <2>2. {"confirm:clientEvent", "confirm:update"} \cap SettledPcs = {}
    BY DEF SettledPcs, MailingPcs
  <2>3. req[r].pc \notin MailingPcs
    BY <1>3 DEF confirmProviderEvent, confirmClientEvent, at, MailingPcs
  <2>4. Onward(r)
    BY <1>3, <2>1, <2>2, <2>3
    DEF confirmProviderEvent, confirmClientEvent, Onward
  <2> QED BY <1>3, <2>4, SameRowsWord
          DEF confirmProviderEvent, confirmClientEvent, tables
<1>4. CASE confirmMailBooking(r) \/ confirmMailPayment(r) \/ webhookMail(r)
  <2>1. {"confirm:mailPayment", "webhook:mail", "webhook:answer"}
          \cap SettledPcs = {}
    BY DEF SettledPcs, MailingPcs
  <2>2. PICK name \in MailJobs :
          /\ add(req[r].id, name)
          /\ req[r].pc = "confirm:mailBooking" <=> name = "booking-confirmation"
          /\ req[r].pc # "cancel:mail" /\ name # "cancellation"
          /\ req[r].pc \notin NoBookingPcs
    BY <1>4 DEF confirmMailBooking, confirmMailPayment, webhookMail, at,
                MailJobs, NoBookingPcs
  <2>3. /\ bookings' = bookings
        /\ finish(r) \/ \E pc : pc \notin SettledPcs /\ goto(r, pc)
    BY <1>4, <2>1 DEF confirmMailBooking, confirmMailPayment, webhookMail,
                      tables
  <2> QED BY <2>2, <2>3, AddWord
<1>5. CASE webhookAnswer(r)
  <2>1. Onward(r)
    BY <1>5 DEF webhookAnswer, Onward, at, SettledPcs, MailingPcs
  <2> QED BY <1>5, <2>1, SameRowsWord DEF webhookAnswer, tables
<1> QED BY <1>2, <1>3, <1>4, <1>5, ConfirmUpdateWord DEF Confirm

LEMMA StatusWord ==
  ASSUME Alone, TypeOK, WordInv, NEW r \in Workers, enqueue,
         failedUpdate(r) \/ Complete(r) \/ rescheduleUpdate(r)
  PROVE  WordInv'
<1>1. PICK b \in BookingIds : b = req[r].id
  BY RequestCarries
  DEF failedUpdate, Complete, completeUpdate, rescheduleUpdate, at,
      NoBookingPcs, TypeOK
<1>2. /\ bookings[b] \in Booking /\ mail' = mail
      /\ req[r].pc \notin MailingPcs
  BY DEF TypeOK, TablesTypeOK, failedUpdate, Complete, completeUpdate,
         rescheduleUpdate, at, MailingPcs
<1>3. Onward(r)
  BY <1>2 DEF failedUpdate, Complete, completeUpdate, rescheduleUpdate,
              Onward, SettledPcs, MailingPcs
<1>4. CASE failedUpdate(r)
  <2> DEFINE row == [bookings[b] EXCEPT !.status = "PENDING_PAYMENT"]
  <2>1. row.status = "PENDING_PAYMENT" /\ bookingUpdate(b, row)
    BY <1>1, <1>2, <1>4 DEF failedUpdate, Booking
  <2> HIDE DEF row
  <2> QED BY <1>2, <1>3, <2>1, RowWord
<1>5. CASE Complete(r)
  <2> DEFINE row == [bookings[b] EXCEPT !.status = "COMPLETED",
                                        !.completedAt = TRUE]
  <2>1. row.status = "COMPLETED" /\ bookingUpdate(b, row)
    BY <1>1, <1>2, <1>5 DEF Complete, completeUpdate, Booking
  <2>2. served(b)
    BY <1>1, <1>5 DEF Complete, completeUpdate, at, WordInv, Settled, served
  <2> HIDE DEF row
  <2> QED BY <1>2, <1>3, <2>1, <2>2, RowWord
<1>6. CASE rescheduleUpdate(r)
  <2> DEFINE row == [bookings[b] EXCEPT !.startTime = req[r].startTime,
                                        !.endTime = req[r].endTime]
  <2>1. row.status = bookings[b].status
    BY <1>2 DEF Booking
  <2>2. bookings' = bookings \/ bookingUpdate(b, row)
    BY <1>1, <1>6 DEF rescheduleUpdate, tables
  <2> HIDE DEF row
  <2> QED BY <1>2, <1>3, <2>1, <2>2, RowWord, SameRowsWord
<1> QED BY <1>4, <1>5, <1>6

LEMMA FailedWord ==
  ASSUME Alone, TypeOK, WordInv, NEW r \in Workers, enqueue, Failed(r)
  PROVE  WordInv'
<1>1. CASE failedAnswer(r)
  <2>1. Onward(r)
    BY <1>1 DEF failedAnswer, Onward, at, MailingPcs
  <2> QED BY <1>1, <2>1, SameRowsWord DEF failedAnswer, tables
<1> QED BY <1>1, StatusWord DEF Failed

LEMMA CancelUpdateWord ==
  ASSUME Alone, TypeOK, WordInv, NEW r \in Workers, enqueue, cancelUpdate(r)
  PROVE  WordInv'
<1>1. PICK b \in BookingIds : b = req[r].id
  BY RequestCarries DEF cancelUpdate, at, NoBookingPcs, TypeOK
<1>2. bookings[b] \in Booking /\ mail' = mail /\ req[r].pc \notin MailingPcs
  BY DEF TypeOK, TablesTypeOK, cancelUpdate, at, MailingPcs
<1> DEFINE row == [bookings[b] EXCEPT !.status = "CANCELLED",
                     !.providerGoogleEventId = null,
                     !.clientGoogleEventId = null]
<1>3. row.status = "CANCELLED" /\ bookingUpdate(b, row)
  BY <1>1, <1>2 DEF cancelUpdate, Booking
<1>4. req'[r].pc = "cancel:mail" /\ req'[r].id = b
  BY <1>1, GotoShape DEF cancelUpdate, TypeOK
<1> HIDE DEF row
<1>5. \A c \in BookingIds : bookings'[c] = IF c = b THEN row ELSE bookings[c]
  BY <1>3, BookingShape DEF TypeOK
<1>6. Settled(req[r])'
  BY <1>3, <1>4, <1>5 DEF Settled
<1>7. \A c \in BookingIds :
        \/ bookings'[c].status = bookings[c].status
        \/ c = b /\ bookings'[c].status = "CANCELLED"
  BY <1>3, <1>5
<1> QED BY <1>2, <1>4, <1>6, <1>7, StillWord

LEMMA CancelWord ==
  ASSUME Alone, TypeOK, MailerTypeOK, WordInv, NEW r \in Workers, enqueue,
         Cancel(r)
  PROVE  WordInv'
<1>1. req[r] \in RequestRecord
  BY RequestCarries DEF TypeOK
<1>2. CASE cancelProviderEvent(r) \/ cancelClientEvent(r)
  <2>1. /\ [req[r] EXCEPT !.pc = "cancel:clientEvent",
                          !.providerEvent = null].pc = "cancel:clientEvent"
        /\ [req[r] EXCEPT !.pc = "cancel:update", !.clientEvent = null].pc
             = "cancel:update"
    BY <1>1 DEF RequestRecord
  <2>2. {"cancel:clientEvent", "cancel:update"} \cap SettledPcs = {}
    BY DEF SettledPcs, MailingPcs
  <2>3. req[r].pc \notin MailingPcs
    BY <1>2 DEF cancelProviderEvent, cancelClientEvent, at, MailingPcs
  <2>4. Onward(r)
    BY <1>2, <2>1, <2>2, <2>3
    DEF cancelProviderEvent, cancelClientEvent, Onward
  <2> QED BY <1>2, <2>4, SameRowsWord
          DEF cancelProviderEvent, cancelClientEvent, tables
<1>3. CASE cancelMail(r)
  BY <1>3, AddWord DEF cancelMail, at, MailJobs, NoBookingPcs, tables
<1> QED BY <1>2, <1>3, CancelUpdateWord DEF Cancel

LEMMA RescheduleWord ==
  ASSUME Alone, TypeOK, WordInv, NEW r \in Workers, enqueue, Reschedule(r)
  PROVE  WordInv'
<1>1. req[r] \in RequestRecord
  BY RequestCarries DEF TypeOK
<1>2. CASE rescheduleReadBack(r)
  <2>1. [req[r] EXCEPT !.pc = "reschedule:providerEvent",
           !.startTime = bookings[req[r].id].startTime,
           !.endTime = 0, !.providerId = null].pc = "reschedule:providerEvent"
    BY <1>1 DEF RequestRecord
  <2>2. "reschedule:providerEvent" \notin SettledPcs
    BY DEF SettledPcs, MailingPcs
  <2>3. Onward(r)
    BY <1>2, <2>1, <2>2 DEF rescheduleReadBack, Onward, at, MailingPcs
  <2> QED BY <1>2, <2>3, SameRowsWord DEF rescheduleReadBack, tables
<1>3. CASE \/ rescheduleCheck(r) \/ rescheduleProviderEvent(r)
           \/ rescheduleClientEvent(r)
  <2>1. Onward(r)
    BY <1>3 DEF rescheduleCheck, rescheduleProviderEvent,
                rescheduleClientEvent, Onward, at, SettledPcs, MailingPcs
  <2> QED BY <1>3, <2>1, SameRowsWord
          DEF rescheduleCheck, rescheduleProviderEvent, rescheduleClientEvent,
              tables
<1> QED BY <1>2, <1>3, StatusWord DEF Reschedule

LEMMA ReviewWord ==
  ASSUME Alone, TypeOK, WordInv, NEW r \in Workers, enqueue, Review(r)
  PROVE  WordInv'
<1>1. Onward(r)
  BY DEF Review, reviewFind, reviewInsert, Onward, at, SettledPcs, MailingPcs
<1> QED BY <1>1, SameRowsWord DEF Review, reviewFind, reviewInsert, tables

LEMMA StepLastInv ==
  ASSUME Alone, TypeOK, MailerTypeOK, LastInv, Step, enqueue
  PROVE  LastInv'
<1> SUFFICES ASSUME faults' = 0
             PROVE  WordInv'
  BY DEF LastInv
<1>1. ASSUME NEW r \in Workers, Arrive(r) \/ Deliver(r) \/ Proceed(r)
      PROVE  WordInv'
  <2>1. WordInv
    BY <1>1, HandlerFaults DEF LastInv
  <2> QED BY <1>1, <2>1, ArriveWord, DeliverWord, CreateWord, IntentWord,
             ConfirmWord, FailedWord, StatusWord, CancelWord, RescheduleWord,
             ReviewWord
          DEF Proceed
<1>2. ASSUME NEW r \in Workers
      PROVE  ~fail(r)
  BY DEF fail, TypeOK, RequestsTypeOK
<1>3. CASE Customer \/ Admin \/ tick
  <2>1. /\ bookings' = bookings /\ mail' = mail
        /\ req' = req /\ faults' = faults
    BY <1>3 DEF Customer, Admin, paymentRemove, reviewRemove, tick, tables,
                process
  <2>2. WordInv
    BY <2>1 DEF LastInv
  <2>3. /\ stalled' = stalled
        /\ \A b, word : lastOrdered(b, word)' <=> lastOrdered(b, word)
    BY <2>1, NothingQueued DEF enqueue
  <2> QED BY <2>1, <2>2, <2>3 DEF WordInv, served, ordering, at, Settled
<1> QED BY <1>1, <1>2, <1>3 DEF Step

\* The worker takes the jobs in their order.
LEMMA ProcessLastInv ==
  ASSUME MailerTypeOK, LastInv, Process
  PROVE  LastInv'
<1>1. /\ bookings' = bookings /\ req' = req /\ faults' = faults
      /\ stalled' = stalled
  BY DEF Process, takeJob, readBooking, sendLetter, vars, tables, process
<1>2. ASSUME NEW b \in BookingIds, NEW word, lastOrdered(b, word)
      PROVE  lastOrdered(b, word)'
  BY <1>2, TakeWord, ReadWord, SendWord DEF Process
<1>3. \A r \in Workers : Settled(req[r])' <=> Settled(req[r])
  BY <1>1 DEF Settled
<1>4. \A b, pc : ordering(b, pc)' <=> ordering(b, pc)
  BY <1>1 DEF ordering, at
<1> QED BY <1>1, <1>2, <1>3, <1>4 DEF LastInv, WordInv, served

LEMMA NextLastInv ==
  ASSUME Alone, TypeOK, MailerTypeOK, LastInv, [MailerNext]_mailVars
  PROVE  LastInv'
<1>1. faults \in Nat
  BY DEF TypeOK, RequestsTypeOK
<1>2. CASE readFails \/ sendRefused \/ restart
  BY <1>1, <1>2 DEF readFails, sendRefused, restart, LastInv
<1>3. CASE retryStalled
  BY <1>3 DEF retryStalled, LastInv, WordInv, vars, process
<1>4. CASE UNCHANGED mailVars
  BY <1>4 DEF mailVars, vars, tables, process, LastInv, WordInv, served,
              ordering, at, Settled, lastOrdered, about
<1> QED BY <1>2, <1>3, <1>4, StepLastInv, ProcessLastInv DEF MailerNext

\* With one request at a time, and as long as nothing has failed, what has been
\* ordered last about a booking is what has become of it, or the handler is
\* about to order it.
THEOREM LastInvHolds ==
  ASSUME Alone
  PROVE  MailerSpec => []LastInv
<1>1. MailerInit => LastInv
  BY DEF MailerInit, Init, TablesInit, NoBooking, RequestsInit, Idle, LastInv,
         WordInv, served, Settled
<1>2. CoreInv /\ WorkerInv /\ LastInv /\ [MailerNext]_mailVars => LastInv'
  BY NextLastInv DEF CoreInv, WorkerInv
<1> QED BY <1>1, <1>2, WorkerInvHolds, PTL DEF MailerSpec

\* Whenever all is quiet, the last letter about a booking then says what has
\* become of it.
THEOREM LastLetterAgreesHolds ==
  ASSUME Alone
  PROVE  MailerSpec => []LastLetterAgrees
<1>1. MailerTypeOK /\ LastInv => LastLetterAgrees
  <2> SUFFICES ASSUME MailerTypeOK, LastInv, Quiescent, faults = 0,
                      \A j \in Job : ~waiting(j), NEW b \in BookingIds
               PROVE  /\ served(b) =>
                           letters[b].lastWord = "booking-confirmation"
                      /\ bookings[b].status = "CANCELLED" =>
                           letters[b].lastWord = "cancellation"
    BY DEF LastLetterAgrees
  <2>1. \A n \in DOMAIN queue : queue[n] \in Job
    BY DEF MailerTypeOK
  <2>2. DOMAIN queue = {}
    BY <2>1 DEF waiting
  <2>3. job = NoJob
    BY JobShape DEF waiting
  <2>4. /\ ~ordering(b, "confirm:mailBooking")
        /\ ~ordering(b, "cancel:mail")
    BY DEF Quiescent, ordering, at, Idle
  <2>5. \A word : lastOrdered(b, word) => letters[b].lastWord = word
    BY <2>2, <2>3, NoJobAbout DEF lastOrdered
  <2> QED BY <2>4, <2>5 DEF LastInv, WordInv
<1>2. CoreInv /\ WorkerInv => MailerTypeOK
  BY DEF WorkerInv
<1> QED BY <1>1, <1>2, WorkerInvHolds, LastInvHolds, PTL
=============================================================================
