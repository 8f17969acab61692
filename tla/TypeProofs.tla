----------------------------- MODULE TypeProofs -----------------------------
(***************************************************************************)
(* Type correctness of Backend, for every number of clients, providers,    *)
(* bookings, intents, open requests, deliveries and faults.                *)
(***************************************************************************)
EXTENDS Backend, TLAPS

---------------------------------------------------------------------------
\* The state each statement touches, and the records it writes there.

LEMMA IdleIsRequest == Idle \in Request
  BY DEF Idle, Request, RequestRecord, Pcs, NoBookingPcs, PaymentPcs,
         IntentPcs, ConfirmPcs, FailedPcs, null

LEMMA NoBookingIsBooking == NoBooking \in Booking
  BY DEF NoBooking, Booking, BookingStatus, null

LEMMA UntouchedTypeOK ==
  /\ TablesTypeOK /\ UNCHANGED tables => TablesTypeOK'
  /\ StripeTypeOK /\ UNCHANGED stripe => StripeTypeOK'
  /\ CalendarTypeOK /\ UNCHANGED calendar => CalendarTypeOK'
  /\ MailTypeOK /\ UNCHANGED mail => MailTypeOK'
  /\ RequestsTypeOK /\ UNCHANGED <<process, now>> => RequestsTypeOK'
  BY DEF TablesTypeOK, tables, StripeTypeOK, stripe, CalendarTypeOK,
         MailTypeOK, RequestsTypeOK, process

LEMMA EnterTypeOK ==
  ASSUME RequestsTypeOK, NEW r, NEW q \in Request, enter(r, q), now' = now
  PROVE  RequestsTypeOK'
  BY DEF RequestsTypeOK, enter

LEMMA FinishTypeOK ==
  ASSUME RequestsTypeOK, NEW r, finish(r), now' = now
  PROVE  RequestsTypeOK'
  BY IdleIsRequest, EnterTypeOK DEF finish

\* What a request at a statement carries.
LEMMA RequestCarries ==
  ASSUME RequestsTypeOK, NEW r \in Workers
  PROVE  /\ req[r] \in RequestRecord
         /\ req[r].pc \notin NoBookingPcs => req[r].id \in BookingIds
         /\ req[r].pc \in PaymentPcs => req[r].intent \in Intents
  BY DEF RequestsTypeOK, Request

LEMMA GotoTypeOK ==
  ASSUME RequestsTypeOK, NEW r \in Workers, NEW pc \in Pcs, goto(r, pc),
         now' = now, req[r].pc \notin NoBookingPcs,
         pc \in PaymentPcs => req[r].pc \in PaymentPcs
  PROVE  RequestsTypeOK'
<1>1. [req[r] EXCEPT !.pc = pc] \in Request
  BY RequestCarries DEF Request, RequestRecord
<1>2. req' = [req EXCEPT ![r] = [req[r] EXCEPT !.pc = pc]]
  BY DEF RequestsTypeOK, goto
<1> QED BY <1>1, <1>2 DEF goto, RequestsTypeOK

LEMMA BookingUpdateTypeOK ==
  ASSUME TablesTypeOK, NEW b, NEW row,
         b \in BookingIds => row \in Booking, bookingUpdate(b, row)
  PROVE  TablesTypeOK'
  BY DEF TablesTypeOK, bookingUpdate

LEMMA PaymentCreateTypeOK ==
  ASSUME TablesTypeOK, NEW b, NEW i \in Intents \cup {null},
         NEW status \in {"PENDING", "SUCCEEDED"}, paymentCreate(b, i, status)
  PROVE  TablesTypeOK'
<1>1. [status |-> status, paymentIntentId |-> i] \in Payment
  BY DEF Payment
<1> QED BY <1>1 DEF TablesTypeOK, paymentCreate

LEMMA CalendarUpdateTypeOK ==
  ASSUME CalendarTypeOK, NEW e, NEW start \in Nat, updateEvent(e, start)
  PROVE  CalendarTypeOK'
  BY DEF CalendarTypeOK, Event, updateEvent

LEMMA CalendarDeleteTypeOK ==
  ASSUME CalendarTypeOK, NEW e, deleteEvent(e)
  PROVE  CalendarTypeOK'
  BY DEF CalendarTypeOK, Event, deleteEvent

LEMMA CreateEventTypeOK ==
  ASSUME CalendarTypeOK, NEW e, NEW b \in BookingIds \cup {null},
         NEW who \in Parties, NEW start \in Nat, createEvent(e, b, who, start)
  PROVE  CalendarTypeOK'
<1>1. [state |-> "live", bookingId |-> b, forWhom |-> who, startTime |-> start]
        \in Event
  BY DEF Event
<1>2. CASE UNCHANGED calendar
  BY <1>2 DEF CalendarTypeOK
<1>3. CASE calendar' = [calendar EXCEPT ![e] =
             [state |-> "live", bookingId |-> b, forWhom |-> who,
              startTime |-> start]]
  BY <1>1, <1>3 DEF CalendarTypeOK
<1> QED BY <1>2, <1>3 DEF createEvent

LEMMA AddTypeOK ==
  ASSUME MailTypeOK, NEW b, NEW job \in MailJobs, add(b, job)
  PROVE  MailTypeOK'
<1>1. CASE b \in BookingIds
  <2>1. [mail[b] EXCEPT ![job] = mail[b][job] + 1] \in [MailJobs -> Nat]
    BY <1>1 DEF MailTypeOK
  <2>2. mail' = [mail EXCEPT ![b] =
                   [mail[b] EXCEPT ![job] = mail[b][job] + 1]]
    BY DEF MailTypeOK, add
  <2> QED BY <1>1, <2>1, <2>2 DEF MailTypeOK
<1>2. CASE b \notin BookingIds
  BY <1>2 DEF MailTypeOK, add
<1> QED BY <1>1, <1>2

LEMMA IssueSecretTypeOK ==
  ASSUME StripeTypeOK, NEW i, issueSecret(i)
  PROVE  StripeTypeOK'
  BY DEF StripeTypeOK, issueSecret, PaymentIntent, IntentStatus

LEMMA IntentsCreateTypeOK ==
  ASSUME StripeTypeOK, NEW i \in Intents, NEW b \in BookingIds \cup {null},
         paymentIntentsCreate(i, b)
  PROVE  StripeTypeOK'
<1>1. [status |-> "created", bookingId |-> b, declined |-> FALSE]
        \in PaymentIntent
  BY DEF PaymentIntent, IntentStatus
<1> QED BY <1>1 DEF StripeTypeOK, paymentIntentsCreate

LEMMA AckTypeOK ==
  ASSUME StripeTypeOK, NEW i \in Intents, NEW type \in EventTypes, ack(i, type)
  PROVE  StripeTypeOK'
  BY DEF StripeTypeOK, ack
---------------------------------------------------------------------------
\* The actions

LEMMA ArriveTypeOK ==
  ASSUME TypeOK, NEW r \in Workers, Arrive(r)
  PROVE  TypeOK'
<1> USE DEF TypeOK
<1>1. ASSUME NEW u \in Clients, NEW p \in Providers, NEW s \in StartTimes,
             NEW d \in Durations, create(r, u, p, s, d)
      PROVE  TypeOK'
  <2>1. s \in Nat /\ s + d \in Nat
    BY BookingAssumption
  <2>2. [Idle EXCEPT !.pc = "create:insert", !.clientId = u, !.providerId = p,
                     !.startTime = s, !.endTime = s + d] \in Request
    BY <2>1 DEF Users, Request, RequestRecord, Idle, Pcs, NoBookingPcs,
        PaymentPcs, IntentPcs, ConfirmPcs, FailedPcs, null
  <2> QED BY <1>1, <2>2, EnterTypeOK, UntouchedTypeOK DEF create
<1>2. ASSUME NEW u \in Clients, NEW b \in BookingIds,
             createPaymentIntent(r, u, b)
      PROVE  TypeOK'
  <2>1. [Idle EXCEPT !.pc = "intent:create", !.id = b] \in Request
    BY DEF Request, RequestRecord, Idle, Pcs, NoBookingPcs, PaymentPcs,
        IntentPcs, ConfirmPcs, FailedPcs, null
  <2> QED BY <1>2, <2>1, EnterTypeOK, UntouchedTypeOK DEF createPaymentIntent
<1>3. ASSUME NEW u \in Users, NEW b \in BookingIds, cancel(r, u, b)
      PROVE  TypeOK'
  <2>1. bookings[b] \in Booking
    BY DEF TablesTypeOK
  <2>2. [Idle EXCEPT !.pc = "cancel:providerEvent", !.id = b,
           !.providerEvent = bookings[b].providerGoogleEventId,
           !.clientEvent = bookings[b].clientGoogleEventId] \in Request
    BY <2>1 DEF Booking, Request, RequestRecord, Idle, Pcs, NoBookingPcs,
        PaymentPcs, IntentPcs, ConfirmPcs, FailedPcs, null
  <2> QED BY <1>3, <2>2, EnterTypeOK, UntouchedTypeOK DEF cancel
<1>4. ASSUME NEW u \in Providers, NEW b \in BookingIds, complete(r, u, b)
      PROVE  TypeOK'
  <2>1. [Idle EXCEPT !.pc = "complete:update", !.id = b] \in Request
    BY DEF Request, RequestRecord, Idle, Pcs, NoBookingPcs, PaymentPcs,
        IntentPcs, ConfirmPcs, FailedPcs, null
  <2> QED BY <1>4, <2>1, EnterTypeOK, UntouchedTypeOK DEF complete
<1>5. ASSUME NEW u \in Users, NEW b \in BookingIds, NEW s \in StartTimes,
             NEW d \in Durations, reschedule(r, u, b, s, d)
      PROVE  TypeOK'
  <2>1. s \in Nat /\ s + d \in Nat
    BY BookingAssumption
  <2>2. bookings[b] \in Booking
    BY DEF TablesTypeOK
  <2>3. [Idle EXCEPT !.pc = "reschedule:check", !.id = b,
           !.providerId = bookings[b].providerId,
           !.startTime = s, !.endTime = s + d,
           !.providerEvent = bookings[b].providerGoogleEventId,
           !.clientEvent = bookings[b].clientGoogleEventId] \in Request
    BY <2>1, <2>2 DEF Booking, Request, RequestRecord, Idle, Pcs, NoBookingPcs,
        PaymentPcs, IntentPcs, ConfirmPcs, FailedPcs, null
  <2> QED BY <1>5, <2>3, EnterTypeOK, UntouchedTypeOK DEF reschedule
<1>6. ASSUME NEW u \in Clients, NEW b \in BookingIds, review(r, u, b)
      PROVE  TypeOK'
  <2>1. [Idle EXCEPT !.pc = "review:find", !.id = b] \in Request
    BY DEF Request, RequestRecord, Idle, Pcs, NoBookingPcs, PaymentPcs,
        IntentPcs, ConfirmPcs, FailedPcs, null
  <2> QED BY <1>6, <2>1, EnterTypeOK, UntouchedTypeOK DEF review
<1> QED BY <1>1, <1>2, <1>3, <1>4, <1>5, <1>6 DEF Arrive

LEMMA DeliverTypeOK ==
  ASSUME TypeOK, NEW r \in Workers, Deliver(r)
  PROVE  TypeOK'
<1> USE DEF TypeOK
<1> SUFFICES ASSUME NEW i \in Intents,
                    paymentSucceeded(r, i) \/ paymentFailed(r, i)
             PROVE  TypeOK'
  BY DEF Deliver
<1>1. ASSUME NEW type, NEW flag, deliver(i, type, flag)
      PROVE  StripeTypeOK'
  BY <1>1 DEF StripeTypeOK, deliver
<1>2. ASSUME NEW b \in BookingIds
      PROVE  /\ [Idle EXCEPT !.pc = "webhook:mail", !.id = b, !.intent = i]
                  \in Request
             /\ [Idle EXCEPT !.pc = "failed:update", !.id = b, !.intent = i]
                  \in Request
             /\ [Idle EXCEPT !.pc = "confirm:findPayment", !.id = b,
                    !.intent = i, !.startTime = bookings[b].startTime]
                  \in Request
  <2>1. bookings[b].startTime \in Nat
    BY DEF TablesTypeOK, Booking
  <2> QED
    BY <2>1 DEF Request, RequestRecord, Idle, Pcs, NoBookingPcs, PaymentPcs,
        IntentPcs, ConfirmPcs, FailedPcs, null
<1>3. CASE paymentSucceeded(r, i)
  <2>1. RequestsTypeOK'
    BY <1>2, <1>3, EnterTypeOK DEF paymentSucceeded, confirmByPaymentIntent
  <2> QED BY <1>1, <1>3, <2>1, UntouchedTypeOK DEF paymentSucceeded
<1>4. CASE paymentFailed(r, i)
  <2>1. RequestsTypeOK'
    BY <1>2, <1>4, EnterTypeOK, UntouchedTypeOK DEF paymentFailed
  <2>2. StripeTypeOK'
    BY <1>1, <1>4, AckTypeOK DEF paymentFailed, EventTypes
  <2> QED BY <1>4, <2>1, <2>2, UntouchedTypeOK DEF paymentFailed
<1> QED BY <1>3, <1>4

LEMMA CreateTypeOK ==
  ASSUME TypeOK, NEW r \in Workers, Create(r)
  PROVE  TypeOK'
<1> USE DEF TypeOK
<1>1. [NoBooking EXCEPT !.status = "PENDING_PAYMENT",
         !.clientId = req[r].clientId, !.providerId = req[r].providerId,
         !.startTime = req[r].startTime, !.endTime = req[r].endTime] \in Booking
  BY RequestCarries
  DEF RequestRecord, NoBooking, Booking, BookingStatus, null
<1>2. ASSUME NEW b \in BookingIds
      PROVE  [Idle EXCEPT !.pc = "intent:create", !.id = b] \in Request
  BY DEF Request, RequestRecord, Idle, Pcs, NoBookingPcs, PaymentPcs,
      IntentPcs, ConfirmPcs, FailedPcs, null
<1>3. RequestsTypeOK'
  BY <1>2, EnterTypeOK, FinishTypeOK DEF Create, createInsert
<1>4. TablesTypeOK'
  BY <1>1, BookingUpdateTypeOK, UntouchedTypeOK DEF Create, createInsert
<1> QED BY <1>3, <1>4, UntouchedTypeOK DEF Create, createInsert

LEMMA IntentTypeOK ==
  ASSUME TypeOK, NEW r \in Workers, Intent(r)
  PROVE  TypeOK'
<1> USE DEF TypeOK
<1>1. CASE intentCreate(r)
  <2>1. req[r] \in RequestRecord /\ req[r].id \in BookingIds
    BY <1>1, RequestCarries DEF intentCreate, at, NoBookingPcs
  <2>2. ASSUME NEW i \in Intents
        PROVE  [req[r] EXCEPT !.pc = "intent:payment", !.intent = i] \in Request
    BY <2>1 DEF Request, RequestRecord, Idle, Pcs, NoBookingPcs, PaymentPcs,
        IntentPcs, ConfirmPcs, FailedPcs, null
  <2>3. RequestsTypeOK'
    BY <1>1, <2>2, EnterTypeOK, FinishTypeOK DEF intentCreate
  <2>4. StripeTypeOK'
    BY <1>1, <2>1, IntentsCreateTypeOK, UntouchedTypeOK DEF intentCreate
  <2> QED BY <1>1, <2>3, <2>4, UntouchedTypeOK DEF intentCreate
<1>2. CASE intentPayment(r)
  <2>1. /\ req[r] \in RequestRecord
        /\ req[r].id \in BookingIds
        /\ req[r].intent \in Intents
    BY <1>2, RequestCarries
    DEF intentPayment, at, NoBookingPcs, PaymentPcs, IntentPcs, ConfirmPcs,
        FailedPcs
  <2>2. RequestsTypeOK'
    BY <1>2, GotoTypeOK, FinishTypeOK
    DEF intentPayment, at, Pcs, NoBookingPcs, PaymentPcs, IntentPcs,
        ConfirmPcs, FailedPcs
  <2>3. TablesTypeOK'
    BY <1>2, <2>1, PaymentCreateTypeOK, UntouchedTypeOK DEF intentPayment
  <2> QED BY <1>2, <2>2, <2>3, UntouchedTypeOK DEF intentPayment
<1>3. CASE intentLink(r)
  <2>1. /\ req[r] \in RequestRecord
        /\ req[r].id \in BookingIds
        /\ req[r].intent \in Intents
    BY <1>3, RequestCarries
    DEF intentLink, at, NoBookingPcs, PaymentPcs, IntentPcs, ConfirmPcs,
        FailedPcs
  <2>2. RequestsTypeOK'
    BY <1>3, GotoTypeOK
    DEF intentLink, at, Pcs, NoBookingPcs, PaymentPcs, IntentPcs, ConfirmPcs,
        FailedPcs
  <2>3. [bookings[req[r].id] EXCEPT !.paymentIntentId = req[r].intent]
          \in Booking
    BY <2>1 DEF TablesTypeOK, Booking
  <2>4. TablesTypeOK'
    BY <1>3, <2>3, BookingUpdateTypeOK DEF intentLink
  <2> QED BY <1>3, <2>2, <2>4, UntouchedTypeOK DEF intentLink
<1>4. CASE intentRespond(r)
  BY <1>4, IssueSecretTypeOK, FinishTypeOK, UntouchedTypeOK DEF intentRespond
<1> QED BY <1>1, <1>2, <1>3, <1>4 DEF Intent

LEMMA ConfirmTypeOK ==
  ASSUME TypeOK, NEW r \in Workers, Confirm(r)
  PROVE  TypeOK'
<1> USE DEF TypeOK
<1>1. CASE confirmFindPayment(r)
  <2>1. RequestsTypeOK'
    BY <1>1, GotoTypeOK
    DEF confirmFindPayment, at, Pcs, NoBookingPcs, PaymentPcs, IntentPcs,
        ConfirmPcs, FailedPcs
  <2> QED BY <1>1, <2>1, UntouchedTypeOK DEF confirmFindPayment
<1>2. CASE confirmCreatePayment(r)
  <2>1. /\ req[r] \in RequestRecord
        /\ req[r].id \in BookingIds
        /\ req[r].intent \in Intents
    BY <1>2, RequestCarries
    DEF confirmCreatePayment, at, NoBookingPcs, PaymentPcs, IntentPcs,
        ConfirmPcs, FailedPcs
  <2>2. RequestsTypeOK'
    BY <1>2, GotoTypeOK, FinishTypeOK
    DEF confirmCreatePayment, at, Pcs, NoBookingPcs, PaymentPcs, IntentPcs,
        ConfirmPcs, FailedPcs
  <2>3. TablesTypeOK'
    BY <1>2, <2>1, PaymentCreateTypeOK, UntouchedTypeOK
    DEF confirmCreatePayment
  <2> QED BY <1>2, <2>2, <2>3, UntouchedTypeOK DEF confirmCreatePayment
<1>3. CASE confirmProviderEvent(r)
  <2>1. /\ req[r] \in RequestRecord
        /\ req[r].id \in BookingIds
        /\ req[r].intent \in Intents
    BY <1>3, RequestCarries
    DEF confirmProviderEvent, at, NoBookingPcs, PaymentPcs, IntentPcs,
        ConfirmPcs, FailedPcs
  <2>2. PICK e \in EventIds \cup {null} :
          /\ createEvent(e, req[r].id, "provider", req[r].startTime)
          /\ enter(r, [req[r] EXCEPT !.pc = "confirm:clientEvent",
                                     !.providerEvent = e])
    BY <1>3 DEF confirmProviderEvent
  <2>3. [req[r] EXCEPT !.pc = "confirm:clientEvent",
                       !.providerEvent = e] \in Request
    BY <2>1 DEF Request, RequestRecord, Idle, Pcs, NoBookingPcs, PaymentPcs,
        IntentPcs, ConfirmPcs, FailedPcs, null
  <2>4. RequestsTypeOK'
    BY <1>3, <2>2, <2>3, EnterTypeOK DEF confirmProviderEvent
  <2>5. CalendarTypeOK'
    BY <2>1, <2>2, CreateEventTypeOK DEF RequestRecord, Parties
  <2> QED BY <1>3, <2>4, <2>5, UntouchedTypeOK DEF confirmProviderEvent
<1>4. CASE confirmClientEvent(r)
  <2>1. /\ req[r] \in RequestRecord
        /\ req[r].id \in BookingIds
        /\ req[r].intent \in Intents
    BY <1>4, RequestCarries
    DEF confirmClientEvent, at, NoBookingPcs, PaymentPcs, IntentPcs,
        ConfirmPcs, FailedPcs
  <2>2. PICK e \in EventIds \cup {null} :
          /\ createEvent(e, req[r].id, "client", req[r].startTime)
          /\ enter(r, [req[r] EXCEPT !.pc = "confirm:update", !.startTime = 0,
                                     !.clientEvent = e])
    BY <1>4 DEF confirmClientEvent
  <2>3. [req[r] EXCEPT !.pc = "confirm:update", !.startTime = 0,
                       !.clientEvent = e] \in Request
    BY <2>1 DEF Request, RequestRecord, Idle, Pcs, NoBookingPcs, PaymentPcs,
        IntentPcs, ConfirmPcs, FailedPcs, null
  <2>4. RequestsTypeOK'
    BY <1>4, <2>2, <2>3, EnterTypeOK DEF confirmClientEvent
  <2>5. CalendarTypeOK'
    BY <2>1, <2>2, CreateEventTypeOK DEF RequestRecord, Parties
  <2> QED BY <1>4, <2>4, <2>5, UntouchedTypeOK DEF confirmClientEvent
<1>5. CASE confirmUpdate(r)
  <2>1. /\ req[r] \in RequestRecord
        /\ req[r].id \in BookingIds
        /\ req[r].intent \in Intents
    BY <1>5, RequestCarries
    DEF confirmUpdate, at, NoBookingPcs, PaymentPcs, IntentPcs, ConfirmPcs,
        FailedPcs
  <2>2. ASSUME NEW b \in BookingIds
        PROVE  confirmed(bookings[b], r) \in Booking
    <3>1. bookings[b] \in Booking
      BY DEF TablesTypeOK
    <3>2. /\ req[r].providerEvent \in EventIds \cup {null}
          /\ req[r].clientEvent \in EventIds \cup {null}
      BY <2>1 DEF RequestRecord
    <3> QED BY <3>1, <3>2 DEF Booking, BookingStatus, confirmed
  <2>3. ASSUME NEW b \in BookingIds
        PROVE  [Idle EXCEPT !.pc = "confirm:mailBooking", !.id = b,
                            !.intent = req[r].intent] \in Request
    BY <2>1 DEF Request, RequestRecord, Idle, Pcs, NoBookingPcs, PaymentPcs,
        IntentPcs, ConfirmPcs, FailedPcs, null
  <2>4. RequestsTypeOK'
    BY <1>5, <2>3, EnterTypeOK, FinishTypeOK DEF confirmUpdate
  <2>5. TablesTypeOK'
    BY <1>5, <2>2, BookingUpdateTypeOK, UntouchedTypeOK DEF confirmUpdate
  <2> QED BY <1>5, <2>4, <2>5, UntouchedTypeOK DEF confirmUpdate
<1>6. CASE confirmMailBooking(r)
  <2>1. RequestsTypeOK'
    BY <1>6, GotoTypeOK
    DEF confirmMailBooking, at, Pcs, NoBookingPcs, PaymentPcs, IntentPcs,
        ConfirmPcs, FailedPcs
  <2> QED BY <1>6, <2>1, AddTypeOK, UntouchedTypeOK
          DEF confirmMailBooking, MailJobs
<1>7. CASE confirmMailPayment(r)
  <2>1. RequestsTypeOK'
    BY <1>7, GotoTypeOK
    DEF confirmMailPayment, at, Pcs, NoBookingPcs, PaymentPcs, IntentPcs,
        ConfirmPcs, FailedPcs
  <2> QED BY <1>7, <2>1, AddTypeOK, UntouchedTypeOK
          DEF confirmMailPayment, MailJobs
<1>8. CASE webhookMail(r)
  <2>1. RequestsTypeOK'
    BY <1>8, GotoTypeOK
    DEF webhookMail, at, Pcs, NoBookingPcs, PaymentPcs, IntentPcs, ConfirmPcs,
        FailedPcs
  <2> QED BY <1>8, <2>1, AddTypeOK, UntouchedTypeOK DEF webhookMail, MailJobs
<1>9. CASE webhookAnswer(r)
  <2>1. req[r].intent \in Intents
    BY <1>9, RequestCarries
    DEF webhookAnswer, at, NoBookingPcs, PaymentPcs, IntentPcs, ConfirmPcs,
        FailedPcs
  <2>2. StripeTypeOK'
    BY <1>9, <2>1, AckTypeOK DEF webhookAnswer, EventTypes
  <2> QED BY <1>9, <2>2, FinishTypeOK, UntouchedTypeOK DEF webhookAnswer
<1> QED
  BY <1>1, <1>2, <1>3, <1>4, <1>5, <1>6, <1>7, <1>8, <1>9 DEF Confirm

LEMMA FailedTypeOK ==
  ASSUME TypeOK, NEW r \in Workers, Failed(r)
  PROVE  TypeOK'
<1> USE DEF TypeOK
<1>1. req[r].id \in BookingIds /\ req[r].intent \in Intents
  BY RequestCarries
  DEF Failed, failedUpdate, failedAnswer, at, NoBookingPcs, PaymentPcs,
      FailedPcs
<1>2. CASE failedUpdate(r)
  <2>1. [bookings[req[r].id] EXCEPT !.status = "PENDING_PAYMENT"] \in Booking
    BY <1>1 DEF TablesTypeOK, Booking, BookingStatus
  <2>2. TablesTypeOK'
    BY <1>2, <2>1, BookingUpdateTypeOK DEF failedUpdate
  <2>3. RequestsTypeOK'
    BY <1>2, GotoTypeOK
    DEF failedUpdate, at, Pcs, NoBookingPcs, PaymentPcs, IntentPcs, ConfirmPcs,
        FailedPcs
  <2> QED BY <1>2, <2>2, <2>3, UntouchedTypeOK DEF failedUpdate
<1>3. CASE failedAnswer(r)
  <2>1. StripeTypeOK'
    BY <1>1, <1>3, AckTypeOK DEF failedAnswer, EventTypes
  <2> QED BY <1>3, <2>1, FinishTypeOK, UntouchedTypeOK DEF failedAnswer
<1> QED BY <1>2, <1>3 DEF Failed

LEMMA CancelTypeOK ==
  ASSUME TypeOK, NEW r \in Workers, Cancel(r)
  PROVE  TypeOK'
<1> USE DEF TypeOK
<1>1. CASE cancelProviderEvent(r)
  <2>1. req[r] \in RequestRecord /\ req[r].id \in BookingIds
    BY <1>1, RequestCarries DEF cancelProviderEvent, at, NoBookingPcs
  <2>2. [req[r] EXCEPT !.pc = "cancel:clientEvent", !.providerEvent = null]
          \in Request
    <3>1. [req[r] EXCEPT !.pc = "cancel:clientEvent", !.providerEvent = null]
            \in RequestRecord
      BY <2>1 DEF RequestRecord, Pcs, FailedPcs
    <3> QED BY <2>1, <3>1
            DEF Request, RequestRecord, PaymentPcs, IntentPcs, ConfirmPcs,
                FailedPcs
  <2>3. RequestsTypeOK'
    BY <1>1, <2>2, EnterTypeOK DEF cancelProviderEvent
  <2>4. CalendarTypeOK'
    BY <1>1, CalendarDeleteTypeOK, UntouchedTypeOK DEF cancelProviderEvent
  <2> QED BY <1>1, <2>3, <2>4, UntouchedTypeOK DEF cancelProviderEvent
<1>2. CASE cancelClientEvent(r)
  <2>1. req[r] \in RequestRecord /\ req[r].id \in BookingIds
    BY <1>2, RequestCarries DEF cancelClientEvent, at, NoBookingPcs
  <2>2. [req[r] EXCEPT !.pc = "cancel:update", !.clientEvent = null]
          \in Request
    <3>1. [req[r] EXCEPT !.pc = "cancel:update", !.clientEvent = null]
            \in RequestRecord
      BY <2>1 DEF RequestRecord, Pcs, FailedPcs
    <3> QED BY <2>1, <3>1
            DEF Request, RequestRecord, PaymentPcs, IntentPcs, ConfirmPcs,
                FailedPcs
  <2>3. RequestsTypeOK'
    BY <1>2, <2>2, EnterTypeOK DEF cancelClientEvent
  <2>4. CalendarTypeOK'
    BY <1>2, CalendarDeleteTypeOK, UntouchedTypeOK DEF cancelClientEvent
  <2> QED BY <1>2, <2>3, <2>4, UntouchedTypeOK DEF cancelClientEvent
<1>3. CASE cancelUpdate(r)
  <2>1. req[r] \in RequestRecord /\ req[r].id \in BookingIds
    BY <1>3, RequestCarries DEF cancelUpdate, at, NoBookingPcs
  <2>2. [bookings[req[r].id] EXCEPT !.status = "CANCELLED",
           !.providerGoogleEventId = null, !.clientGoogleEventId = null]
          \in Booking
    <3>1. bookings[req[r].id] \in Booking
      BY <2>1 DEF TablesTypeOK
    <3> QED BY <3>1 DEF Booking, BookingStatus
  <2>3. TablesTypeOK'
    BY <1>3, <2>2, BookingUpdateTypeOK DEF cancelUpdate
  <2>4. RequestsTypeOK'
    BY <1>3, GotoTypeOK
    DEF cancelUpdate, at, Pcs, NoBookingPcs, PaymentPcs, IntentPcs, ConfirmPcs,
        FailedPcs
  <2> QED BY <1>3, <2>3, <2>4, UntouchedTypeOK DEF cancelUpdate
<1>4. CASE cancelMail(r)
  BY <1>4, AddTypeOK, FinishTypeOK, UntouchedTypeOK DEF cancelMail, MailJobs
<1> QED BY <1>1, <1>2, <1>3, <1>4 DEF Cancel

LEMMA CompleteTypeOK ==
  ASSUME TypeOK, NEW r \in Workers, Complete(r)
  PROVE  TypeOK'
<1> USE DEF TypeOK
<1>1. req[r].id \in BookingIds
  BY RequestCarries DEF Complete, completeUpdate, at, NoBookingPcs
<1>2. [bookings[req[r].id] EXCEPT !.status = "COMPLETED",
                                  !.completedAt = TRUE] \in Booking
  <2>1. bookings[req[r].id] \in Booking
    BY <1>1 DEF TablesTypeOK
  <2> QED BY <2>1 DEF Booking, BookingStatus
<1>3. TablesTypeOK'
  BY <1>2, BookingUpdateTypeOK DEF Complete, completeUpdate
<1> QED BY <1>3, FinishTypeOK, UntouchedTypeOK DEF Complete, completeUpdate

LEMMA RescheduleTypeOK ==
  ASSUME TypeOK, NEW r \in Workers, Reschedule(r)
  PROVE  TypeOK'
<1> USE DEF TypeOK
<1>1. CASE rescheduleCheck(r)
  <2>1. RequestsTypeOK'
    BY <1>1, GotoTypeOK, FinishTypeOK
    DEF rescheduleCheck, at, Pcs, NoBookingPcs, PaymentPcs, IntentPcs,
        ConfirmPcs, FailedPcs
  <2> QED BY <1>1, <2>1, UntouchedTypeOK DEF rescheduleCheck
<1>2. CASE rescheduleUpdate(r)
  <2>1. req[r] \in RequestRecord /\ req[r].id \in BookingIds
    BY <1>2, RequestCarries DEF rescheduleUpdate, at, NoBookingPcs
  <2>2. RequestsTypeOK'
    BY <1>2, GotoTypeOK, FinishTypeOK
    DEF rescheduleUpdate, at, Pcs, NoBookingPcs, PaymentPcs, IntentPcs,
        ConfirmPcs, FailedPcs
  <2>3. [bookings[req[r].id] EXCEPT !.startTime = req[r].startTime,
                                    !.endTime = req[r].endTime] \in Booking
    <3>1. bookings[req[r].id] \in Booking
      BY <2>1 DEF TablesTypeOK
    <3>2. req[r].startTime \in Nat /\ req[r].endTime \in Nat
      BY <2>1 DEF RequestRecord
    <3> QED BY <3>1, <3>2 DEF Booking
  <2>4. TablesTypeOK'
    BY <1>2, <2>3, BookingUpdateTypeOK, UntouchedTypeOK DEF rescheduleUpdate
  <2> QED BY <1>2, <2>2, <2>4, UntouchedTypeOK DEF rescheduleUpdate
<1>3. CASE rescheduleReadBack(r)
  <2>1. req[r] \in RequestRecord /\ req[r].id \in BookingIds
    BY <1>3, RequestCarries DEF rescheduleReadBack, at, NoBookingPcs
  <2>2. bookings[req[r].id].startTime \in Nat
    BY <2>1 DEF TablesTypeOK, Booking
  <2>3. [req[r] EXCEPT !.pc = "reschedule:providerEvent",
           !.startTime = bookings[req[r].id].startTime,
           !.endTime = 0, !.providerId = null] \in Request
    <3>1. [req[r] EXCEPT !.pc = "reschedule:providerEvent",
             !.startTime = bookings[req[r].id].startTime,
             !.endTime = 0, !.providerId = null] \in RequestRecord
      BY <2>1, <2>2 DEF RequestRecord, Pcs, FailedPcs
    <3> QED BY <2>1, <3>1
            DEF Request, RequestRecord, PaymentPcs, IntentPcs, ConfirmPcs,
                FailedPcs
  <2> QED BY <1>3, <2>3, EnterTypeOK, UntouchedTypeOK DEF rescheduleReadBack
<1>4. CASE rescheduleProviderEvent(r)
  <2>1. req[r] \in RequestRecord /\ req[r].id \in BookingIds
    BY <1>4, RequestCarries DEF rescheduleProviderEvent, at, NoBookingPcs
  <2>2. RequestsTypeOK'
    BY <1>4, GotoTypeOK
    DEF rescheduleProviderEvent, at, Pcs, NoBookingPcs, PaymentPcs, IntentPcs,
        ConfirmPcs, FailedPcs
  <2>3. CalendarTypeOK'
    BY <1>4, <2>1, CalendarUpdateTypeOK, UntouchedTypeOK
    DEF rescheduleProviderEvent, RequestRecord
  <2> QED BY <1>4, <2>2, <2>3, UntouchedTypeOK DEF rescheduleProviderEvent
<1>5. CASE rescheduleClientEvent(r)
  <2>1. req[r] \in RequestRecord /\ req[r].id \in BookingIds
    BY <1>5, RequestCarries DEF rescheduleClientEvent, at, NoBookingPcs
  <2>2. CalendarTypeOK'
    BY <1>5, <2>1, CalendarUpdateTypeOK, UntouchedTypeOK
    DEF rescheduleClientEvent, RequestRecord
  <2> QED BY <1>5, <2>2, FinishTypeOK, UntouchedTypeOK
          DEF rescheduleClientEvent
<1> QED BY <1>1, <1>2, <1>3, <1>4, <1>5 DEF Reschedule

LEMMA ReviewTypeOK ==
  ASSUME TypeOK, NEW r \in Workers, Review(r)
  PROVE  TypeOK'
<1> USE DEF TypeOK
<1>1. CASE reviewFind(r)
  <2>1. RequestsTypeOK'
    BY <1>1, GotoTypeOK, FinishTypeOK
    DEF reviewFind, at, Pcs, NoBookingPcs, PaymentPcs, IntentPcs, ConfirmPcs,
        FailedPcs
  <2> QED BY <1>1, <2>1, UntouchedTypeOK DEF reviewFind
<1>2. CASE reviewInsert(r)
  <2>1. req[r] \in RequestRecord /\ req[r].id \in BookingIds
    BY <1>2, RequestCarries DEF reviewInsert, at, NoBookingPcs
  <2>2. TablesTypeOK'
    BY <1>2, <2>1 DEF reviewInsert, TablesTypeOK
  <2> QED BY <1>2, <2>2, FinishTypeOK, UntouchedTypeOK DEF reviewInsert
<1> QED BY <1>1, <1>2 DEF Review

LEMMA CustomerTypeOK ==
  ASSUME TypeOK, Customer
  PROVE  TypeOK'
<1> USE DEF TypeOK
<1>1. PICK i \in Intents : pay(i) \/ decline(i)
  BY DEF Customer
<1>2. intents[i] \in PaymentIntent
  BY DEF StripeTypeOK
<1>3. /\ [intents[i] EXCEPT !.status = "succeeded"] \in PaymentIntent
      /\ [intents[i] EXCEPT !.declined = TRUE] \in PaymentIntent
  BY <1>2 DEF PaymentIntent, IntentStatus
<1>4. StripeTypeOK'
  BY <1>1, <1>3 DEF pay, decline, StripeTypeOK
<1> QED BY <1>4, UntouchedTypeOK DEF Customer

LEMMA AdminTypeOK ==
  ASSUME TypeOK, Admin
  PROVE  TypeOK'
<1> USE DEF TypeOK
<1>1. NoPayment \in Payment
  BY DEF NoPayment, Payment
<1>2. TablesTypeOK'
  BY <1>1 DEF Admin, paymentRemove, reviewRemove, TablesTypeOK
<1> QED BY <1>2, UntouchedTypeOK DEF Admin, paymentRemove, reviewRemove

LEMMA FaultTypeOK ==
  ASSUME TypeOK, crash \/ \E r \in Workers : fail(r)
  PROVE  TypeOK'
<1> USE DEF TypeOK
<1>1. RequestsTypeOK'
  BY IdleIsRequest DEF crash, fail, RequestsTypeOK
<1> QED BY <1>1, UntouchedTypeOK DEF crash, fail

LEMMA TickTypeOK ==
  ASSUME TypeOK, tick
  PROVE  TypeOK'
<1> USE DEF TypeOK
<1>1. RequestsTypeOK'
  BY DEF tick, process, RequestsTypeOK
<1> QED BY <1>1, UntouchedTypeOK DEF tick

LEMMA InitTypeOK ==
  ASSUME Init
  PROVE  TypeOK
<1>1. TablesTypeOK
  BY NoBookingIsBooking
  DEF Init, TablesInit, TablesTypeOK, NoPayment, Payment
<1>2. StripeTypeOK
  BY DEF Init, StripeInit, StripeTypeOK, NoIntent, PaymentIntent, IntentStatus
<1>3. CalendarTypeOK
  BY DEF Init, CalendarInit, CalendarTypeOK, NoEvent, Event, Parties
<1>4. MailTypeOK
  BY DEF Init, MailInit, MailTypeOK
<1>5. RequestsTypeOK
  BY IdleIsRequest DEF Init, RequestsInit, RequestsTypeOK
<1> QED BY <1>1, <1>2, <1>3, <1>4, <1>5 DEF TypeOK

---------------------------------------------------------------------------
LEMMA NextTypeOK ==
  ASSUME TypeOK, [Next]_vars
  PROVE  TypeOK'
<1>1. ASSUME NEW r \in Workers, Arrive(r) \/ Deliver(r) \/ Proceed(r)
      PROVE  TypeOK'
  BY <1>1, ArriveTypeOK, DeliverTypeOK, CreateTypeOK, IntentTypeOK,
     ConfirmTypeOK, FailedTypeOK, CancelTypeOK, CompleteTypeOK,
     RescheduleTypeOK, ReviewTypeOK
  DEF Proceed
<1>2. CASE UNCHANGED vars
  BY <1>2, UntouchedTypeOK DEF TypeOK, vars
<1> QED BY <1>1, <1>2, CustomerTypeOK, AdminTypeOK, FaultTypeOK,
           TickTypeOK DEF Next

\* Every variable keeps its type in every reachable state; in particular an
\* open request past its first guards is about a booking that exists, and one
\* that handles a payment about one of Stripe's intents.
THEOREM TypeCorrect == Spec => []TypeOK
<1>1. TypeOK /\ [Next]_vars => TypeOK'
  BY NextTypeOK
<1> QED BY <1>1, InitTypeOK, PTL DEF Spec
=============================================================================
