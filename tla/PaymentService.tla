--------------------------- MODULE PaymentService ---------------------------
(***************************************************************************)
(* payment.service.ts: createPaymentIntent, reached by POST                *)
(* payment/create-intent and at the end of BookingService.create, and the  *)
(* admin's DELETE payment/:id.  PATCH payment/:id writes no modelled       *)
(* column.                                                                 *)
(***************************************************************************)
EXTENDS Requests

\* POST payment/create-intent: only the owner of the booking gets further.
createPaymentIntent(r, u, b) ==
  /\ at(r, "idle")
  /\ exists(b)
  /\ bookings[b].clientId = u
  /\ enter(r, [Idle EXCEPT !.pc = "intent:create", !.id = b])
  /\ UNCHANGED <<tables, stripe, calendar, mail, now>>

\* stripe.paymentIntents.create; it throws when no intent is left (MaxIntents).
intentCreate(r) ==
  /\ at(r, "intent:create")
  /\ \/ \E i \in Intents :
          /\ paymentIntentsCreate(i, req[r].id)
          /\ enter(r, [req[r] EXCEPT !.pc = "intent:payment", !.intent = i])
     \/ /\ \A i \in Intents : intents[i].status # "ABSENT"
        /\ finish(r)
        /\ UNCHANGED stripe
  /\ UNCHANGED <<tables, calendar, mail, now>>

intentPayment_ignoresConflict(r) ==
  /\ at(r, "intent:payment")
  /\ \/ paymentCreate(req[r].id, req[r].intent, "PENDING")
     \/ paymentTaken(req[r].id, req[r].intent) /\ UNCHANGED tables
  /\ goto(r, "intent:link")
  /\ UNCHANGED <<stripe, calendar, mail, now>>

isLatestBooking(b) ==
  /\ exists(b)
  /\ \A a \in BookingIds : a > b => ~exists(a)

intentPayment_latestBooking(r) ==
  /\ at(r, "intent:payment")
  /\ \E b \in BookingIds :
       isLatestBooking(b) /\ paymentCreate(b, req[r].intent, "PENDING")
  /\ goto(r, "intent:link")
  /\ UNCHANGED <<stripe, calendar, mail, now>>

\* payment.create with the default status; a unique violation ends the request.
intentPayment(r) ==
  /\ at(r, "intent:payment")
  /\ \/ /\ paymentCreate(req[r].id, req[r].intent, "PENDING")
        /\ goto(r, "intent:link")
     \/ /\ paymentTaken(req[r].id, req[r].intent)
        /\ finish(r)
        /\ UNCHANGED tables
  /\ UNCHANGED <<stripe, calendar, mail, now>>

intentLink_latestBooking(r) ==
  /\ at(r, "intent:link")
  /\ \E b \in BookingIds :
       /\ isLatestBooking(b)
       /\ bookingUpdate(b,
            [bookings[b] EXCEPT !.paymentIntentId = req[r].intent])
  /\ goto(r, "intent:respond")
  /\ UNCHANGED <<stripe, calendar, mail, now>>

\* booking.update({ data: { paymentIntentId } })
intentLink(r) ==
  /\ at(r, "intent:link")
  /\ bookingUpdate(req[r].id,
       [bookings[req[r].id] EXCEPT !.paymentIntentId = req[r].intent])
  /\ goto(r, "intent:respond")
  /\ UNCHANGED <<stripe, calendar, mail, now>>

\* The response carries the client secret.
intentRespond(r) ==
  /\ at(r, "intent:respond")
  /\ issueSecret(req[r].intent)
  /\ finish(r)
  /\ UNCHANGED <<tables, calendar, mail, now>>

\* DELETE payment/:id
paymentRemove(b) ==
  /\ isPaymentRow(b)
  /\ payments' = [payments EXCEPT ![b] = NoPayment]
  /\ removed' = removed \cup {b}
  /\ UNCHANGED <<bookings, reviews, stripe, calendar, mail, process, now>>
=============================================================================
