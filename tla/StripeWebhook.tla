---------------------------- MODULE StripeWebhook ----------------------------
(***************************************************************************)
(* webhook-stripe.service.ts and its controller: a delivery is answered    *)
(* with 200 when its handler returns, with 500 when it throws; Stripe      *)
(* delivers an event again until it has been answered with 200.  A restart *)
(* may come between the last statement of a handler and its answer.        *)
(***************************************************************************)
EXTENDS BookingService

paymentSucceeded_ackFirst(r, i) ==
  /\ at(r, "idle")
  /\ emitted(i, "succeeded")
  /\ <<i, "succeeded">> \notin acked
  /\ ack(i, "succeeded")
  /\ confirmByPaymentIntent(r, i)
  /\ UNCHANGED <<tables, calendar, mail, now>>

\* payment_intent.succeeded arrives.
paymentSucceeded(r, i) ==
  /\ at(r, "idle")
  /\ deliver(i, "succeeded", inFlight(i, "succeeded"))
  /\ confirmByPaymentIntent(r, i)
  /\ UNCHANGED <<tables, calendar, mail, now>>

\* The rest of handlePaymentSucceeded once confirmByPaymentIntent has returned.
webhookMail(r) ==
  /\ at(r, "webhook:mail")
  /\ add(req[r].id, "payment-confirmed")
  /\ goto(r, "webhook:answer")
  /\ UNCHANGED <<tables, stripe, calendar, now>>

webhookAnswer(r) ==
  /\ at(r, "webhook:answer")
  /\ ack(req[r].intent, "succeeded")
  /\ finish(r)
  /\ UNCHANGED <<tables, calendar, mail, now>>

\* payment_intent.payment_failed arrives; without a booking there is nothing
\* to do and the delivery is answered at once.
paymentFailed(r, i) ==
  /\ at(r, "idle")
  /\ \/ \E b \in BookingIds :
          /\ bookings[b].paymentIntentId = i
          /\ deliver(i, "payment_failed", inFlight(i, "payment_failed"))
          /\ enter(r, [Idle EXCEPT !.pc = "failed:update", !.id = b,
                                   !.intent = i])
     \/ /\ \A b \in BookingIds : bookings[b].paymentIntentId # i
        /\ emitted(i, "payment_failed")
        /\ ack(i, "payment_failed")
        /\ UNCHANGED process
  /\ UNCHANGED <<tables, calendar, mail, now>>

\* The status is set whatever it has become since the lookup.
failedUpdate(r) ==
  /\ at(r, "failed:update")
  /\ bookingUpdate(req[r].id,
       [bookings[req[r].id] EXCEPT !.status = "PENDING_PAYMENT"])
  /\ goto(r, "failed:answer")
  /\ UNCHANGED <<stripe, calendar, mail, now>>

failedAnswer(r) ==
  /\ at(r, "failed:answer")
  /\ ack(req[r].intent, "payment_failed")
  /\ finish(r)
  /\ UNCHANGED <<tables, calendar, mail, now>>
=============================================================================
