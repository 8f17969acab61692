-------------------------------- MODULE Stripe --------------------------------
(***************************************************************************)
(* Stripe as the code in src/ uses it: payment intents, the customer who   *)
(* pays with the client secret, and webhook events delivered at least      *)
(* once, in any order, until one delivery is answered with 200.            *)
(***************************************************************************)
EXTENDS Tables

CONSTANT MaxDups   \* bound: deliveries beyond the retries of unanswered events

ASSUME StripeAssumption == MaxDups \in Nat

VARIABLES
  intents,  \* the intents, by id
  acked,    \* <<intent, event type>> answered with 200
  dups      \* superfluous deliveries made so far

stripe == <<intents, acked, dups>>

EventTypes == {"succeeded", "payment_failed"}

\* "created": exists at Stripe; "issued": the client holds its secret.
IntentStatus == {"ABSENT", "created", "issued", "succeeded"}

PaymentIntent ==
  [status : IntentStatus,
   bookingId : BookingIds \cup {null},  \* metadata.bookingId
   declined : BOOLEAN]                  \* an attempt to pay has failed

NoIntent == [status |-> "ABSENT", bookingId |-> null, declined |-> FALSE]

paid(i) == i \in Intents /\ intents[i].status = "succeeded"

\* The events Stripe has generated.
emitted(i, type) ==
  \/ type = "succeeded" /\ intents[i].status = "succeeded"
  \/ type = "payment_failed" /\ intents[i].declined

\* stripe.paymentIntents.create
paymentIntentsCreate(i, b) ==
  /\ intents[i].status = "ABSENT"
  /\ \A j \in Intents : j < i => intents[j].status # "ABSENT"
  /\ intents' = [intents EXCEPT ![i] =
                   [status |-> "created", bookingId |-> b, declined |-> FALSE]]
  /\ UNCHANGED <<acked, dups>>

\* The response of the API puts the client secret in the client's hands.
issueSecret(i) ==
  /\ intents' = [intents EXCEPT ![i].status =
                   IF @ = "created" THEN "issued" ELSE @]
  /\ UNCHANGED <<acked, dups>>

\* The client pays; nothing ties this to the state of the booking.
pay(i) ==
  /\ intents[i].status = "issued"
  /\ intents' = [intents EXCEPT ![i].status = "succeeded"]
  /\ UNCHANGED <<acked, dups>>

\* An attempt to pay is declined; the client may try again.
decline(i) ==
  /\ intents[i].status = "issued"
  /\ ~intents[i].declined
  /\ intents' = [intents EXCEPT ![i].declined = TRUE]
  /\ UNCHANGED <<acked, dups>>

\* A delivery of an event while inFlight tells whether another one is being
\* handled.  Retries of an unanswered event are free, all others are counted.
deliver(i, type, inFlight) ==
  /\ emitted(i, type)
  /\ IF <<i, type>> \notin acked /\ ~inFlight
       THEN dups' = dups
       ELSE dups < MaxDups /\ dups' = dups + 1
  /\ UNCHANGED <<intents, acked>>

\* res.status(200)
ack(i, type) ==
  /\ acked' = acked \cup {<<i, type>>}
  /\ UNCHANGED <<intents, dups>>

StripeInit ==
  /\ intents = [i \in Intents |-> NoIntent]
  /\ acked = {}
  /\ dups = 0

StripeTypeOK ==
  /\ intents \in [Intents -> PaymentIntent]
  /\ acked \subseteq Intents \X EventTypes
  /\ dups \in Nat
=============================================================================
