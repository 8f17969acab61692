---------------------------- MODULE BookingLedger ----------------------------
(***************************************************************************)
(* What the booking back end promises in any interleaving of its requests, *)
(* webhooks and faults: a book of engagements, each at a time its provider *)
(* has in no other engagement of the book, and a service that is only      *)
(* rendered once it has been paid for.                                     *)
(***************************************************************************)
CONSTANT Bookings   \* the engagements the book can hold

VARIABLES
  stage,     \* how far each engagement has come
  provider,  \* who is engaged
  time,      \* the time he begins
  settled    \* the engagements that have been paid for

ledger == <<stage, provider, time, settled>>

Init ==
  /\ stage = [b \in Bookings |-> "none"]
  /\ settled = {}

\* No other engagement has p at time t, not even a cancelled one.
vacant(b, p, t) ==
  \A a \in Bookings \ {b} :
    stage[a] # "none" /\ provider[a] = p => time[a] # t

\* Only engagement b may change in the columns that are not listed.
Book(b) ==
  /\ stage[b] = "none"
  /\ stage' = [stage EXCEPT ![b] = "open"]
  /\ provider' = [provider EXCEPT ![b] = provider'[b]]
  /\ time' = [time EXCEPT ![b] = time'[b]]
  /\ vacant(b, provider'[b], time'[b])
  /\ UNCHANGED settled

Move(b) ==
  /\ stage[b] # "none"
  /\ time' = [time EXCEPT ![b] = time'[b]]
  /\ vacant(b, provider[b], time'[b])
  /\ UNCHANGED <<stage, provider, settled>>

\* The customer pays, whatever has become of the engagement.
Settle(b) ==
  /\ stage[b] # "none"
  /\ settled' = settled \cup {b}
  /\ UNCHANGED <<stage, provider, time>>

Serve(b) ==
  /\ stage[b] # "none"
  /\ b \in settled
  /\ stage' = [stage EXCEPT ![b] = "served"]
  /\ UNCHANGED <<provider, time, settled>>

\* The engagement is cancelled, or falls back because a payment failed.
Withdraw(b) ==
  /\ stage[b] # "none"
  /\ \E to \in {"cancelled", "open"} :
       stage' = [stage EXCEPT ![b] = to]
  /\ UNCHANGED <<provider, time, settled>>

Next ==
  \E b \in Bookings :
    Book(b) \/ Move(b) \/ Settle(b) \/ Serve(b) \/ Withdraw(b)

Spec == Init /\ [][Next]_ledger
=============================================================================
