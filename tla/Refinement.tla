------------------------------ MODULE Refinement ------------------------------
(***************************************************************************)
(* The back end seen through its promises: how the tables and Stripe stand *)
(* for the state of the two abstract specifications.                       *)
(***************************************************************************)
EXTENDS Backend

settledBookings == {b \in BookingIds : paidFor(b)}

stageOf(b) ==
  CASE bookings[b].status = "ABSENT"          -> "none"
    [] bookings[b].status = "PENDING_PAYMENT" -> "open"
    [] bookings[b].status = "CANCELLED"       -> "cancelled"
    [] OTHER                                  -> "served"

\* When an appointment may begin or end.
Times == StartTimes \cup {s + d : s \in StartTimes, d \in Durations}

Ledger == INSTANCE BookingLedger WITH
  Bookings <- BookingIds,
  stage <- [b \in BookingIds |-> stageOf(b)],
  provider <- [b \in BookingIds |-> bookings[b].providerId],
  time <- [b \in BookingIds |-> bookings[b].startTime],
  settled <- settledBookings

Contract == INSTANCE BookingContract WITH
  Bookings <- BookingIds,
  Times <- Times,
  status <- [b \in BookingIds |-> bookings[b].status],
  provider <- [b \in BookingIds |-> bookings[b].providerId],
  start <- [b \in BookingIds |-> bookings[b].startTime],
  end <- [b \in BookingIds |-> bookings[b].endTime],
  settled <- settledBookings

\* However requests, webhooks and faults interleave, the back end keeps the
\* ledger: every statement of every handler that writes bookings, and every
\* payment, is one entry of the book, and everything else leaves it alone.
LedgerKept == Ledger!Spec

\* With one request at a time, every event delivered once and no payment
\* declined, it keeps the contract: the handlers' checks are then as good as
\* locks.  (A payment_failed event writes the status without a check.)
ContractKept == Contract!Spec
=============================================================================
