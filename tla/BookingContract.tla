--------------------------- MODULE BookingContract ---------------------------
(***************************************************************************)
(* What the handlers of booking.service.ts promise when one request is     *)
(* served at a time, nothing fails and no payment is declined: an agenda   *)
(* in which no two live appointments of a provider overlap, and            *)
(* appointments that are made, paid, confirmed and completed in this order *)
(* or cancelled on the way, and then stay closed.                          *)
(***************************************************************************)
EXTENDS Integers

CONSTANTS Bookings, Providers, Times

VARIABLES
  status,    \* how far each appointment has come
  provider,  \* whose agenda it is in
  start,     \* from when
  end,       \* until when
  settled    \* the appointments that have been paid for

contract == <<status, provider, start, end, settled>>

Open == {"PENDING_PAYMENT", "CONFIRMED"}
Live == Open \cup {"COMPLETED"}

Init ==
  /\ status = [b \in Bookings |-> "ABSENT"]
  /\ provider = [b \in Bookings |-> 0]
  /\ start = [b \in Bookings |-> 0]
  /\ end = [b \in Bookings |-> 0]
  /\ settled = {}

\* Nothing else in the agenda of p overlaps the time from s to e.
free(b, p, s, e) ==
  \A a \in Bookings \ {b} :
    status[a] \in Live /\ provider[a] = p => end[a] <= s \/ e <= start[a]

Make(b, p, s, e) ==
  /\ status[b] = "ABSENT"
  /\ s < e
  /\ free(b, p, s, e)
  /\ status' = [status EXCEPT ![b] = "PENDING_PAYMENT"]
  /\ provider' = [provider EXCEPT ![b] = p]
  /\ start' = [start EXCEPT ![b] = s]
  /\ end' = [end EXCEPT ![b] = e]
  /\ UNCHANGED settled

Settle(b) ==
  /\ status[b] # "ABSENT"
  /\ settled' = settled \cup {b}
  /\ UNCHANGED <<status, provider, start, end>>

advance(b, from, to) ==
  /\ status[b] \in from
  /\ status' = [status EXCEPT ![b] = to]
  /\ UNCHANGED <<provider, start, end, settled>>

Confirm(b) == b \in settled /\ advance(b, {"PENDING_PAYMENT"}, "CONFIRMED")

Complete(b) == advance(b, {"CONFIRMED"}, "COMPLETED")

Cancel(b) == advance(b, Open, "CANCELLED")

Move(b, s, e) ==
  /\ status[b] \in Open
  /\ s < e
  /\ free(b, provider[b], s, e)
  /\ start' = [start EXCEPT ![b] = s]
  /\ end' = [end EXCEPT ![b] = e]
  /\ UNCHANGED <<status, provider, settled>>

Next ==
  \E b \in Bookings :
    \/ \E s, e \in Times :
         (\E p \in Providers : Make(b, p, s, e)) \/ Move(b, s, e)
    \/ Settle(b) \/ Confirm(b) \/ Complete(b) \/ Cancel(b)

Spec == Init /\ [][Next]_contract
=============================================================================
