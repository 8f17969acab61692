------------------------------ MODULE MailQueue ------------------------------
(***************************************************************************)
(* mail.queue.ts: the BullMQ queue 'mail', persistent in Redis.  What the  *)
(* booking handlers can tell is which jobs they have added, and how often. *)
(***************************************************************************)
EXTENDS Tables

VARIABLE mail   \* mail[b][job]: how many such jobs were added for booking b

MailJobs == {"booking-confirmation", "cancellation", "payment-confirmed"}

add(b, job) == mail' = [mail EXCEPT ![b][job] = @ + 1]

MailInit == mail = [b \in BookingIds |-> [job \in MailJobs |-> 0]]

MailTypeOK == mail \in [BookingIds -> [MailJobs -> Nat]]
=============================================================================
