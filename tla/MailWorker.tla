------------------------------ MODULE MailWorker ------------------------------
(***************************************************************************)
(* The back end with mail.processor.ts behind it: the worker of the queue  *)
(* takes one job at a time, oldest first, reads the booking as it is by    *)
(* then, and hands a letter to the SMTP server.  Errors of that server are *)
(* swallowed: the job is done and there is no letter.  A job that throws   *)
(* is not tried again; one that a restart interrupts is found stalled      *)
(* later and goes back to the head of the queue (a first time; BullMQ      *)
(* gives up at the second, which one fault does not reach).                *)
(***************************************************************************)
EXTENDS Backend, Sequences, SequencesExt

VARIABLES
  queue,    \* the jobs that wait, oldest first
  job,      \* the job being processed
  stalled,  \* jobs a restart has interrupted
  failed,   \* BullMQ's set of failed jobs
  refused,  \* history: jobs whose letter the SMTP server has refused
  letters   \* the kinds of letters sent about a booking, and its lastWord

mailVars == <<vars, queue, job, stalled, failed, refused, letters>>

Job == [bookingId : BookingIds, name : MailJobs]

\* isPaid: whether the booking that was read came with a payment row.
NoJob == [bookingId |-> null, name |-> "none", pc |-> "none", isPaid |-> FALSE]

begun(j) ==
  [bookingId |-> j.bookingId, name |-> j.name, pc |-> "read", isPaid |-> FALSE]

data_withState(p) == p

data(p) == [bookingId |-> p.bookingId, name |-> p.name]

---------------------------------------------------------------------------
\* The worker

takeJob_newestFirst ==
  /\ job = NoJob
  /\ queue # <<>>
  /\ job' = begun(Last(queue))
  /\ queue' = Front(queue)
  /\ UNCHANGED <<vars, stalled, failed, refused, letters>>

takeJob ==
  /\ job = NoJob
  /\ queue # <<>>
  /\ job' = begun(Head(queue))
  /\ queue' = Tail(queue)
  /\ UNCHANGED <<vars, stalled, failed, refused, letters>>

\* getFullBooking; no booking is ever deleted.
readBooking ==
  /\ job.pc = "read"
  /\ job' = [job EXCEPT !.pc = "send", !.isPaid = isPaymentRow(job.bookingId)]
  /\ UNCHANGED <<vars, queue, stalled, failed, refused, letters>>

\* The database is out of reach: process throws.
readFails ==
  /\ job.pc = "read"
  /\ faults < MaxFaults
  /\ faults' = faults + 1
  /\ failed' = failed \cup {data(job)}
  /\ job' = NoJob
  /\ UNCHANGED <<tables, stripe, calendar, mail, req, now, queue, stalled,
                 refused, letters>>

\* sendPaymentConfirmed has nothing to say without a payment row.
worthALetter_settledRow(p) ==
  p.name = "payment-confirmed" => payments[p.bookingId].status = "SUCCEEDED"

worthALetter(p) == p.name = "payment-confirmed" => p.isPaid

\* A letter about a payment does not say what has become of the booking.
sent(letter, name) ==
  [kinds |-> letter.kinds \cup {name},
   lastWord |-> IF name = "payment-confirmed" THEN letter.lastWord ELSE name]

sendLetter ==
  /\ job.pc = "send"
  /\ letters' = IF worthALetter(job)
                THEN [letters EXCEPT ![job.bookingId] = sent(@, job.name)]
                ELSE letters
  /\ job' = NoJob
  /\ UNCHANGED <<vars, queue, stalled, failed, refused>>

\* sendEmail logs the error and returns as if the letter had been sent.
sendRefused ==
  /\ job.pc = "send"
  /\ worthALetter(job)
  /\ faults < MaxFaults
  /\ faults' = faults + 1
  /\ refused' = refused \cup {data(job)}
  /\ job' = NoJob
  /\ UNCHANGED <<tables, stripe, calendar, mail, req, now, queue, stalled,
                 failed, letters>>

retryStalled ==
  /\ \E j \in stalled : /\ queue' = <<j>> \o queue
                        /\ stalled' = stalled \ {j}
  /\ UNCHANGED <<vars, job, failed, refused, letters>>

Process == takeJob \/ readBooking \/ sendLetter

---------------------------------------------------------------------------
\* The handlers, and the process both run in

Step ==
  \/ \E r \in Workers : Arrive(r) \/ Deliver(r) \/ Proceed(r) \/ fail(r)
  \/ Customer
  \/ Admin
  \/ tick

\* The job a step of a handler adds, if it adds one, is queued last.
enqueue ==
  /\ \/ mail' = mail /\ UNCHANGED queue
     \/ \E j \in Job :
          /\ mail' = [mail EXCEPT ![j.bookingId][j.name] = @ + 1]
          /\ queue' = Append(queue, j)
  /\ UNCHANGED <<job, stalled, failed, refused, letters>>

restart ==
  /\ faults < MaxFaults
  /\ job # NoJob \/ \E r \in Workers : req[r] # Idle
  /\ faults' = faults + 1
  /\ req' = [r \in Workers |-> Idle]
  /\ stalled' = stalled \cup IF job = NoJob THEN {} ELSE {data(job)}
  /\ job' = NoJob
  /\ UNCHANGED <<tables, stripe, calendar, mail, now, queue, failed, refused,
                 letters>>

MailerInit ==
  /\ Init
  /\ queue = <<>>
  /\ job = NoJob
  /\ stalled = {}
  /\ failed = {}
  /\ refused = {}
  /\ letters = [b \in BookingIds |-> [kinds |-> {}, lastWord |-> "none"]]

MailerNext ==
  \/ Step /\ enqueue
  \/ Process \/ retryStalled
  \/ readFails \/ sendRefused \/ restart

(***************************************************************************)
(* The fairness of Backend, and a worker that BullMQ wakes as long as      *)
(* there is a job and that looks for stalled jobs periodically.            *)
(***************************************************************************)
MailerSpec ==
  /\ MailerInit /\ [][MailerNext]_mailVars
  /\ WF_mailVars(Process) /\ WF_mailVars(retryStalled)
  /\ \A r \in Workers : WF_mailVars(Proceed(r) /\ enqueue)
  /\ \A i \in Intents :
       WF_mailVars(\E r \in Workers : paymentSucceeded(r, i) /\ enqueue)

MailerTypeOK ==
  /\ queue \in Seq(Job)
  /\ \/ job = NoJob
     \/ job \in [bookingId : BookingIds, name : MailJobs,
                 pc : {"read", "send"}, isPaid : BOOLEAN]
  /\ stalled \subseteq Job
  /\ failed \subseteq Job
  /\ refused \subseteq Job
  /\ letters \in [BookingIds -> [kinds : SUBSET MailJobs,
                               lastWord : MailJobs \cup {"none"}]]

---------------------------------------------------------------------------
\* Properties

waiting(j) ==
  \/ \E n \in DOMAIN queue : queue[n] = j
  \/ job # NoJob /\ data(job) = j
  \/ j \in stalled

written(j) == j.name \in letters[j.bookingId].kinds

\* A mail that a handler has ordered is on its way or sent, through restarts
\* and whatever happens to the booking meanwhile, unless its job has failed or
\* the SMTP server has refused the letter: the payment row that the letter
\* about a payment needs is there by the time the job is processed, if only as
\* PENDING, unless an admin has deleted it.
NoMailLost ==
  \A j \in Job :
    mail[j.bookingId][j.name] > 0 =>
      \/ waiting(j) \/ written(j) \/ j \in failed \/ j \in refused
      \/ j.name = "payment-confirmed" /\ j.bookingId \in removed

\* When requests are served one at a time, the last thing a client has been
\* told about a booking is what has become of it, once all is quiet: the
\* handlers order the mail after the update and the worker keeps the order.
LastLetterAgrees ==
  /\ Quiescent
  /\ faults = 0
  /\ \A j \in Job : ~waiting(j)
  => \A b \in BookingIds :
       /\ served(b) => letters[b].lastWord = "booking-confirmation"
       /\ bookings[b].status = "CANCELLED" =>
            letters[b].lastWord = "cancellation"

\* Who has paid is sent the confirmation, unless the booking is cancelled or a
\* fault intervenes (README.md: e-mails for events such as the confirmation of
\* a booking).
CustomerIsTold ==
  \A b \in BookingIds, i \in Intents :
    (bookings[b].paymentIntentId = i /\ paid(i)) ~>
      \/ "booking-confirmation" \in letters[b].kinds
      \/ bookings[b].status = "CANCELLED"
      \/ faults > 0
=============================================================================
