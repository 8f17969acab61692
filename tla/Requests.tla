------------------------------- MODULE Requests -------------------------------
(***************************************************************************)
(* The requests the Node.js process is serving.  A handler runs without    *)
(* interruption between two awaits, so a request is the place where it     *)
(* waits (pc: the statement to run next) and the local variables that are  *)
(* still needed.  Any number of requests may be open at once; an instance  *)
(* has one slot per open request.                                          *)
(***************************************************************************)
EXTENDS Stripe, GoogleCalendar, MailQueue

CONSTANTS
  Workers,    \* bound: the requests that can be open at the same time
  MaxFaults,  \* bound: restarts of the process and statements that fail
  Horizon     \* bound: the last instant of the clock

ASSUME RequestsAssumption ==
  /\ MaxFaults \in Nat
  /\ Horizon \in Nat

VARIABLES
  req,     \* the open requests, by slot
  faults,  \* faults so far
  now      \* new Date()

process == <<req, faults>>

IntentPcs == {"intent:create", "intent:payment", "intent:link",
              "intent:respond"}

ConfirmPcs ==
  {"confirm:findPayment", "confirm:createPayment", "confirm:providerEvent",
   "confirm:clientEvent", "confirm:update", "confirm:mailBooking",
   "confirm:mailPayment", "webhook:mail", "webhook:answer"}

FailedPcs == {"failed:update", "failed:answer"}

Pcs ==
  {"idle", "create:insert",
   "cancel:providerEvent", "cancel:clientEvent", "cancel:update",
   "cancel:mail", "complete:update",
   "reschedule:check", "reschedule:update", "reschedule:readBack",
   "reschedule:providerEvent", "reschedule:clientEvent",
   "review:find", "review:insert"}
  \cup IntentPcs \cup ConfirmPcs \cup FailedPcs

\* Everywhere else a request is about a booking that exists ...
NoBookingPcs == {"idle", "create:insert"}

\* ... and here about one of its payment intents.
PaymentPcs ==
  ConfirmPcs \cup (IntentPcs \ {"intent:create"}) \cup FailedPcs

\* Statements whose errors are caught where they happen.
CalendarPcs ==
  {"confirm:providerEvent", "confirm:clientEvent",
   "cancel:providerEvent", "cancel:clientEvent",
   "reschedule:providerEvent", "reschedule:clientEvent"}

RequestRecord ==
  [pc : Pcs, id : BookingIds \cup {null},
   clientId : Users \cup {null}, providerId : Users \cup {null},
   startTime : Nat, endTime : Nat, intent : Intents \cup {null},
   providerEvent : EventIds \cup {null}, clientEvent : EventIds \cup {null}]

Request ==
  {q \in RequestRecord : /\ q.pc \notin NoBookingPcs => q.id \in BookingIds
                         /\ q.pc \in PaymentPcs => q.intent \in Intents}

Idle ==
  [pc |-> "idle", id |-> null, clientId |-> null, providerId |-> null,
   startTime |-> 0, endTime |-> 0, intent |-> null, providerEvent |-> null,
   clientEvent |-> null]

at(r, pc) == req[r].pc = pc

goto(r, pc) == req' = [req EXCEPT ![r].pc = pc] /\ UNCHANGED faults

\* A local variable is set on the way to the next statement.
enter(r, request) == req' = [req EXCEPT ![r] = request] /\ UNCHANGED faults

\* The handler returns or throws.
finish(r) == enter(r, Idle)

\* Whether a delivery of this event is being handled.
inFlight(i, type) ==
  \E r \in Workers :
    /\ req[r].intent = i
    /\ \/ type = "succeeded" /\ req[r].pc \in ConfirmPcs
       \/ type = "payment_failed" /\ req[r].pc \in FailedPcs

\* The statement a request waits for is rejected (the database, Redis or
\* Stripe is out of reach): the handler throws, what it has done stays done.
\* Or its answer does not get through.
fail(r) ==
  /\ faults < MaxFaults
  /\ req[r].pc \notin {"idle"} \cup CalendarPcs
  /\ faults' = faults + 1
  /\ req' = [req EXCEPT ![r] = Idle]
  /\ UNCHANGED <<tables, stripe, calendar, mail, now>>

\* The process dies and is restarted: every open request is lost; the tables,
\* the queue, Stripe and Google are not.
crash ==
  /\ faults < MaxFaults
  /\ \E r \in Workers : req[r] # Idle
  /\ faults' = faults + 1
  /\ req' = [r \in Workers |-> Idle]
  /\ UNCHANGED <<tables, stripe, calendar, mail, now>>

tick ==
  /\ now < Horizon
  /\ now' = now + 1
  /\ UNCHANGED <<tables, stripe, calendar, mail, process>>

RequestsInit ==
  /\ req = [r \in Workers |-> Idle]
  /\ faults = 0
  /\ now = 0

RequestsTypeOK ==
  /\ req \in [Workers -> Request]
  /\ faults \in Nat
  /\ now \in Nat
=============================================================================
