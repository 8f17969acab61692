-------------------------------- MODULE Tables --------------------------------
(***************************************************************************)
(* The PostgreSQL tables the booking handlers share (prisma/schema.prisma) *)
(* and the Prisma statements they issue.  Every statement is atomic and    *)
(* commits on its own: the code opens no transaction.  Rows are functions  *)
(* of the autoincremented id; id 0 stands for null.                        *)
(***************************************************************************)
EXTENDS Slots

CONSTANTS
  MaxBookings,  \* bound: ids the bookings table can hand out
  MaxIntents,   \* bound: payment intents Stripe can hand out
  MaxEvents,    \* bound: Google Calendar events that can be created
  Clients,      \* ids of users who book
  Providers     \* ids of users with role PROVIDER

ASSUME TablesAssumption ==
  /\ MaxBookings \in Nat /\ MaxIntents \in Nat /\ MaxEvents \in Nat
  /\ Clients \subseteq Nat \ {0}
  /\ Providers \subseteq Nat \ {0}

VARIABLES
  bookings,  \* model Booking
  payments,  \* model Payment, by bookingId (@unique)
  reviews,   \* model Review: the set of bookingIds (@unique) that have one
  removed    \* history: bookings whose payment row an admin has deleted

tables == <<bookings, payments, reviews, removed>>

null == 0
BookingIds == 1..MaxBookings
Intents == 1..MaxIntents
EventIds == 1..MaxEvents
Users == Clients \cup Providers

BookingStatus == {"PENDING_PAYMENT", "CONFIRMED", "CANCELLED", "COMPLETED"}

\* A row of the bookings table, or the absence of one.
Booking ==
  [status : BookingStatus \cup {"ABSENT"},
   clientId : Users \cup {null}, providerId : Users \cup {null},
   startTime : Nat, endTime : Nat,
   paymentIntentId : Intents \cup {null},
   providerGoogleEventId : EventIds \cup {null},
   clientGoogleEventId : EventIds \cup {null},
   completedAt : BOOLEAN]

NoBooking ==
  [status |-> "ABSENT", clientId |-> null, providerId |-> null,
   startTime |-> 0, endTime |-> 0, paymentIntentId |-> null,
   providerGoogleEventId |-> null, clientGoogleEventId |-> null,
   completedAt |-> FALSE]

\* PROCESSING, FAILED and REFUNDED are never written by the code.
Payment ==
  [status : {"ABSENT", "PENDING", "SUCCEEDED"},
   paymentIntentId : Intents \cup {null}]

NoPayment == [status |-> "ABSENT", paymentIntentId |-> null]

exists(b) == b \in BookingIds /\ bookings[b].status # "ABSENT"

isPaymentRow(b) == payments[b].status # "ABSENT"

\* The bookings that hold a place in their provider's agenda.
active(b) == exists(b) /\ bookings[b].status # "CANCELLED"

(***************************************************************************)
(* Statements.                                                             *)
(***************************************************************************)

\* The id the sequence of the bookings table hands out next.
isNextBookingId(b) ==
  /\ bookings[b].status = "ABSENT"
  /\ \A a \in BookingIds : a < b => bookings[a].status # "ABSENT"

startTimeTaken_liveRowsOnly(b, providerId, start) ==
  \E a \in BookingIds \ {b} :
    active(a) /\ bookings[a].providerId = providerId
              /\ bookings[a].startTime = start

startTimeTaken_olderRowsOnly(b, providerId, start) ==
  \E a \in BookingIds :
    /\ a < b /\ exists(a)
    /\ bookings[a].providerId = providerId
    /\ bookings[a].startTime = start

\* @@unique([providerId, startTime]): counts cancelled rows too.
startTimeTaken(b, providerId, start) ==
  \E a \in BookingIds \ {b} :
    /\ exists(a)
    /\ bookings[a].providerId = providerId
    /\ bookings[a].startTime = start

\* @unique on paymentIntentId alone.
paymentTaken_intentOnly(b, i) ==
  \E a \in BookingIds : payments[a].paymentIntentId = i

\* @unique on bookingId and on paymentIntentId.
paymentTaken(b, i) ==
  \/ isPaymentRow(b)
  \/ \E a \in BookingIds : payments[a].paymentIntentId = i

\* payment.create
paymentCreate(b, i, status) ==
  /\ ~paymentTaken(b, i)
  /\ payments' = [payments EXCEPT ![b] =
                    [status |-> status, paymentIntentId |-> i]]
  /\ UNCHANGED <<bookings, reviews, removed>>

\* booking.update({ where: { id: b } }) with the given row.
bookingUpdate(b, row) ==
  /\ bookings' = [bookings EXCEPT ![b] = row]
  /\ UNCHANGED <<payments, reviews, removed>>

TablesInit ==
  /\ bookings = [b \in BookingIds |-> NoBooking]
  /\ payments = [b \in BookingIds |-> NoPayment]
  /\ reviews = {}
  /\ removed = {}

TablesTypeOK ==
  /\ bookings \in [BookingIds -> Booking]
  /\ payments \in [BookingIds -> Payment]
  /\ reviews \subseteq BookingIds
  /\ removed \subseteq BookingIds
=============================================================================
