# A verification project for the booking API

The repository is a NestJS back end (TypeScript, Prisma on PostgreSQL, Stripe,
Google Calendar, BullMQ on Redis, Socket.IO) through which clients book and pay
services of providers. This directory holds TLA+ models of its core, TLC runs on
small instances and TLAPS proofs. Paths below are relative to the repository;
line numbers are those of `src/booking/booking.service.ts` unless a file is named.

## 1. Inventory

| Component | State | Operations | What makes it correct | Here |
|---|---|---|---|---|
| Bookings (`booking.service.ts`) | table `bookings` | `create`, `confirmByPaymentIntent`, `cancel`, `complete`, `reschedule`, `findAvailableSlots`; listings | one active booking per provider and time, inside opening hours; confirmed only if paid; cancelled and completed are final; free slots are offered and no others | modelled, listings left out |
| Payments (`payment.service.ts`) | table `payments`, Stripe intents | `createPaymentIntent`, `remove` (admin), `update` (admin) | a client cannot be charged twice; rows and intents belong to the booking they name | modelled |
| Stripe webhook (`webhooks/stripe`) | what Stripe has had answered | `payment_intent.succeeded`, `payment_intent.payment_failed` | insensitive to order, duplicates and retries; a paid booking is confirmed | modelled |
| Reviews (`review.service.ts`) | table `reviews` | `create`, `remove` (admin) | one per booking, only of completed bookings | modelled |
| Google Calendar (`google-calendar.service.ts`) | the users' calendars | `createEvent`, `updateEvent`, `deleteEvent`, OAuth | calendars show what the table says; events are those of their booking | modelled, OAuth left out |
| Mail queue and worker (`mail.queue.ts`, `mail.processor.ts`, `mail.service.ts`) | BullMQ queue, failed and stalled jobs, letters sent | four kinds of jobs | nothing promised is lost, the last letter is true | the jobs about bookings |
| Authentication (`auth`) | table `refresh_tokens` | `login`, `refreshToken`, `logout`; register, password reset | one successor per session; requests of one session do not end it; logout does | the first three |
| Guards (`auth/guards`) | - | role hierarchy with a default, expiry | the decision itself | modelled |
| Users (`users.service.ts`), services (`service.service.ts`) | tables `users`, `services` | create, remove, `updateRoleToProvider`, update, toggle | an owner of a service is a provider; nobody gains authority | what touches roles and sessions |
| Availabilities | table `availabilities` | CRUD | owner checks | constant |
| Web socket gateway | map of connected sockets | connect, join, disconnect, notify | - | no (section 6) |
| Generated client, env parsing, templates | - | - | - | no: generated code, text |

**How they interact.** All handlers run in one Node.js process. A handler is
atomic between two `await`s and interleaves with every other handler at each
`await`. They share the tables, and there is no transaction anywhere: each Prisma
statement commits by itself, so what protects the data is the order of statements
and the unique indexes. `BookingService.create` calls
`PaymentService.createPaymentIntent`; the customer pays at Stripe with the
returned secret; Stripe calls the webhook, at least once and in any order, until
a delivery is answered with 200; the webhook calls
`BookingService.confirmByPaymentIntent`, which writes the payment and booking
rows, the two calendars and the mail queue, and notifies over the web socket. The
mail worker runs in the same process and reads the booking again when it takes a
job. Accounts share nothing with bookings but ids and roles: a request carries a
token, the guard decides by the role in the token, and `ServiceService.create`
writes the role in the table.

**What is hard.** Checks that are stale when the handler writes (every write is
at least one `await` after the check); a webhook racing `cancel`, `complete`,
`reschedule` and itself; events late, repeated, or out of order; a restart or a
failing statement between any two statements, followed by Stripe's retry of the
whole handler; the unique index on `(providerId, startTime)`, which also counts
cancelled rows; arithmetic on minutes of the day; a refresh token that is deleted
in one statement and replaced in another; a role that is read, signed into a token
and used later; a mail job that carries an id and is processed when the booking
has changed again. `PROJECT.json` lists each
hazard at its line with the properties aimed at it.

## 2. Modules

Bookings, payments, reviews and mail, from data to composition:

    Slots -> Tables -> Stripe, GoogleCalendar, MailQueue -> Requests
          -> PaymentService -> BookingService -> StripeWebhook --.
                           \-> ReviewService ----------------------> Backend
    Backend -> SlotFinder (findAvailableSlots)      \
    Backend -> Refinement (BookingLedger, Contract) -> MCBackend (instances)
    Backend -> MailWorker -> MCMailer

Accounts, which no booking handler writes:

    RoleGuard -> Accounts -> AuthService -> Sessions -> MCSessions

Proofs:

    Backend -> TypeProofs -> PaymentProofs
    PaymentProofs, SlotFinder -> AgendaProofs
    AgendaProofs, Refinement -> LedgerProofs -> SequentialProofs -> EventProofs
    AgendaProofs, MailWorker -> MailProofs
    Sessions -> SessionProofs

| Module | Models | Correspondence |
|---|---|---|
| `Slots` | calendar arithmetic: `getDay`, minute of the day, the overlap filter, the comparison with a window | l. 74-79, 96-124. An instant is a number of units since a midnight that begins a Sunday |
| `Tables` | the rows of `bookings`, `payments`, `reviews`, the statements on them, the unique indexes | `prisma/schema.prisma` 94-172. A row is a record; `null` is 0; the three timestamps become `completedAt` or nothing |
| `Stripe` | intents, the customer, events, deliveries, answers | external; `paymentIntentsCreate`, `issueSecret` and `ack` translate the calls at `payment.service.ts` 32-41, 57-59 and the controller's answers |
| `GoogleCalendar` | the events of both parties | every call swallows its errors, so each has a disjunct in which nothing happens |
| `MailQueue` | how many jobs of each kind were added for a booking | `mail.queue.ts` 13-29 |
| `Requests` | the open requests: `pc` is the statement a request waits for, the other fields are the local variables still needed; `fail`, `crash`, `tick` | the Node.js process |
| `PaymentService`, `BookingService`, `StripeWebhook`, `ReviewService` | one action for the part of a handler between two `await`s that matter, named after the handler and the statement | see `map` in `PROJECT.json` |
| `Backend` | `Next`, fairness, the properties, the inductive invariants | controllers: who may call what |
| `SlotFinder` | `findAvailableSlots`, its loop as a recursive function, over every reachable agenda | l. 238-346. The date a client names is midnight UTC; the day is the one the server's clock makes of it (`localDay`, `UtcOffset`) |
| `BookingLedger` | abstract: a book of engagements, no two of a provider at one time, none served unless settled. What is true in any interleaving | - |
| `BookingContract` | abstract: an agenda without overlaps, bookings that are made, settled, confirmed, completed or cancelled in this order and then stay closed. What is true of one request at a time when nothing fails or is declined or delivered twice | - |
| `Refinement` | the two mappings | a CONFIRMED or COMPLETED row is a served engagement; *settled* is that Stripe holds a paid intent made for the booking |
| `MailWorker` | `Backend` with a queue in order, the worker, stalled and failed jobs, letters | `mail.processor.ts` 15-80, `mail.service.ts` 36-136. A job added by a handler goes to the end of `queue` in the same step. A letter the SMTP server refuses is only logged and its job is done (`sendRefused`, remembered in `refused`); of the letters sent about a booking, the kinds and the last one that says what has become of it are kept |
| `RoleGuard` | levels of roles, the default of routes that name none | `role.guard.ts` 17-58 |
| `Accounts` | users (a role), who owns services, refresh tokens, tokens handed out, open requests | `schema.prisma` 33-76, 174-183; `sessions` is history |
| `AuthService`, `Sessions` | the statements of `login`, `refreshToken`, `logout`; of services and users those that write roles or cascade to tokens | `auth.service.ts` 59-226, `service.service.ts` 19-110, `users.service.ts` 59-68, 141-161 |

A request that is rejected before it has written leaves no trace, so an action
such as `cancel(r, u, b)` has the guards of the handler as conjuncts and there is
no step for the rejected request. Consecutive reads are one step when nothing in
between can change their result (users, services and availabilities are constant
in `Backend`); reads of bookings and the writes that depend on them are separate
steps. A fault (`fail`) may strike at every statement whose error is not caught:
the handler throws and what it has written stays. `crash` loses all open requests.
The answer to a delivery is a step of its own (`webhookAnswer`, `failedAnswer`): the
process may die when the handler is through and Stripe has not been told.
`validateProviderAvailability` looks at one window of the weekday that `findFirst`
picks, so with two windows a booking may be let through or refused as either is picked
(`candidates`).

In `Accounts` the two tokens of a response are one `Token`: both are signed with
the same claims within a second (`iat` is in seconds), and a token *is* its claims,
which is why two sessions of a user renewed in the same second collide on the unique
index. A refresh token is presented by whoever holds one; guards see its twin. As they check
signature, audience, issuer and expiry only, a refresh token passes them too, so a pair
opens the guards as long as either of its tokens lives (`accessValid`). The expiry of a
row is computed before its insert is sent and may be seconds older than it. A user with
bookings, payments or reviews cannot be deleted (`RESTRICT`): `userDelete` may change
nothing. Passwords are taken to be right, for a wrong one changes nothing.

Some errors are bounds and not code: `create` finds no id left (`MaxBookings`),
Stripe has no intent left (`MaxIntents`); `login` and `refreshToken` are only
accepted while every open request can still get a row id (`MaxRows`). `createEvent`
answers null when `MaxEvents` events exist, as it does for a user who is not
connected. Google is assumed not to revive a deleted event on `events.update`. One
declined attempt per intent is modelled; its redeliveries are.

Names such as `startTimeTaken_liveRowsOnly`, defined just before the operator
they resemble, are mutated versions: the bugs a run would report.

## 3. Runs

Deadlock is not checked: a server with every request served and every bound
reached rightly does nothing. `Operations` selects what may be called, so that
each run spends its states on one question.

| Run | Instance | Shows |
|---|---|---|
| `lifecycle` | 2 concurrent requests, 2 bookings, 2 intents, 1 fault | `TypeOK`, `PaidInv` (the inductive invariant), `ServedOnlyIfPaid`, `IntentOwnership`, `MailedOnlyIfPaid`; `LedgerKept`: the back end implements `BookingLedger` |
| `contention` | 2 requests, 2 bookings, overlapping starts, split windows on two days, a start that fits no window, cancel, reschedule, late payment events | `NoSameStart`: the index alone prevents equal starts, also for bookings revived by a late `payment_failed`; `AgendaInv` (inductive); `WithinOpeningHours` for durations that end on the same day; `MailsAgree`: no interleaving loses a mail; `LedgerKept` with moves and revivals |
| `payments` | 2 requests, 1 booking, 2 intents, admin deletions, reviews, declines, 1 duplicate, 1 fault | `ChargedAtMostOnce`, `SameIntent`, `ChargeInv` (inductive), `ReviewedOnlyIfCompleted` |
| `sequential` | 1 request at a time, no declines, 2 clients, 2 providers, 2 bookings, 2 durations, clock, a server behind UTC | what is broken otherwise holds here: `NoDoubleBooking`, `CalendarsAgree`, `CancelledIsFinal`, and `ContractKept`, the refinement of `BookingContract`; `OfferedSlotsExact`: in every reachable agenda `findAvailableSlots` offers exactly the free slots of the day |
| `liveness` | 2 requests, 1 booking, 3 events, calls refused by Google, 1 superfluous delivery, 1 fault, fairness | `PaidEventuallyServed`; `EventOwnership`: event ids never cross bookings or parties, although overlapping deliveries create several; `MailsAgree`: before a fault no interleaving loses a mail |
| `sessions` | 2 requests of an administrator and a client, 3 row ids, lifetimes of 1 s, 3 instants, 1 fault | `TypeOK`; `OneSuccessor` and `SessionKept`: what token rotation promises; `OwnersAreProviders`, `NobodyGainsAuthority`; `RoleInv` and `SessionInv` (inductive) |
| `mailer` | 1 request at a time, 1 booking, 1 declined attempt, 1 duplicate, 1 fault, the worker, fairness | `NoMailLost`: through restarts a mail is lost only by a failing read or a refused letter; `LastLetterAgrees`; `CustomerIsTold` |
| `overlap` | 2 requests | violated: `NoDoubleBooking` |
| `resurrect` | confirmation racing a cancellation | violated: `CancelledIsFinal` |
| `reoffered` | 1 request, a cancelled booking | violated: `OfferedSlotsBookable` |
| `survivor` | a refresh racing a logout | violated: `LogoutEndsSessions` |
| `reopened` | 1 request at a time, 1 superfluous delivery | violated: `CompletedIsFinal` |

**Bounds.** Races between handlers in this code are between two requests (a
check and a write of one around a write of the other), so two slots suffice to
reach each; two bookings are needed wherever one could be mistaken for the other
(`lifecycle`, `contention`, `sequential`), and elsewhere every action touches one
booking only. One fault at every point covers each partial execution followed by
a retry; one superfluous delivery covers a duplicate during and after the first.
In `sessions`, three row ids are a login and two renewals, or two sessions and a
renewal of one; an administrator can become a provider and a client cannot, so the
two users stand for both sides of the guard; lifetimes of one second let tokens
expire between any two statements. In `sequential` and `reoffered`, days are short
(6 and 24 units) and the two durations do and do not divide the windows, so the loop
meets the end of a window from both sides; the server is behind UTC, so the day it
takes for a date is the one before. The runs that expect a violation are as small as
the violation allows. The proofs cover all values of the
constants for the invariants of section 5. Requests are symmetric and the safety
runs use that; `sequential`, `liveness` and `mailer` do not.

**Fairness.** Weak fairness on `Proceed(r)`: Node runs a continuation whose
promise has settled, and the database, Redis and the APIs answer or fail. Weak
fairness on the delivery of each unanswered `succeeded` event: Stripe retries
until it gets a 200 (it gives up after days; the property is about the time
before). In `mailer` also on the worker (`Process`), which BullMQ wakes while jobs
wait, and on the periodic check for stalled jobs (`retryStalled`); not on the
reads that fail. Nothing is assumed of clients, of the customer or of the clock. The
properties exclude cancelled bookings because the handler refuses them and nothing
refunds them, and `CustomerIsTold` excludes faults because a failure between the
update and the mails loses the confirmation for good.

## 4. What the model shows

*Holds.* A booking is confirmed or completed, and a confirmation mailed, only if an
intent made for it was paid, whatever the interleaving (proved). Intents, payment
rows and calendar events never cross bookings (proved). A client cannot be charged
twice for a booking unless an admin deletes its payment row (proved):
`payment.create` with its unique `bookingId` comes before the response, and the loser
of a race never answers with a secret. Stripe's retries heal every partial
confirmation as far as the status goes. Equal starts are impossible (proved), and
bookings that end on the day they start lie in their provider's opening hours
(proved); what `findAvailableSlots` offers is exactly the free slots (proved), which is
not what `create` accepts: the unique index and the window that `findFirst` picks may
refuse a free slot. Reviews are of completed and paid bookings (proved). When requests
are served one at a time, no payment is declined, nothing fails and every event is
delivered once, the handlers implement the contract (proved), and the calendars agree
with the table as long as Google answers (proved).
Without faults no mail is left out (proved). A session has one successor and
concurrent renewals do not end it (proved); nobody gains authority, although the guard
trusts the role in a token that may be outdated (proved): the one handler that writes
a role is closed to clients, and a client has never been anything else. A queued mail
survives restarts of the worker and is lost only by a read that fails or a letter that
is refused (proved), and in sequential use the last letter about a booking is true
(proved).

*Does not hold*, with the runs that show it:
- overlapping bookings with different starts pass the check together (`overlap`);
- a confirmation in flight overwrites a cancellation (`resurrect`);
- the slot of a cancelled booking is offered again and then refused for ever by the
  unique index (`reoffered`);
- a refresh in flight survives a logout: its row is inserted after the logout has
  deleted all rows of the user (`survivor`);
- a repeated `succeeded` reopens a completed booking, since only CONFIRMED and
  CANCELLED are looked at (`reopened`).

*Does not hold, without a run of its own.* Each of these was found with TLC by giving a
run above another bound:
- a `payment_failed` that arrives late revives a cancelled booking in a slot that has
  been given to another one, with one request at a time and nothing failing
  (`NoDoubleBooking` in `sequential` with `"decline"` among the operations); the same
  write reopens a completed booking, makes a confirmed one pending with its events still
  in the calendars and the paying customer waiting, and so breaks `CancelledIsFinal`,
  `CalendarsAgree` and `ContractKept` there and `PaidEventuallyServed` in `liveness`;
- a reschedule in flight moves a booking that has been cancelled meanwhile, although
  only confirmed or pending bookings may be modified (l. 52): `ClosedKeepsTime` in
  `contention`;
- a failure between the update and the mails loses the confirmation, since the
  retry returns early: `MailsAgree` in `liveness` without its condition on faults;
- a confirmation racing a cancellation leaves the events of a cancelled booking in the
  calendars: `CalendarsAgree` in `liveness` with `GoogleMayFail = FALSE`;
- a booking that ends after midnight passes the opening-hours check, because minutes
  of the day wrap: `WithinOpeningHours` in `contention` with a duration of 6.

Concurrent handlers may also order letters wrongly (a cancellation before the
confirmation), which no document rules out: `LastLetterAgrees` is about one request at
a time.

Seen in the model but promised by no document: the payment row stays PENDING after a
success; the payment mail is queued by two layers; after a failed `createPaymentIntent` the
slot stays held; a cancelled booking can still be paid and nothing refunds it; a
mail job whose read fails is not tried again (no attempts are configured), and a letter
the SMTP server refuses is logged and forgotten; an
administrator who creates a service is demoted to provider; two sessions of a user
renewed in the same second collide, one of them is lost; a second login in the
second of the first is refused.

Found while reading for the model, in deterministic code: `RegisterDto`,
`CreateUserDto` and `UpdateUserDto` put `@Min` and `@Max`, which are about numbers,
on their strings, so that these requests are always refused; `UpdateServiceDto`
accepts a duration of zero, for which the loop of `findAvailableSlots` does not end
(`BookingAssumption` excludes it); the date of `findAvailableSlots` is parsed as UTC
while days begin at the server's midnight, so a server behind UTC shows the day before
(`localDay`); `handleConnection` of the web socket gateway dereferences a user that no
guard has set yet; `RoleGuard` lacks `@Injectable`, so no metadata of its constructor is
emitted for Nest to inject its `Reflector` by (the models take the guard to have it).

## 5. Proofs

The assumptions are the named `ASSUME`s of the modules only: bounds are naturals, ids
are not 0, lifetimes are naturals, every user has a role at first.

`TypeProofs` proves `Spec => []TypeOK`: one lemma per group of actions, one step
per action. `PaymentProofs` proves `Spec => []PaidInv` and draws
`ServedOnlyIfPaid` and `IntentOwnership` from it.

`ServedOnlyIfPaid` is not inductive: a request waits between reading an intent or
a status and acting on it. `PaidInv` adds what each waiting request knows and
why it stays true: `createPaymentIntent` carries an intent made for its booking;
the webhook carries an intent made for its booking *and paid*; `complete` has
seen a booking that was paid. These facts are stable because an intent's booking
never changes once it exists and a paid intent stays paid. `IntentOwnership` is
needed to get from "paid" to "paid for this booking" at the webhook's lookup, and
`AbsentIntentsUnbound` keeps a fresh intent from being bound already.

`PaymentProofs` also proves `Spec => []ChargeInv` and from it `ChargedAtMostOnce` and
`SameIntent`. The argument is the order in `createPaymentIntent`: the payment row,
unique by booking, is inserted before the booking is linked and before the secret
is returned. So an intent a client can pay, and one a request is about to link or
return, is *filed*: the one payment row of the booking names it. Two such intents
of a booking would be named by one row. A payment row the webhook inserts cannot
displace a filed intent, because that insert needs the booking to have no row.
Deleting a row (`paymentRemove`) is the exception both properties state. `PaidInv`
supplies that the request at `intent:respond` answers with an intent of its booking.

`AgendaProofs` proves `Spec => []AgendaInv` and from it `NoSameStart`. The
availability check plays no part: it runs before the write and takes no lock. The
invariant says instead that no two rows, cancelled ones included, share provider
and start (`DistinctStarts`, what the index enforces); counting the cancelled
rows is what makes it inductive, since `failedUpdate` and `confirmUpdate` can
bring a cancelled row back without asking the index. For the writes to go to rows
and starts the index has seen, `RowInv` adds that the row of a waiting request
exists and that a reschedule checks the agenda of that row's provider, and
`AbsentRowsUnbound` that only an inserted row is found by its intent.

Its second invariant, `HoursInv`, says that every row, also a cancelled one, is at
times that somebody asked for and that passed `validateProviderAvailability` for the
row's provider, and so are the times a request is about to write. Rows that are
brought back need no check because they never lost one. What was checked is less than
what was meant, for both ends are compared by their minute of the day, so
`WithinOpeningHours` is proved under `EndsSameDay`, a condition on start times and
durations that the code does not check (section 4).

`OfferedSlotsExact` needs in addition that windows end by midnight
(`WindowsWithinDay`; the code takes the strings it is given). The loop is a recursive
function, and nothing can be proved of one by induction with the library's theorems;
but it is the one function that satisfies its equation, so the proof gives a function
that does (`Rest`: the later starts, a multiple of the duration away, that fit and are
free) and shows that two such functions cannot differ: where they differ last, at a
start found with `Least`, their next values agree and so do they. The query of
`findAvailableSlots` looks at the bookings that start on the day, the definition of a
free slot at all;
`HoursInv` and `EndsSameDay` give that no others reach into it (`SameVerdict`).

`LedgerProofs` proves the refinement, `Spec => LedgerKept`: initial states map to
initial states, and every step is an `Entry`, a step of `BookingLedger!Next` or a
stutter. Each action has its lemma; the ones that write bookings come down to three
(`BookedRow`, `MovedRow`, `RestatedRow`), the rest to `QuietEntry`. `AgendaInv` gives
that a booked or moved row is vacant, `PaidInv` that a row restated as served is
settled. One thing more is needed: a payment may settle only what is in the book, so
the intent that is paid must be bound to a booking that exists (`BoundInv`). What the
abstract steps leave true (`EntryGrows`: no engagement leaves the book, no payment is
taken back) is then used where it would be tedious to show of the handlers:
`MailedOnlyIfPaid` follows from it, since mail is only added by requests that
`PaidInv` says are about a paid intent.

It also proves `ReviewedOnlyIfCompleted`. The status a review is checked against
can be undone by a late event, so the invariant speaks of the stamp `completedAt`:
no statement clears it (a row is inserted only where none is, and `BoundInv` says that
one could not have been paid), `complete` gives it to paid bookings only, and who is
about to insert a review has seen it.

`EventProofs` proves `EventOwnership`. Event ids travel from Google into a request,
from the request into a row, and from the row into the requests that cancel or
reschedule; the invariant follows them everywhere. The step that needs an argument is
`confirmUpdate`, which looks the row up by the intent and not by the id the events were
made for: `PaidInv` and `IntentOwnership` say that it finds the same booking.

Its second half proves `CalendarsAgree` under the conditions of `sequential`: one
request at a time, no payment declined, nothing failing, every event delivered once
(`Calm`, see below) and `GoogleAnswers`, no call of Google's fails and the bound `MaxEvents`
leaves two events per booking. A refused call is swallowed and leaves a calendar wrong
for good, so the first cannot be dropped. `CalendarInv` says
what a calendar shows of a booking while a request is at work: the event the request
has made and no row names yet, nothing if it has deleted the one the row still names,
otherwise the one the row names; the event is at the booking's current time unless
the request has still to move it. A booking has an event id exactly when it is confirmed
or completed, which is why `canBeModified` and the status seen by `complete` and by the
webhook (`SoloInv`, `CalmInv`) are needed. That `createEvent` never runs into `MaxEvents`
is a pigeonhole argument (`Room`): a party has at most one event per booking, deleted
ones included.

`SessionProofs` proves the type invariant of `Sessions` (a request that signs a token
has read a role) and two inductive invariants. `RoleInv`: whoever is a client now has
never been anything else, so that no token in anybody's hands and no role read by a
waiting request is above his (`clientOnly`), from which `NobodyGainsAuthority` and
`OwnersAreProviders` follow. `SessionInv`: the rows and the requests in flight of a
session descend from one login; row ids are handed out once, so a request that has
found a row and deletes it later deletes that row or none. `OneSuccessor` is part of
it. For `SessionKept` it adds that a session is named by its first row, that a session
that has begun belongs to a user who exists, and that rows and their history name the
same user; the side condition on the user's other sessions is what makes a refused
insert impossible.

`SequentialProofs` proves what the handlers' checks are worth when requests do not
overlap, and each theorem names what it needs. `OneAtATime`: there is one slot for
requests. `NothingDeclined`: Stripe never reports a declined payment, because
`payment_failed` sets the status without looking at it, and one of them that comes late
is enough to revive a cancelled booking (section 4). Faults, restarts and redeliveries of
`succeeded` are still allowed. `SoloInv` is `NoDoubleBooking` and what the guards of the
open request have seen, which nobody else can have changed; every write to `bookings` is
then one of six turns (`Turn`: made, moved, confirmed, completed, cancelled, or left as
it was), from which `NoDoubleBooking`, `CancelledIsFinal` and `ClosedKeepsTime` follow.
`Undisturbed` (with the other two: `Calm`) adds that nothing fails, that Stripe delivers
an event no more often than it has to, and that no payment row is deleted; without it a
repeated `succeeded` reopens a completed booking (`reopened`). `CalmInv` says why it
cannot happen then: a served booking names an intent whose event has been answered, or
will be by the request at hand. The refinement `ContractKept` follows. These conditions
are those of the run `sequential`; `overlap`, `resurrect`, `reopened` and section 4 show
what breaks without them.

`MailProofs` proves `MailsAgree` for any number of requests. It speaks of states no fault
has touched; a failure between the update and the mails loses the confirmation for good,
since the retry returns early. The invariant `OrderInv` says that a served booking has its
confirmation ordered or a handler at the statement that orders it, and the same of
cancellations. It is not inductive without the completion: a `complete` in flight has
read the status CONFIRMED and writes COMPLETED even if `payment_failed` has reset the
booking meanwhile, so its client must have been told too.

For the worker, `MailerSpec` is the back end with more variables: a step of `MailerNext`
is one of `Next` or leaves it alone (`MailerCore`), so the invariants of the back end
hold under it. `FiledInv` gives that a mail about a payment is ordered only once its row
is there; with it `WorkerInv` (types, every job has been ordered, `NoMailLost`) is
inductive. What `NoMailLost` says is that a mail is lost in three ways only: its job
fails at the read, the SMTP server refuses the letter, or it is about a payment whose row
an admin has deleted.

`LastLetterAgrees` needs `Alone`, one request at a time, and speaks of states no fault
has touched, but declined payments, repeated events and deleted payment rows are
allowed. Its invariant `LastInv` says that the last order about a booking (the last
job of the queue that says what has become of it, else the job in hand, else the
last letter) agrees with its status, or the handler is at the statement that orders the
mail. The lemmas on the queue show that taking, reading and sending leave the last
order as it is and that adding a job replaces it. A stalled job is processed after
those added meanwhile, so without a fault-free past the order is lost; with two
requests at a time the order of the mails need not be that of the updates.

Only model-checked: liveness (`PaidEventuallyServed`, `CustomerIsTold`), which is
outside TLAPS. Every invariant and action property of the passing runs is stated by
a theorem. No module here has a RECURSIVE operator.

## 6. Not modelled

Of the implementation's roughly 20 000 lines some 15 800 are the generated Prisma
client, which is not modelled; what the handlers rely on in it (atomic statements,
unique indexes, cascades) is in `Tables` and `Accounts`. Of the rest much is
controllers, DTOs, modules and Swagger decorators, which have no state.

- Queries that only read; `changeBookingStatus` (l. 612-625), which has no caller;
  notes, prices, texts; notifications, which write nothing.
- The reads of service and provider in `create` (constant here, so a service
  deactivated between the read and the insert is not seen), and hence the updates of
  services and availabilities: the code makes no promise about bookings made under an
  older duration or window.
- The password reset: it writes the password alone, which nothing modelled reads but
  `login`, whose password is taken to be right. Registration and the update of a user
  get no further than validation (section 4).
- The OAuth callback: a user may be disconnected at any call of `createEvent`.
- The web socket gateway. `handleConnection` throws for every connection before a
  join is possible, so a model could only start from states the program does not
  reach; the map of sockets is read by nobody.
- Bodies of letters and the configuration.

## 7. Plan

Done: the core, its proofs, `SlotFinder`, the ledger and the contract with their
refinements, accounts, the mail worker, and the proofs of section 5. Left: services
and availabilities edited while bookings are made, should the code come to promise
something about them.
