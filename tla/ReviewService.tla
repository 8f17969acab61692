---------------------------- MODULE ReviewService ----------------------------
(***************************************************************************)
(* review.service.ts: a client reviews a completed booking, once; an admin *)
(* may remove the review.                                                  *)
(***************************************************************************)
EXTENDS Requests

canBeReviewed_anyStatus(booking, u) == booking.clientId = u

canBeReviewed(booking, u) ==
  booking.clientId = u /\ booking.status = "COMPLETED"

review(r, u, b) ==
  /\ at(r, "idle")
  /\ exists(b)
  /\ canBeReviewed(bookings[b], u)
  /\ enter(r, [Idle EXCEPT !.pc = "review:find", !.id = b])
  /\ UNCHANGED <<tables, stripe, calendar, mail, now>>

reviewFind(r) ==
  /\ at(r, "review:find")
  /\ IF req[r].id \in reviews THEN finish(r) ELSE goto(r, "review:insert")
  /\ UNCHANGED <<tables, stripe, calendar, mail, now>>

\* review.create; a second row for the booking is a unique violation, which
\* leaves the set as it is.
reviewInsert(r) ==
  /\ at(r, "review:insert")
  /\ reviews' = reviews \cup {req[r].id}
  /\ finish(r)
  /\ UNCHANGED <<bookings, payments, removed, stripe, calendar, mail, now>>

\* DELETE review/:id
reviewRemove(b) ==
  /\ b \in reviews
  /\ reviews' = reviews \ {b}
  /\ UNCHANGED <<bookings, payments, removed, stripe, calendar, mail,
                 process, now>>
=============================================================================
