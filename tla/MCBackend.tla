------------------------------ MODULE MCBackend ------------------------------
(***************************************************************************)
(* Small instances of Backend.  Day 0 is a Sunday; users 1 and 2 are       *)
(* clients, 3 and 4 providers.                                             *)
(***************************************************************************)
EXTENDS Refinement, SlotFinder, TLC

CONSTANTS r1, r2

OneWorker == {r1}
TwoWorkers == {r1, r2}
Symmetry == Permutations(TwoWorkers)

OneClient == {1}
TwoClients == {1, 2}
OneProvider == {3}
TwoProviders == {3, 4}

window(p, day, start, end) ==
  [providerId |-> p, dayOfWeek |-> day, startTime |-> start, endTime |-> end]

\* The server's clock is behind UTC: dates that are asked for mean the day
\* before.
BehindUtc == -1

\* Provider 3 works on Sundays from 1 to 5.
Sunday == {window(3, 0, 1, 5)}

\* Provider 3 has two windows on Sundays and one on Mondays.
SplitWeek == {window(3, 0, 1, 4), window(3, 0, 5, 7), window(3, 1, 1, 3)}

\* Providers 3 and 4 work on Sundays.
TwoAgendas == {window(3, 0, 1, 5), window(4, 0, 2, 5)}

Lifecycle == {"create", "cancel", "complete"}
Agenda == Lifecycle \cup {"reschedule"}
Contention == {"create", "cancel", "reschedule", "decline"}
Payments == {"create", "create-intent", "remove-payment"}
Reviews == {"create", "complete", "review", "remove-review", "decline"}
Aftermath == Payments \cup Reviews
=============================================================================
