------------------------------- MODULE MCMailer -------------------------------
(***************************************************************************)
(* A small instance of MailWorker.  Day 0 is a Sunday; user 1 is a client, *)
(* 3 a provider.                                                           *)
(***************************************************************************)
EXTENDS MailWorker

CONSTANTS r1

OneWorker == {r1}
OneClient == {1}
OneProvider == {3}

\* Provider 3 works on Sundays from 1 to 5.
Sunday ==
  {[providerId |-> 3, dayOfWeek |-> 0, startTime |-> 1, endTime |-> 5]}

Bookkeeping == {"create", "cancel", "complete", "remove-payment", "decline"}
=============================================================================
