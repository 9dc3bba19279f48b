----------------------------- MODULE MCDailyScan -----------------------------
(* DailyScan on a small instance for TLC. *)
EXTENDS DailyScan, MCReminderScan

\* Days of 23, 24 and 25 hours, scaled down.
ShortAndLong == {-1, 0, 1}
=============================================================================
