--------------------------- MODULE MCReminderScan ---------------------------
(* ReminderScan on small instances for TLC. *)
EXTENDS ReminderScan, TLC, FiniteSetsExt

CONSTANT MaxAlerts     \* bound: the alerts that a run looks at

\* The shipped ladder, scaled down: repeats every 3, 2 and 1 days.
Ladder ==
  <<[within |-> 1, every |-> 1], [within |-> 3, every |-> 2], [within |-> 5, every |-> 3]>>

\* No escalation ladder reaches items this far from expiry: milestones only.
NoLadder == <<[within |-> 0, every |-> 1]>>

FewAlerts == MapThenSumSet(LAMBDA c : Len(mail[c]), Certs) <= MaxAlerts

\* Bound: a scan goes on past one midnight, but not past a second one.
OneNight == \A s \in Scans : Scanning(s) => day <= scan[s].today + 1

Names == Permutations(Certs) \cup Permutations(Scans)
=============================================================================
