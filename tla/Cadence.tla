------------------------------- MODULE Cadence -------------------------------
(***************************************************************************)
(* When an item (certificate or token) is due for an alert, and how urgent *)
(* it looks: the escalation ladder, the milestones and the severity levels *)
(* as operators.  Days are integers; a date is its distance to a fixed     *)
(* day, so DaysUntil is a subtraction.                                     *)
(***************************************************************************)
EXTENDS Integers, Sequences

CONSTANT Never     \* last_notified_on is NULL

\* threshold_day of the "expired" alert.
expiredSentinel == -1

DaysUntil(date, today) == date - today

-----------------------------------------------------------------------------
(* The escalation ladder: a sequence of rungs [within, every] *)

\* The rungs an item is inside of, as positions on the ladder.
Inside(rules, days) == {i \in DOMAIN rules : days <= rules[i].within}

IntervalForUntilExpiry(rules, days) ==                     \* mutant
  IF days < 0 \/ Inside(rules, days) = {} THEN 0
  ELSE rules[CHOOSE i \in Inside(rules, days) : \A j \in Inside(rules, days) : i <= j].every

\* Days between repeats: the first rung that matches; 0 is "no repeats yet".
IntervalFor(rules, days) ==
  IF Inside(rules, days) = {} THEN 0
  ELSE rules[CHOOSE i \in Inside(rules, days) : \A j \in Inside(rules, days) : i <= j].every

-----------------------------------------------------------------------------
(* Severity: cuts is a record of day boundaries *)

ClassifyLastDay(days, cuts) ==                             \* mutant
  IF days < 0 THEN "expired"
  ELSE IF 0 < days /\ days <= cuts.critical THEN "critical"
  ELSE IF days <= cuts.urgent THEN "urgent"
  ELSE IF days <= cuts.warning THEN "warning"
  ELSE IF days <= cuts.notice THEN "notice"
  ELSE "healthy"

\* The first case that applies.
Classify(days, cuts) ==
  IF days < 0 THEN "expired"
  ELSE IF days <= cuts.critical THEN "critical"
  ELSE IF days <= cuts.urgent THEN "urgent"
  ELSE IF days <= cuts.warning THEN "warning"
  ELSE IF days <= cuts.notice THEN "notice"
  ELSE "healthy"

Rank(level) ==
  [expired |-> 5, critical |-> 4, urgent |-> 3, warning |-> 2, notice |-> 1,
   healthy |-> 0][level]

-----------------------------------------------------------------------------
(* Is an alert due?  item has expiry, reminder_days and last_notified_on; sent  *)
(* is the set of milestones already recorded for it.                           *)

DueMilestonesEager(item, sent, today) ==                   \* mutant
  LET days == DaysUntil(item.expiry, today)
  IN IF days < 0
     THEN {expiredSentinel} \cup item.reminder_days
     ELSE {t \in item.reminder_days : days <= t /\ t \notin sent}

\* The milestones an alert of today consumes, once expired all of them.
DueMilestones(item, sent, today) ==
  LET days == DaysUntil(item.expiry, today)
  IN IF days < 0
     THEN IF expiredSentinel \in sent THEN {} ELSE {expiredSentinel} \cup item.reminder_days
     ELSE {t \in item.reminder_days : days <= t /\ t \notin sent}

CadenceDueEarly(last, today, interval) ==                  \* mutant
  last # Never => today - last >= interval - 1

CadenceDueNotFirst(last, today, interval) ==               \* mutant
  IF last = Never THEN FALSE ELSE today - last >= interval

CadenceDueLate(last, today, interval) ==                   \* mutant
  last # Never => today - last > interval

\* An item never alerted is due at once.
CadenceDue(last, today, interval) == last # Never => today - last >= interval

\* Whichever layer fires, it is one alert.
AlertDue(rules, item, sent, today) ==
  LET interval == IntervalFor(rules, DaysUntil(item.expiry, today))
  IN \/ DueMilestones(item, sent, today) # {}
     \/ interval > 0 /\ CadenceDue(item.last_notified_on, today, interval)
=============================================================================
