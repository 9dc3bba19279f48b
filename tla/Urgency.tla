------------------------------- MODULE Urgency -------------------------------
(***************************************************************************)
(* An item that gets older under a configuration: how often its alert      *)
(* repeats and how urgent it looks, day by day, for any accepted           *)
(* REMINDER_ESCALATION and any severity cutoffs.  The configuration is     *)
(* read once, at start-up.                                                 *)
(***************************************************************************)
EXTENDS Cadence, FiniteSets

CONSTANTS
  Specs,       \* values of REMINDER_ESCALATION: sequences of parts
  Blank,       \* a part with nothing between two commas
  DefaultRules,
  Cutoffs,     \* records of the four severity boundaries
  FirstDay,    \* bound: days remaining at the start
  LastDay      \* bound: days remaining at the end

ASSUME CutoffsAssumption ==
  Cutoffs \subseteq [notice : Int, warning : Int, urgent : Int, critical : Int]
ASSUME DaysAssumption == FirstDay \in Int

Rung == [within : Int, every : Int]

ASSUME SpecsAssumption == Specs \subseteq Seq(Rung \cup {Blank})
ASSUME DefaultAssumption ==
  /\ DefaultRules \in Seq(Rung)
  /\ \A i \in DOMAIN DefaultRules : DefaultRules[i].every >= 1
  /\ \A i, j \in DOMAIN DefaultRules : i < j => DefaultRules[i].within < DefaultRules[j].within

VARIABLES spec, cuts, days
vars == <<spec, cuts, days>>

-----------------------------------------------------------------------------
(* Parsing the ladder *)

\* A value of REMINDER_ESCALATION is a sequence of parts, each one a pair of
\* numbers or blank; a part that is not is rejected before it gets here.
BadRung(part) == part.within < 0 \/ part.every < 1

\* The parts that are not blank, each at its place among the parts.
Rungs(parts) == [i \in {j \in DOMAIN parts : parts[j] # Blank} |-> parts[i]]

ParseFails(parts) ==
  LET r == Rungs(parts)
  IN \/ \E i \in DOMAIN r : BadRung(r[i])
     \/ \E i, j \in DOMAIN r : i # j /\ r[i].within = r[j].within

normalizeNot(r) == r                                       \* mutant

\* Sorted by threshold: the position of a rung is the number of rungs within it.
Within(r, i) == {j \in DOMAIN r : r[j].within <= r[i].within}
normalize(r) ==
  [k \in 1..Cardinality(DOMAIN r) |-> r[CHOOSE i \in DOMAIN r : k = Cardinality(Within(r, i))]]

\* The ladder of a value that is accepted; nothing but blanks means the default.
Parse(parts, def) ==
  IF DOMAIN Rungs(parts) = {} THEN def ELSE normalize(Rungs(parts))

-----------------------------------------------------------------------------
(* Specification *)

\* A rejected value stops the program at start-up.
Init ==
  /\ spec \in {parts \in Specs : ~ParseFails(parts)}
  /\ cuts \in Cutoffs
  /\ days = FirstDay

NextDay ==
  /\ days > LastDay
  /\ days' = days - 1
  /\ UNCHANGED <<spec, cuts>>

Next == NextDay
Spec == Init /\ [][Next]_vars

-----------------------------------------------------------------------------
(* Properties *)

Ladder == Parse(spec, DefaultRules)

\* The rungs as configured, in any order.
Configured ==
  LET r == Rungs(spec)
  IN IF DOMAIN r = {} THEN {DefaultRules[i] : i \in DOMAIN DefaultRules}
     ELSE {r[i] : i \in DOMAIN r}

\* Whatever order the rungs are written in, an item repeats at the interval of
\* the tightest rung it is inside of, and not at all outside of every rung.
TightestRungWins ==
  LET inside == {q \in Configured : days <= q.within}
  IN IF inside = {} THEN IntervalFor(Ladder, days) = 0
     ELSE \E q \in inside : /\ \A x \in inside : q.within <= x.within
                            /\ IntervalFor(Ladder, days) = q.every

\* An item never looks less urgent than the day before, whatever the cutoffs are
\* (nothing checks that they are in order).
SeverityNeverEases ==
  [][Rank(Classify(days', cuts')) >= Rank(Classify(days, cuts))]_vars

\* If the configured rungs tighten, so does the reminding: once an item repeats it
\* never stops, nor repeats less often than the day before, past its expiry too.
Tightens == \A p, q \in Configured : p.within <= q.within => p.every <= q.every
NeverSlowsDown ==
  [][Tightens /\ IntervalFor(Ladder, days) > 0
       => IntervalFor(Ladder, days') \in 1..IntervalFor(Ladder, days)]_vars
=============================================================================
