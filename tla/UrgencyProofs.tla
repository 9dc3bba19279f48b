----------------------------- MODULE UrgencyProofs -----------------------------
(***************************************************************************)
(* Severity over time, proved for any cutoffs and any number of days, and  *)
(* the ladder, for any value of REMINDER_ESCALATION that is accepted.      *)
(***************************************************************************)
EXTENDS Urgency, CadenceProofs, FiniteSetTheorems, TLAPS

\* What the days and cutoffs are in every reachable state.
DaysInv == days \in Int /\ cuts \in Cutoffs

\* Later is never less urgent: whatever the cutoffs are, and in whatever order,
\* Classify and Rank can only climb as days go by.
LEMMA RankIsAntitone ==
  ASSUME NEW c \in [notice : Int, warning : Int, urgent : Int, critical : Int],
         NEW d \in Int, NEW e \in Int, e <= d
  PROVE  Rank(Classify(e, c)) >= Rank(Classify(d, c))
<1>1. c.notice \in Int /\ c.warning \in Int /\ c.urgent \in Int /\ c.critical \in Int
  OBVIOUS
<1>2. CASE e < 0
  BY <1>2, <1>1 DEF Rank, Classify
<1>3. CASE ~(e < 0)
  BY <1>3, <1>1 DEF Rank, Classify
<1>4. QED
  BY <1>2, <1>3

\* DaysInv holds in every reachable state: a configuration is read once.
THEOREM DaysInvariant == Spec => []DaysInv
<1>1. Init => DaysInv
  BY DaysAssumption DEF Init, DaysInv
<1>2. DaysInv /\ [Next]_vars => DaysInv'
  BY DEF DaysInv, Next, NextDay, vars
<1>3. QED
  BY <1>1, <1>2, PTL DEF Spec

\* No day makes an item look less urgent than the day before, for any cutoffs.
THEOREM SeverityOnlyClimbs == Spec => SeverityNeverEases
<1>1. DaysInv /\ [Next]_vars
        => [Rank(Classify(days', cuts')) >= Rank(Classify(days, cuts))]_vars
  <2>1. SUFFICES ASSUME DaysInv, NextDay
                 PROVE  Rank(Classify(days', cuts')) >= Rank(Classify(days, cuts))
    BY DEF Next
  <2>2. /\ cuts \in [notice : Int, warning : Int, urgent : Int, critical : Int]
        /\ days \in Int /\ days' \in Int /\ days' <= days /\ cuts' = cuts
    BY <2>1, CutoffsAssumption DEF DaysInv, NextDay
  <2>3. Rank(Classify(days', cuts)) >= Rank(Classify(days, cuts))
    BY <2>2, RankIsAntitone
  <2>4. QED
    BY <2>2, <2>3
<1>2. QED
  BY <1>1, DaysInvariant, PTL DEF Spec, SeverityNeverEases

-----------------------------------------------------------------------------
(* Sorting the rungs *)

\* No two rungs share a threshold.
Distinct(r) == \A i, j \in DOMAIN r : i # j => r[i].within # r[j].within
Ascending(r) == \A i, j \in DOMAIN r : i < j => r[i].within < r[j].within

\* More rungs are within a wider one; a rung's own position is a place on the ladder.
LEMMA PositionGrows ==
  ASSUME NEW S, IsFiniteSet(S), NEW r \in [S -> Rung], NEW i \in S, NEW j \in S
  PROVE  /\ Cardinality(Within(r, i)) \in 1..Cardinality(S)
         /\ r[i].within < r[j].within
              => Cardinality(Within(r, i)) < Cardinality(Within(r, j))
<1>1. Within(r, i) \in SUBSET S /\ Within(r, j) \in SUBSET S /\ i \in Within(r, i)
  BY DEF Within, Rung
<1>2. IsFiniteSet(Within(r, i)) /\ IsFiniteSet(Within(r, j)) BY <1>1, FS_Subset
<1>3. /\ Cardinality(Within(r, i)) \in Nat /\ Cardinality(Within(r, j)) \in Nat
      /\ Cardinality(S) \in Nat
  BY <1>2, FS_CardinalityType
<1>4. Cardinality(Within(r, i)) <= Cardinality(S) BY <1>1, FS_Subset
<1>5. Cardinality(Within(r, i)) # 0 BY <1>1, <1>2, FS_EmptySet
<1>6. ASSUME r[i].within < r[j].within
      PROVE  Cardinality(Within(r, i)) < Cardinality(Within(r, j))
  <2>1. r[i].within \in Int /\ r[j].within \in Int /\ \A k \in S : r[k].within \in Int
    BY DEF Rung
  <2>2. Within(r, i) \in SUBSET Within(r, j) /\ j \in Within(r, j) /\ j \notin Within(r, i)
    BY <1>6, <2>1 DEF Within
  <2>3. /\ Cardinality(Within(r, i)) <= Cardinality(Within(r, j))
        /\ Cardinality(Within(r, i)) # Cardinality(Within(r, j))
    BY <1>2, <2>2, FS_Subset
  <2> QED BY <1>3, <2>3
<1> QED BY <1>3, <1>4, <1>5, <1>6

\* Rungs with thresholds of their own are sorted into an ascending ladder with the
\* same rungs: their positions are a bijection with the places on the ladder.
LEMMA NormalizeSorts ==
  ASSUME NEW S, IsFiniteSet(S), NEW r \in [S -> Rung], Distinct(r)
  PROVE  /\ DOMAIN normalize(r) \subseteq Nat
         /\ Ascending(normalize(r))
         /\ {normalize(r)[k] : k \in DOMAIN normalize(r)} = {r[i] : i \in S}
<1> DEFINE n == Cardinality(S)
           position == [i \in S |-> Cardinality(Within(r, i))]
           at(k) == CHOOSE i \in S : k = Cardinality(Within(r, i))
<1>1. n \in Nat BY FS_CardinalityType
<1>2. \A i \in S : position[i] \in 1..n BY PositionGrows
<1>3. \A i, j \in S : r[i].within < r[j].within => position[i] < position[j]
  BY PositionGrows
<1>4. \A i \in S : r[i].within \in Int BY DEF Rung
<1>5. \A i, j \in S : i # j => position[i] # position[j]
  <2> SUFFICES ASSUME NEW i \in S, NEW j \in S, i # j PROVE position[i] # position[j]
    OBVIOUS
  <2>1. r[i].within < r[j].within \/ r[j].within < r[i].within BY <1>4 DEF Distinct
  <2>2. position[i] < position[j] \/ position[j] < position[i] BY <1>3, <2>1
  <2> QED BY <1>2, <2>2
<1>6. position \in Injection(S, 1..n)
  BY <1>2, <1>5 DEF Injection, IsInjective
<1>7. IsFiniteSet(1..n) /\ Cardinality(1..n) = n BY <1>1, FS_Interval
<1>8. position \in Surjection(S, 1..n) BY <1>6, <1>7, FS_Injection
<1>9. \A k \in 1..n : at(k) \in S /\ position[at(k)] = k
  <2>1. \A k \in 1..n : \E i \in S : k = Cardinality(Within(r, i))
    BY <1>8 DEF Surjection
  <2> QED BY <2>1
<1>10. DOMAIN normalize(r) = 1..n /\ \A k \in 1..n : normalize(r)[k] = r[at(k)]
  BY DEF normalize
<1> HIDE DEF n, position, at
<1>11. Ascending(normalize(r))
  <2> SUFFICES ASSUME NEW k \in 1..n, NEW l \in 1..n, k < l
               PROVE  r[at(k)].within < r[at(l)].within
    BY <1>10 DEF Ascending
  <2>1. at(k) \in S /\ at(l) \in S /\ position[at(k)] = k /\ position[at(l)] = l BY <1>9
  <2>2. at(k) # at(l) BY <2>1
  <2>3. ~(r[at(l)].within < r[at(k)].within) BY <1>3, <2>1
  <2>4. r[at(k)].within # r[at(l)].within BY <2>1, <2>2 DEF Distinct
  <2> QED BY <1>4, <2>1, <2>3, <2>4
<1>12. \A i \in S : at(position[i]) = i BY <1>2, <1>5, <1>9
<1>13. \A i \in S : normalize(r)[position[i]] = r[i] BY <1>2, <1>10, <1>12
<1>14. {normalize(r)[k] : k \in DOMAIN normalize(r)} = {r[i] : i \in S}
  BY <1>2, <1>9, <1>10, <1>13
<1>15. DOMAIN normalize(r) \subseteq Nat BY <1>1, <1>10
<1> QED BY <1>11, <1>14, <1>15

-----------------------------------------------------------------------------
(* The ladder in use *)

\* The configuration in use was accepted.
ConfigInv == days \in Int /\ spec \in Specs /\ ~ParseFails(spec)

THEOREM ConfigInvariant == Spec => []ConfigInv
<1>1. Init => ConfigInv
  BY DaysAssumption DEF Init, ConfigInv
<1>2. ConfigInv /\ [Next]_vars => ConfigInv'
  BY DEF ConfigInv, Next, NextDay, vars
<1>3. QED
  BY <1>1, <1>2, PTL DEF Spec

\* An accepted configuration is a ladder of its rungs that ascends, each of which
\* repeats an alert after a day or more.
LEMMA LadderIsSorted ==
  ASSUME ConfigInv
  PROVE  /\ DOMAIN Ladder \subseteq Nat
         /\ Ascending(Ladder)
         /\ {Ladder[k] : k \in DOMAIN Ladder} = Configured
         /\ Configured \subseteq Rung
         /\ \A q \in Configured : q.every >= 1
<1> DEFINE r == Rungs(spec)
           S == DOMAIN r
<1>1. spec \in Seq(Rung \cup {Blank}) BY SpecsAssumption DEF ConfigInv
<1>2. /\ S = {j \in 1..Len(spec) : spec[j] # Blank}
      /\ \A i \in S : r[i] = spec[i]
  BY <1>1 DEF Rungs
<1>3. r \in [S -> Rung]
  <2>1. \A i \in S : r[i] \in Rung BY <1>1, <1>2
  <2> QED BY <2>1 DEF Rungs
<1>4. IsFiniteSet(S)
  <2>1. Len(spec) \in Int /\ S \in SUBSET (1..Len(spec)) BY <1>1, <1>2
  <2>2. IsFiniteSet(1..Len(spec)) BY <2>1, FS_Interval
  <2> QED BY <2>1, <2>2, FS_Subset
<1>5. /\ Distinct(r)
      /\ \A i \in S : r[i].every >= 1
  <2>1. /\ \A i \in S : ~BadRung(r[i])
        /\ \A i, j \in S : ~(i # j /\ r[i].within = r[j].within)
    BY DEF ConfigInv, ParseFails
  <2>2. \A i \in S : r[i].every \in Int BY <1>3 DEF Rung
  <2> QED BY <2>1, <2>2 DEF Distinct, BadRung
<1> HIDE DEF r
<1>6. CASE S = {}
  <2>1. Ladder = DefaultRules BY <1>6 DEF Ladder, Parse, r
  <2>2. Configured = {DefaultRules[i] : i \in DOMAIN DefaultRules}
    BY <1>6 DEF Configured, r
  <2>3. /\ DOMAIN DefaultRules \subseteq Nat
        /\ \A i \in DOMAIN DefaultRules : DefaultRules[i] \in Rung
    BY DefaultAssumption
  <2> QED BY <2>1, <2>2, <2>3, DefaultAssumption DEF Ascending
<1>7. CASE S # {}
  <2>1. Ladder = normalize(r) BY <1>7 DEF Ladder, Parse, r
  <2>2. Configured = {r[i] : i \in S} BY <1>7 DEF Configured, r
  <2>3. Configured \subseteq Rung /\ \A q \in Configured : q.every >= 1
    BY <2>2, <1>3, <1>5
  <2>4. /\ DOMAIN normalize(r) \subseteq Nat
        /\ Ascending(normalize(r))
        /\ {normalize(r)[k] : k \in DOMAIN normalize(r)} = {r[i] : i \in S}
    BY <1>3, <1>4, <1>5, NormalizeSorts
  <2> QED BY <2>1, <2>2, <2>3, <2>4
<1> QED BY <1>6, <1>7

\* So the first rung that matches is the tightest one.
LEMMA TightestOfAccepted ==
  ASSUME ConfigInv, NEW d \in Int
  PROVE  LET inside == {q \in Configured : d <= q.within}
         IN IF inside = {} THEN IntervalFor(Ladder, d) = 0
            ELSE \E q \in inside : /\ \A x \in inside : q.within <= x.within
                                   /\ IntervalFor(Ladder, d) = q.every
<1> DEFINE inside == {q \in Configured : d <= q.within}
<1>1. /\ DOMAIN Ladder \subseteq Nat
      /\ Ascending(Ladder)
      /\ {Ladder[k] : k \in DOMAIN Ladder} = Configured
      /\ Configured \subseteq Rung
  BY LadderIsSorted
<1>2. inside = {Ladder[k] : k \in Inside(Ladder, d)} BY <1>1 DEF Inside
<1>3. CASE inside = {}
  <2>1. IntervalFor(Ladder, d) = 0 BY <1>2, <1>3 DEF IntervalFor
  <2> QED BY <1>3, <2>1
<1>4. CASE inside # {}
  <2>1. Inside(Ladder, d) # {} BY <1>2, <1>4
  <2>2. PICK k \in Inside(Ladder, d) :
          /\ \A j \in Inside(Ladder, d) : k <= j
          /\ IntervalFor(Ladder, d) = Ladder[k].every
    BY <1>1, <2>1, FirstRung
  <2>3. \A j \in Inside(Ladder, d) : Ladder[k].within <= Ladder[j].within
    <3> SUFFICES ASSUME NEW j \in Inside(Ladder, d)
                 PROVE  Ladder[k].within <= Ladder[j].within
      OBVIOUS
    <3>1. j \in DOMAIN Ladder /\ k \in DOMAIN Ladder BY DEF Inside
    <3>2. Ladder[j] \in Rung /\ Ladder[k] \in Rung BY <1>1, <3>1
    <3>3. Ladder[j].within \in Int /\ Ladder[k].within \in Int BY <3>2 DEF Rung
    <3>4. k = j \/ Ladder[k].within < Ladder[j].within
      BY <1>1, <2>2, <3>1 DEF Ascending
    <3> QED BY <3>3, <3>4
  <2>4. Ladder[k] \in inside /\ \A x \in inside : Ladder[k].within <= x.within
    BY <1>2, <2>3
  <2> QED BY <1>4, <2>2, <2>4
<1> QED BY <1>3, <1>4

\* The tightest rung wins whatever order the rungs are written in, for every
\* accepted value of REMINDER_ESCALATION.
THEOREM TheTightestRungWins == Spec => []TightestRungWins
<1>1. ConfigInv => TightestRungWins
  BY TightestOfAccepted DEF ConfigInv, TightestRungWins
<1>2. QED
  BY <1>1, ConfigInvariant, PTL

\* Where the configured rungs tighten, reminding never slows down, for every
\* accepted value and any number of days.
THEOREM RemindingNeverSlowsDown == Spec => NeverSlowsDown
<1>1. ConfigInv /\ [Next]_vars
        => [Tightens /\ IntervalFor(Ladder, days) > 0
              => IntervalFor(Ladder, days') \in 1..IntervalFor(Ladder, days)]_vars
  <2>1. SUFFICES ASSUME ConfigInv, NextDay, Tightens, IntervalFor(Ladder, days) > 0
                 PROVE  IntervalFor(Ladder, days') \in 1..IntervalFor(Ladder, days)
    BY DEF Next
  <2>2. days' \in Int /\ days' <= days /\ days \in Int
    BY <2>1 DEF NextDay, ConfigInv
  <2>3. Configured \subseteq Rung /\ \A q \in Configured : q.every >= 1
    BY <2>1, LadderIsSorted
  <2>4. PICK q \in Configured : days <= q.within /\ IntervalFor(Ladder, days) = q.every
    BY <2>1, <2>2, TightestOfAccepted
  <2>5. days' <= q.within BY <2>2, <2>3, <2>4 DEF Rung
  <2>6. PICK p \in Configured : p.within <= q.within /\ IntervalFor(Ladder, days') = p.every
    BY <2>1, <2>2, <2>4, <2>5, TightestOfAccepted
  <2>7. p.every <= q.every BY <2>1, <2>6 DEF Tightens
  <2>8. p.every \in Int /\ q.every \in Int /\ p.every >= 1 BY <2>3 DEF Rung
  <2> QED BY <2>4, <2>6, <2>7, <2>8
<1>2. QED
  BY <1>1, ConfigInvariant, PTL DEF Spec, NeverSlowsDown
================================================================================
