---------------------------- MODULE CadenceProofs ----------------------------
(***************************************************************************)
(* What the operators of Cadence return, for any ladder and any item.      *)
(***************************************************************************)
EXTENDS Cadence, WellFoundedInduction, TLAPS

\* Some natural numbers have a least one.
LEMMA LeastOfSome ==
  ASSUME NEW S \in SUBSET Nat, S # {} PROVE \E i \in S : \A j \in S : i <= j
<1> DEFINE R == OpToRel(<, Nat)
<1>1. IsWellFoundedOn(R, Nat) BY NatLessThanWellFounded
<1>2. \A x, y \in Nat : x < y => <<x, y>> \in R BY DEF OpToRel
<1> HIDE DEF R
<1>3. PICK i \in S : \A j \in S : <<j, i>> \notin R BY <1>1, WFMin
<1>4. ASSUME NEW j \in S PROVE i <= j
  <2>1. ~(j < i) BY <1>2, <1>3
  <2> QED BY <2>1
<1> QED BY <1>4

\* The interval of an item that is inside of some rung is that of the first one.
LEMMA FirstRung ==
  ASSUME NEW rules, DOMAIN rules \subseteq Nat, NEW days, Inside(rules, days) # {}
  PROVE  \E k \in Inside(rules, days) :
            /\ \A j \in Inside(rules, days) : k <= j
            /\ IntervalFor(rules, days) = rules[k].every
<1>1. Inside(rules, days) \in SUBSET Nat BY DEF Inside
<1>2. PICK i \in Inside(rules, days) : \A j \in Inside(rules, days) : i <= j
  BY <1>1, LeastOfSome
<1> QED BY <1>2 DEF IntervalFor

\* Recording more milestones makes none of them due,
LEMMA DueShrinks ==
  ASSUME NEW row, NEW sent, NEW more, NEW today,
         DueMilestones(row, sent, today) = {}, sent \subseteq more
  PROVE  DueMilestones(row, more, today) = {}
BY DEF DueMilestones

\* and recording those that are due leaves none.
LEMMA DueConsumed ==
  ASSUME NEW row, NEW sent, NEW today
  PROVE  DueMilestones(row, sent \cup DueMilestones(row, sent, today), today) = {}
BY DEF DueMilestones
==============================================================================
