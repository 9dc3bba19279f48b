------------------------------ MODULE MCUrgency ------------------------------
(* Urgency on small instances for TLC. *)
EXTENDS Urgency

TwoDaysPast == -2

Parts ==
  [within : {-1, 0, 2, 4}, every : {0, 1, 2, 3}] \cup {Blank}

\* Every value of up to three parts, with what Parse rejects among them.
SmallSpecs == UNION {[1..n -> Parts] : n \in 0..3}

Shipped ==
  <<[within |-> 1, every |-> 1], [within |-> 3, every |-> 2], [within |-> 5, every |-> 3]>>

\* Boundaries in any order.
SmallCutoffs ==
  [notice : {0, 2, 4}, warning : {0, 1, 3}, urgent : {0, 1, 2}, critical : {-1, 0, 2}]
=============================================================================
