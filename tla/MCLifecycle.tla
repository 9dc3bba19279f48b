----------------------------- MODULE MCLifecycle -----------------------------
(* Lifecycle on small instances for TLC. *)
EXTENDS Lifecycle, Naturals, FiniteSets, TLC

CONSTANTS alice, root   \* root is the only one that may act as an admin

\* Bound: one line of replacements of a single row entered by hand, or two rows
\* with at most one request of each kind.
Used(table) == Cardinality({id \in DOMAIN table : table[id] # NoRow})
OneLineOrTwoRows ==
  \/ Cardinality({c \in CertIds : CertExists(c) /\ certs[c].renewed_from = NoId}) <= 1
  \/ Used(certs) <= 2 /\ Used(renewals) <= 1 /\ Used(deletions) <= 1

\* Row ids carry no meaning.
RowIds ==
  Permutations(CertIds) \cup Permutations(RenewalIds) \cup Permutations(DeletionIds)
=============================================================================
