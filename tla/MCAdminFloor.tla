---------------------------- MODULE MCAdminFloor ----------------------------
(* AdminFloor on small instances for TLC. *)
EXTENDS AdminFloor, TLC

\* Account ids and request names carry no meaning.
Names == Permutations(Users) \cup Permutations(Txs)
=============================================================================
