------------------------------ MODULE MCAccounts ------------------------------
(* Accounts on a small instance for TLC: liveness is checked, so no symmetry. *)
EXTENDS Accounts
=============================================================================
