------------------------------ MODULE MCAccess ------------------------------
(* Requests of two users in two tenants.                                  *)
EXTENDS AccessHistory, TLC

Symmetry == Permutations(Workers) \cup Permutations(Users)

=============================================================================
