-------------------------- MODULE MCSupplierLedger --------------------------
(* The supplier ledger on a small instance.                                *)
EXTENDS SupplierLedger, TLC

Symmetry == Permutations(Workers) \cup Permutations(Labels) \cup Permutations(Suppliers)

=============================================================================
