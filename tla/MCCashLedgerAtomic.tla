------------------------- MODULE MCCashLedgerAtomic -------------------------
(* The cash ledger and the atomic ledger it implements on small instances. *)
EXTENDS CashLedgerRefinement, TLC

Symmetry == Permutations(Workers) \cup Permutations(Labels)

=============================================================================
