---------------------------- MODULE MCCashLedger ----------------------------
(* The cash ledger with its history on small instances.                    *)
EXTENDS CashLedgerHistory, TLC

Symmetry == Permutations(Workers) \cup Permutations(Labels)

=============================================================================
