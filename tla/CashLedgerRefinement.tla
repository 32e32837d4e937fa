------------------------ MODULE CashLedgerRefinement ------------------------
(***************************************************************************)
(* When the statements of the backend amount to the atomic operations of   *)
(* AtomicLedger: when periods change alone and no two requests reverse the *)
(* same row at once.  A request takes effect at its commit.                *)
(***************************************************************************)
EXTENDS CashLedger

\* The period AtomicLedger calls latest is the one opened_at puts first.
LatestPeriod == CHOOSE p \in Labels \cup {NoPeriod} : IsLatest(p)

Atomic == INSTANCE AtomicLedger WITH latest <- LatestPeriod

SpecSerialized ==
    Init /\ [][Next /\ PeriodsChangeAlone /\ ReversalsDisjoint']_vars

\* Every commit of a serialized schedule is an operation of the atomic
\* ledger, and no other step changes what its users see.
RefinesAtomicLedger == Atomic!Spec

=============================================================================
