----------------------------- MODULE LedgerRows -----------------------------
(***************************************************************************)
(* The rows of public.transactions as values, and the sums the SQL of the  *)
(* backend takes over them.  The table is append-only, so it is a          *)
(* sequence: a row's position stands for its UUID, and the position 0,     *)
(* which no row has, for NULL in the column reversed_by.  The payment      *)
(* channel, the description and the creator are copied around and never    *)
(* decided upon; they are left out.                                        *)
(***************************************************************************)
EXTENDS Integers, Sequences, FiniteSetsExt

CONSTANTS
    Labels,     \* period labels ("2026-08", ...): UNIQUE per tenant, so they identify a period
    Amounts     \* the amounts a client may send, valid or not

ASSUME AmountsAssumption == Amounts \subseteq Int

Direction == {"in", "out"}

NoReversal == 0

\* tx.Validate: shopspring decimals are compared with zero.
Valid(amount) == amount > 0

Row == [period : Labels, dir : Direction, amount : {a \in Amounts : Valid(a)}, rev : Nat]

\* Mutant of Opposite: the directions the supplier ledger gives its reversals.
CancelDirection(d) == IF d = "out" THEN "cancel_out" ELSE "cancel_in"

\* The inverse direction rule of ReverseTransaction.
Opposite(d) == IF d = "out" THEN "in" ELSE "out"

\* The row ReverseTransaction builds for row i: same period and amount.
ReversalOf(rows, i) ==
    [period |-> rows[i].period, dir |-> Opposite(rows[i].dir),
     amount |-> rows[i].amount, rev |-> i]

\* The rows that name row i in reversed_by.
Reversals(rows, i) == {k \in DOMAIN rows : rows[k].rev = i}

\* Mutants of AlreadyReversed: one of its SELECTs is missing.
NamedByReversal(rows, i) == Reversals(rows, i) # {}
IsReversal(rows, i) == rows[i].rev # NoReversal

\* The two SELECTs of checkReversedQuery, UNION ALL under EXISTS.
AlreadyReversed(rows, i) ==
    \/ Reversals(rows, i) # {}
    \/ rows[i].rev # NoReversal

InPeriod(rows, l) == {k \in DOMAIN rows : rows[k].period = l}

\* CASE WHEN direction = 'in' THEN amount ... minus the same for 'out'.
Signed(row) == IF row.dir = "in" THEN row.amount ELSE -row.amount

NetOf(rows, S) == SumFunction([k \in S |-> Signed(rows[k])])

\* What open_next_period sums: every row of the period, reversed or not.
NetOfAll(rows, l) == NetOf(rows, InPeriod(rows, l))

\* Mutant of Active: the reversed rows are left out, their reversals are not.
Unreversed(rows, l) == {k \in InPeriod(rows, l) : Reversals(rows, k) = {}}

\* What the summary and the history sum: only the rows that neither are a
\* reversal nor have one.
Active(rows, l) ==
    {k \in InPeriod(rows, l) : rows[k].rev = NoReversal /\ Reversals(rows, k) = {}}

NetOfActive(rows, l) == NetOf(rows, Active(rows, l))

=============================================================================
