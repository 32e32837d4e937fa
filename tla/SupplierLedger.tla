--------------------------- MODULE SupplierLedger ---------------------------
(***************************************************************************)
(* The supplier ledger of one tenant: what is bought from and paid to      *)
(* suppliers, in the tables suppliers and supplier_transactions.  Unlike   *)
(* the cash ledger it has neither a trigger nor a unique index behind the  *)
(* checks of the service, and its rows are not immutable: cmd/fix_returns  *)
(* relabels some of them.                                                  *)
(*                                                                         *)
(* A worker is a request; each of its SQL statements is a step.  An INSERT *)
(* reads nothing but its supplier and the width of a column, so it and its *)
(* COMMIT are one.                                                         *)
(***************************************************************************)
EXTENDS Integers, Sequences, FiniteSetsExt

CONSTANTS
    Suppliers,  \* the names suppliers may get: UNIQUE per tenant
    Foreign,    \* suppliers of other tenants, whose ids a request may send
    Labels,     \* periods, all of them opened
    Amounts,    \* the amounts a client may send or a sheet may hold
    Workers,    \* requests that can be in progress at once
    MaxEntries, \* bound: no entry or import begins once there are so many rows
    MaxRows,    \* bound: no reversal begins once there are so many rows
    MaxBatch    \* bound: rows parsed from one sheet

ASSUME SupplierAmountsAssumption == Amounts \subseteq Int
ASSUME SupplierBoundsAssumption ==
    MaxEntries \in Nat /\ MaxRows \in Nat /\ MaxBatch \in Nat
ASSUME SupplierWorkersAssumption == IsFiniteSet(Workers)
ASSUME ForeignAssumption == Foreign \cap Suppliers = {}

VARIABLES
    known,      \* the rows of suppliers
    rows,       \* supplier_transactions, in commit order
    status,     \* periods.status
    wide,       \* whether the column direction is VARCHAR(30), not VARCHAR(10)
    req         \* what each worker is doing

vars == <<known, rows, status, wide, req>>

-----------------------------------------------------------------------------
NoReversal == 0

Direction == {"purchase", "payment", "purchase_return", "payment_return"}

Row == [supplier : Suppliers \cup Foreign, period : Labels, dir : Direction,
        amount : {a \in Amounts : a > 0}, rev : Nat]

\* Mutant of ReturnDirection: only the two original directions are mapped.
FirstReturns(d) == IF d = "payment" THEN "payment_return" ELSE "purchase_return"

\* The direction of a reversal.
ReturnDirection(d) ==
    CASE d = "payment"         -> "payment_return"
      [] d = "purchase_return" -> "purchase"
      [] d = "payment_return"  -> "payment"
      [] OTHER                 -> "purchase_return"

\* "purchase_return" and "payment_return" are longer than ten characters.
Fits(d) == wide \/ d \in {"purchase", "payment"}

Reversals(i) == {k \in DOMAIN rows : rows[k].rev = i}

\* Mutants of AlreadyReversed: one of its SELECTs is missing.
NamedByReversal(i) == Reversals(i) # {}
IsReversal(i) == rows[i].rev # NoReversal

\* checkReversedQuery.
AlreadyReversed(i) == Reversals(i) # {} \/ rows[i].rev # NoReversal

\* The rows requests and sheets can ask for.  A request carries the id of a
\* supplier, a sheet its name.
NewRow(suppliers, l, directions) ==
    [supplier : suppliers, period : {l}, dir : directions,
     amount : {a \in Amounts : a > 0}, rev : {NoReversal}]

Batches(l) ==
    UNION {[1..n -> NewRow(Suppliers, l, {"purchase", "payment"})] : n \in 0..MaxBatch}

\* An import still has suppliers to register, then its batch to insert.
RowReq    == [pc : {"check", "insert"}, row : Row]
ImportReq == [pc : {"register"}, period : Labels, todo : SUBSET Suppliers, batch : Seq(Row)]

Idle == [pc |-> "idle"]

TypeOK ==
    /\ known \subseteq Suppliers
    /\ rows \in Seq(Row)
    /\ status \in [Labels -> {"open", "locked"}]
    /\ wide \in BOOLEAN
    /\ req \in [Workers -> {Idle} \cup RowReq \cup ImportReq]

Init ==
    /\ known = {}
    /\ rows = <<>>
    /\ status = [l \in Labels |-> "open"]
    /\ wide = FALSE
    /\ req = [w \in Workers |-> Idle]

IsIdle(w) == req[w] = Idle

Finish(w) == req' = [req EXCEPT ![w] = Idle]

-----------------------------------------------------------------------------
(* Requests.                                                               *)

\* CreateSupplier: INSERT ... ON CONFLICT DO UPDATE SET is_active = true.
FindOrCreateSupplier(w, s) ==
    /\ IsIdle(w)
    /\ known' = known \cup {s}
    /\ UNCHANGED <<rows, status, wide, req>>

\* Mutant of Unlocked: the period is read and its status not looked at.
AnyStatus(l) == l \in Labels

\* The service reads the period and finds it unlocked.
Unlocked(l) == status[l] # "locked"

\* CreateTransaction: what the repository will insert.  A request that fails
\* a check (amount, direction, period) ends without effect.
BeginCreate(w, row) ==
    /\ IsIdle(w)
    /\ Len(rows) < MaxEntries
    /\ Unlocked(row.period)
    /\ req' = [req EXCEPT ![w] = [pc |-> "insert", row |-> row]]
    /\ UNCHANGED <<known, rows, status, wide>>

\* ReverseTransaction of the service: reads the row, then its period, and
\* builds the reversal.
ReversalOf(i) == [rows[i] EXCEPT !.dir = ReturnDirection(@), !.rev = i]

BeginReverse(w, i) ==
    /\ IsIdle(w)
    /\ Len(rows) < MaxRows
    /\ Unlocked(rows[i].period)
    /\ req' = [req EXCEPT ![w] = [pc |-> "check", row |-> ReversalOf(i)]]
    /\ UNCHANGED <<known, rows, status, wide>>

\* Steps 1 and 2 of the repository's ReverseTransaction.  Rows are not
\* deleted, so step 1 finds the row.
CheckReversed(w) ==
    /\ req[w].pc = "check"
    /\ IF AlreadyReversed(req[w].row.rev)
       THEN Finish(w)
       ELSE req' = [req EXCEPT ![w] = [@ EXCEPT !.pc = "insert"]]
    /\ UNCHANGED <<known, rows, status, wide>>

\* REFERENCES suppliers(id): a row of the table, whichever tenant's.
Referable(s) == s \in known \cup Foreign

\* The INSERT of either path; a supplier nobody registered violates the
\* foreign key, a direction that is too long the type of its column.  Neither
\* the service nor the key asks whose supplier it is.
InsertRow(w) ==
    /\ req[w].pc = "insert"
    /\ rows' = IF Referable(req[w].row.supplier) /\ Fits(req[w].row.dir)
               THEN Append(rows, req[w].row) ELSE rows
    /\ Finish(w)
    /\ UNCHANGED <<known, status, wide>>

\* ImportExcel: the period is found unlocked and the sheet parsed (module
\* ExcelImport).  Every block of the sheet names a supplier.
BeginImport(w, l, blocks, batch) ==
    /\ IsIdle(w)
    /\ Len(rows) < MaxEntries
    /\ Unlocked(l)
    /\ blocks # {}
    /\ \A k \in DOMAIN batch : batch[k].supplier \in blocks
    /\ req' = [req EXCEPT ![w] =
                   [pc |-> "register", period |-> l, todo |-> blocks, batch |-> batch]]
    /\ UNCHANGED <<known, rows, status, wide>>

\* detectSupplierBlocks calls FindOrCreateSupplier for each block, outside
\* any transaction.
RegisterSupplier(w) ==
    /\ req[w].pc = "register"
    /\ \E s \in req[w].todo :
        /\ known' = known \cup {s}
        /\ req' = [req EXCEPT ![w] = [@ EXCEPT !.todo = req[w].todo \ {s}]]
    /\ UNCHANGED <<rows, status, wide>>

\* BatchInsertTransactions: one transaction for all rows.
InsertBatch(w) ==
    /\ req[w].pc = "register"
    /\ req[w].todo = {}
    /\ rows' = rows \o req[w].batch
    /\ Finish(w)
    /\ UNCHANGED <<known, status, wide>>

\* A statement fails or the request dies; PostgreSQL rolls back.
Abort(w) ==
    /\ ~IsIdle(w)
    /\ Finish(w)
    /\ UNCHANGED <<known, rows, status, wide>>

-----------------------------------------------------------------------------
(* Around the requests.                                                    *)

\* The period service and open_next_period change the status of periods.
SetStatus(l) ==
    /\ \E s \in {"open", "locked"} \ {status[l]} : status' = [status EXCEPT ![l] = s]
    /\ UNCHANGED <<known, rows, wide, req>>

\* cmd/fix_returns: ALTER TABLE, then UPDATE, each a transaction of its own.
\* Once migration 19 has made a view over the column the ALTER fails, which
\* is only logged.
WidenColumn ==
    /\ wide' \in {wide, TRUE}
    /\ UNCHANGED <<known, rows, status, req>>

\* Mutant of Relabelled: a payment that was cancelled becomes its return.
RelabelledAsReturn == "payment_return"

Relabelled == "purchase_return"

\* Every payment whose description has the words of a reversal.  Those of a
\* reversal always have them; what users wrote elsewhere may.
RelabelReturns ==
    /\ wide
    /\ \E also \in SUBSET {k \in DOMAIN rows : rows[k].rev = NoReversal} :
        rows' = [k \in DOMAIN rows |->
                    IF /\ rows[k].dir = "payment"
                       /\ k \in also \/ rows[k].rev # NoReversal
                    THEN [rows[k] EXCEPT !.dir = Relabelled] ELSE rows[k]]
    /\ UNCHANGED <<known, status, wide, req>>

FixReturns == WidenColumn \/ RelabelReturns

RowStep(w) ==
    \/ \E l \in Labels : \E row \in NewRow(Suppliers \cup Foreign, l, Direction) : BeginCreate(w, row)
    \/ \E i \in DOMAIN rows : BeginReverse(w, i)
    \/ CheckReversed(w)
    \/ InsertRow(w)

ImportStep(w) ==
    \/ \E s \in Suppliers : FindOrCreateSupplier(w, s)
    \/ \E l \in Labels, blocks \in SUBSET Suppliers :
           \E batch \in Batches(l) : BeginImport(w, l, blocks, batch)
    \/ RegisterSupplier(w)
    \/ InsertBatch(w)

Next ==
    \/ \E w \in Workers : RowStep(w) \/ ImportStep(w) \/ Abort(w)
    \/ \E l \in Labels : SetStatus(l)
    \/ FixReturns

Spec == Init /\ [][Next]_vars

-----------------------------------------------------------------------------
(* What the queries return.                                                *)

Total(dir, set) ==
    SumFunction([k \in {j \in set : rows[j].dir = dir} |-> rows[k].amount])

NetPurchases(set) == Total("purchase", set) - Total("purchase_return", set)
NetPayments(set)  == Total("payment", set) - Total("payment_return", set)

\* A supplier's debt in a set of rows.
Balance(set) == NetPurchases(set) - NetPayments(set)

InPeriod(l) == {k \in DOMAIN rows : rows[k].period = l}

RowsOf(s) == {k \in DOMAIN rows : rows[k].supplier = s}

\* Mutant of Joined: the period filters suppliers but not their rows.
JoinedAny(s, l) == RowsOf(s)

\* The rows GetSuppliersWithBalances joins to supplier s under a filter.
Joined(s, l) == RowsOf(s) \cap InPeriod(l)

\* Its WHERE leaves out a supplier all of whose rows are in other periods.
Listed(l) == {s \in known : Joined(s, l) # {} \/ RowsOf(s) = {}}

\* GetSummary with a period filter.
SummaryNet(l) == Balance(InPeriod(l))

\* The rows that neither are a reversal nor have one.
Uncancelled(set) == {k \in set : rows[k].rev = NoReversal /\ Reversals(k) = {}}

-----------------------------------------------------------------------------
(* What must hold however requests interleave.                             *)

\* A row's effect on the debt.
Effect(row) ==
    IF row.dir \in {"purchase", "payment_return"} THEN row.amount ELSE -row.amount

\* A reversal names an earlier row that is no reversal itself, of the same
\* supplier and period, and undoes its effect on the debt, whether or not
\* fix_returns has relabelled either of the two, before or between the reads.
ReversalCancels ==
    \A k \in DOMAIN rows : rows[k].rev # NoReversal =>
        LET orig == rows[rows[k].rev]
        IN  /\ rows[k].rev < k
            /\ orig.rev = NoReversal
            /\ orig.supplier = rows[k].supplier /\ orig.period = rows[k].period
            /\ Effect(rows[k]) = -Effect(orig)

\* The requests past their check that are about to reverse row i.
Cancelling(i) == {w \in Workers : req[w].pc = "insert" /\ req[w].row.rev = i}

\* A row that has been reversed is closed to further reversals, except those
\* that had passed their check before: how often it is reversed, and may
\* still be, only falls from the first reversal on.
ReversedRowsClosed ==
    [][\A i \in DOMAIN rows : Reversals(i) # {} =>
           Cardinality(Reversals(i))' + Cardinality(Cancelling(i))'
               <= Cardinality(Reversals(i)) + Cardinality(Cancelling(i))]_vars

\* The reversals of rows that had a reversal already.
Surplus(set) ==
    {k \in set : \E j \in DOMAIN rows :
        j < k /\ rows[j].rev = rows[k].rev /\ rows[k].rev # NoReversal}

\* The debt shown, which sums all rows, is the debt without the cancelled
\* ones, what version 18 of recalculate_supplier_balances set out to show,
\* but for the surplus reversals and nothing else.
DebtIgnoresCancelled ==
    \A s \in Suppliers, l \in Labels :
        Balance(Joined(s, l)) = Balance(Uncancelled(Joined(s, l))) + Balance(Surplus(Joined(s, l)))

\* The balances listed for a period add up to the net balance of the
\* summary, though the two queries choose their rows differently, but for the
\* rows that name a supplier of another tenant: only the summary counts them.
SummaryMatchesList ==
    \A l \in Labels :
        SummaryNet(l) = SumFunction([s \in Listed(l) |-> Balance(Joined(s, l))])
                        + Balance({k \in InPeriod(l) : rows[k].supplier \in Foreign})

\* Relabelling rows leaves every supplier's debt in every period alone.
FixReturnsKeepsDebts ==
    [][rows' # rows /\ Len(rows') = Len(rows) =>
        \A s \in Suppliers, l \in Labels : Balance(Joined(s, l))' = Balance(Joined(s, l))]_vars

\* How many rows request w may still insert into period l.
Pending(w, l) ==
    IF req[w].pc = "register" /\ req[w].period = l THEN Len(req[w].batch)
    ELSE IF req[w].pc \in {"check", "insert"} /\ req[w].row.period = l THEN 1 ELSE 0

\* A locked period admits only the requests that found it unlocked: nothing
\* in the database would stop those, but its rows and theirs become no more,
\* by entry, reversal or import.
LockedPeriodDrains ==
    [][\A l \in Labels : status[l] = "locked" =>
           Cardinality(InPeriod(l))' + SumFunction([w \in Workers |-> Pending(w, l)])'
               <= Cardinality(InPeriod(l)) + SumFunction([w \in Workers |-> Pending(w, l)])]_vars

=============================================================================
