----------------------------- MODULE CashLedger -----------------------------
(***************************************************************************)
(* The cash ledger of one tenant: periods and transactions in PostgreSQL,  *)
(* and the HTTP requests that read and write them.  A request is served by *)
(* a worker; each of its SQL statements is a step, because the database    *)
(* runs at READ COMMITTED, where every statement, and every query inside a *)
(* PL/pgSQL function or trigger, sees what is committed when it starts.    *)
(* Writes become visible at the commit, which is a step of its own.        *)
(*                                                                         *)
(* With one worker requests are served one after the other; with two or    *)
(* more their statements interleave.                                       *)
(***************************************************************************)
EXTENDS LedgerRows

CONSTANTS
    Workers,    \* requests that can be in progress at once
    NoPeriod,   \* "IF v_prev_period IS NULL"
    MaxEntries, \* bound: no entry begins once this many rows are committed
    MaxRows,    \* bound: no reversal begins once this many rows are committed
    MaxOpens    \* bound: how many times open_next_period is called

ASSUME NoPeriodAssumption == NoPeriod \notin Labels
ASSUME WorkersAssumption == IsFiniteSet(Workers)
ASSUME BoundsAssumption == {MaxEntries, MaxRows, MaxOpens} \subseteq Nat

VARIABLES
    rows,       \* public.transactions, in commit order
    status,     \* periods.status, "none" for a label no period has
    startBal,   \* periods.starting_balance
    openedAt,   \* periods.opened_at: the start time of the inserting transaction
    clock,      \* the time of the last call of open_next_period
    req,        \* what each worker is doing
    carry       \* v_closing_balance of each worker's call of open_next_period

vars == <<rows, status, startBal, openedAt, clock, req, carry>>

-----------------------------------------------------------------------------
Status == {"none", "open", "locked"}

\* A worker is idle, has a row to insert that is about to be checked for an
\* earlier reversal, inserted, or committed, or is inside open_next_period,
\* about to sum the previous period or to write.
IdleReq == [pc : {"idle"}]
RowReq  == [pc : {"check", "insert", "commit"}, row : Row]
OpenReq == [pc : {"sum", "write"}, label : Labels, prev : Labels \cup {NoPeriod},
            wasOpen : BOOLEAN, at : Nat]

Idle == [pc |-> "idle"]

TypeOK ==
    /\ rows \in Seq(Row)
    /\ status \in [Labels -> Status]
    /\ startBal \in [Labels -> Int]
    /\ openedAt \in [Labels -> Nat]
    /\ clock \in Nat
    /\ req \in [Workers -> IdleReq \cup RowReq \cup OpenReq]
    /\ carry \in [Workers -> Int]

Init ==
    /\ rows = <<>>
    /\ status = [l \in Labels |-> "none"]
    /\ startBal = [l \in Labels |-> 0]
    /\ openedAt = [l \in Labels |-> 0]
    /\ clock = 0
    /\ req = [w \in Workers |-> Idle]
    /\ carry = [w \in Workers |-> 0]

Existing == {l \in Labels : status[l] # "none"}

IsIdle(w) == req[w] = Idle

Finish(w) == req' = [req EXCEPT ![w] = Idle]

\* The request of w goes on with its next statement.
GoTo(w, statement) == req' = [req EXCEPT ![w] = [@ EXCEPT !.pc = statement]]

-----------------------------------------------------------------------------
(* Inserting rows: CreateTransaction and ReverseTransaction.               *)

\* The service validates the amount and finds the period open.
BeginCreate(w, l, d, a) ==
    /\ IsIdle(w)
    /\ Len(rows) < MaxEntries
    /\ Valid(a)
    /\ status[l] = "open"
    /\ req' = [req EXCEPT ![w] = [pc |-> "insert",
                   row |-> [period |-> l, dir |-> d, amount |-> a, rev |-> NoReversal]]]
    /\ UNCHANGED <<rows, status, startBal, openedAt, clock, carry>>

\* The service finds the original row, finds its period open and builds the
\* reversal.  Rows never change, so reading the row and its period, two
\* statements, is one step.
BeginReverse(w, i) ==
    /\ IsIdle(w)
    /\ Len(rows) < MaxRows
    /\ i \in DOMAIN rows
    /\ status[rows[i].period] = "open"
    /\ req' = [req EXCEPT ![w] = [pc |-> "check", row |-> ReversalOf(rows, i)]]
    /\ UNCHANGED <<rows, status, startBal, openedAt, clock, carry>>

\* A request that fails its first check (an amount that is not positive, no
\* such period, a locked one) is answered with an error.
Reject(w) ==
    /\ IsIdle(w)
    /\ \/ \E a \in Amounts : ~Valid(a)
       \/ \E l \in Labels : status[l] # "open"
    /\ UNCHANGED vars

\* Step 2 of the repository's ReverseTransaction.  Step 1, that the row
\* still exists, cannot fail: no row is ever deleted.
CheckReversed(w) ==
    /\ req[w].pc = "check"
    /\ IF AlreadyReversed(rows, req[w].row.rev)
       THEN Finish(w)
       ELSE GoTo(w, "insert")
    /\ UNCHANGED <<rows, status, startBal, openedAt, clock, carry>>

\* Mutant of PeriodLockedTrigger: the migration that creates the trigger was not run.
NoTrigger(l) == FALSE

\* prevent_write_to_locked_period: whether the trigger raises.
PeriodLockedTrigger(l) == status[l] = "locked"

\* INSERT, whose BEFORE trigger reads the period's status and raises when it
\* is locked.  The foreign key check takes FOR KEY SHARE on the period, which
\* does not conflict with an update of its status.
InsertRow(w) ==
    /\ req[w].pc = "insert"
    /\ IF PeriodLockedTrigger(req[w].row.period)
       THEN Finish(w)
       ELSE GoTo(w, "commit")
    /\ UNCHANGED <<rows, status, startBal, openedAt, clock, carry>>

CommitRow(w) ==
    /\ req[w].pc = "commit"
    /\ rows' = Append(rows, req[w].row)
    /\ Finish(w)
    /\ UNCHANGED <<status, startBal, openedAt, clock, carry>>

-----------------------------------------------------------------------------
(* Locking and unlocking by hand.  The service reads the period and the    *)
(* caller's role first; only the UPDATE decides, by its WHERE clause, so   *)
(* each is one step.                                                       *)

LockPeriod(w, l) ==
    /\ IsIdle(w)
    /\ status[l] = "open"
    /\ status' = [status EXCEPT ![l] = "locked"]
    /\ UNCHANGED <<rows, startBal, openedAt, clock, req, carry>>

UnlockPeriod(w, l) ==
    /\ IsIdle(w)
    /\ status[l] # "none"
    /\ status' = [status EXCEPT ![l] = "open"]
    /\ UNCHANGED <<rows, startBal, openedAt, clock, req, carry>>

-----------------------------------------------------------------------------
(* open_next_period.                                                       *)

\* ORDER BY opened_at DESC LIMIT 1.
IsLatest(p) ==
    IF p = NoPeriod
    THEN Existing = {}
    ELSE p \in Existing /\ \A l \in Existing : openedAt[l] <= openedAt[p]

\* The transaction starts, which fixes now(), and SELECTs the latest period
\* into v_prev_period, its status with it.
BeginOpen(w, l) ==
    /\ IsIdle(w)
    /\ clock < MaxOpens
    /\ \E p \in Labels \cup {NoPeriod} :
        /\ IsLatest(p)
        /\ req' = [req EXCEPT ![w] = [pc |-> "sum", label |-> l, prev |-> p,
                       wasOpen |-> p # NoPeriod /\ status[p] = "open", at |-> clock + 1]]
    /\ clock' = clock + 1
    /\ UNCHANGED <<rows, status, startBal, openedAt, carry>>

\* Mutant of Closing: only the movements of the period.
Movements(p) == NetOfAll(rows, p)

Closing(p) == startBal[p] + NetOfAll(rows, p)

\* Mutant of SumPrevious: the starting balance is not added.
SumMovements(w) ==
    /\ req[w].pc = "sum"
    /\ carry' = [carry EXCEPT ![w] = IF req[w].prev = NoPeriod THEN 0
                                     ELSE NetOfAll(rows, req[w].prev)]
    /\ GoTo(w, "write")
    /\ UNCHANGED <<rows, status, startBal, openedAt, clock>>

\* The SELECT that computes v_closing_balance.
SumPrevious(w) ==
    /\ req[w].pc = "sum"
    /\ carry' = [carry EXCEPT ![w] = IF req[w].prev = NoPeriod THEN 0
                                     ELSE Closing(req[w].prev)]
    /\ GoTo(w, "write")
    /\ UNCHANGED <<rows, status, startBal, openedAt, clock>>

\* Mutant of LabelTaken: no UNIQUE (tenant_id, label).
NeverTaken(l) == FALSE

LabelTaken(l) == status[l] # "none"

\* Mutant of StatusAfter: the previous period is left open.
OpenedBeside(r) == [status EXCEPT ![r.label] = "open"]

\* The UPDATE of the previous period, if it was seen open, and the INSERT.
StatusAfter(r) ==
    [l \in Labels |-> IF l = r.label THEN "open"
                      ELSE IF l = r.prev /\ r.wasOpen THEN "locked"
                      ELSE status[l]]

\* UPDATE of the previous period if it was seen open, INSERT of the new one,
\* and commit.  The UPDATE waits for another writer of the same row and the
\* INSERT for another inserter of the same label, so the three are one step;
\* when UNIQUE (tenant_id, label) is violated the UPDATE is rolled back too.
WriteOpened(w) ==
    /\ req[w].pc = "write"
    /\ LET r == req[w]
       IN  IF LabelTaken(r.label)
           THEN UNCHANGED <<status, startBal, openedAt>>
           ELSE /\ status' = StatusAfter(r)
                /\ startBal' = [startBal EXCEPT ![r.label] = carry[w]]
                /\ openedAt' = [openedAt EXCEPT ![r.label] = r.at]
    /\ Finish(w)
    /\ carry' = [carry EXCEPT ![w] = 0]
    /\ UNCHANGED <<rows, clock>>

-----------------------------------------------------------------------------
\* The request dies before its commit: its context is cancelled, its
\* connection is lost or the server stops.  PostgreSQL rolls back.
Abort(w) ==
    /\ ~IsIdle(w)
    /\ Finish(w)
    /\ carry' = [carry EXCEPT ![w] = 0]
    /\ UNCHANGED <<rows, status, startBal, openedAt, clock>>

RowStep(w) ==
    \/ \E l \in Labels, d \in Direction, a \in Amounts : BeginCreate(w, l, d, a)
    \/ \E i \in DOMAIN rows : BeginReverse(w, i)
    \/ Reject(w)
    \/ CheckReversed(w)
    \/ InsertRow(w)
    \/ CommitRow(w)

PeriodStep(w) ==
    \/ \E l \in Labels : LockPeriod(w, l)
    \/ \E l \in Labels : BeginOpen(w, l)
    \/ \E l \in Labels : UnlockPeriod(w, l)

OpenStep(w) == SumPrevious(w) \/ WriteOpened(w)

Next == \E w \in Workers : RowStep(w) \/ PeriodStep(w) \/ OpenStep(w) \/ Abort(w)

Spec == Init /\ [][Next]_vars

-----------------------------------------------------------------------------
(* Nothing in the code keeps requests apart.  CashLedgerRefinement uses    *)
(* these conditions to say when the operations amount to single steps.     *)

Opening(w) == req[w].pc \in {"sum", "write"}

\* No request is in progress when a period changes its status, and
\* open_next_period overlaps no other request.
PeriodsChangeAlone ==
    /\ status' # status => \A w \in Workers : IsIdle(w)'
    /\ \A v, w \in Workers : Opening(v)' /\ ~IsIdle(w)' => v = w

Reversing(w) == req[w].pc \in {"check", "insert", "commit"} /\ req[w].row.rev # NoReversal

\* No two requests reverse the same row at the same time.
ReversalsDisjoint ==
    \A v, w \in Workers :
        Reversing(v) /\ Reversing(w) /\ req[v].row.rev = req[w].row.rev => v = w

-----------------------------------------------------------------------------
(* What must hold however requests interleave.                             *)

\* Every reversal points back to an earlier row that is not itself a
\* reversal, and cancels it exactly: same period, same amount, opposite
\* direction.  ReverseTransaction takes the row from one read and the check
\* that it is no reversal from a later one.
ReversalsMirror ==
    \A k \in DOMAIN rows : rows[k].rev # NoReversal =>
        /\ rows[k].rev < k
        /\ rows[rows[k].rev].rev = NoReversal
        /\ rows[k] = ReversalOf(rows, rows[k].rev)

\* A period that exists keeps its starting balance and its place in the
\* order of opening, however many calls of open_next_period race for its
\* label: "a closed period's starting_balance is never recalculated".
OpenedOnce ==
    [][\A l \in Existing : /\ status'[l] # "none"
                           /\ startBal'[l] = startBal[l]
                           /\ openedAt'[l] = openedAt[l]]_vars

\* The requests past their check that are about to reverse row i.
Cancelling(i) == {w \in Workers : req[w].pc \in {"insert", "commit"} /\ req[w].row.rev = i}

\* A row that has been reversed is closed to further reversals, except those
\* that had passed their check before: how often it is reversed, and may
\* still be, only falls from the first reversal on.
ReversedRowsClosed ==
    [][\A i \in DOMAIN rows : Reversals(rows, i) # {} =>
           Cardinality(Reversals(rows, i))' + Cardinality(Cancelling(i))'
               <= Cardinality(Reversals(rows, i)) + Cardinality(Cancelling(i))]_vars

\* The reversals of rows that had a reversal already.
Surplus(l) ==
    {k \in InPeriod(rows, l) : \E j \in DOMAIN rows :
        j < k /\ rows[j].rev = rows[k].rev /\ rows[k].rev # NoReversal}

\* The closing balance the summary and the history show, which leave
\* cancelled pairs out, differs from the one the rollover carries by the
\* surplus reversals and nothing else; without them the two agree.
SummaryAgreesWithRollover ==
    \A l \in Existing :
        NetOfAll(rows, l) = NetOfActive(rows, l) + NetOf(rows, Surplus(l))

\* The requests that have inserted a row of the period and are to commit it.
Committing(l) == {w \in Workers : req[w].pc = "commit" /\ req[w].row.period = l}

\* Nothing is inserted into a locked period, though periods are locked while
\* requests that found them open are on their way: the rows it holds, with
\* those inserted before the lock and not yet committed, become no more.
LockedPeriodFrozen ==
    [][\A l \in Labels : status[l] = "locked" =>
           Cardinality(InPeriod(rows, l))' + Cardinality(Committing(l))'
               <= Cardinality(InPeriod(rows, l)) + Cardinality(Committing(l))]_vars

(* What documents say and the code does not keep.                          *)

\* No row is cancelled twice.
SingleReversal ==
    \A i \in DOMAIN rows : \A j, k \in Reversals(rows, i) : j = k

=============================================================================
