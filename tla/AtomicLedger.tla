---------------------------- MODULE AtomicLedger ----------------------------
(***************************************************************************)
(* What the ledger promises its users, with every operation of the         *)
(* transaction and period services a single step: rows are added to open   *)
(* periods only, a row is cancelled at most once, and a new period starts  *)
(* with the closing balance of the latest one, which is locked for good    *)
(* measure.  CashLedgerRefinement says when CashLedger keeps the promise.  *)
(***************************************************************************)
EXTENDS LedgerRows

CONSTANT NoPeriod

VARIABLES
    rows,       \* the rows of the ledger, oldest first
    status,     \* "none", "open" or "locked" for each label
    startBal,   \* starting balance of each period
    latest      \* the period opened last, or NoPeriod

vars == <<rows, status, startBal, latest>>

Init ==
    /\ rows = <<>>
    /\ status = [l \in Labels |-> "none"]
    /\ startBal = [l \in Labels |-> 0]
    /\ latest = NoPeriod

CreateTransaction(l, d, a) ==
    /\ Valid(a)
    /\ status[l] = "open"
    /\ rows' = Append(rows, [period |-> l, dir |-> d, amount |-> a, rev |-> NoReversal])
    /\ UNCHANGED <<status, startBal, latest>>

ReverseTransaction(i) ==
    /\ status[rows[i].period] = "open"
    /\ ~AlreadyReversed(rows, i)
    /\ rows' = Append(rows, ReversalOf(rows, i))
    /\ UNCHANGED <<status, startBal, latest>>

LockPeriod(l) ==
    /\ status[l] = "open"
    /\ status' = [status EXCEPT ![l] = "locked"]
    /\ UNCHANGED <<rows, startBal, latest>>

UnlockPeriod(l) ==
    /\ status[l] # "none"
    /\ status' = [status EXCEPT ![l] = "open"]
    /\ UNCHANGED <<rows, startBal, latest>>

OpenNextPeriod(l) ==
    /\ status[l] = "none"
    /\ status' = [m \in Labels |-> IF m = l THEN "open"
                                   ELSE IF m = latest THEN "locked"
                                   ELSE status[m]]
    /\ startBal' = [startBal EXCEPT ![l] =
                        IF latest = NoPeriod THEN 0
                        ELSE startBal[latest] + NetOfAll(rows, latest)]
    /\ latest' = l
    /\ UNCHANGED rows

Next ==
    \/ \E l \in Labels, d \in Direction, a \in Amounts : CreateTransaction(l, d, a)
    \/ \E i \in DOMAIN rows : ReverseTransaction(i)
    \/ \E l \in Labels : LockPeriod(l) \/ UnlockPeriod(l) \/ OpenNextPeriod(l)

Spec == Init /\ [][Next]_vars

=============================================================================
