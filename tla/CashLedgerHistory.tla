-------------------------- MODULE CashLedgerHistory --------------------------
(***************************************************************************)
(* The cash ledger with two history variables, which the actions write and *)
(* no guard reads: how many rows each call of open_next_period summed, and *)
(* from which period and how many of its rows each period was opened.      *)
(* They say of every balance carried what it is the balance of, whatever   *)
(* rows were committed, periods unlocked or rollovers begun meanwhile.     *)
(***************************************************************************)
EXTENDS CashLedger

VARIABLES
    summed,     \* how many rows were committed when a worker summed
    origin      \* for each period the one it was opened from, and summed then

historyVars == <<vars, summed, origin>>

NoOrigin == [prev |-> NoPeriod, upTo |-> 0]

Origin == [prev : Labels \cup {NoPeriod}, upTo : Nat]

HistoryTypeOK ==
    /\ TypeOK
    /\ summed \in [Workers -> Nat]
    /\ origin \in [Labels -> Origin]

HistoryInit ==
    /\ Init
    /\ summed = [w \in Workers |-> 0]
    /\ origin = [l \in Labels |-> NoOrigin]

NoteSum(w) ==
    /\ SumPrevious(w)
    /\ summed' = [summed EXCEPT ![w] = Len(rows)]
    /\ UNCHANGED origin

NoteOrigin(w) ==
    /\ WriteOpened(w)
    /\ origin' = IF LabelTaken(req[w].label) THEN origin
                 ELSE [origin EXCEPT ![req[w].label] =
                           [prev |-> req[w].prev, upTo |-> summed[w]]]
    /\ summed' = [summed EXCEPT ![w] = 0]

ForgetSum(w) ==
    /\ Abort(w)
    /\ summed' = [summed EXCEPT ![w] = 0]
    /\ UNCHANGED origin

NoteNothing(w) ==
    /\ RowStep(w) \/ PeriodStep(w)
    /\ UNCHANGED <<summed, origin>>

HistoryNext ==
    \E w \in Workers : NoteSum(w) \/ NoteOrigin(w) \/ ForgetSum(w) \/ NoteNothing(w)

HistorySpec == HistoryInit /\ [][HistoryNext]_historyVars

-----------------------------------------------------------------------------
\* The rows of period p among the first n.
Early(s, p, n) == {k \in InPeriod(s, p) : k <= n}

\* A period starts with the balance its predecessor had at one instant: the
\* predecessor's own starting balance, which is still the same, and the net
\* of its rows up to then.  The predecessor was opened earlier.
BalanceCarried ==
    \A q \in Existing :
        LET p == origin[q].prev
        IN  IF p = NoPeriod THEN startBal[q] = 0
            ELSE /\ p \in Existing /\ openedAt[p] < openedAt[q]
                 /\ startBal[q] = startBal[p] + NetOf(rows, Early(rows, p, origin[q].upTo))

\* The rows committed into a period after its balance had been carried on.
Late ==
    {k \in DOMAIN rows : \E q \in Existing :
        origin[q].prev = rows[k].period /\ origin[q].upTo < k}

\* No two periods were opened from the same one.
OneChain == \A p, q \in Existing : origin[p].prev = origin[q].prev => p = q

\* The last period of the chain.
IsLast(p) == p \in Existing /\ \A q \in Existing : origin[q].prev # p

\* No cash is lost except by name: the closing balance of the last period,
\* with the rows that came late into the others, is the sum of every row
\* ever entered, as long as no two rollovers started from the same period.
CashAccounted ==
    OneChain => \A p \in Labels : IsLast(p) =>
        Closing(p) + NetOf(rows, Late) = NetOf(rows, DOMAIN rows)

=============================================================================
