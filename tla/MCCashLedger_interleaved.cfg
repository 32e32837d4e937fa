SPECIFICATION HistorySpec
CONSTANTS
    Labels = {l1, l2, l3}
    Amounts = {1}
    Workers = {w1, w2}
    NoPeriod = NoPeriod
    MaxEntries = 1
    MaxRows = 3
    MaxOpens = 3
SYMMETRY Symmetry
INVARIANTS HistoryTypeOK ReversalsMirror SummaryAgreesWithRollover BalanceCarried CashAccounted
PROPERTIES OpenedOnce ReversedRowsClosed LockedPeriodFrozen
