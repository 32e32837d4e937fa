SPECIFICATION Spec
CONSTANTS
    Suppliers = {s1, s2}
    Foreign = {f1}
    Labels = {l1, l2}
    Amounts = {0, 1}
    Workers = {w1, w2}
    MaxEntries = 1
    MaxRows = 3
    MaxBatch = 1
SYMMETRY Symmetry
INVARIANTS ReversalCancels SummaryMatchesList DebtIgnoresCancelled
PROPERTIES FixReturnsKeepsDebts ReversedRowsClosed LockedPeriodDrains
