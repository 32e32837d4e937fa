SPECIFICATION Spec
CONSTANTS
    Labels = {l1, l2}
    Amounts = {1}
    Workers = {w1, w2}
    NoPeriod = NoPeriod
    MaxEntries = 1
    MaxRows = 2
    MaxOpens = 2
SYMMETRY Symmetry
INVARIANT SingleReversal
