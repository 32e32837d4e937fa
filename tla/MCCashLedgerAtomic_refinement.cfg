SPECIFICATION SpecSerialized
CONSTANTS
    Labels = {l1, l2}
    Amounts = {0, 1}
    Workers = {w1, w2}
    NoPeriod = NoPeriod
    MaxEntries = 3
    MaxRows = 3
    MaxOpens = 3
SYMMETRY Symmetry
PROPERTY RefinesAtomicLedger
