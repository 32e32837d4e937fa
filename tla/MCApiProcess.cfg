SPECIFICATION Spec
CONSTANTS
    Kids = {k1, k2}
    Workers = {w1, w2}
    Errors = {"e"}
    Throttle = 2
    MaxTime = 3
SYMMETRY Symmetry
INVARIANTS SessionsGoOn AlertsSpaced
PROPERTY EveryFailureReported
