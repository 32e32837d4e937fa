SPECIFICATION HistorySpec
CONSTANTS
    Entries = {e1}
    NoEntry = NoEntry
    Keys = {k1, k2}
    Copies = {c1}
    Today = 2
INVARIANT OncePerEntry
