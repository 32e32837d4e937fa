SPECIFICATION HistorySpecFair
CONSTANTS
    Entries = {e1}
    NoEntry = NoEntry
    Keys = {k1}
    Copies = {c1, c2, c3}
    Today = 2
INVARIANTS HistoryTypeOK AnswersReal DuplicatesAccounted
PROPERTY EverySubmissionAnswered
