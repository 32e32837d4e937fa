SPECIFICATION ExcelSpec
CONSTANTS
    Books <- MCBooks
    SubColumns = 3
INVARIANTS RightYearPreferred BlocksDisjoint EveryAmountRead
CHECK_DEADLOCK FALSE
