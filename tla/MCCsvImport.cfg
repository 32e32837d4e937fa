SPECIFICATION CsvSpec
CONSTANTS
    Files <- MCFiles
    Repeated <- MCRepeated
    Uploads = {u1, u2}
SYMMETRY Symmetry
INVARIANTS StoredIsPrefix LayoutIrrelevant BalanceRead
