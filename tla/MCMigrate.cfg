SPECIFICATION HistorySpecFair
CONSTANTS
    Last = 6
    Baseline = 4
    TenantsFile = 2
    Repeatable <- MCRepeatable
    OwnCommit <- MCOwnCommit
    Origins = {"fresh", "combined", "restored"}
    Dumped <- MCDumped
    Runs = {r1, r2}
    MaxFailures = 1
INVARIANTS RecordedApplied AppliedOnce AppliedInOrder SuccessIsComplete
PROPERTY EventuallyMigrated
