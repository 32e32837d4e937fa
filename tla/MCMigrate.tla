------------------------------ MODULE MCMigrate -----------------------------
\* A file each of the kinds there are: 00, 01, 05, 14, 15 and 19.
EXTENDS MigrateHistory, TLC

MCRepeatable == {1, 4, 5, 6}

MCOwnCommit == {4}

MCDumped == {2, 3}

=============================================================================
