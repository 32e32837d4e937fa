------------------------------- MODULE Migrate ------------------------------
(***************************************************************************)
(* The migration tool.  A run reads which files are recorded as applied;   *)
(* if none is and there is a database all the same, it records the first   *)
(* files unapplied (the baseline); then it applies what is left, each file *)
(* and its record in one database transaction.  Runs may overlap, may stop *)
(* at any point and may misread what they ask for; nothing locks them out. *)
(***************************************************************************)
EXTENDS Integers, FiniteSets

CONSTANTS
    Last,       \* the files are 1..Last, in the order of their names
    Baseline,   \* 14_strict_data_loss_prevention.sql
    TenantsFile,\* 01_create_tenants.sql
    Repeatable, \* files that succeed when applied again
    OwnCommit,  \* files with a COMMIT of their own: 14
    Origins,    \* how the database came to be
    Dumped,     \* files whose tables a backup's DDL makes
    Runs,       \* runs of the tool that can be in progress at once
    MaxFailures \* bound on the runs that are cut off and the queries that fail

File == 1..Last

ASSUME MigrateAssumption ==
    /\ Last \in Nat /\ Baseline \in File /\ TenantsFile \in 1..Baseline
    /\ Repeatable \subseteq File
    /\ OwnCommit \subseteq Repeatable \ {TenantsFile}
    /\ Origins \subseteq {"fresh", "combined", "restored"}
    /\ Dumped \subseteq File
    /\ MaxFailures \in Nat

VARIABLES
    origin,
    applied,    \* how often each file has been applied, up to twice
    recorded,   \* public.schema_migrations
    run,        \* what each run is doing
    failures

vars == <<origin, applied, recorded, run, failures>>

-----------------------------------------------------------------------------
Idle == [pc |-> "idle"]

\* seen: appliedMap; only: statusOnly.
Run == [pc : {"read", "check", "baseline", "apply", "record", "done"},
        seen : SUBSET File, only : BOOLEAN]

TypeOK ==
    /\ origin \in Origins
    /\ applied \in [File -> 0..2]
    /\ recorded \subseteq File
    /\ run \in [Runs -> {Idle} \cup Run]
    /\ failures \in 0..MaxFailures

\* An existing database was set up from the combined schema, which holds what
\* the baseline files do; or it was restored from a backup, whose DDL makes
\* the tables and nothing else.
Init ==
    /\ origin \in Origins
    /\ applied = [f \in File |-> IF origin = "combined" /\ f <= Baseline THEN 1 ELSE 0]
    /\ recorded = {}
    /\ run = [r \in Runs |-> Idle]
    /\ failures = 0

HasTenants == origin = "restored" \/ applied[TenantsFile] > 0

GoTo(r, pc) == run' = [run EXCEPT ![r].pc = pc]

Exit(r) == run' = [run EXCEPT ![r] = Idle]

\* Mutant of NextFile: the names are sorted the other way.
NewestFile(r) == CHOOSE f \in File \ run[r].seen : \A g \in File \ run[r].seen : f >= g

\* The next file: of the baseline in that loop, pending in the other.
NextFile(r) == CHOOSE f \in File \ run[r].seen : \A g \in File \ run[r].seen : f <= g

Twice(n) == IF n = 2 THEN 2 ELSE n + 1

Apply(f) == applied' = [applied EXCEPT ![f] = Twice(@)]

-----------------------------------------------------------------------------
Start(r, only) ==
    /\ run[r] = Idle
    /\ run' = [run EXCEPT ![r] = [pc |-> "read", seen |-> {}, only |-> only]]
    /\ UNCHANGED <<origin, applied, recorded, failures>>

HasRead(r, seen) ==
    run' = [run EXCEPT ![r] = [@ EXCEPT
               !.seen = seen, !.pc = IF seen = {} THEN "check" ELSE "apply"]]

\* getAppliedMigrations.
ReadApplied(r) ==
    /\ run[r].pc = "read"
    /\ HasRead(r, recorded)
    /\ UNCHANGED <<origin, applied, recorded, failures>>

\* rows.Next ends when the connection does, and rows.Err is not asked: the run
\* goes on with what it has read so far.
ReadBreaks(r) ==
    /\ run[r].pc = "read" /\ failures < MaxFailures
    /\ \E seen \in SUBSET recorded : HasRead(r, seen)
    /\ failures' = failures + 1
    /\ UNCHANGED <<origin, applied, recorded>>

\* isDatabaseAlreadyInitialized.
CheckInitialized(r) ==
    /\ run[r].pc = "check"
    /\ GoTo(r, IF HasTenants THEN "baseline" ELSE "apply")
    /\ UNCHANGED <<origin, applied, recorded, failures>>

\* The error of the query is dropped: there is no database yet.
CheckFails(r) ==
    /\ run[r].pc = "check" /\ failures < MaxFailures
    /\ GoTo(r, "apply")
    /\ failures' = failures + 1
    /\ UNCHANGED <<origin, applied, recorded>>

\* Mutant of InBaseline: every file whose name begins with 0 or 1.
InFirstFiles(f) == f <= Baseline + 1

\* Mutant of InBaseline: an older file is named.
InShortBaseline(f) == f < Baseline - 1

\* f <= "14_strict_data_loss_prevention.sql"
InBaseline(f) == f <= Baseline

\* recordMigration, without a transaction around the loop.
RecordBaseline(r) ==
    /\ run[r].pc = "baseline"
    /\ LET f == NextFile(r)
       IN  IF run[r].seen # File /\ InBaseline(f)
           THEN /\ recorded' = recorded \cup {f}
                /\ run' = [run EXCEPT ![r].seen = run[r].seen \cup {f}]
           ELSE GoTo(r, "apply") /\ UNCHANGED recorded
    /\ UNCHANGED <<origin, applied, failures>>

\* The status is shown, or there is nothing pending.
Finish(r) ==
    /\ run[r].pc = "apply"
    /\ run[r].only \/ run[r].seen = File
    /\ IF run[r].only THEN Exit(r) ELSE GoTo(r, "done")
    /\ UNCHANGED <<origin, applied, recorded, failures>>

Pending(r) == run[r].pc = "apply" /\ ~run[r].only /\ run[r].seen # File

\* DDL waits for the locks of another run that is applying the same file.
Waits(r) ==
    \E s \in Runs \ {r} :
        run[s].pc = "record" /\ NextFile(s) = NextFile(r) /\ NextFile(r) \notin OwnCommit

\* Something that the file creates is there already.
Clashes(f) == f \notin Repeatable /\ (applied[f] > 0 \/ (origin = "restored" /\ f \in Dumped))

\* Something that an earlier file creates may be missing.
MissesFiles(f) == \E g \in 1..(f - 1) : applied[g] = 0

\* A file is executed.  If it commits by itself it is applied whatever becomes
\* of its record.
Execute(r) ==
    /\ Pending(r) /\ ~Waits(r)
    /\ LET f == NextFile(r)
       IN  /\ ~Clashes(f)
           /\ GoTo(r, "record")
           /\ IF f \in OwnCommit THEN Apply(f) ELSE UNCHANGED applied
    /\ UNCHANGED <<origin, recorded, failures>>

\* A statement of the file fails, it is rolled back and the run exits.
ExecuteFails(r) ==
    /\ Pending(r) /\ ~Waits(r)
    /\ Clashes(NextFile(r)) \/ MissesFiles(NextFile(r))
    /\ Exit(r)
    /\ UNCHANGED <<origin, applied, recorded, failures>>

\* Mutant of Record: ON CONFLICT DO NOTHING, as in the baseline.
RecordAnyway(r) ==
    /\ run[r].pc = "record"
    /\ LET f == NextFile(r)
       IN  /\ IF f \in OwnCommit THEN UNCHANGED applied ELSE Apply(f)
           /\ recorded' = recorded \cup {f}
           /\ run' = [run EXCEPT ![r] = [@ EXCEPT !.pc = "apply", !.seen = run[r].seen \cup {f}]]
    /\ UNCHANGED <<origin, failures>>

\* Mutant of Record: the record is written outside the transaction, which is
\* then not committed.
RecordOnly(r) ==
    /\ run[r].pc = "record"
    /\ LET f == NextFile(r)
       IN  /\ recorded' = recorded \cup {f}
           /\ run' = [run EXCEPT ![r] = [@ EXCEPT !.pc = "apply", !.seen = run[r].seen \cup {f}]]
    /\ UNCHANGED <<origin, applied, failures>>

\* The version is inserted, its primary key permitting, and committed.
Record(r) ==
    /\ run[r].pc = "record"
    /\ LET f == NextFile(r)
       IN  IF f \in recorded THEN Exit(r) /\ UNCHANGED <<applied, recorded>>
           ELSE /\ IF f \in OwnCommit THEN UNCHANGED applied ELSE Apply(f)
                /\ recorded' = recorded \cup {f}
                /\ run' = [run EXCEPT ![r] =
                       [@ EXCEPT !.pc = "apply", !.seen = run[r].seen \cup {f}]]
    /\ UNCHANGED <<origin, failures>>

End(r) ==
    /\ run[r].pc = "done"
    /\ Exit(r)
    /\ UNCHANGED <<origin, applied, recorded, failures>>

\* A run is cut off, or a statement of it fails: its open transaction is
\* rolled back.
Crash(r) ==
    /\ run[r] # Idle /\ failures < MaxFailures
    /\ Exit(r)
    /\ failures' = failures + 1
    /\ UNCHANGED <<origin, applied, recorded>>

Step(r) ==
    \/ ReadApplied(r) \/ CheckInitialized(r) \/ RecordBaseline(r)
    \/ Finish(r) \/ Execute(r) \/ ExecuteFails(r) \/ Record(r) \/ End(r)

Next ==
    \E r \in Runs : \/ Step(r) \/ ReadBreaks(r) \/ CheckFails(r) \/ Crash(r)
                    \/ \E only \in BOOLEAN : Start(r, only)

Spec == Init /\ [][Next]_vars

=============================================================================
