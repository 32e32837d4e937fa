---------------------------- MODULE MigrateHistory ---------------------------
(***************************************************************************)
(* Migrate with a record of what misleads the runs: of the files that a    *)
(* run has put into the baseline because it took the database for one set  *)
(* up from the combined schema and it was none, and of a baseline that was *)
(* due and has not been completed.  Nothing in the program keeps these.    *)
(***************************************************************************)
EXTENDS Migrate

VARIABLES
    overlooked, \* runs at the baseline that have overlooked records
    assumed,    \* files recorded, but neither applied nor in a combined schema
    halfway     \* a baseline has been cut off, or left out

historyVars == <<vars, overlooked, assumed, halfway>>

-----------------------------------------------------------------------------
AtBaseline(r) == run[r].pc = "baseline"

\* A run that finds tenants and no records takes the schema for combined.  It
\* errs if there are records, which it has not seen or which are new, or if
\* the tenants come from a backup.
Errs(r) == origin = "restored" \/ r \in overlooked

Note ==
    /\ overlooked' = {r \in Runs : AtBaseline(r)' /\
           IF AtBaseline(r) THEN r \in overlooked ELSE recorded # {}}
    /\ assumed' = assumed \cup {f \in recorded' \ recorded : \E r \in Runs :
                                   AtBaseline(r) /\ AtBaseline(r)' /\ Errs(r)}

\* Crash or CheckFails, of run r.
LeavesHalfway(r) == AtBaseline(r) \/ (run[r].pc = "check" /\ HasTenants)

HistoryInit == Init /\ overlooked = {} /\ assumed = {} /\ halfway = FALSE

HistoryStep(r) == Step(r) /\ Note /\ UNCHANGED halfway

HistoryStart(r, only) == Start(r, only) /\ Note /\ UNCHANGED halfway

HistoryNext ==
    \E r \in Runs :
        \/ HistoryStep(r)
        \/ \E only \in BOOLEAN : HistoryStart(r, only)
        \/ ReadBreaks(r) /\ Note /\ UNCHANGED halfway
        \/ (Crash(r) \/ CheckFails(r)) /\ Note /\ halfway' = (halfway \/ LeavesHalfway(r))

HistorySpec == HistoryInit /\ [][HistoryNext]_historyVars

\* The tool is run again, and a run that is not cut off goes on.
HistorySpecFair ==
    /\ HistorySpec
    /\ \A r \in Runs : /\ WF_historyVars(HistoryStep(r))
                       /\ SF_historyVars(HistoryStart(r, FALSE))

-----------------------------------------------------------------------------
HistoryTypeOK ==
    TypeOK /\ overlooked \subseteq Runs /\ assumed \subseteq File /\ halfway \in BOOLEAN

\* A file that schema_migrations names has been applied, however runs overlap,
\* misread and are cut off, unless a baseline recorded it that was none.
RecordedApplied == \A f \in recorded : applied[f] > 0 \/ f \in assumed

\* The tool applies no file twice, but for those that commit by themselves.
\* What a combined schema holds it may apply once more, where a baseline has
\* not been completed or not been seen.
AppliedOnce ==
    \A f \in File \ OwnCommit : applied[f] = 2 => origin = "combined" /\ f <= Baseline

\* A file is applied or recorded when those before it have been, but for those
\* that a baseline recorded which was none.
AppliedInOrder ==
    \A f \in File : applied[f] > 0 \/ f \in recorded =>
        \A g \in 1..(f - 1) : applied[g] > 0 \/ g \in assumed

\* A run that reports success leaves everything recorded, and applied but for
\* those files.
SuccessIsComplete ==
    \A r \in Runs : run[r].pc = "done" =>
        recorded = File /\ \A f \in File : applied[f] > 0 \/ f \in assumed

\* Running the tool again gets there, unless a baseline has been cut off or
\* left out, or recorded what was never applied: then a file may fail for
\* ever, and nothing but a repair by hand helps.
EventuallyMigrated == <>[](recorded = File \/ halfway \/ assumed # {})

=============================================================================
