----------------------------- MODULE BackupJob ------------------------------
(***************************************************************************)
(* The backup: RunBackup and the exporter query by query, the daily timer  *)
(* of the API process, the command that runs a backup by hand, the folder  *)
(* on Google Drive and the reports to Telegram.  Requests go on meanwhile  *)
(* (module Snapshot).                                                      *)
(*                                                                         *)
(* Time is counted in days that begin at 03:00.  A run has a deadline of   *)
(* ten minutes, so it is over before the next.                             *)
(***************************************************************************)
EXTENDS Snapshot

CONSTANTS
    Retention,  \* GDRIVE_RETENTION_DAYS
    MaxDay      \* bound on the days

ASSUME BackupAssumption == Retention \in Nat \ {0} /\ MaxDay \in Nat

VARIABLES
    day,
    up,         \* the API process runs
    due,        \* its timer has gone off
    job,        \* the progress of a backup, per job
    drive       \* the files in the folder on Google Drive, by their day

vars == <<db, day, up, due, job, drive>>

-----------------------------------------------------------------------------
Jobs == {"cron", "manual"}

\* A finished dump: which of the rows that the database held when the run
\* began it restores; whether rows were lost on the way to it; and whether it
\* mixes in returned supplier entries, or rows made while it was written.
File == [restores : {"all", "some", "none"}, lost : BOOLEAN, mixed : BOOLEAN]

Idle == [pc |-> "idle"]

\* How far a job is: it has queried the tables before next, having begun with
\* the database at a number of rows, or the file is closed.
Dumping ==
    [pc : {"dump"}, next : 1..Len(Tables) + 1, dump : SUBSET Row,
     held : 0..MaxRows + 4, lost : BOOLEAN]

Delivering == [pc : {"document", "upload", "clean", "report"}, file : File]

TypeOK ==
    /\ db \subseteq Row
    /\ day \in 0..MaxDay
    /\ up \in BOOLEAN /\ due \in BOOLEAN
    /\ job \in [Jobs -> {Idle} \cup Dumping \cup Delivering]
    /\ drive \subseteq 0..MaxDay

Init ==
    /\ db = Books
    /\ day = 0
    /\ up = TRUE /\ due = FALSE
    /\ job = [j \in Jobs |-> Idle]
    /\ drive = {}

GoTo(j, pc) == job' = [job EXCEPT ![j].pc = pc]

Finish(j) == job' = [job EXCEPT ![j] = Idle]

-----------------------------------------------------------------------------
(* The world around.                                                       *)

Write ==
    /\ Insert
    /\ UNCHANGED <<day, up, due, job, drive>>

\* The hour comes; StartDailyCron sleeps until then if its process runs.
NewDay ==
    /\ day < MaxDay /\ ~due
    /\ \A j \in Jobs : job[j] = Idle
    /\ day' = day + 1
    /\ due' = up
    /\ UNCHANGED <<db, up, job, drive>>

\* The API process stops, in the middle of a backup or not.  When it starts
\* its timer is set to the next time the hour comes.
StopApi ==
    /\ up
    /\ up' = FALSE /\ due' = FALSE
    /\ Finish("cron")
    /\ UNCHANGED <<db, day, drive>>

StartApi ==
    /\ ~up
    /\ up' = TRUE
    /\ UNCHANGED <<db, day, due, job, drive>>

-----------------------------------------------------------------------------
(* RunBackup.                                                              *)

Begin(j) ==
    /\ job[j] = Idle
    /\ IF j = "cron" THEN due /\ due' = FALSE ELSE UNCHANGED due
    /\ job' = [job EXCEPT ![j] = [pc |-> "dump", next |-> 1, dump |-> {},
                                  held |-> Cardinality(db), lost |-> FALSE]]
    /\ UNCHANGED <<db, day, up, drive>>

Queried(dump) ==
    [dump EXCEPT !.next = dump.next + 1,
                 !.dump = IF dump.lost THEN {}
                          ELSE dump.dump \cup RowsOf(db, Tables[dump.next])]

\* A table is read by one query.
ReadTable(j) ==
    /\ job[j].pc = "dump" /\ job[j].next <= Len(Tables)
    /\ job' = [job EXCEPT ![j] = Queried(job[j])]
    /\ UNCHANGED <<db, day, up, due, drive>>

\* What a dump holds that has lost rows is not followed.
Passed(dump) == [dump EXCEPT !.next = dump.next + 1, !.dump = {}, !.lost = TRUE]

\* Both forms of the query fail and the table is passed over, or the second
\* gives its rows in no order; or the rows end early, for which rows.Err is
\* not asked.
LoseRows(j) ==
    /\ job[j].pc = "dump" /\ job[j].next <= Len(Tables)
    /\ job' = [job EXCEPT ![j] = Passed(job[j])]
    /\ UNCHANGED <<db, day, up, due, drive>>

\* The file cannot be written, or a value not be read: the failure is
\* reported and the run is over.
DumpFails(j) ==
    /\ job[j].pc = "dump"
    /\ Finish(j)
    /\ UNCHANGED <<db, day, up, due, drive>>

\* The rows the database held when the run began: rows are numbered.
Began(j) == {r \in db : r.id <= job[j].held}

Result(j) ==
    LET restored == Restored(job[j].dump)
    IN  IF restored = {} THEN "none" ELSE IF Began(j) \subseteq restored THEN "all" ELSE "some"

\* The errors of gzWriter.Close and file.Close are discarded: a file cut off
\* at its end is a success as well, and gunzip refuses it.
CloseFile(j) ==
    /\ job[j].pc = "dump" /\ job[j].next > Len(Tables)
    /\ \E cut \in BOOLEAN :
           job' = [job EXCEPT ![j] =
               [pc |-> "document",
                file |-> [restores |-> IF cut THEN "none" ELSE Result(j),
                          lost |-> cut \/ job[j].lost,
                          mixed |-> \E r \in job[j].dump : r.return \/ r.id > job[j].held]]]
    /\ UNCHANGED <<db, day, up, due, drive>>

\* SendDocument: a failure is written to the log and the run goes on.
SendDocument(j) ==
    /\ job[j].pc = "document"
    /\ GoTo(j, "upload")
    /\ UNCHANGED <<db, day, up, due, drive>>

\* UploadBackup, and IsEnabled before it.
Upload(j) ==
    /\ job[j].pc = "upload"
    /\ drive' = drive \cup {day}
    /\ GoTo(j, "clean")
    /\ UNCHANGED <<db, day, up, due>>

\* Mutants of UploadFails: the upload is tried until it succeeds; old files
\* are cleaned all the same.
RetryUpload(j) ==
    /\ job[j].pc = "upload"
    /\ GoTo(j, "document")
    /\ UNCHANGED <<db, day, up, due, drive>>

CleanAnyway(j) ==
    /\ job[j].pc = "upload"
    /\ GoTo(j, "clean")
    /\ UNCHANGED <<db, day, up, due, drive>>

\* The upload fails or is not enabled, or its answer is lost.
UploadFails(j) ==
    /\ job[j].pc = "upload"
    /\ drive' \in {drive, drive \cup {day}}
    /\ GoTo(j, "report")
    /\ UNCHANGED <<db, day, up, due>>

\* A file made on the day of the cutoff is before it or not by the minutes.
Obsolete == {f \in drive : f + Retention <= day}

\* CleanOldBackups: any deletion may fail, and so may the list.
CleanOldBackups(j) ==
    /\ job[j].pc = "clean"
    /\ \E deleted \in SUBSET Obsolete : drive' = drive \ deleted
    /\ GoTo(j, "report")
    /\ UNCHANGED <<db, day, up, due>>

\* SendBackupReport(true): delivered in a goroutine, or lost.
Report(j) ==
    /\ job[j].pc = "report"
    /\ Finish(j)
    /\ UNCHANGED <<db, day, up, due, drive>>

Dump(j) == ReadTable(j) \/ LoseRows(j) \/ CloseFile(j) \/ DumpFails(j)

Deliver(j) ==
    SendDocument(j) \/ Upload(j) \/ UploadFails(j) \/ CleanOldBackups(j) \/ Report(j)

Next ==
    \/ Write \/ NewDay \/ StopApi \/ StartApi
    \/ \E j \in Jobs : Begin(j) \/ Dump(j) \/ Deliver(j)

Spec == Init /\ [][Next]_vars

\* Every call of a run ends: HTTP calls and queries have deadlines.
SpecFair == Spec /\ WF_vars(Begin("cron") \/ Dump("cron") \/ Deliver("cron"))

-----------------------------------------------------------------------------
\* A backup reported successful restores every row that the database held
\* when the run began, also those that requests wrote beside, or none: never
\* a part.  None is for a reason: rows were lost on the way, or the dump holds
\* a returned supplier entry, or a row that was made after the run began and
\* may refer to one it has missed.
SuccessAccounted ==
    \A j \in Jobs : job[j].pc = "report" /\ ~job[j].file.lost =>
        /\ job[j].file.restores # "some"
        /\ job[j].file.restores = "none" => job[j].file.mixed

\* Once a backup has come to the folder there is always one, however long
\* later uploads fail.
DriveNeverEmptied == [][drive # {} => drive' # {}]_vars

\* A backup that is due comes to an end, in success or failure, so that the
\* timer is set again.
DailyRunEnds == due ~> (~due /\ job["cron"] = Idle)

=============================================================================
