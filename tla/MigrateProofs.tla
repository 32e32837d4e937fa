---------------------------- MODULE MigrateProofs ----------------------------
(***************************************************************************)
(* The theorems about the migration tool, for any number of files, runs    *)
(* and failures: what its records say of the files, however runs overlap,  *)
(* misread and are cut off.                                                *)
(***************************************************************************)
EXTENDS MigrateHistory, SumLemmas, TLAPS

-----------------------------------------------------------------------------
(* The next file.                                                          *)

LEMMA Files ==
    /\ File \subseteq Nat /\ TenantsFile \in File \ OwnCommit
    /\ \A f \in File : \A g \in 1..f : g \in File /\ g \in Nat /\ g <= f
    /\ \A f \in File : 1..(f - 1) = {g \in File : g < f}
<1>1. Last \in Nat /\ Baseline \in 1..Last /\ TenantsFile \in 1..Baseline
  BY MigrateAssumption DEF File
<1>2. QED
  BY <1>1, MigrateAssumption DEF File

LEMMA NextFileLeast ==
    ASSUME NEW r \in Runs, run[r].seen \subseteq File, run[r].seen # File
    PROVE  /\ NextFile(r) \in File \ run[r].seen
           /\ \A g \in File : g < NextFile(r) => g \in run[r].seen
<1>1. File \subseteq Nat
  BY MigrateAssumption DEF File
<1>2. \E f \in File \ run[r].seen : \A g \in File \ run[r].seen : f <= g
  BY <1>1, Least
<1>3. /\ NextFile(r) \in File \ run[r].seen
      /\ \A g \in File \ run[r].seen : NextFile(r) <= g
  BY <1>2 DEF NextFile
<1>4. ASSUME NEW g \in File, g < NextFile(r) PROVE g \in run[r].seen
  <2>1. g \in Nat /\ NextFile(r) \in Nat
    BY <1>1, <1>3
  <2>2. QED
    BY <1>3, <1>4, <2>1
<1>5. QED
  BY <1>3, <1>4

LEMMA NextFileSame ==
    ASSUME NEW r \in Runs, run'[r] = run[r]
    PROVE  NextFile(r)' = NextFile(r)
<1>1. NextFile(r)' = CHOOSE f \in File \ run'[r].seen : \A g \in File \ run'[r].seen : f <= g
  BY DEF NextFile
<1>2. QED
  BY <1>1 DEF NextFile

-----------------------------------------------------------------------------
(* Type correctness.                                                       *)

LEMMA RunCases ==
    ASSUME TypeOK, NEW r \in Runs
    PROVE  /\ run[r].pc = "idle" <=> run[r] = Idle
           /\ run[r].pc # "idle" <=> run[r] \in Run
BY DEF TypeOK, Idle, Run

\* The run is at another point, and nothing else of it changes.
LEMMA Advance ==
    ASSUME TypeOK, NEW r \in Runs, run[r] \in Run, NEW pc, GoTo(r, pc)
    PROVE  /\ run' = [run EXCEPT ![r] = run'[r]]
           /\ run'[r].pc = pc /\ run'[r].seen = run[r].seen /\ run'[r].only = run[r].only
           /\ pc \in {"read", "check", "baseline", "apply", "record", "done"} => run'[r] \in Run
<1>1. run' = [run EXCEPT ![r] = [run[r] EXCEPT !.pc = pc]] /\ r \in DOMAIN run
  BY DEF GoTo, TypeOK
<1>2. run'[r] = [run[r] EXCEPT !.pc = pc] /\ run' = [run EXCEPT ![r] = run'[r]]
  BY <1>1
<1>3. QED
  BY <1>2 DEF Run

LEMMA RunsType ==
    ASSUME TypeOK, NEW r \in Runs, NEW s \in {Idle} \cup Run, run' = [run EXCEPT ![r] = s]
    PROVE  /\ run' \in [Runs -> {Idle} \cup Run]
           /\ run'[r] = s
           /\ \A v \in Runs \ {r} : run'[v] = run[v]
BY DEF TypeOK

LEMMA ApplyType ==
    ASSUME TypeOK, NEW f \in File, Apply(f)
    PROVE  /\ applied' \in [File -> 0..2]
           /\ applied'[f] > 0 /\ (applied[f] = 0 => applied'[f] = 1)
           /\ \A g \in File \ {f} : applied'[g] = applied[g]
<1>1. applied' = [applied EXCEPT ![f] = Twice(applied[f])]
  BY DEF Apply
<1>2. applied \in [File -> 0..2] /\ applied[f] \in 0..2
  BY DEF TypeOK
<1>3. Twice(applied[f]) \in 1..2 /\ (applied[f] = 0 => Twice(applied[f]) = 1)
  BY <1>2 DEF Twice
<1>4. QED
  BY <1>1, <1>2, <1>3

-----------------------------------------------------------------------------
(* The invariant.                                                          *)

InBaselineOfCombined(f) == origin = "combined" /\ f <= Baseline

\* What a run has read is so, and a baseline on a fresh database is a mistake.
RunKnows(r) ==
    /\ run[r] # Idle => run[r].seen \subseteq recorded
    /\ AtBaseline(r) /\ origin = "fresh" => r \in overlooked
    /\ run[r].pc = "record" =>
           /\ run[r].seen # File
           /\ NextFile(r) \in OwnCommit => applied[NextFile(r)] > 0
    /\ run[r].pc = "done" => run[r].seen = File

\* A file without a COMMIT of its own that is applied is recorded, but for
\* those of a combined schema.
AppliedRecorded ==
    \A f \in File \ OwnCommit :
        applied[f] > 0 /\ f \notin recorded => InBaselineOfCombined(f)

\* The files before one that the tool has applied or recorded are recorded.
RecordedInOrder ==
    \A f \in File : f \in recorded \/ (applied[f] > 0 /\ ~InBaselineOfCombined(f)) =>
        \A g \in File : g < f => g \in recorded

CombinedApplied == \A f \in File : InBaselineOfCombined(f) => applied[f] > 0

FilesInv ==
    RecordedApplied /\ AppliedOnce /\ AppliedRecorded /\ RecordedInOrder /\ CombinedApplied

MigrateInv ==
    HistoryTypeOK /\ FilesInv /\ \A r \in Runs : RunKnows(r)

\* A step of run r: the others stay where they are, and nothing is undone.
StepOf(r) ==
    /\ TypeOK' /\ origin' = origin /\ Note /\ halfway' \in BOOLEAN
    /\ \A v \in Runs \ {r} : run'[v] = run[v]
    /\ recorded \subseteq recorded'
    /\ \A f \in File : applied[f] > 0 => applied'[f] > 0

LEMMA Noted ==
    ASSUME MigrateInv, NEW r \in Runs, StepOf(r)
    PROVE  /\ HistoryTypeOK' /\ assumed \subseteq assumed'
           /\ \A v \in Runs \ {r} : AtBaseline(v)' /\ v \in overlooked => v \in overlooked'
<1>1. \A v \in Runs \ {r} : AtBaseline(v)' <=> AtBaseline(v)
  BY DEF AtBaseline, StepOf
<1>2. overlooked' \subseteq Runs /\ assumed \subseteq assumed' /\ assumed' \subseteq File
  BY DEF StepOf, Note, MigrateInv, HistoryTypeOK, TypeOK
<1>3. QED
  BY <1>1, <1>2 DEF StepOf, Note, HistoryTypeOK

LEMMA OthersKnow ==
    ASSUME MigrateInv, NEW r \in Runs, StepOf(r), NEW v \in Runs \ {r}
    PROVE  RunKnows(v)'
<1>1. run'[v] = run[v] /\ NextFile(v)' = NextFile(v)
  BY NextFileSame DEF StepOf
<1>2. AtBaseline(v)' => AtBaseline(v) /\ (v \in overlooked => v \in overlooked')
  BY <1>1, Noted DEF AtBaseline
<1>3. ASSUME run[v].pc = "record"
      PROVE  NextFile(v) \in File
  <2>1. run[v] \in Run /\ run[v].seen # File
    BY <1>3, RunCases DEF MigrateInv, HistoryTypeOK, RunKnows
  <2>2. QED
    BY <2>1, NextFileLeast DEF Run
<1>4. RunKnows(v)
  BY DEF MigrateInv
<1>5. QED
  BY <1>1, <1>2, <1>3, <1>4 DEF RunKnows, StepOf

\* The invariant after a step, from what is left to show for each.
LEMMA Preserved ==
    ASSUME MigrateInv, NEW r \in Runs, StepOf(r), RunKnows(r)', FilesInv'
    PROVE  MigrateInv'
<1>1. ASSUME NEW v \in Runs PROVE RunKnows(v)'
  BY <1>1, OthersKnow
<1>2. QED
  BY <1>1, Noted DEF MigrateInv

\* Where the files and the records are left alone.
LEMMA FilesUnchanged ==
    ASSUME FilesInv, UNCHANGED <<origin, applied, recorded>>, assumed \subseteq assumed'
    PROVE  FilesInv'
BY DEF FilesInv, RecordedApplied, AppliedOnce, AppliedRecorded, RecordedInOrder, CombinedApplied,
       InBaselineOfCombined

\* A run moves to s and touches nothing else.
LEMMA Moves ==
    ASSUME MigrateInv, NEW r \in Runs, NEW s \in {Idle} \cup Run, run' = [run EXCEPT ![r] = s],
           UNCHANGED <<origin, applied, recorded>>, failures' \in 0..MaxFailures,
           Note, halfway' \in BOOLEAN
    PROVE  run'[r] = s /\ StepOf(r) /\ FilesInv'
<1>1. /\ run' \in [Runs -> {Idle} \cup Run] /\ run'[r] = s
      /\ \A v \in Runs \ {r} : run'[v] = run[v]
  BY RunsType DEF MigrateInv, HistoryTypeOK
<1>2. StepOf(r)
  BY <1>1 DEF MigrateInv, HistoryTypeOK, StepOf, TypeOK
<1>3. QED
  BY <1>1, <1>2, Noted, FilesUnchanged DEF MigrateInv

-----------------------------------------------------------------------------
(* One lemma for each action.                                              *)

LEMMA KnowStart ==
    ASSUME MigrateInv, NEW r \in Runs, NEW only \in BOOLEAN, Start(r, only),
           Note, halfway' \in BOOLEAN
    PROVE  MigrateInv'
<1> DEFINE s == [pc |-> "read", seen |-> {}, only |-> only]
<1>1. s \in Run /\ s.pc = "read" /\ s.seen = {} /\ run' = [run EXCEPT ![r] = s]
  BY DEF Start, Run
<1>2. UNCHANGED <<origin, applied, recorded, failures>> /\ failures \in 0..MaxFailures
  BY DEF Start, MigrateInv, HistoryTypeOK, TypeOK
<1> HIDE DEF s
<1>3. run'[r] = s /\ StepOf(r) /\ FilesInv'
  BY <1>1, <1>2, Moves
<1>4. RunKnows(r)'
  BY <1>1, <1>3 DEF RunKnows, AtBaseline
<1>5. QED
  BY <1>3, <1>4, Preserved

LEMMA KnowExit ==
    ASSUME MigrateInv, NEW r \in Runs, Exit(r), UNCHANGED <<origin, applied, recorded>>,
           failures' \in 0..MaxFailures, Note, halfway' \in BOOLEAN
    PROVE  MigrateInv'
<1>1. run'[r] = Idle /\ StepOf(r) /\ FilesInv'
  BY Moves DEF Exit
<1>2. RunKnows(r)'
  BY <1>1 DEF RunKnows, AtBaseline, Idle
<1>3. QED
  BY <1>1, <1>2, Preserved

LEMMA KnowRead ==
    ASSUME MigrateInv, NEW r \in Runs, run[r].pc = "read", NEW seen \in SUBSET recorded,
           HasRead(r, seen), UNCHANGED <<origin, applied, recorded>>,
           failures' \in 0..MaxFailures, Note, halfway' \in BOOLEAN
    PROVE  MigrateInv'
<1> DEFINE pc == IF seen = {} THEN "check" ELSE "apply"
           s == [run[r] EXCEPT !.seen = seen, !.pc = pc]
<1>1. TypeOK /\ run[r] \in Run /\ recorded \subseteq File
  BY RunCases DEF MigrateInv, HistoryTypeOK, TypeOK
<1>2. s \in Run /\ s.pc = pc /\ s.seen = seen /\ run' = [run EXCEPT ![r] = s]
  BY <1>1 DEF HasRead, Run
<1> HIDE DEF s
<1>3. run'[r] = s /\ StepOf(r) /\ FilesInv'
  BY <1>2, Moves
<1>4. RunKnows(r)'
  BY <1>2, <1>3 DEF RunKnows, AtBaseline
<1>5. QED
  BY <1>3, <1>4, Preserved

LEMMA KnowCheck ==
    ASSUME MigrateInv, NEW r \in Runs, run[r].pc = "check", NEW pc \in {"baseline", "apply"},
           GoTo(r, pc), pc = "baseline" => HasTenants, UNCHANGED <<origin, applied, recorded>>,
           failures' \in 0..MaxFailures, Note, halfway' \in BOOLEAN
    PROVE  MigrateInv'
<1>1. TypeOK /\ run[r] \in Run /\ run[r] # Idle
  BY RunCases DEF MigrateInv, HistoryTypeOK, Idle
<1>2. /\ run' = [run EXCEPT ![r] = run'[r]] /\ run'[r] \in Run
      /\ run'[r].pc = pc /\ run'[r].seen = run[r].seen
  BY <1>1, Advance
<1>3. StepOf(r) /\ FilesInv'
  BY <1>2, Moves
<1>4. ASSUME pc = "baseline", origin = "fresh" PROVE r \in overlooked'
  <2>1. TenantsFile \in recorded
    BY <1>4, Files DEF HasTenants, MigrateInv, FilesInv, AppliedRecorded, InBaselineOfCombined
  <2>2. AtBaseline(r)' /\ ~AtBaseline(r) /\ recorded # {}
    BY <1>2, <1>4, <2>1 DEF AtBaseline
  <2>3. QED
    BY <2>2 DEF Note
<1>5. run[r].seen \subseteq recorded
  BY <1>1 DEF MigrateInv, RunKnows
<1>6. RunKnows(r)'
  BY <1>2, <1>4, <1>5 DEF RunKnows, AtBaseline
<1>7. QED
  BY <1>3, <1>6, Preserved

LEMMA KnowBaseline ==
    ASSUME MigrateInv, NEW r \in Runs, RecordBaseline(r), Note, halfway' \in BOOLEAN
    PROVE  MigrateInv'
<1> DEFINE f == NextFile(r)
<1>1. /\ TypeOK /\ run[r] \in Run /\ run[r].pc = "baseline" /\ run[r] # Idle
      /\ run[r].seen \subseteq recorded /\ recorded \subseteq File /\ run[r].seen \subseteq File
      /\ origin = "fresh" => r \in overlooked
  BY RunCases DEF MigrateInv, HistoryTypeOK, RecordBaseline, RunKnows, AtBaseline, TypeOK, Idle, Run
<1>2. UNCHANGED <<origin, applied, failures>> /\ failures \in 0..MaxFailures
  BY <1>1 DEF RecordBaseline, TypeOK
<1>3. CASE run[r].seen # File /\ InBaseline(f)
  <2> DEFINE s == [run[r] EXCEPT !.seen = run[r].seen \cup {f}]
  <2>1. /\ f \in File /\ f <= Baseline
        /\ \A g \in File : g < f => g \in recorded
    BY <1>1, <1>3, NextFileLeast DEF InBaseline
  <2>2. recorded' = recorded \cup {f} /\ run' = [run EXCEPT ![r] = s]
    BY <1>3 DEF RecordBaseline
  <2>3. s \in Run /\ s.pc = "baseline" /\ s.seen = run[r].seen \cup {f}
    BY <1>1, <2>1 DEF Run
  <2> HIDE DEF s, f
  <2>4. /\ run' \in [Runs -> {Idle} \cup Run] /\ run'[r] = s
        /\ \A v \in Runs \ {r} : run'[v] = run[v]
    BY <1>1, <2>2, <2>3, RunsType
  <2>5. StepOf(r)
    BY <1>1, <1>2, <2>1, <2>2, <2>4 DEF StepOf, TypeOK
  <2>6. r \in overlooked => r \in overlooked'
    BY <1>1, <2>3, <2>4 DEF Note, AtBaseline
  <2>7. RunKnows(r)'
    BY <1>1, <1>2, <2>2, <2>3, <2>4, <2>6 DEF RunKnows
  <2>8. FilesInv'
    <3>1. f \in recorded \/ applied[f] > 0 \/ f \in assumed'
      <4>1. CASE origin = "combined"
        BY <2>1, <4>1 DEF MigrateInv, FilesInv, CombinedApplied, InBaselineOfCombined
      <4>2. CASE origin # "combined"
        <5>1. origin \in {"fresh", "combined", "restored"}
          BY <1>1, MigrateAssumption DEF TypeOK
        <5>2. AtBaseline(r) /\ AtBaseline(r)' /\ Errs(r)
          BY <1>1, <2>3, <2>4, <4>2, <5>1 DEF AtBaseline, Errs
        <5>3. QED
          BY <2>2, <5>2 DEF Note
      <4>3. QED
        BY <4>1, <4>2
    <3>2. RecordedApplied'
      BY <1>2, <2>2, <2>5, <3>1, Noted DEF MigrateInv, FilesInv, RecordedApplied
    <3>3. AppliedOnce' /\ CombinedApplied'
      BY <1>2 DEF MigrateInv, FilesInv, AppliedOnce, CombinedApplied, InBaselineOfCombined
    <3>4. AppliedRecorded'
      BY <1>2, <2>2 DEF MigrateInv, FilesInv, AppliedRecorded, InBaselineOfCombined
    <3>5. RecordedInOrder'
      BY <1>2, <2>1, <2>2 DEF MigrateInv, FilesInv, RecordedInOrder, InBaselineOfCombined
    <3>6. QED
      BY <3>2, <3>3, <3>4, <3>5 DEF FilesInv
  <2>9. QED
    BY <2>5, <2>7, <2>8, Preserved
<1>4. CASE ~(run[r].seen # File /\ InBaseline(f))
  <2>1. GoTo(r, "apply") /\ recorded' = recorded
    BY <1>4 DEF RecordBaseline
  <2>2. /\ run' = [run EXCEPT ![r] = run'[r]] /\ run'[r] \in Run
        /\ run'[r].pc = "apply" /\ run'[r].seen = run[r].seen
    BY <1>1, <2>1, Advance
  <2>3. StepOf(r) /\ FilesInv'
    BY <1>2, <2>1, <2>2, Moves
  <2>4. RunKnows(r)'
    BY <1>1, <2>1, <2>2 DEF RunKnows, AtBaseline
  <2>5. QED
    BY <2>3, <2>4, Preserved
<1>5. QED
  BY <1>3, <1>4

LEMMA KnowFinish ==
    ASSUME MigrateInv, NEW r \in Runs, Finish(r), Note, halfway' \in BOOLEAN
    PROVE  MigrateInv'
<1>1. TypeOK /\ run[r] \in Run /\ run[r].pc = "apply" /\ run[r] # Idle
  BY RunCases DEF MigrateInv, HistoryTypeOK, Finish, Idle
<1>2. UNCHANGED <<origin, applied, recorded, failures>> /\ failures \in 0..MaxFailures
  BY <1>1 DEF Finish, TypeOK
<1>3. CASE Exit(r)
  BY <1>2, <1>3, KnowExit
<1>4. CASE GoTo(r, "done") /\ run[r].seen = File
  <2>1. /\ run' = [run EXCEPT ![r] = run'[r]] /\ run'[r] \in Run
        /\ run'[r].pc = "done" /\ run'[r].seen = run[r].seen
    BY <1>1, <1>4, Advance
  <2>2. StepOf(r) /\ FilesInv'
    BY <1>2, <2>1, Moves
  <2>3. RunKnows(r)'
    BY <1>1, <1>2, <1>4, <2>1 DEF MigrateInv, RunKnows, AtBaseline
  <2>4. QED
    BY <2>2, <2>3, Preserved
<1>5. QED
  BY <1>3, <1>4 DEF Finish

\* What applying the next file, before its record is written or with it, makes
\* of the files.
LEMMA AppliedNext ==
    ASSUME MigrateInv, NEW r \in Runs, run[r] \in Run, run[r].seen # File, Apply(NextFile(r)),
           origin' = origin, assumed \subseteq assumed',
           \/ NextFile(r) \in OwnCommit /\ recorded' = recorded
           \/ NextFile(r) \notin recorded /\ recorded' = recorded \cup {NextFile(r)}
    PROVE  /\ FilesInv' /\ applied' \in [File -> 0..2]
           /\ \A g \in File : applied[g] > 0 => applied'[g] > 0
<1> DEFINE f == NextFile(r)
<1>1. /\ f \in File /\ TypeOK /\ applied \in [File -> 0..2]
      /\ \A g \in File : g < f => g \in recorded
  <2>1. f \in File /\ \A g \in File : g < f => g \in run[r].seen
    BY NextFileLeast DEF Run
  <2>2. run[r].seen \subseteq recorded
    BY RunCases DEF MigrateInv, HistoryTypeOK, RunKnows, Idle
  <2>3. QED
    BY <2>1, <2>2 DEF MigrateInv, HistoryTypeOK, TypeOK
<1>2. \/ f \in OwnCommit /\ recorded' = recorded
      \/ f \notin recorded /\ recorded' = recorded \cup {f}
  OBVIOUS
<1>3. Apply(f)
  OBVIOUS
<1> HIDE DEF f
<1>4. /\ applied' \in [File -> 0..2]
      /\ applied'[f] > 0 /\ (applied[f] = 0 => applied'[f] = 1)
      /\ \A g \in File \ {f} : applied'[g] = applied[g]
  BY <1>1, <1>3, ApplyType
<1>5. \A g \in File : applied[g] > 0 => applied'[g] > 0
  BY <1>1, <1>4
<1>6. RecordedApplied'
  BY <1>1, <1>2, <1>4, <1>5 DEF MigrateInv, FilesInv, RecordedApplied, TypeOK
<1>7. AppliedOnce'
  <2>1. ASSUME f \notin OwnCommit, applied'[f] = 2 PROVE InBaselineOfCombined(f)
    <3>1. applied[f] > 0
      BY <1>1, <1>4, <2>1
    <3>2. QED
      BY <1>1, <1>2, <2>1, <3>1 DEF MigrateInv, FilesInv, AppliedRecorded
  <2>2. QED
    BY <1>1, <1>4, <2>1 DEF MigrateInv, FilesInv, AppliedOnce, InBaselineOfCombined
<1>8. AppliedRecorded'
  BY <1>1, <1>2, <1>4 DEF MigrateInv, FilesInv, AppliedRecorded, InBaselineOfCombined
<1>9. RecordedInOrder'
  <2> SUFFICES ASSUME NEW h \in File,
                      h \in recorded' \/ (applied'[h] > 0 /\ ~InBaselineOfCombined(h)'),
                      NEW g \in File, g < h
               PROVE  g \in recorded'
    BY DEF RecordedInOrder
  <2>1. CASE h = f
    BY <1>1, <1>2, <2>1
  <2>2. CASE h # f
    BY <1>1, <1>2, <1>4, <2>2 DEF MigrateInv, FilesInv, RecordedInOrder, InBaselineOfCombined
  <2>3. QED
    BY <2>1, <2>2
<1>10. CombinedApplied'
  BY <1>5 DEF MigrateInv, FilesInv, CombinedApplied, InBaselineOfCombined
<1>11. QED
  BY <1>4, <1>5, <1>6, <1>7, <1>8, <1>9, <1>10 DEF FilesInv

LEMMA KnowExecute ==
    ASSUME MigrateInv, NEW r \in Runs, Execute(r), Note, halfway' \in BOOLEAN
    PROVE  MigrateInv'
<1> DEFINE f == NextFile(r)
<1>1. /\ TypeOK /\ run[r] \in Run /\ run[r].pc = "apply" /\ run[r] # Idle /\ run[r].seen # File
      /\ run[r].seen \subseteq recorded
  BY RunCases DEF MigrateInv, HistoryTypeOK, Execute, Pending, RunKnows, Idle
<1>2. /\ UNCHANGED <<origin, recorded, failures>> /\ failures \in 0..MaxFailures
      /\ GoTo(r, "record") /\ IF f \in OwnCommit THEN Apply(f) ELSE UNCHANGED applied
  BY <1>1 DEF Execute, TypeOK
<1>3. /\ run' = [run EXCEPT ![r] = run'[r]] /\ run'[r] \in Run
      /\ run'[r].pc = "record" /\ run'[r].seen = run[r].seen
  BY <1>1, <1>2, Advance
<1>4. run' \in [Runs -> {Idle} \cup Run] /\ \A v \in Runs \ {r} : run'[v] = run[v]
  BY <1>1, <1>3, RunsType
<1>5. assumed \subseteq assumed'
  BY DEF Note
<1>6. /\ FilesInv' /\ applied' \in [File -> 0..2]
      /\ \A g \in File : applied[g] > 0 => applied'[g] > 0
  <2>1. CASE f \in OwnCommit
    BY <1>1, <1>2, <1>5, <2>1, AppliedNext
  <2>2. CASE f \notin OwnCommit
    BY <1>1, <1>2, <1>5, <2>2, FilesUnchanged DEF MigrateInv, TypeOK
  <2>3. QED
    BY <2>1, <2>2
<1>7. StepOf(r)
  BY <1>1, <1>2, <1>4, <1>6 DEF StepOf, TypeOK
<1>8. RunKnows(r)'
  <2>1. NextFile(r)' = f
    <3>1. NextFile(r)' = CHOOSE h \in File \ run'[r].seen : \A g \in File \ run'[r].seen : h <= g
      BY DEF NextFile
    <3>2. QED
      BY <1>3, <3>1 DEF NextFile
  <2>2. f \in File
    BY <1>1, NextFileLeast DEF Run
  <2>3. f \in OwnCommit => applied'[f] > 0
    BY <1>1, <1>2, <2>2, ApplyType
  <2> HIDE DEF f
  <2>4. QED
    BY <1>1, <1>2, <1>3, <2>1, <2>3 DEF RunKnows, AtBaseline
<1>9. QED
  BY <1>6, <1>7, <1>8, Preserved

LEMMA KnowRecord ==
    ASSUME MigrateInv, NEW r \in Runs, Record(r), Note, halfway' \in BOOLEAN
    PROVE  MigrateInv'
<1> DEFINE f == NextFile(r)
<1>1. /\ TypeOK /\ run[r] \in Run /\ run[r].pc = "record" /\ run[r] # Idle
      /\ run[r].seen # File /\ run[r].seen \subseteq recorded
      /\ f \in OwnCommit => applied[f] > 0
  BY RunCases DEF MigrateInv, HistoryTypeOK, Record, RunKnows, Idle
<1>2. UNCHANGED <<origin, failures>> /\ failures \in 0..MaxFailures
  BY <1>1 DEF Record, TypeOK
<1>3. f \in File /\ \A g \in File : g < f => g \in recorded
  BY <1>1, NextFileLeast DEF Run
<1>4. CASE f \in recorded
  <2>1. Exit(r) /\ UNCHANGED <<applied, recorded>>
    BY <1>4 DEF Record
  <2>2. QED
    BY <1>2, <2>1, KnowExit
<1>5. CASE f \notin recorded
  <2> DEFINE s == [run[r] EXCEPT !.pc = "apply", !.seen = run[r].seen \cup {f}]
  <2>1. /\ IF f \in OwnCommit THEN UNCHANGED applied ELSE Apply(f)
        /\ recorded' = recorded \cup {f}
        /\ run' = [run EXCEPT ![r] = s]
    BY <1>5 DEF Record
  <2>2. s \in Run /\ s.pc = "apply" /\ s.seen = run[r].seen \cup {f}
    BY <1>1, <1>3 DEF Run
  <2> HIDE DEF s
  <2>3. /\ run' \in [Runs -> {Idle} \cup Run] /\ run'[r] = s
        /\ \A v \in Runs \ {r} : run'[v] = run[v]
    BY <1>1, <2>1, <2>2, RunsType
  <2>4. assumed \subseteq assumed'
    BY DEF Note
  <2>5. /\ FilesInv' /\ applied' \in [File -> 0..2]
        /\ \A g \in File : applied[g] > 0 => applied'[g] > 0
    <3>1. CASE f \notin OwnCommit
      BY <1>1, <1>2, <1>5, <2>1, <2>4, <3>1, AppliedNext
    <3>2. CASE f \in OwnCommit
      <4>1. applied' = applied /\ applied[f] > 0
        BY <1>1, <2>1, <3>2
      <4>2. RecordedApplied'
        BY <2>1, <2>4, <4>1 DEF MigrateInv, FilesInv, RecordedApplied
      <4>3. AppliedRecorded' /\ AppliedOnce' /\ CombinedApplied'
        BY <1>2, <2>1, <4>1
        DEF MigrateInv, FilesInv, AppliedRecorded, AppliedOnce, CombinedApplied,
            InBaselineOfCombined
      <4>4. RecordedInOrder'
        BY <1>2, <1>3, <2>1, <4>1
        DEF MigrateInv, FilesInv, RecordedInOrder, InBaselineOfCombined
      <4>5. QED
        BY <1>1, <4>1, <4>2, <4>3, <4>4 DEF FilesInv, TypeOK
    <3>3. QED
      BY <3>1, <3>2
  <2>6. StepOf(r)
    BY <1>1, <1>2, <1>3, <2>1, <2>3, <2>5 DEF StepOf, TypeOK
  <2>7. RunKnows(r)'
    BY <1>1, <2>1, <2>2, <2>3 DEF RunKnows, AtBaseline
  <2>8. QED
    BY <2>5, <2>6, <2>7, Preserved
<1>6. QED
  BY <1>4, <1>5

-----------------------------------------------------------------------------
(* The theorems.                                                           *)

LEMMA MigrateInit == HistoryInit => MigrateInv
<1> SUFFICES ASSUME HistoryInit PROVE MigrateInv
  OBVIOUS
<1>1. /\ recorded = {} /\ failures \in 0..MaxFailures
      /\ overlooked = {} /\ assumed = {} /\ halfway = FALSE
  BY MigrateAssumption DEF HistoryInit, Init
<1>2. \A f \in File : applied[f] = IF InBaselineOfCombined(f) THEN 1 ELSE 0
  BY DEF HistoryInit, Init, InBaselineOfCombined
<1>3. applied \in [File -> 0..2]
  BY DEF HistoryInit, Init
<1>4. \A r \in Runs : run[r] = Idle /\ run[r].pc = "idle"
  BY DEF HistoryInit, Init, Idle
<1>5. HistoryTypeOK
  BY <1>1, <1>3 DEF HistoryInit, Init, TypeOK, HistoryTypeOK
<1>6. FilesInv
  BY <1>1, <1>2
  DEF FilesInv, RecordedApplied, AppliedOnce, AppliedRecorded, RecordedInOrder, CombinedApplied
<1>7. QED
  BY <1>4, <1>5, <1>6 DEF MigrateInv, RunKnows, AtBaseline

LEMMA MigrateNext == MigrateInv /\ [HistoryNext]_historyVars => MigrateInv'
<1> SUFFICES ASSUME MigrateInv, [HistoryNext]_historyVars PROVE MigrateInv'
  OBVIOUS
<1>1. halfway \in BOOLEAN /\ failures \in 0..MaxFailures
  BY DEF MigrateInv, HistoryTypeOK, TypeOK
<1>2. failures < MaxFailures /\ failures' = failures + 1 => failures' \in 0..MaxFailures
  BY <1>1, MigrateAssumption
<1>3. ASSUME NEW r \in Runs, NEW only \in BOOLEAN, HistoryStart(r, only) PROVE MigrateInv'
  BY <1>1, <1>3, KnowStart DEF HistoryStart
<1>4. ASSUME NEW r \in Runs, HistoryStep(r) PROVE MigrateInv'
  <2>1. Step(r) /\ Note /\ halfway' \in BOOLEAN
    BY <1>1, <1>4 DEF HistoryStep
  <2>2. CASE ReadApplied(r)
    BY <1>1, <2>1, <2>2, KnowRead DEF ReadApplied
  <2>3. CASE CheckInitialized(r)
    <3> DEFINE pc == IF HasTenants THEN "baseline" ELSE "apply"
    <3>1. /\ run[r].pc = "check" /\ GoTo(r, pc) /\ pc \in {"baseline", "apply"}
          /\ pc = "baseline" => HasTenants
          /\ UNCHANGED <<origin, applied, recorded>> /\ failures' \in 0..MaxFailures
      BY <1>1, <2>3 DEF CheckInitialized
    <3> HIDE DEF pc
    <3>2. QED
      BY <2>1, <3>1, KnowCheck
  <2>4. CASE ExecuteFails(r) \/ End(r)
    BY <1>1, <2>1, <2>4, KnowExit DEF ExecuteFails, End
  <2>5. CASE RecordBaseline(r) \/ Finish(r) \/ Execute(r) \/ Record(r)
    BY <2>1, <2>5, KnowBaseline, KnowFinish, KnowExecute, KnowRecord
  <2>6. QED
    BY <2>1, <2>2, <2>3, <2>4, <2>5 DEF Step
<1>5. ASSUME NEW r \in Runs, ReadBreaks(r), Note, UNCHANGED halfway PROVE MigrateInv'
  <2>1. PICK seen \in SUBSET recorded : HasRead(r, seen)
    BY <1>5 DEF ReadBreaks
  <2>2. QED
    BY <1>1, <1>2, <1>5, <2>1, KnowRead DEF ReadBreaks
<1>6. ASSUME NEW r \in Runs, Crash(r) \/ CheckFails(r), Note,
             halfway' = (halfway \/ LeavesHalfway(r))
      PROVE  MigrateInv'
  <2>1. halfway' \in BOOLEAN
    BY <1>6
  <2>2. CASE Crash(r)
    BY <1>2, <1>6, <2>1, <2>2, KnowExit DEF Crash
  <2>3. CASE CheckFails(r)
    BY <1>2, <1>6, <2>1, <2>3, KnowCheck DEF CheckFails
  <2>4. QED
    BY <1>6, <2>2, <2>3
<1>7. CASE UNCHANGED historyVars
  <2>1. UNCHANGED <<origin, applied, recorded, run, failures, overlooked, assumed, halfway>>
    BY <1>7 DEF historyVars, vars
  <2>2. \A r \in Runs : NextFile(r)' = NextFile(r)
    BY <2>1, NextFileSame
  <2>3. HistoryTypeOK'
    BY <2>1 DEF MigrateInv, HistoryTypeOK, TypeOK
  <2>4. \A r \in Runs : RunKnows(r)'
    BY <2>1, <2>2 DEF MigrateInv, RunKnows, AtBaseline
  <2>5. QED
    BY <2>1, <2>3, <2>4, FilesUnchanged DEF MigrateInv
<1>8. QED
  BY <1>3, <1>4, <1>5, <1>6, <1>7 DEF HistoryNext

LEMMA MigrateAlways == HistorySpec => []MigrateInv
BY MigrateInit, MigrateNext, PTL DEF HistorySpec

\* The record of what misleads the runs keeps none of them from a step: without
\* it every behaviour is one of the migration tool.
THEOREM HistoryIsMigrate == HistorySpec => Spec
<1>1. HistoryInit => Init
  BY DEF HistoryInit
<1>2. [HistoryNext]_historyVars => [Next]_vars
  BY DEF HistoryNext, HistoryStep, HistoryStart, Next, historyVars, vars
<1>3. QED
  BY <1>1, <1>2, PTL DEF HistorySpec, Spec

\* What a run has read, and the records themselves, stay within their types.
THEOREM TypeCorrect == HistorySpec => []HistoryTypeOK
<1>1. MigrateInv => HistoryTypeOK
  BY DEF MigrateInv
<1>2. QED
  BY <1>1, MigrateAlways, PTL

\* A file that schema_migrations names has been applied, however runs overlap,
\* misread and are cut off, unless a baseline recorded it that was none.
THEOREM RecordsAreTrue == HistorySpec => []RecordedApplied
<1>1. MigrateInv => RecordedApplied
  BY DEF MigrateInv, FilesInv
<1>2. QED
  BY <1>1, MigrateAlways, PTL

\* The tool itself applies no file twice that leaves the COMMIT to it, though
\* any number of runs may execute it at the same time.
THEOREM FilesAppliedOnce == HistorySpec => []AppliedOnce
<1>1. MigrateInv => AppliedOnce
  BY DEF MigrateInv, FilesInv
<1>2. QED
  BY <1>1, MigrateAlways, PTL

\* No file is applied or recorded before one that comes before it by name has
\* been applied, or recorded by a baseline that was none.
THEOREM FilesInOrder == HistorySpec => []AppliedInOrder
<1>1. MigrateInv => AppliedInOrder
  <2> SUFFICES ASSUME MigrateInv, NEW f \in File, applied[f] > 0 \/ f \in recorded,
                      NEW g \in 1..(f - 1)
               PROVE  applied[g] > 0 \/ g \in assumed
    BY DEF AppliedInOrder
  <2>1. g \in File /\ g < f /\ g \in Nat /\ f \in Nat
    BY Files
  <2>2. CASE f \in recorded \/ ~InBaselineOfCombined(f)
    BY <2>1, <2>2 DEF MigrateInv, FilesInv, RecordedInOrder, RecordedApplied
  <2>3. CASE InBaselineOfCombined(f)
    <3>1. Baseline \in Nat
      BY MigrateAssumption DEF File
    <3>2. InBaselineOfCombined(g)
      BY <2>1, <2>3, <3>1 DEF InBaselineOfCombined
    <3>3. QED
      BY <2>1, <3>2 DEF MigrateInv, FilesInv, CombinedApplied
  <2>4. QED
    BY <2>2, <2>3
<1>2. QED
  BY <1>1, MigrateAlways, PTL

\* The tool reports success only when all files are recorded, and applied but
\* for those that a baseline recorded which was none.
THEOREM SuccessMeansComplete == HistorySpec => []SuccessIsComplete
<1>1. MigrateInv => SuccessIsComplete
  <2> SUFFICES ASSUME MigrateInv, NEW r \in Runs, run[r].pc = "done"
               PROVE  recorded = File /\ \A f \in File : applied[f] > 0 \/ f \in assumed
    BY DEF SuccessIsComplete
  <2>1. run[r].seen = File /\ run[r].seen \subseteq recorded /\ recorded \subseteq File
    BY RunCases DEF MigrateInv, HistoryTypeOK, RunKnows, TypeOK, Idle
  <2>2. QED
    BY <2>1 DEF MigrateInv, FilesInv, RecordedApplied
<1>2. QED
  BY <1>1, MigrateAlways, PTL

=============================================================================
