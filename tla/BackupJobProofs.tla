--------------------------- MODULE BackupJobProofs ---------------------------
(***************************************************************************)
(* The theorems about the backup, for every retention and any number of    *)
(* rows and days: what a dump restores, whatever is written beside it, and *)
(* that the folder on Google Drive is never emptied.                       *)
(***************************************************************************)
EXTENDS BackupJob, FiniteSetTheorems, TLAPS

-----------------------------------------------------------------------------
(* The database.                                                           *)

LEMMA TablesLength == Len(Tables) = 7
BY DEF Tables

LEMMA Positions ==
    /\ Position("tenants") = 1 /\ Position("tenant_members") = 2
    /\ Position("periods") = 3 /\ Position("transactions") = 4
    /\ Position("suppliers") = 5 /\ Position("supplier_transactions") = 6
    /\ Position("user_security") = 7
<1> DEFINE At(i, t) == i \in 1..Len(Tables) /\ Tables[i] = t
<1>1. \A i : /\ At(i, "tenants") <=> i = 1
             /\ At(i, "tenant_members") <=> i = 2
             /\ At(i, "periods") <=> i = 3
             /\ At(i, "transactions") <=> i = 4
             /\ At(i, "suppliers") <=> i = 5
             /\ At(i, "supplier_transactions") <=> i = 6
             /\ At(i, "user_security") <=> i = 7
  BY TablesLength DEF Tables
<1>2. QED
  BY <1>1 DEF Position

\* Every table is the one at its position, and comes after its parents.
LEMMA TablePositions ==
    ASSUME NEW t \in Table
    PROVE  /\ Position(t) \in 1..Len(Tables)
           /\ Tables[Position(t)] = t
           /\ \A p \in Parents(t) : Position(p) < Position(t)
           /\ t # "tenants" => Position("tenants") < Position(t)
<1>1. t \in {"tenants", "tenant_members", "periods", "transactions", "suppliers",
             "supplier_transactions", "user_security"}
  BY TablesLength DEF Table, Tables
<1>2. QED
  BY <1>1, Positions, TablesLength DEF Parents, Tables
-----------------------------------------------------------------------------
\* The rows refer to rows that are older and that a dump holds before them,
\* save for returns and for what refers to them.
ReferencesBefore ==
    \A r \in db : ~r.return =>
        \A x \in r.refs : \E s \in db : s.id = x /\ x < r.id /\ (Before(s, r) \/ s.return)

BooksInv ==
    /\ db \subseteq Row /\ IsFiniteSet(db)
    /\ Cardinality(db) <= MaxRows + 4
    /\ \A r \in db : r.id <= Cardinality(db)
    /\ \E r \in db : r.table = "tenants" /\ r.id = 1
    /\ ReferencesBefore

LEMMA BooksInit == db = Books => BooksInv
<1> SUFFICES ASSUME db = Books PROVE BooksInv
  OBVIOUS
<1> DEFINE t == [table |-> "tenants", id |-> 1, refs |-> {}, return |-> FALSE]
           p == [table |-> "periods", id |-> 2, refs |-> {1}, return |-> FALSE]
           s == [table |-> "suppliers", id |-> 3, refs |-> {1}, return |-> FALSE]
           x == [table |-> "supplier_transactions", id |-> 4, refs |-> {1, 2, 3}, return |-> FALSE]
<1>1. db = {t, p, s, x}
  BY DEF Books
<1>2. /\ t.table = "tenants" /\ t.id = 1 /\ t.refs = {} /\ ~t.return
      /\ p.table = "periods" /\ p.id = 2 /\ p.refs = {1} /\ ~p.return
      /\ s.table = "suppliers" /\ s.id = 3 /\ s.refs = {1} /\ ~s.return
      /\ x.table = "supplier_transactions" /\ x.id = 4 /\ x.refs = {1, 2, 3} /\ ~x.return
  OBVIOUS
<1>3. {"tenants", "periods", "suppliers", "supplier_transactions"} \subseteq Table
  BY TablesLength DEF Table, Tables
<1>4. t \in Row /\ p \in Row /\ s \in Row /\ x \in Row
  BY <1>3, SnapshotAssumption DEF Row
<1> HIDE DEF t, p, s, x
<1>5. IsFiniteSet(db) /\ Cardinality(db) = 4
  <2>1. IsFiniteSet({t}) /\ Cardinality({t}) = 1
    BY FS_Singleton
  <2> DEFINE A == {t} \cup {p}
             B == A \cup {s}
  <2>2. IsFiniteSet(A) /\ Cardinality(A) = 2
    <3>1. p \notin {t}
      BY <1>2
    <3>2. QED
      BY <2>1, <3>1, FS_AddElement
  <2>3. IsFiniteSet(B) /\ Cardinality(B) = 3
    <3>1. s \notin A
      BY <1>2
    <3> HIDE DEF A
    <3>2. QED
      BY <2>2, <3>1, FS_AddElement
  <2>4. IsFiniteSet(B \cup {x}) /\ Cardinality(B \cup {x}) = 4
    <3>1. x \notin B
      BY <1>2
    <3> HIDE DEF B
    <3>2. QED
      BY <2>3, <3>1, FS_AddElement
  <2>5. db = B \cup {x}
    BY <1>1
  <2>6. QED
    BY <2>4, <2>5
<1>6. Cardinality(db) <= MaxRows + 4 /\ \A r \in db : r.id <= Cardinality(db)
  BY <1>1, <1>2, <1>5, SnapshotAssumption
<1>7. ReferencesBefore
  BY <1>1, <1>2, Positions DEF ReferencesBefore, Before
<1>8. QED
  BY <1>1, <1>2, <1>4, <1>5, <1>6, <1>7 DEF BooksInv

\* How many rows there are.
LEMMA BooksSize ==
    ASSUME BooksInv
    PROVE  Cardinality(db) \in 1..MaxRows + 4
<1>1. Cardinality(db) \in Nat
  BY FS_CardinalityType DEF BooksInv
<1>2. Cardinality(db) >= 1
  BY <1>1 DEF BooksInv
<1>3. Cardinality(db) <= MaxRows + 4
  BY DEF BooksInv
<1>4. QED
  BY <1>1, <1>2, <1>3, SnapshotAssumption

\* A row reverses one row at most.
LEMMA OneReversed ==
    ASSUME BooksInv, NEW table, NEW refs \in References(table),
           NEW r \in RowsOf(refs, table), NEW q \in RowsOf(refs, table)
    PROVE  q = r
<1> SUFFICES ASSUME q # r PROVE FALSE
  OBVIOUS
<1>1. Cardinality(RowsOf(refs, table)) <= (IF table \in Reversible THEN 1 ELSE 0)
  BY DEF References
<1>2. RowsOf(refs, table) \subseteq db /\ IsFiniteSet(db)
  BY DEF References, RowsOf, BooksInv
<1>3. PICK S : S = RowsOf(refs, table)
  OBVIOUS
<1>4. IsFiniteSet(S) /\ Cardinality(S) \in Nat /\ Cardinality(S) <= 1
  <2>1. IsFiniteSet(S) /\ Cardinality(S) \in Nat
    BY <1>2, <1>3, FS_Subset, FS_CardinalityType
  <2>2. QED
    BY <1>1, <1>3, <2>1
<1>5. IsFiniteSet({r}) /\ Cardinality({r}) = 1
  BY FS_Singleton
<1>6. Cardinality({r} \cup {q}) = Cardinality({r}) + 1
  <2>1. q \notin {r}
    OBVIOUS
  <2>2. QED
    BY <1>5, <2>1, FS_AddElement
<1>7. {r} \cup {q} \subseteq S
  BY <1>3
<1>8. Cardinality({r} \cup {q}) <= Cardinality(S)
  BY <1>4, <1>7, FS_Subset
<1>9. QED
  BY <1>4, <1>5, <1>6, <1>8

\* A row that is inserted refers to rows before it or, as the return of an
\* entry, is marked as one.
LEMMA BooksInsert ==
    BooksInv /\ Insert =>
        /\ BooksInv' /\ db \subseteq db'
        /\ \A r \in db' \ db : r.id > Cardinality(db)
<1> SUFFICES ASSUME BooksInv, Insert
             PROVE  /\ BooksInv' /\ db \subseteq db'
                    /\ \A r \in db' \ db : r.id > Cardinality(db)
  OBVIOUS
<1> DEFINE n == Cardinality(db)
<1>1. PICK table \in Table \cap Inserted, return \in BOOLEAN : \E refs \in References(table) :
        /\ table = "supplier_transactions" /\ RowsOf(refs, table) # {} =>
               return = \A r \in RowsOf(refs, table) : ~r.return
        /\ db' = db \cup {[table |-> table, id |-> n + 1, return |-> return,
                           refs |-> {r.id : r \in refs}
                                    \cup (IF table = "user_security" THEN {} ELSE {1})]}
  BY DEF Insert
<1>2. PICK refs \in References(table) :
        /\ table = "supplier_transactions" /\ RowsOf(refs, table) # {} =>
               return = \A r \in RowsOf(refs, table) : ~r.return
        /\ db' = db \cup {[table |-> table, id |-> n + 1, return |-> return,
                           refs |-> {r.id : r \in refs}
                                    \cup (IF table = "user_security" THEN {} ELSE {1})]}
  BY <1>1
<1> DEFINE new == [table |-> table, id |-> n + 1, return |-> return,
                   refs |-> {r.id : r \in refs}
                            \cup (IF table = "user_security" THEN {} ELSE {1})]
<1>3. n \in Nat /\ n < MaxRows + 4 /\ table \in Table /\ table # "tenants"
  BY FS_CardinalityType, SnapshotAssumption DEF BooksInv, Insert
<1>4. refs \subseteq {r \in db : r.table \in Parents(table) \cup {table}}
  BY DEF References
<1>5. \A r \in db : r.id \in 1..n /\ r.table \in Table /\ r \in Row
  BY <1>3, SnapshotAssumption DEF BooksInv, Row
<1>6. /\ new.table = table /\ new.id = n + 1 /\ new.return = return
      /\ \A y \in new.refs : \/ \E r \in refs : r.id = y
                             \/ y = 1
  OBVIOUS
<1>7. new \in Row
  <2>1. new.refs \subseteq 1..MaxRows + 4
    BY <1>3, <1>4, <1>5, <1>6, SnapshotAssumption
  <2>2. n + 1 \in 1..MaxRows + 4
    BY <1>3, SnapshotAssumption
  <2>3. QED
    BY <2>1, <2>2 DEF Row
<1> HIDE DEF new
<1>8. db' = db \cup {new}
  BY <1>2 DEF new
<1>9. new \notin db
  BY <1>3, <1>5, <1>6
<1>10. IsFiniteSet(db') /\ Cardinality(db') = n + 1
  BY <1>8, <1>9, FS_AddElement DEF BooksInv
<1>11. ReferencesBefore'
  <2>1. \A r \in db : ~r.return =>
            \A y \in r.refs : \E s \in db : s.id = y /\ y < r.id /\ (Before(s, r) \/ s.return)
    BY DEF BooksInv, ReferencesBefore
  <2>2. ASSUME ~new.return, NEW y \in new.refs
        PROVE  \E s \in db : s.id = y /\ y < new.id /\ (Before(s, new) \/ s.return)
    <3>1. CASE y = 1
      <4>1. PICK s \in db : s.table = "tenants" /\ s.id = 1
        BY DEF BooksInv
      <4>2. Before(s, new)
        BY <1>3, <1>6, <4>1, TablePositions DEF Before
      <4>3. 1 < new.id
        BY <1>3, <1>5, <1>6, <4>1
      <4>4. QED
        BY <3>1, <4>1, <4>2, <4>3
    <3>2. ASSUME NEW r \in refs, r.id = y PROVE y < new.id /\ (Before(r, new) \/ r.return)
      <4>1. r \in db /\ r.table \in Parents(table) \cup {table}
        BY <1>4
      <4>2. r.id < new.id
        BY <4>1, <1>3, <1>5, <1>6
      <4>3. CASE r.table \in Parents(table)
        BY <3>2, <4>2, <4>3, <1>6, TablePositions DEF Before
      <4>4. CASE r.table = table /\ table # "supplier_transactions"
        BY <3>2, <4>2, <4>4, <1>6 DEF Before
      <4>5. CASE r.table = table /\ table = "supplier_transactions"
        <5>1. r \in RowsOf(refs, table)
          BY <4>5 DEF RowsOf
        <5>2. ~return
          BY <1>6, <2>2
        <5>3. ~(\A q \in RowsOf(refs, table) : ~q.return)
          BY <1>2, <4>5, <5>1, <5>2
        <5>4. PICK q \in RowsOf(refs, table) : q.return
          BY <5>3
        <5>5. q = r
          BY <4>5, <5>1, OneReversed
        <5>6. QED
          BY <3>2, <4>2, <5>4, <5>5
      <4>6. QED
        BY <4>1, <4>3, <4>4, <4>5
    <3>3. QED
      BY <3>1, <3>2, <1>4, <1>6
  <2>3. ASSUME NEW r \in db', ~r.return, NEW y \in r.refs
        PROVE  \E s \in db' : s.id = y /\ y < r.id /\ (Before(s, r) \/ s.return)
    BY <2>1, <2>2, <2>3, <1>8
  <2>4. QED
    BY <2>3 DEF ReferencesBefore, Before
<1>12. Cardinality(db') <= MaxRows + 4 /\ \A r \in db' : r.id <= Cardinality(db')
  <2>1. PICK m \in Nat : m = n
    BY <1>3
  <2>2. Cardinality(db') = m + 1 /\ m < MaxRows + 4
    BY <1>3, <1>10, <2>1
  <2>3. m + 1 <= MaxRows + 4
    BY <2>2, SnapshotAssumption
  <2>4. ASSUME NEW r \in db' PROVE r.id <= m + 1
    <3>1. CASE r = new
      BY <1>6, <2>1, <3>1
    <3>2. CASE r \in db
      BY <1>5, <2>1, <3>2
    <3>3. QED
      BY <1>8, <3>1, <3>2
  <2>5. QED
    BY <2>2, <2>3, <2>4
<1>13. db \subseteq db' /\ db' \subseteq Row
  BY <1>5, <1>7, <1>8
<1>14. \E r \in db' : r.table = "tenants" /\ r.id = 1
  BY <1>13 DEF BooksInv
<1>15. \A r \in db' \ db : r.id > n
  BY <1>3, <1>6, <1>8
<1>16. QED
  BY <1>10, <1>11, <1>12, <1>13, <1>14, <1>15 DEF BooksInv

\* A dump that holds all the rows of a moment, and of later ones none, is
\* restored if no return is among them.
LEMMA DumpRestores ==
    ASSUME BooksInv, NEW held \in Nat, NEW dump \in SUBSET db,
           \A r \in db : r.id <= held => r \in dump,
           \A r \in dump : ~r.return /\ r.id <= held
    PROVE  Restored(dump) = dump
<1> SUFFICES ASSUME NEW r \in dump, NEW x \in r.refs
             PROVE  \E s \in dump : s.id = x /\ Before(s, r)
  BY DEF Restored, Accepts
<1>1. PICK s \in db : s.id = x /\ x < r.id /\ (Before(s, r) \/ s.return)
  BY DEF BooksInv, ReferencesBefore
<1>2. s.id <= held
  <2>1. /\ r.id \in 1..MaxRows + 4 /\ s.id \in 1..MaxRows + 4
        /\ r.id <= held
    BY DEF BooksInv, Row
  <2>2. QED
    BY <1>1, <2>1, SnapshotAssumption
<1>3. QED
  BY <1>1, <1>2

-----------------------------------------------------------------------------
(* The jobs.                                                               *)

\* A dump holds the rows of the tables that were queried: all that were there
\* when it began, and perhaps later ones.
Follows(s) ==
    /\ s.held \in 1..Cardinality(db)
    /\ s.dump \subseteq db
    /\ \A r \in db : r.id <= s.held /\ Position(r.table) < s.next => r \in s.dump

DumpFollows == \A j \in Jobs : job[j].pc = "dump" /\ ~job[j].lost => Follows(job[j])

Accounted(file) ==
    ~file.lost => /\ file.restores # "some"
                  /\ file.restores = "none" => file.mixed

FilesAccounted == \A j \in Jobs : job[j] \in Delivering => Accounted(job[j].file)

\* Old files are looked for only when there is a new one.
NewFileFirst == \A j \in Jobs : job[j].pc = "clean" => day \in drive

BackupInv == TypeOK /\ BooksInv /\ DumpFollows /\ FilesAccounted /\ NewFileFirst

LEMMA JobCases ==
    ASSUME TypeOK, NEW j \in Jobs
    PROVE  /\ job[j].pc = "idle" => job[j] = Idle
           /\ job[j].pc = "dump" <=> job[j] \in Dumping
           /\ job[j].pc \in {"document", "upload", "clean", "report"} <=> job[j] \in Delivering
<1>1. job[j] \in {Idle} \cup Dumping \cup Delivering
  BY DEF TypeOK
<1>2. QED
  BY <1>1 DEF Idle, Dumping, Delivering

LEMMA BackupInit == Init => BackupInv
<1> SUFFICES ASSUME Init PROVE BackupInv
  OBVIOUS
<1>1. BooksInv
  BY BooksInit DEF Init
<1>2. TypeOK
  <2>1. day \in 0..MaxDay /\ drive \subseteq 0..MaxDay
    BY BackupAssumption DEF Init
  <2>2. up \in BOOLEAN /\ due \in BOOLEAN
    BY Zenon DEF Init
  <2>3. job \in [Jobs -> {Idle} \cup Dumping \cup Delivering]
    BY DEF Init
  <2>4. QED
    BY <1>1, <2>1, <2>2, <2>3 DEF TypeOK, BooksInv
<1>3. \A j \in Jobs : job[j] = Idle /\ job[j].pc = "idle" /\ job[j] \notin Delivering
  BY DEF Init, Idle, Delivering
<1>4. QED
  BY <1>1, <1>2, <1>3 DEF BackupInv, DumpFollows, FilesAccounted, NewFileFirst

\* What one job does leaves the other alone: this is what a step of job j must
\* keep, given what becomes of the folder.
StateKept(s, day1, drive1) ==
    /\ s \in {Idle} \cup Dumping \cup Delivering
    /\ s.pc = "dump" /\ ~s.lost => Follows(s)
    /\ s \in Delivering => Accounted(s.file)
    /\ s.pc = "clean" => day1 \in drive1

LEMMA JobStep ==
    ASSUME BackupInv, NEW j \in Jobs, NEW s,
           job' = [job EXCEPT ![j] = s],
           UNCHANGED <<db, day, up>>, due' \in BOOLEAN,
           drive' \subseteq drive \cup {day},
           day \in drive => day \in drive',
           StateKept(s, day, drive')
    PROVE  BackupInv'
<1>1. \A i \in Jobs : job'[i] = IF i = j THEN s ELSE job[i]
  BY DEF BackupInv, TypeOK
<1>2. TypeOK'
  BY DEF BackupInv, TypeOK, StateKept
<1>3. DumpFollows'
  BY <1>1 DEF BackupInv, DumpFollows, StateKept, Follows
<1>4. FilesAccounted'
  BY <1>1 DEF BackupInv, FilesAccounted, StateKept
<1>5. NewFileFirst'
  BY <1>1 DEF BackupInv, NewFileFirst, StateKept
<1>6. QED
  BY <1>2, <1>3, <1>4, <1>5 DEF BackupInv, BooksInv, ReferencesBefore

LEMMA BackupNext == BackupInv /\ [Next]_vars => BackupInv'
<1> SUFFICES ASSUME BackupInv, [Next]_vars PROVE BackupInv'
  OBVIOUS
<1>1. TypeOK /\ BooksInv
  BY DEF BackupInv
<1>2. CASE Write
  <2>1. /\ BooksInv' /\ db \subseteq db' /\ UNCHANGED <<day, up, due, job, drive>>
        /\ \A r \in db' \ db : r.id > Cardinality(db)
    BY <1>2, BooksInsert DEF BackupInv, Write
  <2>2. TypeOK'
    BY <1>1, <2>1 DEF TypeOK, BooksInv
  <2>3. Cardinality(db) \in Nat /\ Cardinality(db') \in Nat /\ Cardinality(db) <= Cardinality(db')
    <3>1. IsFiniteSet(db) /\ IsFiniteSet(db')
      BY <1>1, <2>1 DEF BooksInv
    <3>2. QED
      BY <2>1, <3>1, FS_Subset, FS_CardinalityType
  <2>4. ASSUME NEW j \in Jobs, job'[j].pc = "dump", ~job'[j].lost PROVE Follows(job[j])'
    <3>1. Follows(job[j])
      BY <2>1, <2>4 DEF BackupInv, DumpFollows
    <3>2. \A r \in db' : r \in db \/ ~(r.id <= job[j].held)
      <4>1. \A r \in db' : r.id \in Nat
        BY <2>1, SnapshotAssumption DEF BooksInv, Row
      <4>2. QED
        BY <2>1, <2>3, <3>1, <4>1 DEF Follows
    <3>3. job'[j].held \in 1..Cardinality(db')
      BY <2>1, <2>3, <3>1 DEF Follows
    <3>4. QED
      BY <2>1, <3>1, <3>2, <3>3 DEF Follows
  <2>5. DumpFollows'
    BY <2>4 DEF DumpFollows
  <2>6. FilesAccounted' /\ NewFileFirst'
    BY <2>1 DEF BackupInv, FilesAccounted, NewFileFirst
  <2>7. QED
    BY <2>1, <2>2, <2>5, <2>6 DEF BackupInv
<1>3. CASE NewDay
  <2>1. \A j \in Jobs : job[j] = Idle /\ job[j].pc = "idle"
    BY <1>3 DEF NewDay, Idle
  <2>2. TypeOK'
    <3>1. day' \in 0..MaxDay
      BY <1>1, <1>3, BackupAssumption DEF NewDay, TypeOK
    <3>2. due' \in BOOLEAN
      BY <1>1, <1>3 DEF NewDay, TypeOK
    <3>3. QED
      BY <1>1, <1>3, <3>1, <3>2 DEF NewDay, TypeOK
  <2>3. DumpFollows' /\ FilesAccounted'
    BY <1>3 DEF BackupInv, NewDay, DumpFollows, Follows, FilesAccounted
  <2>4. NewFileFirst'
    BY <1>3, <2>1 DEF NewDay, NewFileFirst
  <2>5. QED
    BY <1>3, <2>2, <2>3, <2>4 DEF BackupInv, NewDay, BooksInv, ReferencesBefore
<1>4. CASE StopApi
  <2>1. StateKept(Idle, day, drive)
    BY DEF StateKept, Idle, Delivering
  <2>2. due' \in BOOLEAN
    BY <1>4 DEF StopApi
  <2>3. TypeOK'
    BY <1>1, <1>4, <2>2 DEF StopApi, Finish, TypeOK
  <2>4. \A j \in Jobs : job'[j] = job[j] \/ job'[j] = Idle
    BY <1>1, <1>4 DEF StopApi, Finish, TypeOK
  <2>5. DumpFollows' /\ FilesAccounted' /\ NewFileFirst'
    BY <1>4, <2>1, <2>4 DEF BackupInv, StopApi, DumpFollows, Follows, FilesAccounted,
                            NewFileFirst, StateKept, Idle, Delivering
  <2>6. QED
    BY <1>4, <2>3, <2>5 DEF BackupInv, StopApi, BooksInv, ReferencesBefore
<1>5. CASE StartApi
  <2>1. TypeOK'
    BY <1>1, <1>5 DEF StartApi, TypeOK
  <2>2. QED
    BY <1>5, <2>1 DEF BackupInv, StartApi, BooksInv, ReferencesBefore, DumpFollows,
                      Follows, FilesAccounted, NewFileFirst
<1>6. ASSUME NEW j \in Jobs, Begin(j) PROVE BackupInv'
  <2> DEFINE s == [pc |-> "dump", next |-> 1, dump |-> {}, held |-> Cardinality(db), lost |-> FALSE]
  <2>1. s.pc = "dump" /\ s.next = 1 /\ s.dump = {} /\ s.held = Cardinality(db)
    OBVIOUS
  <2>2. Cardinality(db) \in 1..Cardinality(db) /\ Cardinality(db) \in 0..MaxRows + 4
    BY <1>1, BooksSize
  <2>3. s \in Dumping /\ s \notin Delivering
    BY <2>2, TablesLength DEF Dumping, Delivering
  <2>4. \A r \in db : ~(Position(r.table) < 1)
    BY <1>1, TablePositions DEF TypeOK, Row
  <2> HIDE DEF s
  <2>5. StateKept(s, day, drive')
    BY <2>1, <2>2, <2>3, <2>4 DEF StateKept, Follows
  <2>6. due' \in BOOLEAN
    BY <1>1, <1>6 DEF Begin, TypeOK
  <2>7. job' = [job EXCEPT ![j] = s] /\ UNCHANGED <<db, day, up, drive>>
    BY <1>6 DEF Begin, s
  <2>8. QED
    BY <2>5, <2>6, <2>7, JobStep
<1>7. ASSUME NEW j \in Jobs, ReadTable(j) PROVE BackupInv'
  <2> DEFINE table == Tables[job[j].next]
             s == Queried(job[j])
  <2>1. job[j] \in Dumping /\ job[j].next \in 1..Len(Tables)
    BY <1>1, <1>7, JobCases DEF ReadTable, Dumping
  <2>2. /\ s.pc = "dump" /\ s.next = job[j].next + 1 /\ s.lost = job[j].lost /\ s.held = job[j].held
        /\ s.dump = IF job[j].lost THEN {} ELSE job[j].dump \cup RowsOf(db, table)
    BY <2>1 DEF Dumping, Queried
  <2>3. s \in Dumping /\ s \notin Delivering
    <3>1. s.next \in 1..Len(Tables) + 1 /\ s.dump \subseteq Row
      BY <1>1, <2>1, <2>2 DEF Dumping, RowsOf, TypeOK
    <3>2. QED
      BY <2>1, <2>2, <3>1 DEF Dumping, Delivering, Queried
  <2>4. \A r \in db : Position(r.table) < job[j].next + 1 <=>
                         Position(r.table) < job[j].next \/ r.table = table
    <3>1. ASSUME NEW r \in db
          PROVE  /\ Position(r.table) \in 1..Len(Tables)
                 /\ Tables[Position(r.table)] = r.table
      BY <1>1, TablePositions DEF TypeOK, Row
    <3>2. Position(table) = job[j].next
      BY <2>1, TablesLength, Positions DEF Tables
    <3>3. QED
      BY <2>1, <3>1, <3>2, TablesLength
  <2>5. StateKept(s, day, drive')
    <3>1. ASSUME ~s.lost PROVE Follows(s)
      <4>1. Follows(job[j])
        BY <1>7, <2>2, <3>1 DEF BackupInv, DumpFollows, ReadTable
      <4>2. s.dump = job[j].dump \cup RowsOf(db, table)
        BY <2>2, <3>1
      <4>3. QED
        BY <2>2, <2>4, <4>1, <4>2 DEF RowsOf, Follows
    <3>2. QED
      BY <2>2, <2>3, <3>1 DEF StateKept
  <2>6. job' = [job EXCEPT ![j] = s] /\ UNCHANGED <<db, day, up, due, drive>>
    BY <1>7 DEF ReadTable
  <2>7. due' \in BOOLEAN
    BY <1>1, <2>6 DEF TypeOK
  <2>8. QED
    BY <2>5, <2>6, <2>7, JobStep
<1>8. ASSUME NEW j \in Jobs, LoseRows(j) PROVE BackupInv'
  <2> DEFINE s == Passed(job[j])
  <2>1. job[j] \in Dumping /\ job[j].next \in 1..Len(Tables)
    BY <1>1, <1>8, JobCases DEF LoseRows, Dumping
  <2>2. s.pc = "dump" /\ s.lost /\ s \in Dumping /\ s \notin Delivering
    <3>1. job[j].next + 1 \in 1..Len(Tables) + 1
      BY <2>1, TablesLength
    <3>2. QED
      BY <2>1, <3>1 DEF Dumping, Delivering, Passed
  <2>3. job' = [job EXCEPT ![j] = s] /\ UNCHANGED <<db, day, up, due, drive>>
    BY <1>8 DEF LoseRows
  <2>4. StateKept(s, day, drive') /\ due' \in BOOLEAN
    BY <1>1, <2>2, <2>3 DEF StateKept, TypeOK
  <2>5. QED
    BY <2>3, <2>4, JobStep
<1>9. ASSUME NEW j \in Jobs, DumpFails(j) \/ Report(j) PROVE BackupInv'
  <2>1. job' = [job EXCEPT ![j] = Idle] /\ UNCHANGED <<db, day, up, due, drive>>
    BY <1>9 DEF DumpFails, Report, Finish
  <2>2. StateKept(Idle, day, drive') /\ due' \in BOOLEAN
    BY <1>1, <2>1 DEF StateKept, Idle, Delivering, TypeOK
  <2>3. QED
    BY <2>1, <2>2, JobStep
<1>10. ASSUME NEW j \in Jobs, CloseFile(j) PROVE BackupInv'
  <2>1. job[j] \in Dumping /\ job[j].next = Len(Tables) + 1
    BY <1>1, <1>10, JobCases, TablesLength DEF CloseFile, Dumping
  <2>2. PICK cut \in BOOLEAN :
          job' = [job EXCEPT ![j] =
               [pc |-> "document",
                file |-> [restores |-> IF cut THEN "none" ELSE Result(j),
                          lost |-> cut \/ job[j].lost,
                          mixed |-> \E r \in job[j].dump : r.return \/ r.id > job[j].held]]]
    BY <1>10 DEF CloseFile
  <2> DEFINE file == [restores |-> IF cut THEN "none" ELSE Result(j),
                      lost |-> cut \/ job[j].lost,
                      mixed |-> \E r \in job[j].dump : r.return \/ r.id > job[j].held]
             s == [pc |-> "document", file |-> file]
  <2>3. file \in File
    <3>1. Result(j) \in {"all", "some", "none"}
      BY DEF Result
    <3>2. (cut \/ job[j].lost) \in BOOLEAN
      OBVIOUS
    <3>3. (\E r \in job[j].dump : r.return \/ r.id > job[j].held) \in BOOLEAN
      OBVIOUS
    <3>4. QED
      BY <3>1, <3>2, <3>3 DEF File
  <2>4. ASSUME ~job[j].lost
        PROVE  /\ Result(j) # "some"
               /\ Result(j) = "none" => \E r \in job[j].dump : r.return \/ r.id > job[j].held
    <3>1. Follows(job[j])
      BY <1>10, <2>4 DEF BackupInv, DumpFollows, CloseFile
    <3>2. \A r \in db : Position(r.table) < job[j].next
      BY <1>1, <2>1, TablePositions, TablesLength DEF TypeOK, Row
    <3>3. Began(j) \subseteq job[j].dump /\ job[j].dump \subseteq db
      BY <3>1, <3>2 DEF Began, Follows
    <3>4. PICK r \in db : r.id = 1
      BY <1>1 DEF BooksInv
    <3>5. r \in job[j].dump
      BY <3>1, <3>2, <3>4, <1>1, BooksSize DEF Follows
    <3>6. Restored(job[j].dump) \in {job[j].dump, {}}
      BY DEF Restored
    <3>7. Result(j) # "some"
      BY <3>3, <3>6 DEF Result
    <3>8. ASSUME ~\E q \in job[j].dump : q.return \/ q.id > job[j].held
          PROVE  Result(j) # "none"
      <4>1. \A q \in job[j].dump : ~q.return /\ q.id <= job[j].held
        <5>1. \A q \in job[j].dump : q.id \in Nat
          BY <1>1, <3>3, SnapshotAssumption DEF BooksInv, Row
        <5>2. job[j].held \in Nat
          BY <2>1, SnapshotAssumption DEF Dumping
        <5>3. QED
          BY <3>8, <5>1, <5>2
      <4>2. \A q \in db : q.id <= job[j].held => q \in job[j].dump
        BY <3>1, <3>2 DEF Follows
      <4>3. Restored(job[j].dump) = job[j].dump
        <5>1. job[j].held \in Nat
          BY <2>1, SnapshotAssumption DEF Dumping
        <5>2. QED
          BY <1>1, <3>3, <4>1, <4>2, <5>1, DumpRestores
      <4>4. QED
        BY <3>5, <4>3 DEF Result
    <3>9. QED
      BY <3>7, <3>8
  <2>5. Accounted(file)
    BY <2>4 DEF Accounted
  <2> HIDE DEF file
  <2>6. s \in Delivering /\ s.pc = "document" /\ s.file = file
    BY <2>3 DEF Delivering
  <2> HIDE DEF s
  <2>7. StateKept(s, day, drive')
    BY <2>5, <2>6 DEF StateKept
  <2>8. job' = [job EXCEPT ![j] = s] /\ UNCHANGED <<db, day, up, due, drive>>
    BY <1>10, <2>2 DEF CloseFile, s, file
  <2>9. QED
    BY <1>1, <2>7, <2>8, JobStep DEF TypeOK
<1>11. ASSUME NEW j \in Jobs,
              SendDocument(j) \/ Upload(j) \/ UploadFails(j) \/ CleanOldBackups(j)
       PROVE  BackupInv'
  <2>1. job[j] \in Delivering
    BY <1>1, <1>11, JobCases DEF SendDocument, Upload, UploadFails, CleanOldBackups
  <2>2. PICK pc \in {"upload", "clean", "report"} :
          GoTo(j, pc) /\ (pc = "clean" => day \in drive')
    BY <1>11 DEF SendDocument, Upload, UploadFails, CleanOldBackups
  <2> DEFINE s == [job[j] EXCEPT !.pc = pc]
  <2>3. s \in Delivering /\ s.pc = pc /\ s.file = job[j].file
    BY <2>1 DEF Delivering
  <2>4. Accounted(job[j].file)
    BY <2>1 DEF BackupInv, FilesAccounted
  <2>5. job' = [job EXCEPT ![j] = s] /\ UNCHANGED <<db, day, up, due>>
    BY <1>11, <2>2 DEF GoTo, SendDocument, Upload, UploadFails, CleanOldBackups
  <2>6. drive' \subseteq drive \cup {day} /\ (day \in drive => day \in drive')
    <3>1. day \notin Obsolete
      BY <1>1, BackupAssumption DEF Obsolete, TypeOK
    <3>2. QED
      BY <1>11, <3>1 DEF SendDocument, Upload, UploadFails, CleanOldBackups
  <2> HIDE DEF s
  <2>7. StateKept(s, day, drive')
    BY <2>2, <2>3, <2>4 DEF StateKept
  <2>8. QED
    BY <1>1, <2>5, <2>6, <2>7, JobStep DEF TypeOK
<1>12. CASE UNCHANGED vars
  <2>1. TypeOK'
    BY <1>1, <1>12 DEF vars, TypeOK
  <2>2. QED
    BY <1>12, <2>1 DEF BackupInv, vars, BooksInv, ReferencesBefore, DumpFollows,
                       Follows, FilesAccounted, NewFileFirst
<1>13. QED
  BY <1>2, <1>3, <1>4, <1>5, <1>6, <1>7, <1>8, <1>9, <1>10, <1>11, <1>12
     DEF Next, Dump, Deliver

LEMMA BackupAlways == Spec => []BackupInv
BY BackupInit, BackupNext, PTL DEF Spec

-----------------------------------------------------------------------------
\* The states of RunBackup, of the folder and of the timer stay within their
\* types, whatever fails.
THEOREM TypeCorrect == Spec => []TypeOK
<1>1. BackupInv => TypeOK
  BY DEF BackupInv
<1>2. QED
  BY <1>1, BackupAlways, PTL

\* A backup that RunBackup reports successful restores every row that the
\* database held when it began or none, whatever requests write beside it, if
\* no rows were lost on the way; and none only for a returned entry or a row
\* younger than the run.  For any number of rows and tables written.
THEOREM SuccessAlwaysAccounted == Spec => []SuccessAccounted
<1>1. BackupInv => SuccessAccounted
  <2> SUFFICES ASSUME BackupInv, NEW j \in Jobs, job[j].pc = "report" PROVE Accounted(job[j].file)
    BY DEF SuccessAccounted, Accounted
  <2>1. job[j] \in Delivering
    BY JobCases DEF BackupInv
  <2>2. QED
    BY <2>1 DEF BackupInv, FilesAccounted
<1>2. QED
  BY <1>1, BackupAlways, PTL

\* Once a backup has been uploaded the folder is never empty again: old files
\* are deleted only by a run whose own upload succeeded.
THEOREM FolderNeverEmptied == Spec => DriveNeverEmptied
<1>1. ASSUME BackupInv, [Next]_vars PROVE drive # {} => drive' # {}
  <2>1. ASSUME NEW j \in Jobs, CleanOldBackups(j) PROVE drive' # {}
    <3>1. day \in drive /\ day \in Nat
      <4>1. day \in 0..MaxDay
        BY <1>1 DEF BackupInv, TypeOK
      <4>2. day \in drive
        BY <1>1, <2>1 DEF CleanOldBackups, BackupInv, NewFileFirst
      <4>3. QED
        BY <4>1, <4>2
    <3>2. day \notin Obsolete
      BY <3>1, BackupAssumption DEF Obsolete
    <3>3. QED
      BY <2>1, <3>1, <3>2 DEF CleanOldBackups
  <2>2. ASSUME NEW j \in Jobs, Begin(j) \/ Dump(j) \/ Deliver(j), ~CleanOldBackups(j)
        PROVE  drive \subseteq drive'
    BY <2>2 DEF Begin, Dump, Deliver, ReadTable, LoseRows, CloseFile, DumpFails, SendDocument,
                Upload, UploadFails, Report
  <2>3. Write \/ NewDay \/ StopApi \/ StartApi \/ UNCHANGED vars => drive' = drive
    BY DEF Write, NewDay, StopApi, StartApi, vars
  <2>4. QED
    BY <1>1, <2>1, <2>2, <2>3 DEF Next
<1>2. QED
  BY <1>1, BackupAlways, PTL DEF Spec, DriveNeverEmptied

=============================================================================
