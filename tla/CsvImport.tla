----------------------------- MODULE CsvImport ------------------------------
(***************************************************************************)
(* Uploading a CSV file of cash transactions to a period: how its header   *)
(* is found and its rows are read, and how the rows are stored, one        *)
(* INSERT after the other, while the period may be locked and the server   *)
(* may stop.                                                               *)
(*                                                                         *)
(* A file is a sequence of rows, a row a sequence of cells, and a cell one *)
(* of a few words.  Reading a file touches nothing else, so it is one      *)
(* step; a text is abstracted to the keywords the code looks for in it.    *)
(***************************************************************************)
EXTENDS Integers, Sequences, FiniteSetsExt, SequencesExt

CONSTANTS
    Files,      \* the files users upload
    Repeated,   \* bound: the files of which there may be more than one upload
    Uploads     \* uploads, one after the other or at once

ASSUME FilesAssumption == Files \subseteq Seq(Seq(STRING))

VARIABLES
    status,     \* the status of the period
    stored,     \* the rows of the period these uploads inserted, in commit order
    up          \* per upload: what it is doing, its file, and how many rows it has stored

csvVars == <<status, stored, up>>

-----------------------------------------------------------------------------
(* What the code asks of a cell.                                           *)

\* The header words of a kind; gelen and giden may stand within a cell, the
\* others must be the whole of it.
Words == [gelen |-> {"gelen tutar"}, giden |-> {"giden tutar"},
          dir |-> {"yon"}, chan |-> {"kanal"}, amt |-> {"tutar"}, desc |-> {"detay"}]

\* cleanTurkishDecimalAmount, in hundredths: 1.250 is read as 1.25.  An empty
\* cell, "-" and other words are errors.
Numbers == [fifty |-> 5000, grouped |-> 125, minus |-> -5000, nil |-> 0]

IsNumber(cell) == cell \in DOMAIN Numbers

Directions == [giris |-> "in", cikis |-> "out"]

Channels == {"eft", "nakit", "maas_banka", "maas_elden", "kira", "diger"}

\* The keywords in a description.
Keywords(cell) ==
    CASE cell = "maas havalesi" -> {"havale", "maas"}
      [] cell = "nakit maas"    -> {"nakit", "maas"}
      [] cell = "havale"        -> {"havale"}
      [] cell = "kira"          -> {"kira"}
      [] OTHER                  -> {}

\* inferChannelFromDescription: the first that applies.
InferredChannel(cell) ==
    LET has(word) == word \in Keywords(cell)
    IN  IF has("havale") THEN IF has("maas") THEN "maas_banka" ELSE "eft"
        ELSE IF has("nakit") THEN IF has("maas") THEN "maas_elden" ELSE "nakit"
        ELSE IF has("kira") THEN "kira" ELSE "diger"

-----------------------------------------------------------------------------
(* The header.                                                             *)

\* The last column of a kind, 0 for none.
ColumnOf(cells, kind) ==
    LET found == {c \in DOMAIN cells : cells[c] \in Words[kind]}
    IN  IF found = {} THEN 0 ELSE Max(found)

Columns(cells) == [kind \in DOMAIN Words |-> ColumnOf(cells, kind)]

\* Mutant of IsHeader: one column of a known kind is enough.
AnyHeader(cells) == \E kind \in DOMAIN Words : ColumnOf(cells, kind) # 0

IsHeader(cells) ==
    LET at == Columns(cells)
    IN  \/ at.gelen # 0 /\ at.giden # 0
        \/ at.amt # 0
        \/ at.desc # 0 /\ (at.gelen # 0 \/ at.giden # 0)

HeaderRows(f) == {r \in DOMAIN f : IsHeader(f[r])}

\* Without a header the first row counts as one, in the order of the export.
Fallback == [gelen |-> 0, giden |-> 0, dir |-> 1, chan |-> 2, amt |-> 3, desc |-> 4]

Layout(f) ==
    IF HeaderRows(f) = {} THEN [row |-> 1, at |-> Fallback]
    ELSE [row |-> Min(HeaderRows(f)), at |-> Columns(f[Min(HeaderRows(f))])]

-----------------------------------------------------------------------------
(* The rows.  A row is skipped, is bad, or gives a transaction.            *)

Skip == [is |-> "skip"]
Bad  == [is |-> "bad"]
Tx(dir, chan, amount) == [is |-> "tx", dir |-> dir, chan |-> chan, amount |-> amount]

\* A cell that is missing reads as empty.
CellAt(cells, c) == IF c \in DOMAIN cells THEN cells[c] ELSE ""

Inferred(cells, at) ==
    IF CellAt(cells, at.desc) = "" THEN "nakit" ELSE InferredChannel(CellAt(cells, at.desc))

\* Mutant of ReadDual: amounts are not compared with zero.
ReadSigned(cells, at) ==
    LET amount == CellAt(cells, at.gelen)
    IN  CASE IsNumber(amount) -> Tx("in", Inferred(cells, at), Numbers[amount])
          [] ~IsNumber(amount) /\ IsNumber(CellAt(cells, at.giden)) ->
                 Tx("out", Inferred(cells, at), Numbers[CellAt(cells, at.giden)])
          [] OTHER -> Skip

\* Scenario A: a column of incoming and one of outgoing amounts.  The second
\* is not looked at when the first holds a positive amount.
ReadDual(cells, at) ==
    LET gelen == CellAt(cells, at.gelen)
        giden == CellAt(cells, at.giden)
        chan  == IF CellAt(cells, at.chan) \in Channels THEN CellAt(cells, at.chan)
                 ELSE Inferred(cells, at)
        unreadable(cell) == cell # "" /\ ~IsNumber(cell)
        positive(cell)   == IsNumber(cell) /\ Numbers[cell] > 0
    IN  IF unreadable(gelen) THEN Bad
        ELSE IF positive(gelen) THEN Tx("in", chan, Numbers[gelen])
        ELSE IF unreadable(giden) THEN Bad
        ELSE IF positive(giden) THEN Tx("out", chan, Numbers[giden]) ELSE Skip

\* Scenario B: columns not named are taken to be where the export has them.
ReadSingle(cells, at) ==
    LET col(kind) == IF at[kind] # 0 THEN at[kind] ELSE Fallback[kind]
        amount == CellAt(cells, col("amt"))
        dir  == CellAt(cells, col("dir"))
        chan == CellAt(cells, col("chan"))
        bad == \/ ~IsNumber(amount) \/ Numbers[amount] <= 0
               \/ col("dir") <= Len(cells) /\ dir \notin DOMAIN Directions
               \/ col("chan") <= Len(cells) /\ chan \notin Channels
    IN  IF amount = "" THEN Skip
        ELSE IF bad THEN Bad
        ELSE Tx(IF dir \in DOMAIN Directions THEN Directions[dir] ELSE "in",
                IF chan \in Channels THEN chan ELSE Inferred(cells, at), Numbers[amount])

IsEmptyRow(cells) == \A c \in DOMAIN cells : cells[c] = ""

ReadRow(cells, at) ==
    IF IsEmptyRow(cells) THEN Skip
    ELSE IF at.gelen # 0 /\ at.giden # 0 THEN ReadDual(cells, at) ELSE ReadSingle(cells, at)

\* What is read from each row under the header.
Readings(f) ==
    LET layout == Layout(f)
    IN  [k \in 1..(Len(f) - layout.row) |-> ReadRow(f[layout.row + k], layout.at)]

Transactions(readings) == SelectSeq(readings, LAMBDA reading : reading.is = "tx")

\* parsedTxs.
Parsed(f) == Transactions(Readings(f))

\* A file is refused for one bad row, or when nothing is left of it.
Accepted(f) ==
    /\ Len(f) >= 2
    /\ Bad \notin Range(Readings(f))
    /\ Parsed(f) # <<>>

-----------------------------------------------------------------------------
NoUpload == [pc |-> "none"]

CsvInit ==
    /\ status = "open"
    /\ stored = <<>>
    /\ up = [u \in Uploads |-> NoUpload]

Answer(u, answer) == up' = [up EXCEPT ![u].pc = answer]

Others(u) == {v \in Uploads : v # u /\ up[v] # NoUpload}

\* The service finds the period open, or answers 422.
Begin(u, f) ==
    /\ up[u] = NoUpload
    /\ Others(u) # {} => {f} \cup {up[v].file : v \in Others(u)} \subseteq Repeated
    /\ up' = [up EXCEPT ![u] = [pc |-> IF status = "locked" THEN "error" ELSE "read",
                                file |-> f, count |-> 0]]
    /\ UNCHANGED <<status, stored>>

\* Mutant of ReadFile: a row is stored before the next is read, so that what
\* precedes a bad row is stored.
ReadWithoutCheck(u) ==
    /\ up[u].pc = "read"
    /\ Answer(u, IF Parsed(up[u].file) # <<>> THEN "insert" ELSE "error")
    /\ UNCHANGED <<status, stored>>

\* The whole file is read before anything is stored.
ReadFile(u) ==
    /\ up[u].pc = "read"
    /\ Answer(u, IF Accepted(up[u].file) THEN "insert" ELSE "error")
    /\ UNCHANGED <<status, stored>>

\* One round of the loop: an INSERT that commits by itself, or is refused by
\* the trigger of a locked period (module CashLedger has its two steps).
InsertNext(u) ==
    /\ up[u].pc = "insert"
    /\ up[u].count + 1 \in DOMAIN Parsed(up[u].file)
    /\ IF status = "locked"
       THEN Answer(u, "error") /\ UNCHANGED stored
       ELSE /\ stored' = Append(stored,
                   [upload |-> u, tx |-> Parsed(up[u].file)[up[u].count + 1]])
            /\ up' = [up EXCEPT ![u].count = @ + 1]
    /\ UNCHANGED status

\* A statement fails or the server stops: the rows inserted so far stay.
Break(u) ==
    /\ up[u].pc \in {"read", "insert"}
    /\ Answer(u, "error")
    /\ UNCHANGED <<status, stored>>

Succeed(u) ==
    /\ up[u].pc = "insert"
    /\ up[u].count = Len(Parsed(up[u].file))
    /\ Answer(u, "ok")
    /\ UNCHANGED <<status, stored>>

\* LockPeriod, UnlockPeriod and the lock of open_next_period.
SetStatus ==
    /\ \E s \in {"open", "locked"} \ {status} : status' = s
    /\ UNCHANGED <<stored, up>>

CsvNext ==
    \/ \E u \in Uploads :
        \/ \E f \in Files : Begin(u, f)
        \/ ReadFile(u)
        \/ InsertNext(u)
        \/ Break(u)
        \/ Succeed(u)
    \/ SetStatus

CsvSpec == CsvInit /\ [][CsvNext]_csvVars

-----------------------------------------------------------------------------
\* The rows of upload u, and the place of row i among those of its upload.
StoredBy(u) == {i \in DOMAIN stored : stored[i].upload = u}

Place(i) == Cardinality({j \in StoredBy(stored[i].upload) : j <= i})

\* Whatever breaks in the middle, an upload has stored the first rows of its
\* file in their order, each once; all of them if it is answered with
\* success, none if the file has a bad row.
StoredIsPrefix ==
    \A u \in Uploads : up[u] # NoUpload =>
        LET parsed == Parsed(up[u].file)
        IN  /\ \A i \in StoredBy(u) :
                   Place(i) \in DOMAIN parsed /\ stored[i].tx = parsed[Place(i)]
            /\ up[u].pc = "ok" => Cardinality(StoredBy(u)) = Len(parsed)
            /\ ~Accepted(up[u].file) => StoredBy(u) = {}

Begun == {up[u].file : u \in {v \in Uploads : up[v] # NoUpload}}

\* A title above the header, and the order of two columns that the header
\* names, change nothing of what is read, as far as no column is taken by
\* its place and none is named twice.
Titles == {<<"", "">>, <<"gelen tutar">>, <<"", "detay">>, <<"yon">>}

Swap(k, c, d) == CASE k = c -> d [] k = d -> c [] OTHER -> k

Swapped(f, c, d) == [r \in DOMAIN f |-> [k \in DOMAIN f[r] |-> f[r][Swap(k, c, d)]]]

\* Columns of a kind.
Named(cells, kind) == {c \in DOMAIN cells : cells[c] \in Words[kind]}

NamesAll(cells) ==
    LET at == Columns(cells)
    IN  /\ \/ at.gelen # 0 /\ at.giden # 0
           \/ at.gelen = 0 /\ at.giden = 0 /\ at.dir # 0 /\ at.chan # 0 /\ at.amt # 0
        /\ \A kind \in DOMAIN Words : Cardinality(Named(cells, kind)) <= 1

\* The file from its header on.
FromHeader(f) == SubSeq(f, Layout(f).row, Len(f))

LayoutIrrelevant ==
    \A f \in Begun : HeaderRows(f) # {} =>
        LET header == f[Layout(f).row]
            below  == FromHeader(f)
        IN  /\ \A title \in Titles : Parsed(<<title>> \o below) = Parsed(f)
            /\ NamesAll(header) => \A c, d \in DOMAIN header :
                   (\A r \in DOMAIN below : Len(below[r]) = Len(header)) =>
                       Readings(Swapped(below, c, d)) = Readings(f)

\* In an accepted file with two amount columns, the balance of what is read
\* is the sum of the first column less that of the second, if no row has a
\* positive amount in both and none a negative one.
Signed(reading) ==
    IF reading.is # "tx" THEN 0
    ELSE IF reading.dir = "in" THEN reading.amount ELSE -reading.amount

Amount(cell) == IF IsNumber(cell) THEN Numbers[cell] ELSE 0

\* The amount in a column of the k-th row under the header.
AmountIn(f, kind, k) == Amount(CellAt(f[Layout(f).row + k], Layout(f).at[kind]))

OneSided(f) ==
    \A k \in DOMAIN Readings(f) :
        LET gelen == AmountIn(f, "gelen", k)
            giden == AmountIn(f, "giden", k)
        IN  gelen >= 0 /\ giden >= 0 /\ (gelen = 0 \/ giden = 0)

BalanceRead ==
    \A f \in Begun : Accepted(f) /\ Layout(f).at.gelen # 0 /\ Layout(f).at.giden # 0
                     /\ OneSided(f) =>
        SumFunction([k \in DOMAIN Readings(f) |-> Signed(Readings(f)[k])])
        = SumFunction([k \in DOMAIN Readings(f) |-> AmountIn(f, "gelen", k)])
          - SumFunction([k \in DOMAIN Readings(f) |-> AmountIn(f, "giden", k)])

=============================================================================
