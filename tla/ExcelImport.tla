---------------------------- MODULE ExcelImport -----------------------------
(***************************************************************************)
(* Reading a supplier workbook: which sheet is taken for a period, how the *)
(* columns of each supplier are found under free-form headers, and how the *)
(* body rows become transactions.  The loops of the code are steps of a    *)
(* control state.  What happens in the database meanwhile is in module     *)
(* SupplierLedger.                                                         *)
(*                                                                         *)
(* A cell is one of a few words; what the code asks of a text (whether it  *)
(* is a keyword, contains one, or is a number) is a table over them.  The  *)
(* two amount columns, the balance, and the columns that mark a row as a   *)
(* summary decide; dates and descriptions are copied.                      *)
(***************************************************************************)
EXTENDS Integers, Sequences, FiniteSets, SequencesExt

CONSTANTS
    Books,      \* workbooks: see Passes; cells are the rows of the sheet that is chosen,
                \* of which its author means the first heads as headers
    SubColumns  \* columns searched for the headers of one supplier: 12 in the code

VARIABLES
    book,       \* the workbook and what the user asked for
    sheet,      \* the rows of the chosen sheet
    pc,         \* what is next
    col,        \* colIdx of detectSupplierBlocks, counted from 1
    row,        \* rIdx of ImportExcel, counted from 1
    blocks,     \* the column blocks detected so far
    txs,        \* allTransactions: the cell each comes from, supplier, direction and amount
    errors,     \* the cells result.Errors reports
    skipped     \* result.SkippedCount

excelVars == <<book, sheet, pc, col, row, blocks, txs, errors, skipped>>

-----------------------------------------------------------------------------
(* matchSheetForPeriod.                                                    *)

\* A sheet's name may be the period's label, hold the name of its month, and
\* hold a year: the period's in full or as two digits, another one, or none.
SheetName == [label : BOOLEAN, month : BOOLEAN, year : {"none", "full", "short", "other"}]

ASSUME BooksAssumption ==
    /\ SubColumns \in Nat
    /\ \A b \in Books :
          /\ b.sheets \in Seq(SheetName) /\ b.asked \in Int
          /\ b.yearMonth \in BOOLEAN /\ b.sharedDigits \in BOOLEAN
          /\ b.cells \in Seq(Seq(STRING)) /\ b.heads \in Nat

\* strings.Contains(normSheet, shortYear): the last two digits of 2020 are
\* also the first two of any year of the century.
HasYear(b, name) ==
    name.year \in {"full", "short"} \/ (name.year = "other" /\ b.sharedDigits)

\* Mutant of Preferred: the pass that looks for the year as well is missing.
PreferredByMonth(b) == {i \in DOMAIN b.sheets : b.yearMonth /\ b.sheets[i].month}

Preferred(b) == {i \in PreferredByMonth(b) : HasYear(b, b.sheets[i])}

\* Each pass of the function and the sheets it would accept; the first pass
\* that accepts one takes the first of them.  b.asked is the sheet the user
\* names: 0 for none, -1 for one that is not there; b.yearMonth says that the
\* period's label is a year, a dash and a month.
Passes(b) ==
    IF b.asked # 0 THEN <<{b.asked} \cap DOMAIN b.sheets>>
    ELSE IF Len(b.sheets) = 1 THEN <<{1}>>
    ELSE <<{i \in DOMAIN b.sheets : b.sheets[i].label},
           Preferred(b),
           PreferredByMonth(b)>>

\* The chosen sheet, 0 for an error.
Matched(b) ==
    LET accepting == {p \in DOMAIN Passes(b) : Passes(b)[p] # {}}
    IN  IF accepting = {} THEN 0 ELSE Min(Passes(b)[Min(accepting)])

-----------------------------------------------------------------------------
(* What the code asks of a cell.                                           *)

Kinds == {"invoice", "customer", "status", "payment", "purchase", "balance", "none"}

\* The first branch of the header search that a text takes.  Company names
\* take part: KADIR contains AD, and a header BORC BAKIYE contains BORC.
Kind(cell) ==
    CASE cell \in {"fatura", "fatura12"}    -> "invoice"
      [] cell \in {"musteri", "kadir"}      -> "customer"
      [] cell = "evrak"                     -> "status"
      [] cell \in {"gecilen", "odeme"}      -> "payment"
      [] cell \in {"alinan", "borcbakiye"}  -> "purchase"
      [] cell = "bakiye"                    -> "balance"
      [] OTHER                              -> "none"

\* The words of isGeneralKeyword; ODEME, GIRIS and BORC are not among them.
IsGeneralKeyword(cell) ==
    cell \in {"fatura", "musteri", "evrak", "gecilen", "alinan", "bakiye", "toplam"}

\* cleanSupplierName leaves nothing of a title like KASA.
IsTitle(cell) == cell \in {"kasa", "toplam", "bakiye", "borcbakiye"}

\* isHeaderRow looks for FATURA, ALINAN or GECILEN within a cell.
IsHeaderCell(cell) == cell \in {"fatura", "fatura12", "alinan", "gecilen"}

IsSummaryCell(cell) == cell \in {"toplam", "bakiye", "borcbakiye"}

\* ParseTurkishDecimal, in hundredths: 1.250 is read as 1.25.
Numbers == [fifty |-> 5000, minus |-> -5000, nil |-> 0, grouped |-> 125]

IsNumber(cell) == cell \in DOMAIN Numbers

\* The cells that are not even looked at: empty, "-" and "0".
IsBlankAmount(cell) == cell \in {"", "-", "0"}

-----------------------------------------------------------------------------
Cell(r, c) ==
    IF r \in DOMAIN sheet THEN IF c \in DOMAIN sheet[r] THEN sheet[r][c] ELSE "" ELSE ""

MaxCols == Max({Len(sheet[1]), Len(sheet[2])})

\* A cell of the first row that starts a block or ends the one before.
IsCompany(c) == Cell(1, c) # "" /\ ~IsGeneralKeyword(Cell(1, c))

\* The first of three rows with something in the column.
SubHeader(c) ==
    IF Cell(2, c) # "" THEN Cell(2, c)
    ELSE IF Cell(1, c) # "" THEN Cell(1, c) ELSE Cell(3, c)

\* Mutant of Window: the search does not stop at the next company.
OpenWindow(c) == {k \in c..(c + SubColumns - 1) : k <= MaxCols}

\* The columns searched for the company in column c.
Window(c) ==
    {k \in c..(c + SubColumns - 1) :
        k <= MaxCols /\ \A j \in (c + 1)..k : ~IsCompany(j)}

\* A later column of the same kind overwrites an earlier one.
ColumnOf(c, kind) ==
    LET found == {k \in Window(c) : Kind(SubHeader(k)) = kind}
    IN  IF found = {} THEN 0 ELSE Max(found)

Block(c) == [name |-> Cell(1, c), at |-> [kind \in Kinds |-> ColumnOf(c, kind)]]

\* "STRICT RULE": a block needs an amount column.
IsBlock(c) ==
    /\ IsCompany(c)
    /\ ~IsTitle(Cell(1, c))
    /\ ColumnOf(c, "payment") # 0 \/ ColumnOf(c, "purchase") # 0

\* Mutant of Advance: colIdx is set whether or not the column was found.
AdvanceAnyway(c) == ColumnOf(c, "balance")

\* Where colIdx stands after the block of column c.
Advance(c) ==
    Max({c, ColumnOf(c, "purchase"), ColumnOf(c, "payment"), ColumnOf(c, "balance")})

\* startRowIdx.
FirstBodyRow ==
    IF Len(sheet) > 3 /\ \E c \in DOMAIN sheet[3] : IsHeaderCell(sheet[3][c]) THEN 4 ELSE 3

\* isSummaryOrEmptyRow.
IsSummaryOrEmpty(r, b) ==
    \/ \E kind \in {"invoice", "customer", "status"} : IsSummaryCell(Cell(r, b.at[kind]))
    \/ \A kind \in {"payment", "purchase", "invoice", "customer"} : Cell(r, b.at[kind]) = ""

Looked(r, b, kind) ==
    ~IsSummaryOrEmpty(r, b) /\ b.at[kind] # 0 /\ ~IsBlankAmount(Cell(r, b.at[kind]))

Tx(r, b, kind) ==
    [row |-> r, col |-> b.at[kind], supplier |-> b.name, dir |-> kind,
     amount |-> Numbers[Cell(r, b.at[kind])]]

\* parseBlockRow: at most one purchase and one payment, or an error for each.
RowTxs(r, b) ==
    {Tx(r, b, kind) : kind \in {k \in {"purchase", "payment"} :
        /\ Looked(r, b, k) /\ IsNumber(Cell(r, b.at[k]))
        /\ Numbers[Cell(r, b.at[k])] > 0}}

RowErrors(r, b) ==
    {<<r, b.at[kind]>> : kind \in {k \in {"purchase", "payment"} :
        Looked(r, b, k) /\ ~IsNumber(Cell(r, b.at[k]))}}

-----------------------------------------------------------------------------
(* The steps of ImportExcel.                                               *)

ExcelInit ==
    /\ book \in Books
    /\ sheet = <<>>
    /\ pc = "match"
    /\ col = 1 /\ row = 1
    /\ blocks = <<>> /\ txs = {} /\ errors = {} /\ skipped = 0

Fail == pc' = "failed" /\ UNCHANGED <<book, sheet, col, row, blocks, txs, errors, skipped>>

\* The period is locked, the file unreadable, or no sheet matches.
NoSheet == pc = "match" /\ Fail

ReadSheet ==
    /\ pc = "match"
    /\ Matched(book) # 0
    /\ sheet' = book.cells
    /\ pc' = "detect"
    /\ UNCHANGED <<book, col, row, blocks, txs, errors, skipped>>

TooFewRows == pc = "detect" /\ Len(sheet) < 2 /\ Fail

\* One round of the outer loop of detectSupplierBlocks.
DetectBlock ==
    /\ pc = "detect"
    /\ Len(sheet) >= 2
    /\ col <= MaxCols
    /\ IF IsBlock(col)
       THEN blocks' = Append(blocks, Block(col)) /\ col' = Advance(col) + 1
       ELSE blocks' = blocks /\ col' = col + 1
    /\ UNCHANGED <<book, sheet, pc, row, txs, errors, skipped>>

\* FindOrCreateSupplier fails for a block, or there is no block at all.
DetectFails ==
    /\ pc = "detect"
    /\ Len(sheet) >= 2
    /\ IF col <= MaxCols THEN IsBlock(col) ELSE blocks = <<>>
    /\ Fail

StartBody ==
    /\ pc = "detect"
    /\ Len(sheet) >= 2
    /\ col > MaxCols
    /\ blocks # <<>>
    /\ pc' = "parse"
    /\ row' = FirstBodyRow
    /\ UNCHANGED <<book, sheet, col, blocks, txs, errors, skipped>>

PassEmptyRow ==
    /\ pc = "parse"
    /\ row <= Len(sheet)
    /\ sheet[row] = <<>>
    /\ row' = row + 1
    /\ UNCHANGED <<book, sheet, pc, col, blocks, txs, errors, skipped>>

\* One row, over all blocks.
ParseRow ==
    /\ pc = "parse"
    /\ row <= Len(sheet)
    /\ sheet[row] # <<>>
    /\ LET read == Range(blocks)
       IN  /\ txs' = txs \cup UNION {RowTxs(row, b) : b \in read}
           /\ errors' = errors \cup UNION {RowErrors(row, b) : b \in read}
           /\ skipped' = skipped + Cardinality({b \in read :
                  RowTxs(row, b) = {} /\ RowErrors(row, b) = {}})
    /\ row' = row + 1
    /\ UNCHANGED <<book, sheet, pc, col, blocks>>

\* BatchInsertTransactions, all or nothing; it is not called for no rows.
InsertAll ==
    /\ pc = "parse"
    /\ row > Len(sheet)
    /\ pc' = "done"
    /\ UNCHANGED <<book, sheet, col, row, blocks, txs, errors, skipped>>

InsertFails == pc = "parse" /\ row > Len(sheet) /\ txs # {} /\ Fail

ExcelNext ==
    \/ NoSheet \/ ReadSheet \/ TooFewRows
    \/ DetectBlock \/ DetectFails \/ StartBody
    \/ PassEmptyRow \/ ParseRow \/ InsertAll \/ InsertFails

ExcelSpec == ExcelInit /\ [][ExcelNext]_excelVars

-----------------------------------------------------------------------------
\* Of the sheets of the right month the one of the right year is taken,
\* wherever it stands, if the digits of the year are those of no other.
RightYearPreferred ==
    pc = "match" /\ book.asked = 0 /\ book.yearMonth /\ ~book.sharedDigits =>
        LET right == {i \in DOMAIN book.sheets :
                /\ book.sheets[i].month
                /\ book.sheets[i].year \in {"full", "short"}}
        IN  right # {} => \/ Matched(book) \in right
                          \/ book.sheets[Matched(book)].label

\* Whatever the headers look like, no column is an amount column of two
\* suppliers, or of one supplier in two ways, or amount and balance.
BlocksDisjoint ==
    \A i, j \in DOMAIN blocks, k, l \in {"purchase", "payment", "balance"} :
        /\ <<i, k>> # <<j, l>>
        /\ blocks[i].at[k] # 0
        => blocks[i].at[k] # blocks[j].at[l]

\* The company a column belongs to: the nearest to its left, 0 for none.
Owner(c) ==
    LET left == {k \in 1..c : IsCompany(k)} IN IF left = {} THEN 0 ELSE Max(left)

IsAmountColumn(c) == Kind(SubHeader(c)) \in {"purchase", "payment"}

\* A sheet as the importer expects it: every amount column belongs to a
\* supplier near enough, none to the same supplier and of the same kind as
\* another; headers hold no numbers and are in two rows, the third being one
\* only if a word of it is known to isHeaderRow and rows follow; no body row
\* speaks of invoices or amounts in words, and totals are named in a column
\* where the importer looks, which is the last of its kind.
Tidy ==
    /\ book.heads >= 2
    /\ \A r \in 3..book.heads, c \in 1..MaxCols : ~IsNumber(Cell(r, c))
    /\ \A c \in 1..MaxCols : IsAmountColumn(c) =>
           /\ Owner(c) # 0 /\ ~IsTitle(Cell(1, Owner(c)))
           /\ c < Owner(c) + SubColumns
           /\ \A d \in 1..MaxCols :
                  Owner(d) = Owner(c) /\ Kind(SubHeader(d)) = Kind(SubHeader(c)) => c = d
    /\ \A r \in DOMAIN sheet : r > book.heads =>
           /\ \A c \in DOMAIN sheet[r] : ~IsHeaderCell(sheet[r][c])
           /\ \A c \in 1..MaxCols : IsSummaryCell(Cell(r, c)) =>
                  /\ Owner(c) # 0 /\ Kind(SubHeader(c)) \in {"invoice", "customer", "status"}
                  /\ ColumnOf(Owner(c), Kind(SubHeader(c))) = c

\* Owner(c) sums up in row r.
SumsUp(r, c) == \E d \in 1..MaxCols : Owner(d) = Owner(c) /\ IsSummaryCell(Cell(r, d))

\* The cells of the body that hold amounts, as row and column.
Places ==
    {p \in ((book.heads + 1)..Len(sheet)) \X (1..MaxCols) :
        IsAmountColumn(p[2]) /\ ~SumsUp(p[1], p[2])}

PositiveAt(p) == IsNumber(Cell(p[1], p[2])) /\ Numbers[Cell(p[1], p[2])] > 0

\* In a tidy sheet every positive amount becomes a transaction of the right
\* supplier and kind, and every amount that is no number is reported.
EveryAmountRead ==
    pc = "done" /\ Tidy =>
        /\ {<<tx.row, tx.col, tx.supplier, tx.dir>> : tx \in txs}
               = {<<p[1], p[2], Cell(1, Owner(p[2])), Kind(SubHeader(p[2]))>> :
                      p \in {q \in Places : PositiveAt(q)}}
        /\ \A p \in Places :
               \/ IsNumber(Cell(p[1], p[2])) \/ IsBlankAmount(Cell(p[1], p[2]))
               \/ p \in errors

=============================================================================
