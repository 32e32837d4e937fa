--------------------------- MODULE MCExcelImport ----------------------------
(* Supplier workbooks on small instances: two sheets to choose from, or    *)
(* four columns under three rows of headers with one or two body rows.     *)
EXTENDS ExcelImport

Names == {n \in SheetName : n.label => ~n.month /\ n.year = "full"}

Tops == {<<a, "", b, c>> : a \in {"", "acme", "kadir", "kasa"},
                           b \in {"", "prins", "odeme", "alinan"}, c \in {"", "prins"}}

Subs == {<<a, b, c, d>> : a \in {"", "alinan"}, b, c \in {"", "alinan", "gecilen"},
                         d \in {"", "gecilen"}}
        \cup {<<"fatura", "alinan", "musteri", "gecilen">>,
              <<"musteri", "gecilen", "bakiye", "borcbakiye">>,
              <<"evrak", "odeme", "fatura", "alinan">>,
              <<"fatura", "fatura", "alinan">>,
              <<>>}

Bodies == {
    [cells |-> <<<<"fifty", "fifty", "fifty", "fifty">>>>, heads |-> 2],
    [cells |-> <<<<"x", "minus", "junk", "fifty">>, <<>>, <<"", "fifty">>>>, heads |-> 2],
    [cells |-> <<<<"toplam", "fifty", "x", "grouped">>, <<"0", "-", "toplam", "nil">>>>, heads |-> 2],
    [cells |-> <<<<"fatura12", "fifty", "", "fifty">>, <<"fifty">>>>, heads |-> 2],
    [cells |-> <<<<"alinan", "gecilen", "", "gecilen">>>>, heads |-> 3],
    [cells |-> <<<<"toplam", "x", "fifty">>, <<"x", "toplam", "fifty">>>>, heads |-> 2],
    [cells |-> <<<<"alinan", "gecilen", "gecilen", "alinan">>, <<"", "fifty", "junk", "fifty">>>>,
     heads |-> 3],
    [cells |-> <<>>, heads |-> 2]}

Plain == [cells |-> <<<<"acme", "">>, <<"", "alinan">>, <<"", "fifty">>>>, heads |-> 2]

Contents ==
    {[cells |-> <<t, s>> \o b.cells, heads |-> b.heads] : t \in Tops, s \in Subs, b \in Bodies}
    \cup {[cells |-> <<<<"acme">>>>, heads |-> 1]}

Book(sheets, asked, yearMonth, sharedDigits, content) ==
    [sheets |-> sheets, asked |-> asked, yearMonth |-> yearMonth,
     sharedDigits |-> sharedDigits, cells |-> content.cells, heads |-> content.heads]

\* Any sheet names with one plain content; one name with any content.
MCBooks ==
    {Book(names, asked, yearMonth, sharedDigits, Plain) :
        names \in UNION {[1..n -> Names] : n \in 1..2}, asked \in {0, 1, -1},
        yearMonth, sharedDigits \in BOOLEAN}
    \cup
    {Book(<<[label |-> TRUE, month |-> FALSE, year |-> "full"]>>, 0, TRUE, FALSE, content) :
        content \in Contents}

=============================================================================
