---------------------------- MODULE MCCsvImport -----------------------------
(* CSV uploads on a small instance: two uploads, files of a header in one  *)
(* of several forms and two rows under it.                                 *)
EXTENDS CsvImport, TLC

Symmetry == Permutations(Uploads)

Dual == {<<"detay", "gelen tutar", "giden tutar">>, <<"giden tutar", "kanal", "gelen tutar">>,
         <<"gelen tutar", "gelen tutar", "giden tutar">>}

Single == {<<"yon", "kanal", "tutar">>, <<"tutar", "yon", "kanal">>, <<"", "detay", "tutar">>,
           <<"detay", "giden tutar", "">>, <<"fifty", "eft", "">>, <<"tutar">>}

DualRows == {<<"maas havalesi", "fifty", "">>, <<"", "", "grouped">>, <<"kira", "fifty", "fifty">>,
             <<"fifty", "eft", "nil">>, <<"nil", "nakit maas", "grouped">>,
             <<"", "minus", "fifty">>, <<"kira", "-", "">>, <<"", "">>, <<"", "fifty">>}

SingleRows == {<<"giris", "eft", "fifty">>, <<"cikis", "nakit", "grouped">>, <<"giris", "eft">>,
               <<"fifty", "cikis", "eft">>, <<"giris", "pos", "minus">>, <<"fifty">>,
               <<"", "", "">>, <<"cikis", "havale", "fifty">>}

File(headers, rows) == {<<h, r, s>> : h \in headers, r, s \in rows}

MCFiles ==
    File(Dual, DualRows) \cup File(Single, SingleRows)
    \cup {<<t, h, r>> : t \in {<<"detay">>, <<"">>}, h \in Dual \cup Single,
                        r \in DualRows \cup SingleRows}
    \cup {<<h>> : h \in Dual}

\* Two good rows; a good row and a bad one; a skipped row and a good one.
MCRepeated == {
    <<<<"detay", "gelen tutar", "giden tutar">>, <<"", "", "grouped">>, <<"maas havalesi", "fifty", "">>>>,
    <<<<"yon", "kanal", "tutar">>, <<"giris", "eft", "fifty">>, <<"giris", "pos", "minus">>>>,
    <<<<"yon", "kanal", "tutar">>, <<"giris", "eft">>, <<"cikis", "nakit", "grouped">>>>}

=============================================================================
