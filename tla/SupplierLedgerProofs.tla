------------------------ MODULE SupplierLedgerProofs ------------------------
(***************************************************************************)
(* The theorems about the supplier ledger, for any number of requests,     *)
(* suppliers, periods and amounts, however they interleave: what a         *)
(* reversal undoes, whatever cmd/fix_returns does to its rows, how far a   *)
(* reversed row and a locked period are closed, and how the queries'       *)
(* figures relate.  The second part is about the reader of supplier        *)
(* workbooks, whose rows the ledger's imports insert: for every workbook,  *)
(* sheets and cells of any number, that the right sheet is read, no column *)
(* of it twice, and no amount of a tidy one lost.                          *)
(***************************************************************************)
EXTENDS SupplierLedger, ExcelImport, SumLemmas, TLAPS

-----------------------------------------------------------------------------
(* Type correctness.                                                       *)

LEMMA RequestCases ==
    ASSUME TypeOK, NEW w \in Workers
    PROVE  /\ req[w].pc \in {"check", "insert"} <=> req[w] \in RowReq
           /\ req[w].pc = "register" <=> req[w] \in ImportReq
           /\ req[w].pc = "idle" <=> req[w] = Idle
           /\ req[w].pc \in {"idle", "check", "insert", "register"}
<1>1. req[w] \in {Idle} \cup RowReq \cup ImportReq
  BY DEF TypeOK
<1>2. QED
  BY <1>1 DEF Idle, RowReq, ImportReq

LEMMA Relabels ==
    ASSUME TypeOK, RelabelReturns
    PROVE  /\ rows' \in Seq(Row)
           /\ DOMAIN rows' = DOMAIN rows
           /\ \A k \in DOMAIN rows :
                 \/ rows'[k] = rows[k]
                 \/ /\ rows[k].dir = "payment" /\ rows'[k].dir = "purchase_return"
                    /\ rows'[k].supplier = rows[k].supplier /\ rows'[k].period = rows[k].period
                    /\ rows'[k].amount = rows[k].amount /\ rows'[k].rev = rows[k].rev
<1>1. PICK also \in SUBSET {k \in DOMAIN rows : rows[k].rev = NoReversal} :
        rows' = [k \in DOMAIN rows |->
                    IF /\ rows[k].dir = "payment"
                       /\ k \in also \/ rows[k].rev # NoReversal
                    THEN [rows[k] EXCEPT !.dir = Relabelled] ELSE rows[k]]
  BY DEF RelabelReturns
<1>2. \A k \in DOMAIN rows : rows[k] \in Row
  BY DEF TypeOK
<1>3. ASSUME NEW k \in DOMAIN rows
      PROVE  /\ [rows[k] EXCEPT !.dir = Relabelled] \in Row
             /\ [rows[k] EXCEPT !.dir = Relabelled].dir = "purchase_return"
             /\ [rows[k] EXCEPT !.dir = Relabelled].supplier = rows[k].supplier
             /\ [rows[k] EXCEPT !.dir = Relabelled].period = rows[k].period
             /\ [rows[k] EXCEPT !.dir = Relabelled].amount = rows[k].amount
             /\ [rows[k] EXCEPT !.dir = Relabelled].rev = rows[k].rev
  BY <1>2, <1>3 DEF Row, Direction, Relabelled
<1>4. DOMAIN rows' = DOMAIN rows /\ \A k \in DOMAIN rows : rows'[k] \in Row
  BY <1>1, <1>2, <1>3
<1>5. rows' \in Seq(Row)
  <2>1. DOMAIN rows = 1..Len(rows) /\ Len(rows) \in Nat
    BY DEF TypeOK
  <2>2. rows' \in [1..Len(rows) -> Row]
    BY <1>1, <1>4, <2>1
  <2>3. QED
    BY <2>1, <2>2
<1>6. QED
  BY <1>1, <1>3, <1>4, <1>5

LEMMA ReversalType ==
    ASSUME TypeOK, NEW i \in DOMAIN rows
    PROVE  /\ ReversalOf(i) \in Row
           /\ ReversalOf(i).rev = i /\ ReversalOf(i).dir = ReturnDirection(rows[i].dir)
           /\ ReversalOf(i).supplier = rows[i].supplier
           /\ ReversalOf(i).period = rows[i].period
           /\ ReversalOf(i).amount = rows[i].amount
<1>1. rows[i] \in Row /\ i \in Nat
  BY DEF TypeOK
<1>2. ReturnDirection(rows[i].dir) \in Direction
  BY <1>1 DEF ReturnDirection, Direction
<1>3. QED
  BY <1>1, <1>2 DEF ReversalOf, Row

LEMMA BatchType ==
    ASSUME NEW l \in Labels, NEW batch \in Batches(l)
    PROVE  /\ batch \in Seq(Row)
           /\ \A k \in DOMAIN batch : batch[k].rev = NoReversal /\ batch[k].period = l
<1>1. PICK n \in 0..MaxBatch : batch \in [1..n -> NewRow(Suppliers, l, {"purchase", "payment"})]
  BY DEF Batches
<1>2. NewRow(Suppliers, l, {"purchase", "payment"}) \subseteq Row
  BY DEF NewRow, Row, Direction, NoReversal
<1>3. batch \in [1..n -> Row] /\ n \in Nat
  BY <1>1, <1>2, SupplierBoundsAssumption
<1>4. QED
  BY <1>1, <1>3 DEF NewRow

LEMMA TypeInit == Init => TypeOK
<1> SUFFICES ASSUME Init PROVE TypeOK
  OBVIOUS
<1>1. wide \in BOOLEAN
  BY Zenon DEF Init
<1>2. QED
  BY <1>1 DEF Init, TypeOK

LEMMA TypeStep == TypeOK /\ [Next]_vars => TypeOK'
<1> SUFFICES ASSUME TypeOK, [Next]_vars PROVE TypeOK'
  OBVIOUS
<1> USE DEF TypeOK
<1>1. ASSUME NEW w \in Workers, NEW s \in Suppliers, FindOrCreateSupplier(w, s) PROVE TypeOK'
  BY <1>1 DEF FindOrCreateSupplier
<1>2. ASSUME NEW w \in Workers, NEW l \in Labels,
             NEW entry \in NewRow(Suppliers \cup Foreign, l, Direction), BeginCreate(w, entry)
      PROVE  TypeOK'
  <2>1. [pc |-> "insert", row |-> entry] \in RowReq
    BY DEF RowReq, NewRow, Row, NoReversal
  <2>2. QED
    BY <1>2, <2>1 DEF BeginCreate
<1>3. ASSUME NEW w \in Workers, NEW i \in DOMAIN rows, BeginReverse(w, i) PROVE TypeOK'
  BY <1>3, ReversalType DEF BeginReverse, RowReq
<1>4. ASSUME NEW w \in Workers, CheckReversed(w) PROVE TypeOK'
  <2>1. req[w] \in RowReq
    BY <1>4, RequestCases DEF CheckReversed
  <2>2. [req[w] EXCEPT !.pc = "insert"] \in RowReq
    BY <2>1 DEF RowReq
  <2>3. QED
    BY <1>4, <2>2 DEF CheckReversed, Finish
<1>5. ASSUME NEW w \in Workers, InsertRow(w) PROVE TypeOK'
  <2>1. req[w].row \in Row
    BY <1>5, RequestCases DEF InsertRow, RowReq
  <2>2. QED
    BY <1>5, <2>1 DEF InsertRow, Finish
<1>6. ASSUME NEW w \in Workers, NEW l \in Labels, NEW names \in SUBSET Suppliers,
             NEW batch \in Batches(l), BeginImport(w, l, names, batch)
      PROVE  TypeOK'
  BY <1>6, BatchType DEF BeginImport, ImportReq
<1>7. ASSUME NEW w \in Workers, RegisterSupplier(w) PROVE TypeOK'
  <2>1. req[w] \in ImportReq
    BY <1>7, RequestCases DEF RegisterSupplier
  <2>2. PICK s \in req[w].todo :
            /\ known' = known \cup {s}
            /\ req' = [req EXCEPT ![w] = [req[w] EXCEPT !.todo = req[w].todo \ {s}]]
    BY <1>7 DEF RegisterSupplier
  <2>3. s \in Suppliers /\ [req[w] EXCEPT !.todo = req[w].todo \ {s}] \in ImportReq
    BY <2>1 DEF ImportReq
  <2>4. QED
    BY <1>7, <2>2, <2>3 DEF RegisterSupplier
<1>8. ASSUME NEW w \in Workers, InsertBatch(w) PROVE TypeOK'
  <2>1. req[w].batch \in Seq(Row)
    BY <1>8, RequestCases DEF InsertBatch, ImportReq
  <2>2. QED
    BY <1>8, <2>1 DEF InsertBatch, Finish
<1>9. ASSUME NEW w \in Workers, Abort(w) PROVE TypeOK'
  BY <1>9 DEF Abort, Finish
<1>10. ASSUME NEW l \in Labels, SetStatus(l) PROVE TypeOK'
  BY <1>10 DEF SetStatus
<1>11. ASSUME WidenColumn PROVE TypeOK'
  <2>1. wide' \in BOOLEAN
    BY Zenon, <1>11 DEF WidenColumn
  <2>2. QED
    BY <1>11, <2>1 DEF WidenColumn
<1>12. ASSUME RelabelReturns PROVE TypeOK'
  BY <1>12, Relabels DEF RelabelReturns
<1>13. CASE UNCHANGED vars
  BY <1>13 DEF vars
<1>14. QED
  BY <1>1, <1>2, <1>3, <1>4, <1>5, <1>6, <1>7, <1>8, <1>9, <1>10, <1>11, <1>12, <1>13
     DEF Next, RowStep, ImportStep, FixReturns

\* The rows, the periods and what every request is doing stay within their
\* types.
THEOREM TypeCorrect == Spec => []TypeOK
BY TypeInit, TypeStep, PTL DEF Spec

-----------------------------------------------------------------------------
(* The rows.                                                               *)

\* What no step changes of a row: whose it is, what it reverses and what it
\* does to the debt.
SameRow(r, q) ==
    /\ q.supplier = r.supplier /\ q.period = r.period
    /\ q.rev = r.rev /\ Effect(q) = Effect(r)

RowsKept == \A k \in DOMAIN rows : k \in DOMAIN rows' /\ SameRow(rows[k], rows'[k])

\* A row is added by a request, which carries it.
Added(k) ==
    \E w \in Workers :
        \/ InsertRow(w) /\ k = Len(rows) + 1 /\ rows'[k] = req[w].row
        \/ /\ InsertBatch(w)
           /\ k - Len(rows) \in DOMAIN req[w].batch
           /\ rows'[k] = req[w].batch[k - Len(rows)]

LEMMA RowsStep ==
    ASSUME TypeOK, [Next]_vars
    PROVE  /\ RowsKept
           /\ \A k \in DOMAIN rows' : k \in DOMAIN rows \/ Added(k)
<1>1. CASE rows' = rows
  BY <1>1 DEF RowsKept, SameRow
<1>2. ASSUME NEW w \in Workers, InsertRow(w), rows' # rows
      PROVE  /\ RowsKept
             /\ \A k \in DOMAIN rows' : k \in DOMAIN rows \/ Added(k)
  <2>1. rows' = Append(rows, req[w].row) /\ req[w].row \in Row /\ rows \in Seq(Row)
    BY <1>2, RequestCases DEF InsertRow, RowReq, TypeOK
  <2>2. /\ DOMAIN rows' = DOMAIN rows \cup {Len(rows) + 1}
        /\ \A k \in DOMAIN rows : rows'[k] = rows[k]
        /\ rows'[Len(rows) + 1] = req[w].row
    BY <2>1
  <2>3. RowsKept
    BY <2>2 DEF RowsKept, SameRow
  <2>4. QED
    BY <1>2, <2>2, <2>3 DEF Added
<1>3. ASSUME NEW w \in Workers, InsertBatch(w)
      PROVE  /\ RowsKept
             /\ \A k \in DOMAIN rows' : k \in DOMAIN rows \/ Added(k)
  <2> DEFINE batch == req[w].batch
  <2>1. rows' = rows \o batch /\ batch \in Seq(Row) /\ rows \in Seq(Row)
    BY <1>3, RequestCases DEF InsertBatch, ImportReq, TypeOK
  <2> HIDE DEF batch
  <2>2. /\ \A k \in DOMAIN rows : k \in DOMAIN rows' /\ rows'[k] = rows[k]
        /\ \A k \in DOMAIN rows' \ DOMAIN rows :
              k - Len(rows) \in DOMAIN batch /\ rows'[k] = batch[k - Len(rows)]
    <3>1. Len(rows) \in Nat /\ Len(batch) \in Nat /\ Len(rows') = Len(rows) + Len(batch)
      BY <2>1
    <3>2. /\ DOMAIN rows = 1..Len(rows) /\ DOMAIN batch = 1..Len(batch)
          /\ DOMAIN rows' = 1..Len(rows) + Len(batch)
      BY <2>1, <3>1
    <3>3. \A k \in 1..Len(rows) + Len(batch) :
             rows'[k] = IF k <= Len(rows) THEN rows[k] ELSE batch[k - Len(rows)]
      BY <2>1
    <3>4. QED
      BY <3>1, <3>2, <3>3
  <2>3. RowsKept
    BY <2>2 DEF RowsKept, SameRow
  <2>4. QED
    BY <1>3, <2>2, <2>3 DEF Added, batch
<1>4. ASSUME RelabelReturns
      PROVE  RowsKept /\ DOMAIN rows' = DOMAIN rows
  <2>1. ASSUME NEW k \in DOMAIN rows PROVE SameRow(rows[k], rows'[k])
    BY <1>4, Relabels DEF SameRow, Effect
  <2>2. QED
    BY <1>4, <2>1, Relabels DEF RowsKept
<1>5. QED
  <2>1. \/ rows' = rows \/ RelabelReturns
        \/ \E w \in Workers : InsertRow(w) \/ InsertBatch(w)
    BY DEF Next, vars, RowStep, ImportStep, FixReturns, FindOrCreateSupplier, BeginCreate,
           BeginReverse, CheckReversed, BeginImport, RegisterSupplier, Abort, SetStatus,
           WidenColumn
  <2>2. QED
    BY <1>1, <1>2, <1>3, <1>4, <2>1

\* A request builds what it carries when it begins, and keeps it.
Moves(w) ==
    \/ req'[w] = req[w]
    \/ req'[w] = Idle
    \/ \E l \in Labels :
           \E entry \in NewRow(Suppliers \cup Foreign, l, Direction) : BeginCreate(w, entry)
    \/ \E i \in DOMAIN rows : BeginReverse(w, i)
    \/ /\ req[w].pc = "check" /\ ~AlreadyReversed(req[w].row.rev)
       /\ req'[w] = [req[w] EXCEPT !.pc = "insert"] /\ rows' = rows
    \/ \E l \in Labels, names \in SUBSET Suppliers :
           \E batch \in Batches(l) : BeginImport(w, l, names, batch)
    \/ /\ req[w].pc = "register"
       /\ \E todo : /\ req'[w] = [req[w] EXCEPT !.todo = todo]
                     /\ req[w].todo \subseteq todo \cup known' /\ rows' = rows

LEMMA RequestStep ==
    ASSUME TypeOK, [Next]_vars, NEW w \in Workers
    PROVE  Moves(w)
<1>1. req \in [Workers -> {Idle} \cup RowReq \cup ImportReq]
  BY DEF TypeOK
<1>2. ASSUME NEW v \in Workers, NEW s \in Suppliers, FindOrCreateSupplier(v, s)
      PROVE  Moves(w)
  BY <1>2 DEF FindOrCreateSupplier, Moves
<1>3. ASSUME NEW v \in Workers, NEW l \in Labels,
             NEW entry \in NewRow(Suppliers \cup Foreign, l, Direction), BeginCreate(v, entry)
      PROVE  Moves(w)
  <2>1. v = w \/ req'[w] = req[w]
    BY <1>1, <1>3 DEF BeginCreate
  <2>2. QED
    BY <1>3, <2>1 DEF Moves
<1>4. ASSUME NEW v \in Workers, NEW i \in DOMAIN rows, BeginReverse(v, i)
      PROVE  Moves(w)
  <2>1. v = w \/ req'[w] = req[w]
    BY <1>1, <1>4 DEF BeginReverse
  <2>2. QED
    BY <1>4, <2>1 DEF Moves
<1>5. ASSUME NEW v \in Workers, CheckReversed(v) PROVE Moves(w)
  BY <1>1, <1>5 DEF CheckReversed, Finish, Moves
<1>6. ASSUME NEW v \in Workers, InsertRow(v) \/ InsertBatch(v) \/ Abort(v) PROVE Moves(w)
  BY <1>1, <1>6 DEF InsertRow, InsertBatch, Abort, Finish, Moves
<1>7. ASSUME NEW v \in Workers, NEW l \in Labels, NEW names \in SUBSET Suppliers,
             NEW batch \in Batches(l), BeginImport(v, l, names, batch)
      PROVE  Moves(w)
  <2>1. v = w \/ req'[w] = req[w]
    BY <1>1, <1>7 DEF BeginImport
  <2>2. QED
    BY <1>7, <2>1 DEF Moves
<1>8. ASSUME NEW v \in Workers, RegisterSupplier(v) PROVE Moves(w)
  <2>1. PICK s \in req[v].todo :
            /\ req' = [req EXCEPT ![v] = [req[v] EXCEPT !.todo = req[v].todo \ {s}]]
            /\ s \in known' /\ rows' = rows
    BY <1>8 DEF RegisterSupplier
  <2>2. CASE v = w
    <3>1. req'[w] = [req[w] EXCEPT !.todo = req[w].todo \ {s}] /\ req[w].pc = "register"
      BY <1>1, <1>8, <2>1, <2>2 DEF RegisterSupplier
    <3>2. req[w].todo \subseteq (req[w].todo \ {s}) \cup known'
      BY <2>1, <2>2
    <3>3. QED
      BY <2>1, <3>1, <3>2 DEF Moves
  <2>3. CASE v # w
    BY <1>1, <2>1, <2>3 DEF Moves
  <2>4. QED
    BY <2>2, <2>3
<1>9. ASSUME FixReturns \/ UNCHANGED vars \/ \E l \in Labels : SetStatus(l) PROVE Moves(w)
  BY <1>9 DEF FixReturns, WidenColumn, RelabelReturns, vars, SetStatus, Moves
<1>10. QED
  BY <1>2, <1>3, <1>4, <1>5, <1>6, <1>7, <1>8, <1>9 DEF Next, RowStep, ImportStep

-----------------------------------------------------------------------------
(* A reversal undoes its original.                                         *)

\* The requests on their way to insert a reversal.
Reversing(w) == req[w].pc \in {"check", "insert"} /\ req[w].row.rev # NoReversal

\* The reversal a request carries undoes the row it names; once that row has
\* been checked, it is no reversal.
CarriedCancels(w) ==
    Reversing(w) =>
        LET i == req[w].row.rev
        IN  /\ i \in DOMAIN rows
            /\ rows[i].supplier = req[w].row.supplier /\ rows[i].period = req[w].row.period
            /\ Effect(req[w].row) = -Effect(rows[i])
            /\ req[w].pc = "insert" => rows[i].rev = NoReversal

BatchPlain(w) ==
    req[w].pc = "register" => \A k \in DOMAIN req[w].batch : req[w].batch[k].rev = NoReversal

CancelInv ==
    /\ TypeOK /\ ReversalCancels
    /\ \A w \in Workers : CarriedCancels(w) /\ BatchPlain(w)

LEMMA EffectType == ASSUME NEW r \in Row PROVE Effect(r) \in Int /\ r.amount \in Int
<1>1. r.amount \in Amounts
  BY DEF Row
<1>2. r.amount \in Int
  BY <1>1, SupplierAmountsAssumption
<1>3. QED
  BY <1>2 DEF Effect

LEMMA CarriedStep ==
    ASSUME CancelInv, [Next]_vars, NEW w \in Workers
    PROVE  CarriedCancels(w)'
<1>1. TypeOK /\ RowsKept /\ Moves(w)
  BY RowsStep, RequestStep DEF CancelInv
<1>2. CASE req'[w] = req[w]
  BY <1>1, <1>2 DEF CancelInv, CarriedCancels, Reversing, RowsKept, SameRow
<1>3. CASE req'[w] = Idle
  BY <1>3 DEF CarriedCancels, Reversing, Idle
<1>4. ASSUME NEW l \in Labels, NEW entry \in NewRow(Suppliers \cup Foreign, l, Direction),
             BeginCreate(w, entry)
      PROVE  CarriedCancels(w)'
  <2>1. req'[w].row = entry
    BY <1>1, <1>4 DEF BeginCreate, TypeOK
  <2>2. QED
    BY <2>1 DEF CarriedCancels, Reversing, NewRow
<1>5. ASSUME NEW i \in DOMAIN rows, BeginReverse(w, i)
      PROVE  CarriedCancels(w)'
  <2>1. req'[w].pc = "check" /\ req'[w].row = ReversalOf(i) /\ rows' = rows
    BY <1>1, <1>5 DEF BeginReverse, TypeOK
  <2>2. rows[i] \in Row
    BY <1>1 DEF TypeOK
  <2>3. Effect(ReversalOf(i)) = -Effect(rows[i])
    BY <1>1, <2>2, ReversalType, EffectType DEF Effect, ReturnDirection, Row, Direction
  <2>4. QED
    BY <1>1, <2>1, <2>3, ReversalType DEF CarriedCancels, Reversing
<1>6. ASSUME req[w].pc = "check", ~AlreadyReversed(req[w].row.rev),
             req'[w] = [req[w] EXCEPT !.pc = "insert"], rows' = rows
      PROVE  CarriedCancels(w)'
  <2>1. req'[w].row = req[w].row
    BY <1>1, <1>6, RequestCases DEF RowReq
  <2>2. QED
    BY <1>6, <2>1 DEF CancelInv, CarriedCancels, Reversing, AlreadyReversed
<1>7. ASSUME NEW l \in Labels, NEW names \in SUBSET Suppliers, NEW batch \in Batches(l),
             BeginImport(w, l, names, batch)
      PROVE  CarriedCancels(w)'
  <2>1. req'[w].pc = "register"
    BY <1>1, <1>7 DEF BeginImport, TypeOK
  <2>2. QED
    BY <2>1 DEF CarriedCancels, Reversing
<1>8. ASSUME req[w].pc = "register", NEW todo, req'[w] = [req[w] EXCEPT !.todo = todo]
      PROVE  CarriedCancels(w)'
  <2>1. req'[w].pc = "register"
    BY <1>1, <1>8, RequestCases DEF ImportReq
  <2>2. QED
    BY <2>1 DEF CarriedCancels, Reversing
<1>9. QED
  BY <1>1, <1>2, <1>3, <1>4, <1>5, <1>6, <1>7, <1>8 DEF Moves

LEMMA BatchStep ==
    ASSUME CancelInv, [Next]_vars, NEW w \in Workers
    PROVE  BatchPlain(w)'
<1>1. TypeOK /\ Moves(w)
  BY RequestStep DEF CancelInv
<1>2. CASE req'[w] = req[w] \/ req'[w] = Idle
  BY <1>2 DEF CancelInv, BatchPlain, Idle
<1>3. ASSUME NEW l \in Labels, NEW entry \in NewRow(Suppliers \cup Foreign, l, Direction),
             BeginCreate(w, entry)
      PROVE  BatchPlain(w)'
  BY <1>1, <1>3 DEF BeginCreate, TypeOK, BatchPlain
<1>4. ASSUME NEW i \in DOMAIN rows, BeginReverse(w, i)
      PROVE  BatchPlain(w)'
  BY <1>1, <1>4 DEF BeginReverse, TypeOK, BatchPlain
<1>5. ASSUME req[w].pc = "check", req'[w] = [req[w] EXCEPT !.pc = "insert"]
      PROVE  BatchPlain(w)'
  BY <1>1, <1>5, RequestCases DEF RowReq, BatchPlain
<1>6. ASSUME NEW l \in Labels, NEW names \in SUBSET Suppliers, NEW batch \in Batches(l),
             BeginImport(w, l, names, batch)
      PROVE  BatchPlain(w)'
  <2>1. req'[w].batch = batch
    BY <1>1, <1>6 DEF BeginImport, TypeOK
  <2>2. QED
    BY <2>1, BatchType DEF BatchPlain
<1>7. ASSUME req[w].pc = "register", NEW todo, req'[w] = [req[w] EXCEPT !.todo = todo]
      PROVE  BatchPlain(w)'
  <2>1. req'[w].batch = req[w].batch
    BY <1>1, <1>7, RequestCases DEF ImportReq
  <2>2. QED
    BY <1>7, <2>1 DEF CancelInv, BatchPlain
<1>8. QED
  BY <1>1, <1>2, <1>3, <1>4, <1>5, <1>6, <1>7 DEF Moves

LEMMA CancelsStep ==
    ASSUME CancelInv, [Next]_vars
    PROVE  ReversalCancels'
<1>1. /\ TypeOK /\ RowsKept
      /\ \A k \in DOMAIN rows' : k \in DOMAIN rows \/ Added(k)
      /\ DOMAIN rows = 1..Len(rows) /\ Len(rows) \in Nat
      /\ \A k \in DOMAIN rows : rows[k] \in Row
  BY RowsStep DEF CancelInv, TypeOK
<1> SUFFICES ASSUME NEW k \in DOMAIN rows', rows'[k].rev # NoReversal
             PROVE  LET orig == rows'[rows'[k].rev]
                    IN  /\ rows'[k].rev < k
                        /\ orig.rev = NoReversal
                        /\ orig.supplier = rows'[k].supplier /\ orig.period = rows'[k].period
                        /\ Effect(rows'[k]) = -Effect(orig)
  BY DEF ReversalCancels, Effect
<1>2. CASE k \in DOMAIN rows
  <2> DEFINE i == rows[k].rev
  <2>1. SameRow(rows[k], rows'[k]) /\ i # NoReversal
    BY <1>1, <1>2 DEF RowsKept, SameRow
  <2>2. /\ i < k /\ rows[i].rev = NoReversal
        /\ rows[i].supplier = rows[k].supplier /\ rows[i].period = rows[k].period
        /\ Effect(rows[k]) = -Effect(rows[i])
    BY <1>2, <2>1 DEF CancelInv, ReversalCancels
  <2>3. i \in DOMAIN rows
    <3>1. i \in Nat
      BY <1>1, <1>2 DEF Row
    <3>2. QED
      BY <1>1, <1>2, <2>1, <2>2, <3>1 DEF NoReversal
  <2>4. SameRow(rows[i], rows'[i])
    BY <1>1, <2>3 DEF RowsKept
  <2>5. QED
    BY <2>1, <2>2, <2>4 DEF SameRow
<1>3. CASE k \notin DOMAIN rows
  <2>1. PICK w \in Workers :
          \/ InsertRow(w) /\ k = Len(rows) + 1 /\ rows'[k] = req[w].row
          \/ /\ InsertBatch(w)
             /\ k - Len(rows) \in DOMAIN req[w].batch
             /\ rows'[k] = req[w].batch[k - Len(rows)]
    BY <1>1, <1>3 DEF Added
  <2>2. CASE InsertBatch(w) /\ k - Len(rows) \in DOMAIN req[w].batch
                            /\ rows'[k] = req[w].batch[k - Len(rows)]
    BY <2>2 DEF CancelInv, BatchPlain, InsertBatch
  <2>3. CASE InsertRow(w) /\ k = Len(rows) + 1 /\ rows'[k] = req[w].row
    <3> DEFINE i == req[w].row.rev
    <3>1. /\ i \in DOMAIN rows /\ rows[i].rev = NoReversal
          /\ rows[i].supplier = rows'[k].supplier /\ rows[i].period = rows'[k].period
          /\ Effect(rows'[k]) = -Effect(rows[i])
      BY <2>3 DEF CancelInv, CarriedCancels, Reversing, InsertRow
    <3>2. SameRow(rows[i], rows'[i]) /\ i < k
      BY <1>1, <2>3, <3>1 DEF RowsKept
    <3>3. QED
      BY <2>3, <3>1, <3>2 DEF SameRow
  <2>4. QED
    BY <2>1, <2>2, <2>3
<1>4. QED
  BY <1>2, <1>3

LEMMA CancelInit == Init => CancelInv
<1> SUFFICES ASSUME Init PROVE CancelInv
  OBVIOUS
<1>1. rows = <<>> /\ \A w \in Workers : req[w].pc = "idle"
  BY DEF Init, Idle
<1>2. QED
  BY <1>1, TypeInit DEF CancelInv, ReversalCancels, CarriedCancels, Reversing, BatchPlain

LEMMA CancelNext == CancelInv /\ [Next]_vars => CancelInv'
<1> SUFFICES ASSUME CancelInv, [Next]_vars PROVE CancelInv'
  OBVIOUS
<1>1. TypeOK'
  BY TypeStep DEF CancelInv
<1>2. QED
  BY <1>1, CarriedStep, BatchStep, CancelsStep DEF CancelInv

\* A reversal undoes the effect of the row it names, although requests read
\* that row, its period and its reversals in separate statements, and although
\* cmd/fix_returns changes directions in between.
THEOREM ReversalsAlwaysCancel == Spec => []ReversalCancels
<1>1. CancelInv => ReversalCancels
  BY DEF CancelInv
<1>2. QED
  BY <1>1, CancelInit, CancelNext, PTL DEF Spec

-----------------------------------------------------------------------------
(* Once a row is reversed only requests past their check reverse it again. *)

\* A row is only added as a reversal by a request that reversed its original.
LEMMA AddedReversal ==
    ASSUME CancelInv, [Next]_vars, NEW k \in DOMAIN rows' \ DOMAIN rows,
           rows'[k].rev # NoReversal
    PROVE  \E v \in Workers :
              /\ InsertRow(v) /\ Reversing(v) /\ k = Len(rows) + 1
              /\ rows'[k].rev = req[v].row.rev
<1>1. PICK v \in Workers :
        \/ InsertRow(v) /\ k = Len(rows) + 1 /\ rows'[k] = req[v].row
        \/ /\ InsertBatch(v)
           /\ k - Len(rows) \in DOMAIN req[v].batch
           /\ rows'[k] = req[v].batch[k - Len(rows)]
  BY RowsStep DEF CancelInv, Added
<1>2. CASE InsertBatch(v) /\ k - Len(rows) \in DOMAIN req[v].batch
                          /\ rows'[k] = req[v].batch[k - Len(rows)]
  BY <1>2 DEF CancelInv, BatchPlain, InsertBatch
<1>3. CASE InsertRow(v) /\ k = Len(rows) + 1 /\ rows'[k] = req[v].row
  BY <1>3 DEF InsertRow, Reversing
<1>4. QED
  BY <1>1, <1>2, <1>3

\* No request passes its check once the row it is about has been reversed.
LEMMA CancellingStep ==
    ASSUME CancelInv, [Next]_vars, NEW i \in DOMAIN rows, Reversals(i) # {}
    PROVE  Cancelling(i)' \subseteq Cancelling(i)
<1>1. TypeOK /\ i # NoReversal
  BY DEF CancelInv, TypeOK, NoReversal
<1> SUFFICES ASSUME NEW w \in Workers, req'[w].pc = "insert", req'[w].row.rev = i
             PROVE  req[w].pc = "insert" /\ req[w].row.rev = i
  BY DEF Cancelling
<1>2. ASSUME NEW l \in Labels,
             NEW entry \in NewRow(Suppliers \cup Foreign, l, Direction), BeginCreate(w, entry)
      PROVE  FALSE
  <2>1. req'[w].row = entry
    BY <1>1, <1>2 DEF BeginCreate, TypeOK
  <2>2. QED
    BY <1>1, <2>1 DEF NewRow
<1>3. ASSUME NEW h \in DOMAIN rows, BeginReverse(w, h) PROVE FALSE
  BY <1>1, <1>3 DEF BeginReverse, TypeOK
<1>4. ASSUME req[w].pc = "check", ~AlreadyReversed(req[w].row.rev),
             req'[w] = [req[w] EXCEPT !.pc = "insert"]
      PROVE  FALSE
  <2>1. req'[w].row = req[w].row
    BY <1>1, <1>4, RequestCases DEF RowReq
  <2>2. QED
    BY <1>4, <2>1 DEF AlreadyReversed
<1>5. ASSUME NEW l \in Labels, NEW names \in SUBSET Suppliers, NEW batch \in Batches(l),
             BeginImport(w, l, names, batch)
      PROVE  FALSE
  BY <1>1, <1>5 DEF BeginImport, TypeOK
<1>6. ASSUME req[w].pc = "register", NEW todo, req'[w] = [req[w] EXCEPT !.todo = todo]
      PROVE  FALSE
  BY <1>1, <1>6, RequestCases DEF ImportReq
<1>7. req'[w] # Idle
  BY DEF Idle
<1>8. Moves(w)
  BY <1>1, RequestStep
<1>9. QED
  BY <1>2, <1>3, <1>4, <1>5, <1>6, <1>7, <1>8 DEF Moves

LEMMA ReversedClosedStep ==
    ASSUME CancelInv, [Next]_vars, NEW i \in DOMAIN rows, Reversals(i) # {}
    PROVE  Cardinality(Reversals(i))' + Cardinality(Cancelling(i))'
               <= Cardinality(Reversals(i)) + Cardinality(Cancelling(i))
<1>1. /\ TypeOK /\ RowsKept /\ rows \in Seq(Row) /\ i # NoReversal
      /\ \A k \in DOMAIN rows' : k \in DOMAIN rows \/ Added(k)
  BY RowsStep DEF CancelInv, TypeOK, NoReversal
<1>2. PICK C, D, S, T : /\ C = Cancelling(i) /\ D = Cancelling(i)'
                        /\ S = Reversals(i) /\ T = Reversals(i)'
  OBVIOUS
<1>3. D \subseteq C
  BY <1>2, CancellingStep
<1>4. IsFiniteSet(C) /\ Cardinality(C) \in Nat
  <2>1. C \subseteq Workers
    BY <1>2 DEF Cancelling
  <2>2. IsFiniteSet(C)
    BY <2>1, SupplierWorkersAssumption, FS_Subset
  <2>3. QED
    BY <2>2, FS_CardinalityType
<1>5. S \in SUBSET DOMAIN rows
  BY <1>2 DEF Reversals
<1>6. Cardinality(S) \in Nat
  BY <1>1, <1>5, RowSetsGrow
<1>7. IsFiniteSet(D) /\ Cardinality(D) \in Nat
  BY <1>3, <1>4, FS_Subset, FS_CardinalityType
<1>8. \A k : k \in T <=> k \in DOMAIN rows' /\ rows'[k].rev = i
  BY <1>2 DEF Reversals
<1>9. \A k \in DOMAIN rows : k \in T <=> k \in S
  BY <1>1, <1>2, <1>8 DEF Reversals, RowsKept, SameRow
<1>10. CASE T \subseteq DOMAIN rows
  <2>1. T = S
    BY <1>5, <1>9, <1>10
  <2>2. QED
    BY <1>2, <1>3, <1>4, <1>6, <1>7, <2>1, FewerLeft
<1>11. ASSUME NEW k \in T, k \notin DOMAIN rows
       PROVE  Cardinality(T) + Cardinality(D) <= Cardinality(S) + Cardinality(C)
  <2>1. \A h \in T \ DOMAIN rows : h = Len(rows) + 1
    BY <1>1, <1>8, AddedReversal
  <2>2. PICK v \in Workers : InsertRow(v) /\ Reversing(v) /\ rows'[k].rev = req[v].row.rev
    BY <1>1, <1>8, <1>11, AddedReversal
  <2>3. T = S \cup {Len(rows) + 1}
    BY <1>5, <1>9, <1>11, <2>1
  <2>4. Cardinality(T) = Cardinality(S) + 1
    BY <1>1, <1>5, <2>3, RowSetsGrow
  <2>5. v \in C
    BY <1>2, <1>8, <2>2 DEF Cancelling, InsertRow
  <2>6. v \notin D
    <3>1. req'[v] = Idle
      BY <1>1, <2>2 DEF InsertRow, Finish, TypeOK
    <3>2. QED
      BY <1>2, <3>1 DEF Cancelling, Idle
  <2>7. Cardinality(D) <= Cardinality(C) - 1
    BY <1>3, <1>4, <2>5, <2>6, FewerLeft
  <2>8. QED
    BY <1>4, <1>6, <1>7, <2>4, <2>7
<1>12. QED
  BY <1>2, <1>10, <1>11

\* A reversed row is closed to reversals but those past their check: nothing
\* in the database stops these, and nothing lets others join them.
THEOREM ReversedAlwaysClosed == Spec => ReversedRowsClosed
<1>1. CancelInv /\ [Next]_vars =>
        [\A i \in DOMAIN rows : Reversals(i) # {} =>
            Cardinality(Reversals(i))' + Cardinality(Cancelling(i))'
                <= Cardinality(Reversals(i)) + Cardinality(Cancelling(i))]_vars
  BY ReversedClosedStep
<1>2. QED
  BY <1>1, CancelInit, CancelNext, PTL DEF Spec, ReversedRowsClosed

-----------------------------------------------------------------------------
(* A locked period only drains.                                            *)

\* All the rows of a batch are of the period it is imported into.
BatchInPeriod(w) ==
    req[w].pc = "register" =>
        \A k \in DOMAIN req[w].batch : req[w].batch[k].period = req[w].period

DrainInv == TypeOK /\ \A w \in Workers : BatchInPeriod(w)

LEMMA BatchInPeriodStep ==
    ASSUME DrainInv, [Next]_vars, NEW w \in Workers
    PROVE  BatchInPeriod(w)'
<1>1. TypeOK /\ Moves(w)
  BY RequestStep DEF DrainInv
<1>2. CASE req'[w] = req[w] \/ req'[w] = Idle
  BY <1>2 DEF DrainInv, BatchInPeriod, Idle
<1>3. ASSUME NEW l \in Labels,
             NEW entry \in NewRow(Suppliers \cup Foreign, l, Direction), BeginCreate(w, entry)
      PROVE  BatchInPeriod(w)'
  BY <1>1, <1>3 DEF BeginCreate, TypeOK, BatchInPeriod
<1>4. ASSUME NEW i \in DOMAIN rows, BeginReverse(w, i)
      PROVE  BatchInPeriod(w)'
  BY <1>1, <1>4 DEF BeginReverse, TypeOK, BatchInPeriod
<1>5. ASSUME req[w].pc = "check", req'[w] = [req[w] EXCEPT !.pc = "insert"]
      PROVE  BatchInPeriod(w)'
  BY <1>1, <1>5, RequestCases DEF RowReq, BatchInPeriod
<1>6. ASSUME NEW l \in Labels, NEW names \in SUBSET Suppliers, NEW batch \in Batches(l),
             BeginImport(w, l, names, batch)
      PROVE  BatchInPeriod(w)'
  <2>1. req'[w].batch = batch /\ req'[w].period = l
    BY <1>1, <1>6 DEF BeginImport, TypeOK
  <2>2. QED
    BY <2>1, BatchType DEF BatchInPeriod
<1>7. ASSUME req[w].pc = "register", NEW todo, req'[w] = [req[w] EXCEPT !.todo = todo]
      PROVE  BatchInPeriod(w)'
  <2>1. req'[w].batch = req[w].batch /\ req'[w].period = req[w].period
    BY <1>1, <1>7, RequestCases DEF ImportReq
  <2>2. QED
    BY <1>7, <2>1 DEF DrainInv, BatchInPeriod
<1>8. QED
  BY <1>1, <1>2, <1>3, <1>4, <1>5, <1>6, <1>7 DEF Moves

LEMMA DrainInit == Init => DrainInv
<1> SUFFICES ASSUME Init PROVE DrainInv
  OBVIOUS
<1>1. \A w \in Workers : req[w].pc = "idle"
  BY DEF Init, Idle
<1>2. QED
  BY <1>1, TypeInit DEF DrainInv, BatchInPeriod

LEMMA DrainNext == DrainInv /\ [Next]_vars => DrainInv'
  BY TypeStep, BatchInPeriodStep DEF DrainInv

\* Pending for any state of a request.
Owes(q, l) ==
    IF q.pc = "register" /\ q.period = l THEN Len(q.batch)
    ELSE IF q.pc \in {"check", "insert"} /\ q.row.period = l THEN 1 ELSE 0

Owed(r, l) == [w \in Workers |-> Owes(r[w], l)]

LEMMA OwedSummable ==
    ASSUME NEW r \in [Workers -> {Idle} \cup RowReq \cup ImportReq], NEW l
    PROVE  /\ Summable(Owed(r, l)) /\ DOMAIN Owed(r, l) = Workers
           /\ SumFunction(Owed(r, l)) \in Int
           /\ \A w \in Workers : Owed(r, l)[w] = Owes(r[w], l) /\ Owes(r[w], l) \in Nat
<1>1. DOMAIN Owed(r, l) = Workers /\ \A w \in Workers : Owed(r, l)[w] = Owes(r[w], l)
  BY DEF Owed
<1>2. ASSUME NEW w \in Workers PROVE Owes(r[w], l) \in Nat
  <2>1. CASE r[w] \in ImportReq
    <3>1. r[w].batch \in Seq(Row)
      BY <2>1 DEF ImportReq
    <3>2. Len(r[w].batch) \in Nat
      BY <3>1
    <3>3. QED
      BY <3>2 DEF Owes
  <2>2. CASE r[w] \in {Idle} \cup RowReq
    BY <2>2 DEF Owes, Idle, RowReq
  <2>3. QED
    BY <2>1, <2>2
<1>3. Owed(r, l) = [w \in DOMAIN Owed(r, l) |-> Owed(r, l)[w]]
  BY DEF Owed
<1>4. Summable(Owed(r, l))
  BY <1>1, <1>2, <1>3, SupplierWorkersAssumption DEF Summable
<1>5. QED
  BY <1>1, <1>2, <1>4, SumInt

\* A request owes nothing more to a locked period as it goes on.
LEMMA OwesStep ==
    ASSUME TypeOK, [Next]_vars, NEW l \in Labels, status[l] = "locked", NEW w \in Workers
    PROVE  Owes(req'[w], l) <= Owes(req[w], l)
<1>1. Moves(w) /\ Owes(req[w], l) \in Nat
  BY RequestStep, OwedSummable DEF TypeOK
<1>2. CASE req'[w] = req[w]
  BY <1>1, <1>2
<1>3. CASE req'[w] = Idle
  BY <1>1, <1>3 DEF Owes, Idle
<1>4. ASSUME NEW m \in Labels,
             NEW entry \in NewRow(Suppliers \cup Foreign, m, Direction), BeginCreate(w, entry)
      PROVE  Owes(req'[w], l) <= Owes(req[w], l)
  <2>1. req'[w] = [pc |-> "insert", row |-> entry] /\ status[m] # "locked"
    BY <1>4 DEF BeginCreate, Unlocked, NewRow, TypeOK
  <2>2. Owes(req'[w], l) = 0
    BY <2>1 DEF Owes, NewRow
  <2>3. QED
    BY <1>1, <2>2
<1>5. ASSUME NEW i \in DOMAIN rows, BeginReverse(w, i)
      PROVE  Owes(req'[w], l) <= Owes(req[w], l)
  <2>1. req'[w] = [pc |-> "check", row |-> ReversalOf(i)] /\ ReversalOf(i).period # l
    BY <1>5, ReversalType DEF BeginReverse, Unlocked, TypeOK
  <2>2. Owes(req'[w], l) = 0
    BY <2>1 DEF Owes
  <2>3. QED
    BY <1>1, <2>2
<1>6. ASSUME req[w].pc = "check", req'[w] = [req[w] EXCEPT !.pc = "insert"]
      PROVE  Owes(req'[w], l) <= Owes(req[w], l)
  <2>1. req'[w].pc = "insert" /\ req'[w].row = req[w].row
    BY <1>6, RequestCases DEF RowReq
  <2>2. QED
    BY <1>6, <2>1 DEF Owes
<1>7. ASSUME NEW m \in Labels, NEW names \in SUBSET Suppliers, NEW batch \in Batches(m),
             BeginImport(w, m, names, batch)
      PROVE  Owes(req'[w], l) <= Owes(req[w], l)
  <2>1. /\ req'[w] = [pc |-> "register", period |-> m, todo |-> names, batch |-> batch]
        /\ status[m] # "locked"
    BY <1>7 DEF BeginImport, Unlocked, TypeOK
  <2>2. Owes(req'[w], l) = 0
    BY <2>1 DEF Owes
  <2>3. QED
    BY <1>1, <2>2
<1>8. ASSUME req[w].pc = "register", NEW todo, req'[w] = [req[w] EXCEPT !.todo = todo]
      PROVE  Owes(req'[w], l) <= Owes(req[w], l)
  <2>1. /\ req'[w].pc = "register" /\ req'[w].batch = req[w].batch
        /\ req'[w].period = req[w].period
    BY <1>8, RequestCases DEF ImportReq
  <2>2. Owes(req'[w], l) = Owes(req[w], l)
    BY <1>8, <2>1 DEF Owes
  <2>3. QED
    BY <1>1, <2>2
<1>9. QED
  BY <1>1, <1>2, <1>3, <1>4, <1>5, <1>6, <1>7, <1>8 DEF Moves

\* A step is one request's, or nobody's.
LEMMA OneMoves ==
    ASSUME TypeOK, [Next]_vars
    PROVE  req' = req \/ \E w \in Workers : \A v \in Workers \ {w} : req'[v] = req[v]
<1>1. \/ req' = req
      \/ \E w \in Workers : \E q : req' = [req EXCEPT ![w] = q]
  BY DEF Next, vars, RowStep, ImportStep, FixReturns, FindOrCreateSupplier, BeginCreate,
         BeginReverse, CheckReversed, InsertRow, BeginImport, RegisterSupplier, InsertBatch,
         Abort, Finish, SetStatus, WidenColumn, RelabelReturns
<1>2. QED
  BY <1>1 DEF TypeOK

\* The request that inserts adds no more rows than it owed.
LEMMA InsertsOwed ==
    ASSUME DrainInv, [Next]_vars, NEW l \in Labels, NEW w \in Workers,
           InsertRow(w) \/ InsertBatch(w)
    PROVE  /\ Cardinality(InPeriod(l)') <= Cardinality(InPeriod(l)) + Owes(req[w], l)
           /\ Cardinality(InPeriod(l)') \in Nat
           /\ Owes(req'[w], l) = 0 /\ \A v \in Workers \ {w} : req'[v] = req[v]
<1>1. TypeOK /\ rows \in Seq(Row) /\ rows' \in Seq(Row) /\ Len(rows) \in Nat
  BY TypeStep DEF DrainInv, TypeOK
<1>2. /\ InPeriod(l) \in SUBSET DOMAIN rows /\ InPeriod(l)' \in SUBSET DOMAIN rows'
      /\ \A k : k \in InPeriod(l)' <=> k \in DOMAIN rows' /\ rows'[k].period = l
      /\ \A k : k \in InPeriod(l) <=> k \in DOMAIN rows /\ rows[k].period = l
  BY DEF InPeriod
<1>3. PICK C, D : C = InPeriod(l) /\ D = InPeriod(l)'
  OBVIOUS
<1>4. Cardinality(C) \in Nat /\ Cardinality(D) \in Nat
  BY <1>1, <1>2, <1>3, RowSetsGrow
<1>5. Owes(req'[w], l) = 0 /\ \A v \in Workers \ {w} : req'[v] = req[v]
  BY <1>1 DEF TypeOK, InsertRow, InsertBatch, Finish, Owes, Idle
<1>6. Owes(req[w], l) \in Nat
  BY <1>1, OwedSummable DEF TypeOK
<1>7. CASE InsertRow(w)
  <2>1. req[w].row \in Row /\ (rows' = rows \/ rows' = Append(rows, req[w].row))
    BY <1>1, <1>7, RequestCases DEF InsertRow, RowReq
  <2>2. CASE D = C
    BY <1>3, <1>4, <1>5, <1>6, <2>2
  <2>3. CASE rows' = Append(rows, req[w].row) /\ req[w].row.period = l
    <3>1. /\ DOMAIN rows' = DOMAIN rows \cup {Len(rows) + 1}
          /\ \A k \in DOMAIN rows : rows'[k] = rows[k]
          /\ rows'[Len(rows) + 1] = req[w].row
      BY <1>1, <2>1, <2>3
    <3>2. D = C \cup {Len(rows) + 1}
      BY <1>2, <1>3, <2>3, <3>1
    <3>3. Cardinality(D) = Cardinality(C) + 1
      BY <1>1, <1>2, <1>3, <3>2, RowSetsGrow
    <3>4. Owes(req[w], l) = 1
      BY <1>7, <2>3 DEF Owes, InsertRow
    <3>5. QED
      BY <1>3, <1>4, <1>5, <3>3, <3>4
  <2>4. CASE rows' = Append(rows, req[w].row) /\ req[w].row.period # l
    <3>1. /\ DOMAIN rows' = DOMAIN rows \cup {Len(rows) + 1}
          /\ \A k \in DOMAIN rows : rows'[k] = rows[k]
          /\ rows'[Len(rows) + 1] = req[w].row
      BY <1>1, <2>1, <2>4
    <3>2. D = C
      BY <1>2, <1>3, <2>4, <3>1
    <3>3. QED
      BY <2>2, <3>2
  <2>5. CASE rows' = rows
    <3>1. D = C
      BY <1>2, <1>3, <2>5
    <3>2. QED
      BY <2>2, <3>1
  <2>6. QED
    BY <2>1, <2>3, <2>4, <2>5
<1>8. CASE InsertBatch(w)
  <2> DEFINE batch == req[w].batch
  <2>1. /\ rows' = rows \o batch /\ batch \in Seq(Row) /\ req[w].pc = "register"
        /\ \A k \in DOMAIN batch : batch[k].period = req[w].period
    BY <1>1, <1>8, RequestCases DEF InsertBatch, ImportReq, DrainInv, BatchInPeriod
  <2>2. Len(batch) \in Nat /\ DOMAIN batch = 1..Len(batch) /\ DOMAIN rows = 1..Len(rows)
    BY <1>1, <2>1
  <2>3. Owes(req[w], l) = IF req[w].period = l THEN Len(batch) ELSE 0
    BY <2>1 DEF Owes
  <2> HIDE DEF batch
  <2>4. /\ DOMAIN rows' = 1..Len(rows) + Len(batch)
        /\ \A k \in 1..Len(rows) + Len(batch) :
              rows'[k] = IF k <= Len(rows) THEN rows[k] ELSE batch[k - Len(rows)]
    BY <1>1, <2>1, <2>2
  <2>5. PICK N : N = (Len(rows) + 1)..(Len(rows) + Len(batch))
    OBVIOUS
  <2>6. /\ DOMAIN rows' = DOMAIN rows \cup N /\ N \cap DOMAIN rows = {}
        /\ \A k \in DOMAIN rows : rows'[k] = rows[k]
        /\ \A k \in N : rows'[k].period = req[w].period
    <3>1. DOMAIN rows' = DOMAIN rows \cup N /\ N \cap DOMAIN rows = {}
      BY <1>1, <2>2, <2>4, <2>5
    <3>2. \A k \in DOMAIN rows : rows'[k] = rows[k]
      BY <1>1, <2>2, <2>4
    <3>3. ASSUME NEW k \in N PROVE rows'[k].period = req[w].period
      <4>1. k - Len(rows) \in DOMAIN batch /\ rows'[k] = batch[k - Len(rows)]
        BY <1>1, <2>2, <2>4, <2>5
      <4>2. QED
        BY <2>1, <4>1
    <3>4. QED
      BY <3>1, <3>2, <3>3
  <2>7. CASE req[w].period # l
    <3>1. D = C
      BY <1>2, <1>3, <2>6, <2>7
    <3>2. QED
      BY <1>3, <1>4, <1>5, <1>6, <3>1
  <2>8. CASE req[w].period = l
    <3>1. D = C \cup N /\ C \cap N = {}
      BY <1>2, <1>3, <2>6, <2>8
    <3>2. IsFiniteSet(N) /\ Cardinality(N) = Len(batch)
      <4>1. IsFiniteSet(N)
        BY <1>1, <2>2, <2>5, FS_Interval
      <4>2. PICK a, b \in Int : a = Len(rows) + 1 /\ b = Len(rows) + Len(batch)
        BY <1>1, <2>2
      <4>3. Cardinality(a..b) = IF a > b THEN 0 ELSE b - a + 1
        BY <4>2, FS_Interval
      <4>4. QED
        BY <1>1, <2>2, <2>5, <4>1, <4>2, <4>3
    <3>3. IsFiniteSet(C)
      <4>1. IsFiniteSet(DOMAIN rows)
        BY <1>1, <2>2, FS_Interval
      <4>2. QED
        BY <1>2, <1>3, <4>1, FS_Subset
    <3>4. Cardinality(D) = Cardinality(C) + Cardinality(N) - Cardinality(C \cap N)
      BY <3>1, <3>2, <3>3, FS_Union
    <3>5. Cardinality(D) = Cardinality(C) + Len(batch)
      <4>1. Cardinality({}) = 0
        BY FS_EmptySet
      <4>2. Cardinality(C \cap N) = 0
        BY <3>1, <4>1
      <4>3. QED
        BY <1>4, <2>2, <3>2, <3>4, <4>2
    <3>6. QED
      BY <1>3, <1>4, <1>5, <2>3, <2>8, <3>5
  <2>9. QED
    BY <2>7, <2>8
<1>9. QED
  BY <1>7, <1>8

LEMMA DrainStep ==
    ASSUME DrainInv, [Next]_vars, NEW l \in Labels, status[l] = "locked"
    PROVE  Cardinality(InPeriod(l)') + SumFunction(Owed(req', l))
               <= Cardinality(InPeriod(l)) + SumFunction(Owed(req, l))
<1>1. /\ TypeOK /\ TypeOK'
      /\ req \in [Workers -> {Idle} \cup RowReq \cup ImportReq]
      /\ req' \in [Workers -> {Idle} \cup RowReq \cup ImportReq]
  BY TypeStep DEF DrainInv, TypeOK
<1>2. PICK f, g : f = Owed(req, l) /\ g = Owed(req', l)
  OBVIOUS
<1>3. /\ Summable(f) /\ Summable(g) /\ DOMAIN f = Workers /\ DOMAIN g = Workers
      /\ SumFunction(f) \in Int /\ SumFunction(g) \in Int
  BY <1>1, <1>2, OwedSummable
<1>4. \A w \in Workers : /\ f[w] = Owes(req[w], l) /\ g[w] = Owes(req'[w], l)
                         /\ f[w] \in Nat /\ g[w] \in Nat
  BY <1>1, <1>2, OwedSummable
<1>5. PICK C, D : C = InPeriod(l) /\ D = InPeriod(l)'
  OBVIOUS
<1>6. Cardinality(C) \in Nat
  <2>1. rows \in Seq(Row) /\ C \in SUBSET DOMAIN rows
    BY <1>1, <1>5 DEF TypeOK, InPeriod
  <2>2. QED
    BY <2>1, RowSetsGrow
<1>7. ASSUME NEW w \in Workers, \A v \in Workers \ {w} : req'[v] = req[v]
      PROVE  SumFunction(g) - SumFunction(f) = g[w] - f[w]
  <2>1. \A v \in Workers \ {w} : g[v] = f[v]
    BY <1>4, <1>7
  <2>2. QED
    BY <1>3, <2>1, SumChange
<1>8. ASSUME NEW w \in Workers, InsertRow(w) \/ InsertBatch(w)
      PROVE  Cardinality(D) + SumFunction(g) <= Cardinality(C) + SumFunction(f)
  <2>1. /\ Cardinality(D) <= Cardinality(C) + f[w] /\ Cardinality(D) \in Nat
        /\ g[w] = 0 /\ \A v \in Workers \ {w} : req'[v] = req[v]
    BY <1>4, <1>5, <1>8, InsertsOwed
  <2>2. SumFunction(g) - SumFunction(f) = g[w] - f[w]
    BY <1>7, <2>1
  <2>3. QED
    BY <1>3, <1>4, <1>6, <2>1, <2>2
<1>9. CASE \A w \in Workers : ~InsertRow(w) /\ ~InsertBatch(w)
  <2>1. D = C
    <3>1. RowsKept /\ \A k \in DOMAIN rows' : k \in DOMAIN rows
      BY <1>1, <1>9, RowsStep DEF Added
    <3>2. \A k : k \in D <=> k \in DOMAIN rows' /\ rows'[k].period = l
      BY <1>5 DEF InPeriod
    <3>3. QED
      BY <1>5, <3>1, <3>2 DEF InPeriod, RowsKept, SameRow
  <2>2. SumFunction(g) <= SumFunction(f)
    <3>1. CASE req' = req
      BY <1>2, <1>3, <3>1
    <3>2. ASSUME NEW w \in Workers, \A v \in Workers \ {w} : req'[v] = req[v]
          PROVE  SumFunction(g) <= SumFunction(f)
      <4>1. g[w] <= f[w]
        BY <1>1, <1>4, OwesStep
      <4>2. SumFunction(g) - SumFunction(f) = g[w] - f[w]
        BY <1>7, <3>2
      <4>3. QED
        BY <1>3, <1>4, <4>1, <4>2
    <3>3. QED
      BY <1>1, <3>1, <3>2, OneMoves
  <2>3. QED
    BY <1>2, <1>3, <1>5, <1>6, <2>1, <2>2
<1>10. QED
  BY <1>2, <1>5, <1>8, <1>9

\* A locked period only drains: its rows and those still on their way to it,
\* by entry, reversal or import, become no more, for any number of requests.
THEOREM LockedAlwaysDrains == Spec => LockedPeriodDrains
<1>1. ASSUME DrainInv, [Next]_vars
      PROVE  [\A l \in Labels : status[l] = "locked" =>
                 Cardinality(InPeriod(l))' + SumFunction([w \in Workers |-> Pending(w, l)])'
                     <= Cardinality(InPeriod(l))
                        + SumFunction([w \in Workers |-> Pending(w, l)])]_vars
  <2>1. ASSUME NEW l \in Labels
        PROVE  /\ [w \in Workers |-> Pending(w, l)] = Owed(req, l)
               /\ [w \in Workers |-> Pending(w, l)]' = Owed(req', l)
    BY DEF Owed, Owes, Pending
  <2>2. QED
    BY <1>1, <2>1, DrainStep
<1>2. QED
  BY <1>1, DrainInit, DrainNext, PTL DEF Spec, LockedPeriodDrains

-----------------------------------------------------------------------------
(* The balances of the queries as sums of effects.                         *)

Effects(t) == [k \in DOMAIN t |-> Effect(t[k])]

\* Total and Balance for any table.
TotalIn(t, dir, set) == SumFunction([k \in {j \in set : t[j].dir = dir} |-> t[k].amount])

BalanceIn(t, set) ==
    (TotalIn(t, "purchase", set) - TotalIn(t, "purchase_return", set))
      - (TotalIn(t, "payment", set) - TotalIn(t, "payment_return", set))

LEMMA BalanceRows == \A set : Balance(set) = BalanceIn(rows, set)
  BY DEF Balance, NetPurchases, NetPayments, Total, BalanceIn, TotalIn

LEMMA EffectsSummable ==
    ASSUME NEW t \in Seq(Row)
    PROVE  /\ Summable(Effects(t))
           /\ DOMAIN Effects(t) = DOMAIN t
           /\ \A k \in DOMAIN t : /\ Effects(t)[k] = Effect(t[k])
                                  /\ t[k] \in Row /\ Effect(t[k]) \in Int
<1>1. /\ DOMAIN Effects(t) = DOMAIN t
      /\ \A k \in DOMAIN t : Effects(t)[k] = Effect(t[k])
  BY DEF Effects
<1>2. IsFiniteSet(DOMAIN t)
  <2>1. Len(t) \in Nat /\ DOMAIN t = 1..Len(t)
    OBVIOUS
  <2>2. QED
    BY <2>1, FS_Interval
<1>3. \A k \in DOMAIN t : t[k] \in Row /\ Effect(t[k]) \in Int
  BY EffectType
<1>4. Effects(t) = [k \in DOMAIN Effects(t) |-> Effects(t)[k]]
  BY DEF Effects
<1>5. QED
  BY <1>1, <1>2, <1>3, <1>4 DEF Summable

\* A total is, up to its sign, the sum of the effects of its rows.
LEMMA TotalIs ==
    ASSUME NEW t \in Seq(Row), NEW set \in SUBSET DOMAIN t, NEW d \in Direction,
           NEW T, T = {j \in set : t[j].dir = d}
    PROVE  /\ d \in {"purchase", "payment_return"} =>
                TotalIn(t, d, set) = SumFunction(Part(Effects(t), T))
           /\ d \in {"payment", "purchase_return"} =>
                TotalIn(t, d, set) = -SumFunction(Part(Effects(t), T))
           /\ SumFunction(Part(Effects(t), T)) \in Int
<1>1. PICK f, g : f = [k \in T |-> t[k].amount] /\ g = Part(Effects(t), T)
  OBVIOUS
<1>2. TotalIn(t, d, set) = SumFunction(f)
  BY <1>1 DEF TotalIn
<1>3. /\ Summable(g) /\ DOMAIN g = T /\ SumFunction(g) \in Int
      /\ \A k \in T : g[k] = Effects(t)[k]
  BY <1>1, EffectsSummable, PartSummable
<1>4. \A k \in T : g[k] = Effect(t[k]) /\ t[k].amount \in Int /\ t[k].dir = d
  BY <1>3, EffectsSummable, EffectType
<1>5. Summable(f) /\ DOMAIN f = T /\ \A k \in T : f[k] = t[k].amount
  <2>1. DOMAIN f = T /\ \A k \in T : f[k] = t[k].amount
    BY <1>1
  <2>2. IsFiniteSet(T) /\ f = [k \in DOMAIN f |-> f[k]]
    BY <1>1, <1>3 DEF Summable
  <2>3. QED
    BY <1>4, <2>1, <2>2 DEF Summable
<1>6. ASSUME d \in {"purchase", "payment_return"}
      PROVE  f = g
  <2>1. \A k \in T : f[k] = g[k]
    BY <1>4, <1>5, <1>6 DEF Effect
  <2>2. QED
    BY <1>3, <1>5, <2>1 DEF Summable
<1>7. ASSUME d \in {"payment", "purchase_return"}
      PROVE  SumFunction(f) = -SumFunction(g)
  <2>1. \A k \in T : f[k] = -g[k]
    BY <1>4, <1>5, <1>7 DEF Effect
  <2>2. QED
    BY <1>3, <1>5, <2>1, SumOpposite
<1>8. QED
  BY <1>1, <1>2, <1>3, <1>6, <1>7

LEMMA BalanceIs ==
    ASSUME NEW t \in Seq(Row), NEW set \in SUBSET DOMAIN t
    PROVE  /\ BalanceIn(t, set) = SumFunction(Part(Effects(t), set))
           /\ BalanceIn(t, set) \in Int
<1> DEFINE Of(d) == {j \in set : t[j].dir = d}
           e == Effects(t)
           S(T) == SumFunction(Part(e, T))
<1>1. Summable(e) /\ DOMAIN e = DOMAIN t
  BY EffectsSummable
<1>2. \A d \in Direction : Of(d) \in SUBSET DOMAIN e /\ S(Of(d)) \in Int
  BY <1>1, PartSummable
<1>3. /\ TotalIn(t, "purchase", set) = S(Of("purchase"))
      /\ TotalIn(t, "payment_return", set) = S(Of("payment_return"))
      /\ TotalIn(t, "payment", set) = -S(Of("payment"))
      /\ TotalIn(t, "purchase_return", set) = -S(Of("purchase_return"))
  BY TotalIs DEF Direction
<1> DEFINE A == Of("purchase") \cup Of("payment_return")
           B == Of("payment") \cup Of("purchase_return")
<1>4. set = A \cup B /\ A \cap B = {}
  <2>1. \A j \in set : t[j].dir \in Direction
    BY EffectsSummable DEF Row
  <2>2. QED
    BY <2>1 DEF Direction
<1>5. /\ Of("purchase") \cap Of("payment_return") = {}
      /\ Of("payment") \cap Of("purchase_return") = {}
      /\ A \in SUBSET DOMAIN e /\ B \in SUBSET DOMAIN e
  BY <1>1
<1>6. "purchase" \in Direction /\ "payment_return" \in Direction
      /\ "payment" \in Direction /\ "purchase_return" \in Direction
  BY DEF Direction
<1> HIDE DEF Of, e
<1>7. S(A) = S(Of("purchase")) + S(Of("payment_return"))
  BY <1>1, <1>2, <1>5, <1>6, PartUnion
<1>8. S(B) = S(Of("payment")) + S(Of("purchase_return"))
  BY <1>1, <1>2, <1>5, <1>6, PartUnion
<1> HIDE DEF A, B
<1>9. S(set) = S(A) + S(B)
  BY <1>1, <1>4, <1>5, PartUnion
<1>10. S(set) \in Int /\ BalanceIn(t, set) = S(set)
  BY <1>2, <1>3, <1>6, <1>7, <1>8, <1>9 DEF BalanceIn
<1>11. QED
  BY <1>10 DEF e

-----------------------------------------------------------------------------
(* cmd/fix_returns.                                                        *)

LEMMA DebtsKept ==
    ASSUME TypeOK, [Next]_vars, Len(rows') = Len(rows), NEW s \in Suppliers, NEW l \in Labels
    PROVE  Balance(Joined(s, l))' = Balance(Joined(s, l))
<1>1. RowsKept /\ rows \in Seq(Row) /\ rows' \in Seq(Row)
  BY RowsStep, TypeStep DEF TypeOK
<1>2. DOMAIN rows' = DOMAIN rows
  <2>1. DOMAIN rows = 1..Len(rows) /\ DOMAIN rows' = 1..Len(rows')
    BY <1>1
  <2>2. QED
    BY <2>1
<1>3. PICK J : J = Joined(s, l)
  OBVIOUS
<1>4. J \in SUBSET DOMAIN rows /\ Joined(s, l)' = J
  BY <1>1, <1>2, <1>3 DEF Joined, RowsOf, InPeriod, RowsKept, SameRow
<1>5. Part(Effects(rows'), J) = Part(Effects(rows), J)
  BY <1>1, <1>2, <1>4, EffectsSummable DEF Part, RowsKept, SameRow
<1>6. BalanceIn(rows', J) = BalanceIn(rows, J)
  BY <1>1, <1>2, <1>4, <1>5, BalanceIs
<1>7. Balance(Joined(s, l))' = BalanceIn(rows', J)
  BY <1>4 DEF Balance, NetPurchases, NetPayments, Total, BalanceIn, TotalIn
<1>8. QED
  BY <1>3, <1>6, <1>7, BalanceRows

\* Relabelling rows leaves every supplier's debt in every period alone,
\* whichever rows cmd/fix_returns takes for reversals.
THEOREM FixReturnsAlwaysKeepsDebts == Spec => FixReturnsKeepsDebts
<1>1. ASSUME TypeOK, [Next]_vars
      PROVE  [rows' # rows /\ Len(rows') = Len(rows) =>
                \A s \in Suppliers, l \in Labels :
                    Balance(Joined(s, l))' = Balance(Joined(s, l))]_vars
  BY <1>1, DebtsKept
<1>2. QED
  BY <1>1, TypeInit, TypeStep, PTL DEF Spec, FixReturnsKeepsDebts

-----------------------------------------------------------------------------
(* The balances of the list add up to the summary.                         *)

\* The supplier of every row a request may still insert is registered, or the
\* request will register it first.
BatchKnown(w) ==
    req[w].pc = "register" =>
        \A k \in DOMAIN req[w].batch : req[w].batch[k].supplier \in known \cup req[w].todo

\* A row's supplier is registered, or of another tenant.
RowsKnown == \A k \in DOMAIN rows : Referable(rows[k].supplier)

KnownInv ==
    /\ TypeOK /\ IsFiniteSet(known) /\ RowsKnown
    /\ \A w \in Workers : BatchKnown(w)

LEMMA KnownStep ==
    ASSUME [Next]_vars
    PROVE  /\ known \subseteq known'
           /\ IsFiniteSet(known) => IsFiniteSet(known')
<1>1. known' = known \/ \E s : known' = known \cup {s}
  BY DEF Next, vars, RowStep, ImportStep, FixReturns, FindOrCreateSupplier, BeginCreate,
         BeginReverse, CheckReversed, InsertRow, BeginImport, RegisterSupplier, InsertBatch,
         Abort, SetStatus, WidenColumn, RelabelReturns
<1>2. QED
  BY <1>1, FS_AddElement

LEMMA BatchKnownStep ==
    ASSUME KnownInv, [Next]_vars, NEW w \in Workers
    PROVE  BatchKnown(w)'
<1>1. TypeOK /\ Moves(w) /\ known \subseteq known'
  BY RequestStep, KnownStep DEF KnownInv
<1>2. CASE req'[w] = req[w] \/ req'[w] = Idle
  BY <1>1, <1>2 DEF KnownInv, BatchKnown, Idle
<1>3. ASSUME NEW l \in Labels, NEW entry \in NewRow(Suppliers \cup Foreign, l, Direction),
             BeginCreate(w, entry)
      PROVE  BatchKnown(w)'
  BY <1>1, <1>3 DEF BeginCreate, TypeOK, BatchKnown
<1>4. ASSUME NEW i \in DOMAIN rows, BeginReverse(w, i)
      PROVE  BatchKnown(w)'
  BY <1>1, <1>4 DEF BeginReverse, TypeOK, BatchKnown
<1>5. ASSUME req[w].pc = "check", req'[w] = [req[w] EXCEPT !.pc = "insert"]
      PROVE  BatchKnown(w)'
  BY <1>1, <1>5, RequestCases DEF RowReq, BatchKnown
<1>6. ASSUME NEW l \in Labels, NEW names \in SUBSET Suppliers, NEW batch \in Batches(l),
             BeginImport(w, l, names, batch)
      PROVE  BatchKnown(w)'
  <2>1. req'[w].batch = batch /\ req'[w].todo = names
    BY <1>1, <1>6 DEF BeginImport, TypeOK
  <2>2. QED
    BY <1>6, <2>1 DEF BatchKnown, BeginImport
<1>7. ASSUME req[w].pc = "register", NEW todo, req'[w] = [req[w] EXCEPT !.todo = todo],
             req[w].todo \subseteq todo \cup known'
      PROVE  BatchKnown(w)'
  <2>1. req'[w].batch = req[w].batch /\ req'[w].todo = todo
    BY <1>1, <1>7, RequestCases DEF ImportReq
  <2>2. QED
    BY <1>1, <1>7, <2>1 DEF KnownInv, BatchKnown
<1>8. QED
  BY <1>1, <1>2, <1>3, <1>4, <1>5, <1>6, <1>7 DEF Moves

LEMMA RowsKnownStep ==
    ASSUME KnownInv, [Next]_vars
    PROVE  RowsKnown'
<1>1. /\ RowsKept /\ known \subseteq known'
      /\ \A k \in DOMAIN rows' : k \in DOMAIN rows \/ Added(k)
  BY RowsStep, KnownStep DEF KnownInv
<1> SUFFICES ASSUME NEW k \in DOMAIN rows' PROVE rows'[k].supplier \in known' \cup Foreign
  BY DEF RowsKnown, Referable
<1>2. CASE k \in DOMAIN rows
  BY <1>1, <1>2 DEF KnownInv, RowsKnown, Referable, RowsKept, SameRow
<1>3. CASE k \notin DOMAIN rows
  <2>1. PICK w \in Workers :
          \/ InsertRow(w) /\ k = Len(rows) + 1 /\ rows'[k] = req[w].row
          \/ /\ InsertBatch(w)
             /\ k - Len(rows) \in DOMAIN req[w].batch
             /\ rows'[k] = req[w].batch[k - Len(rows)]
    BY <1>1, <1>3 DEF Added
  <2>2. CASE InsertRow(w) /\ k = Len(rows) + 1 /\ rows'[k] = req[w].row
    <3>1. req[w].row.supplier \in known \cup Foreign
      BY <1>3, <2>2 DEF InsertRow, Referable
    <3>2. QED
      BY <1>1, <2>2, <3>1
  <2>3. CASE InsertBatch(w) /\ k - Len(rows) \in DOMAIN req[w].batch
                            /\ rows'[k] = req[w].batch[k - Len(rows)]
    BY <1>1, <2>3 DEF InsertBatch, KnownInv, BatchKnown
  <2>4. QED
    BY <2>1, <2>2, <2>3
<1>4. QED
  BY <1>2, <1>3

LEMMA KnownNext == KnownInv /\ [Next]_vars => KnownInv'
<1> SUFFICES ASSUME KnownInv, [Next]_vars PROVE KnownInv'
  OBVIOUS
<1>1. TypeOK' /\ IsFiniteSet(known')
  BY TypeStep, KnownStep DEF KnownInv
<1>2. QED
  BY <1>1, BatchKnownStep, RowsKnownStep DEF KnownInv

LEMMA KnownInit == Init => KnownInv
<1> SUFFICES ASSUME Init PROVE KnownInv
  OBVIOUS
<1>1. rows = <<>> /\ known = {} /\ \A w \in Workers : req[w].pc = "idle"
  BY DEF Init, Idle
<1>2. IsFiniteSet(known)
  BY <1>1, FS_EmptySet
<1>3. QED
  BY <1>1, <1>2, TypeInit DEF KnownInv, RowsKnown, BatchKnown

\* The rows of a period that belong to the suppliers in T.
RowsFor(l, T) == {k \in InPeriod(l) : rows[k].supplier \in T}

\* The rows of a period that name a supplier of another tenant.
ForeignRows(l) == {k \in InPeriod(l) : rows[k].supplier \in Foreign}

\* The balances the list shows for a period.
Shown(l) == [s \in Listed(l) |-> Balance(Joined(s, l))]

LEMMA ShownSummable ==
    ASSUME TypeOK, IsFiniteSet(known), NEW l \in Labels
    PROVE  /\ Summable(Shown(l)) /\ DOMAIN Shown(l) = Listed(l)
           /\ \A s \in Listed(l) :
                 Shown(l)[s] = SumFunction(Part(Effects(rows), Joined(s, l)))
<1>1. DOMAIN Shown(l) = Listed(l) /\ Shown(l) = [s \in DOMAIN Shown(l) |-> Shown(l)[s]]
  BY DEF Shown
<1>2. IsFiniteSet(Listed(l))
  BY FS_Subset DEF Listed
<1>3. ASSUME NEW s \in Listed(l)
      PROVE  /\ Shown(l)[s] = SumFunction(Part(Effects(rows), Joined(s, l)))
             /\ Shown(l)[s] \in Int
  <2>1. Shown(l)[s] = Balance(Joined(s, l))
    BY DEF Shown
  <2>2. PICK J : J = Joined(s, l)
    OBVIOUS
  <2>3. J \in SUBSET DOMAIN rows /\ rows \in Seq(Row)
    BY <2>2 DEF Joined, RowsOf, TypeOK
  <2>4. QED
    BY <2>1, <2>2, <2>3, BalanceRows, BalanceIs
<1>4. QED
  BY <1>1, <1>2, <1>3 DEF Summable

LEMMA ListAddsUp ==
    ASSUME TypeOK, IsFiniteSet(known), RowsKnown, NEW l \in Labels
    PROVE  SummaryNet(l) = SumFunction(Shown(l)) + Balance(ForeignRows(l))
<1>1. PICK e, f : e = Effects(rows) /\ f = Shown(l)
  OBVIOUS
<1>2. /\ Summable(e) /\ DOMAIN e = DOMAIN rows
      /\ Summable(f) /\ DOMAIN f = Listed(l) /\ IsFiniteSet(Listed(l))
      /\ \A s \in Listed(l) : f[s] = SumFunction(Part(e, Joined(s, l)))
  BY <1>1, EffectsSummable, ShownSummable DEF TypeOK, Summable
<1> DEFINE B == {T \in SUBSET Listed(l) :
                    SumFunction(Part(f, T)) = SumFunction(Part(e, RowsFor(l, T)))}
<1>3. {} \in B
  <2>1. RowsFor(l, {}) = {}
    BY DEF RowsFor
  <2>2. QED
    BY <2>1, PartEmpty
<1>4. ASSUME NEW T \in SUBSET Listed(l), NEW s \in Listed(l) \ T, T \in B
      PROVE  T \cup {s} \in B
  <2>1. SumFunction(Part(f, T)) = SumFunction(Part(e, RowsFor(l, T)))
    BY <1>4
  <2> HIDE DEF B
  <2>2. SumFunction(Part(f, T \cup {s})) = SumFunction(Part(f, T)) + f[s]
    BY <1>2, PartAdd
  <2>3. /\ RowsFor(l, T \cup {s}) = RowsFor(l, T) \cup Joined(s, l)
        /\ RowsFor(l, T) \cap Joined(s, l) = {}
        /\ RowsFor(l, T) \in SUBSET DOMAIN e /\ Joined(s, l) \in SUBSET DOMAIN e
    BY <1>2 DEF RowsFor, Joined, RowsOf, InPeriod
  <2>4. SumFunction(Part(e, RowsFor(l, T \cup {s})))
          = SumFunction(Part(e, RowsFor(l, T))) + SumFunction(Part(e, Joined(s, l)))
    <3>1. PICK U, J : U = RowsFor(l, T) /\ J = Joined(s, l)
      OBVIOUS
    <3>2. /\ U \in SUBSET DOMAIN e /\ J \in SUBSET DOMAIN e /\ U \cap J = {}
          /\ RowsFor(l, T \cup {s}) = U \cup J
      BY <2>3, <3>1
    <3>3. SumFunction(Part(e, U \cup J)) = SumFunction(Part(e, U)) + SumFunction(Part(e, J))
      BY <1>2, <3>2, PartUnion
    <3>4. QED
      BY <3>1, <3>2, <3>3
  <2>5. SumFunction(Part(f, T \cup {s})) = SumFunction(Part(e, RowsFor(l, T \cup {s})))
    BY <1>2, <2>1, <2>2, <2>4
  <2>6. QED
    BY <2>5 DEF B
<1>5. Listed(l) \in B
  <2> HIDE DEF B
  <2>1. QED
    BY <1>2, <1>3, <1>4, Growing
<1>6. PICK K, F : K = RowsFor(l, Listed(l)) /\ F = ForeignRows(l)
  OBVIOUS
<1>7. /\ InPeriod(l) = K \cup F /\ K \cap F = {}
      /\ K \in SUBSET DOMAIN rows /\ F \in SUBSET DOMAIN rows
  <2>1. ASSUME NEW k \in InPeriod(l)
        PROVE  /\ k \in DOMAIN rows
               /\ k \in K <=> rows[k].supplier \in known
               /\ k \in F <=> rows[k].supplier \in Foreign
               /\ rows[k].supplier \in known \cup Foreign
    BY <1>6 DEF RowsFor, ForeignRows, Listed, Joined, RowsOf, InPeriod, RowsKnown, Referable
  <2>2. known \cap Foreign = {}
    BY ForeignAssumption DEF TypeOK
  <2>3. K \subseteq InPeriod(l) /\ F \subseteq InPeriod(l)
    BY <1>6 DEF RowsFor, ForeignRows
  <2>4. QED
    BY <2>1, <2>2, <2>3
<1>8. SumFunction(f) = SumFunction(Part(e, K))
  <2>1. Part(f, Listed(l)) = f
    BY <1>2, PartWhole
  <2>2. QED
    BY <1>5, <1>6, <2>1
<1>9. SumFunction(Part(e, K \cup F)) = SumFunction(Part(e, K)) + SumFunction(Part(e, F))
  BY <1>2, <1>7, PartUnion
<1>10. SummaryNet(l) = SumFunction(Part(e, K \cup F)) /\ Balance(F) = SumFunction(Part(e, F))
  <2>1. K \cup F \in SUBSET DOMAIN rows /\ rows \in Seq(Row)
    BY <1>7 DEF TypeOK
  <2>2. QED
    BY <1>1, <1>7, <2>1, BalanceRows, BalanceIs DEF SummaryNet
<1>11. QED
  BY <1>1, <1>6, <1>8, <1>9, <1>10

\* What the summary shows for a period is what the list shows for it and the
\* rows of other tenants' suppliers: every other row is of a registered
\* supplier, which the list then does not leave out.
THEOREM SummaryAlwaysMatchesList == Spec => []SummaryMatchesList
<1>1. KnownInv => SummaryMatchesList
  BY ListAddsUp DEF KnownInv, SummaryMatchesList, Shown, ForeignRows
<1>2. QED
  BY <1>1, KnownInit, KnownNext, PTL DEF Spec

-----------------------------------------------------------------------------
(* Cancelled rows do not count, but for surplus reversals: all others come *)
(* with the row they reverse, in pairs that cancel out.                    *)

LEMMA CancelledPairs ==
    ASSUME TypeOK, ReversalCancels, NEW s, NEW l, NEW J, J = Joined(s, l)
    PROVE  Balance(J) = Balance(Uncancelled(J)) + Balance(Surplus(J))
<1>1. PICK e, S, A : e = Effects(rows) /\ S = Surplus(J) /\ A = Uncancelled(J)
  OBVIOUS
<1>2. /\ Summable(e) /\ DOMAIN e = DOMAIN rows
      /\ \A k \in DOMAIN rows : e[k] = Effect(rows[k]) /\ rows[k] \in Row /\ e[k] \in Int
      /\ DOMAIN rows = 1..Len(rows) /\ Len(rows) \in Nat /\ rows \in Seq(Row)
  BY <1>1, EffectsSummable DEF TypeOK
<1>3. J \in SUBSET DOMAIN rows
      /\ \A k \in DOMAIN rows : k \in J <=> rows[k].supplier = s /\ rows[k].period = l
  BY DEF Joined, RowsOf, InPeriod
<1>4. PICK R : R = {k \in J : rows[k].rev # NoReversal /\ k \notin S}
  OBVIOUS
<1>5. PICK m : m = [k \in R |-> rows[k].rev]
  OBVIOUS
<1>6. ASSUME NEW k \in DOMAIN rows, rows[k].rev # NoReversal
      PROVE  LET i == rows[k].rev
             IN  /\ i \in DOMAIN rows /\ rows[i].rev = NoReversal
                 /\ rows[i].supplier = rows[k].supplier /\ rows[i].period = rows[k].period
                 /\ Effect(rows[k]) = -Effect(rows[i])
  <2> DEFINE i == rows[k].rev
  <2>1. /\ i < k /\ rows[i].rev = NoReversal
        /\ rows[i].supplier = rows[k].supplier /\ rows[i].period = rows[k].period
        /\ Effect(rows[k]) = -Effect(rows[i])
    BY <1>6 DEF ReversalCancels
  <2>2. i \in Nat
    BY <1>2 DEF Row
  <2>3. i \in DOMAIN rows
    BY <1>2, <1>6, <2>1, <2>2 DEF NoReversal
  <2>4. QED
    BY <2>1, <2>3
<1>7. ASSUME NEW k \in R
      PROVE  /\ k \in DOMAIN rows /\ rows[k].rev # NoReversal
             /\ m[k] = rows[k].rev /\ m[k] \in J \ R /\ rows[m[k]].rev = NoReversal
             /\ k \in Reversals(m[k]) /\ e[m[k]] = -e[k]
  <2>1. k \in DOMAIN rows /\ rows[k].rev # NoReversal /\ m[k] = rows[k].rev
    BY <1>3, <1>4, <1>5
  <2>2. m[k] \in J \ R /\ rows[m[k]].rev = NoReversal
    BY <1>3, <1>4, <1>6, <2>1
  <2>3. e[m[k]] = -e[k]
    BY <1>2, <1>3, <1>6, <2>1, <2>2
  <2>4. QED
    BY <2>1, <2>2, <2>3 DEF Reversals
<1>8. PICK P : P = R \cup ImageOf(m, R)
  OBVIOUS
<1>9. ASSUME NEW k \in DOMAIN rows
      PROVE  k \in S <=> /\ k \in J /\ rows[k].rev # NoReversal
                         /\ \E j \in DOMAIN rows : j < k /\ rows[j].rev = rows[k].rev
  BY <1>1 DEF Surplus
<1>10. SumFunction(Part(e, P)) = 0
  <2>1. R \in SUBSET DOMAIN e /\ m \in [R -> DOMAIN e \ R]
    BY <1>2, <1>3, <1>4, <1>5, <1>7
  <2>2. ASSUME NEW j \in R, NEW k \in R, m[j] = m[k]
        PROVE  j = k
    <3>1. /\ j \in Nat /\ k \in Nat /\ rows[j].rev = rows[k].rev /\ j \notin S /\ k \notin S
      BY <1>2, <1>4, <1>7, <2>2
    <3>2. ~(j < k) /\ ~(k < j)
      BY <1>4, <1>7, <1>9, <3>1
    <3>3. QED
      BY <3>1, <3>2
  <2>3. QED
    BY <1>2, <1>7, <1>8, <2>1, <2>2, SumPairs
<1>11. J = (A \cup P) \cup S /\ A \cap P = {} /\ (A \cup P) \cap S = {}
  <2>1. P \subseteq J /\ S \subseteq J
    BY <1>1, <1>4, <1>7, <1>8 DEF ImageOf, Surplus
  <2>2. ASSUME NEW k \in J
        PROVE  /\ k \in P \cup S <=> ~(rows[k].rev = NoReversal /\ Reversals(k) = {})
               /\ ~(k \in P /\ k \in S)
    <3>1. k \in P => \/ k \in R
                     \/ rows[k].rev = NoReversal /\ Reversals(k) # {}
      <4>1. ASSUME NEW j \in R, k = m[j]
            PROVE  rows[k].rev = NoReversal /\ Reversals(k) # {}
        BY <1>7, <4>1
      <4>2. QED
        BY <1>8, <4>1 DEF ImageOf
    <3>2. ASSUME rows[k].rev = NoReversal, Reversals(k) # {}
          PROVE  k \in P
      <4>1. Reversals(k) \in SUBSET Nat
        BY <1>2 DEF Reversals
      <4>2. PICK j \in Reversals(k) : \A i \in Reversals(k) : j <= i
        BY <3>2, <4>1, Least
      <4>3. j \in DOMAIN rows /\ rows[j].rev = k /\ k # NoReversal
        BY <1>2, <1>3 DEF Reversals, NoReversal
      <4>4. j \in J
        BY <1>3, <1>6, <4>3
      <4>5. ASSUME NEW i \in DOMAIN rows, i < j PROVE rows[i].rev # rows[j].rev
        <5>1. i \in Nat /\ j \in Nat
          BY <1>2, <4>3
        <5>2. QED
          BY <4>2, <4>3, <4>5, <5>1 DEF Reversals
      <4>6. j \in R /\ m[j] = k
        BY <1>4, <1>5, <1>9, <4>3, <4>4, <4>5
      <4>7. QED
        BY <1>8, <4>6 DEF ImageOf
    <3>3. k \in S => rows[k].rev # NoReversal
      BY <1>3, <1>9
    <3>4. rows[k].rev # NoReversal => k \in R \/ k \in S
      BY <1>4
    <3>5. k \in R => rows[k].rev # NoReversal /\ k \notin S /\ k \in P
      BY <1>4, <1>8
    <3>6. QED
      BY <3>1, <3>2, <3>3, <3>4, <3>5
  <2>3. QED
    BY <1>1, <2>1, <2>2 DEF Uncancelled
<1>12. SumFunction(Part(e, J)) = SumFunction(Part(e, A)) + SumFunction(Part(e, S))
  <2>1. /\ A \in SUBSET DOMAIN e /\ P \in SUBSET DOMAIN e /\ S \in SUBSET DOMAIN e
        /\ A \cup P \in SUBSET DOMAIN e
    BY <1>2, <1>3, <1>11
  <2>2. SumFunction(Part(e, A \cup P)) = SumFunction(Part(e, A)) + SumFunction(Part(e, P))
    BY <1>2, <1>11, <2>1, PartUnion
  <2>3. SumFunction(Part(e, (A \cup P) \cup S))
            = SumFunction(Part(e, A \cup P)) + SumFunction(Part(e, S))
    BY <1>2, <1>11, <2>1, PartUnion
  <2>4. SumFunction(Part(e, A)) \in Int
    BY <1>2, <2>1, PartSummable
  <2>5. QED
    BY <1>10, <1>11, <2>2, <2>3, <2>4
<1>13. A \in SUBSET DOMAIN rows /\ S \in SUBSET DOMAIN rows
  BY <1>3, <1>11
<1>14. QED
  BY <1>1, <1>2, <1>3, <1>12, <1>13, BalanceRows, BalanceIs

\* The debt shown, which sums every row, is the debt without the cancelled
\* ones and the surplus reversals, however requests interleave and whatever
\* cmd/fix_returns relabels.
THEOREM DebtAlwaysIgnoresCancelled == Spec => []DebtIgnoresCancelled
<1>1. CancelInv => DebtIgnoresCancelled
  BY CancelledPairs DEF CancelInv, DebtIgnoresCancelled
<1>2. QED
  BY <1>1, CancelInit, CancelNext, PTL DEF Spec

-----------------------------------------------------------------------------
(* The workbook reader: the right sheet.                                   *)

LEMMA RightYear ==
    ASSUME book \in Books
    PROVE  RightYearPreferred
<1> SUFFICES ASSUME book.asked = 0, book.yearMonth, ~book.sharedDigits
             PROVE  LET right == {i \in DOMAIN book.sheets :
                            /\ book.sheets[i].month
                            /\ book.sheets[i].year \in {"full", "short"}}
                    IN  right # {} => \/ Matched(book) \in right
                                      \/ book.sheets[Matched(book)].label
  BY DEF RightYearPreferred
<1> DEFINE right == {i \in DOMAIN book.sheets :
                        /\ book.sheets[i].month
                        /\ book.sheets[i].year \in {"full", "short"}}
           named == {i \in DOMAIN book.sheets : book.sheets[i].label}
<1>1. SUFFICES ASSUME right # {}
               PROVE  Matched(book) \in right \/ book.sheets[Matched(book)].label
  OBVIOUS
<1>2. book.sheets \in Seq(SheetName) /\ DOMAIN book.sheets = 1..Len(book.sheets)
      /\ Len(book.sheets) \in Nat
  BY BooksAssumption
<1>3. Preferred(book) = right
  BY DEF Preferred, PreferredByMonth, HasYear
<1> DEFINE accepting == {p \in DOMAIN Passes(book) : Passes(book)[p] # {}}
<1>4. accepting # {} => Matched(book) = Min(Passes(book)[Min(accepting)])
  BY DEF Matched
<1>5. CASE Len(book.sheets) = 1
  <2>1. Passes(book) = <<{1}>>
    BY <1>5 DEF Passes
  <2>2. DOMAIN Passes(book) = {1} /\ Passes(book)[1] = {1}
    BY <2>1
  <2>3. accepting = {1}
    BY <2>2
  <2> HIDE DEF accepting
  <2>4. Min(accepting) = 1 /\ Min({1}) = 1
    <3>1. PICK T : T = {1}
      OBVIOUS
    <3>2. T \in SUBSET Nat /\ T # {}
      BY <3>1
    <3>3. Min(T) \in T
      BY <3>2, MinIs
    <3>4. QED
      BY <2>3, <3>1, <3>3
  <2>5. Matched(book) = 1
    BY <1>4, <2>2, <2>3, <2>4
  <2>6. QED
    BY <1>1, <1>2, <1>5, <2>5
<1>6. CASE Len(book.sheets) # 1
  <2>1. Passes(book) = <<named, right, PreferredByMonth(book)>>
    BY <1>3, <1>6 DEF Passes
  <2>2. named \in SUBSET Nat /\ right \in SUBSET Nat
    BY <1>2
  <2>3. right # {} /\ \A i \in named : book.sheets[i].label
    BY <1>1
  <2> HIDE DEF named, right
  <2>4. /\ DOMAIN Passes(book) = 1..3
        /\ Passes(book)[1] = named /\ Passes(book)[2] = right
    BY <2>1
  <2>5. /\ accepting \in SUBSET Nat /\ 2 \in accepting
        /\ \A p \in accepting : p \in 1..3
        /\ 1 \in accepting <=> named # {}
    BY <2>3, <2>4
  <2> HIDE DEF accepting
  <2>6. /\ Min(accepting) \in accepting /\ \A p \in accepting : Min(accepting) <= p
        /\ Min(accepting) \in 1..3
    BY <2>5, MinIs
  <2>7. CASE named # {}
    <3>1. Min(accepting) = 1
      BY <2>5, <2>6, <2>7
    <3>2. Matched(book) \in named
      BY <1>4, <2>2, <2>4, <2>5, <2>7, <3>1, MinIs
    <3>3. QED
      BY <2>3, <3>2
  <2>8. CASE named = {}
    <3>1. Min(accepting) # 1 /\ Min(accepting) <= 2
      BY <2>5, <2>6, <2>8
    <3>2. Min(accepting) = 2
      BY <2>6, <3>1
    <3>3. QED
      BY <1>4, <2>2, <2>3, <2>4, <2>5, <3>2, MinIs
  <2>9. QED
    BY <2>7, <2>8
<1>7. QED
  BY <1>5, <1>6
-----------------------------------------------------------------------------
(* The columns of a supplier.                                              *)

Sheets == Seq(Seq(STRING))

Texts == STRING \cup {""}

\* A sheet with the two rows the search for columns looks at.
Headed == sheet \in Sheets /\ Len(sheet) >= 2

LEMMA CellType ==
    ASSUME sheet \in Sheets, NEW r, NEW c
    PROVE  Cell(r, c) \in Texts
<1>1. CASE r \in DOMAIN sheet /\ c \in DOMAIN sheet[r]
  <2>1. sheet[r] \in Seq(STRING)
    BY <1>1 DEF Sheets
  <2>2. sheet[r][c] \in STRING
    BY <1>1, <2>1
  <2>3. QED
    BY <1>1, <2>2 DEF Cell, Texts
<1>2. CASE ~(r \in DOMAIN sheet /\ c \in DOMAIN sheet[r])
  BY <1>2 DEF Cell, Texts
<1>3. QED
  BY <1>1, <1>2

LEMMA MaxColsType ==
    ASSUME Headed
    PROVE  MaxCols \in Nat
<1>1. sheet[1] \in Seq(STRING) /\ sheet[2] \in Seq(STRING)
  BY DEF Headed, Sheets
<1>2. Len(sheet[1]) \in Nat /\ Len(sheet[2]) \in Nat
  BY <1>1
<1>3. PICK m, n \in Nat : m = Len(sheet[1]) /\ n = Len(sheet[2])
  BY <1>2
<1>4. Max({m, n}) \in {m, n}
  BY MaxIs
<1>5. QED
  BY <1>3, <1>4 DEF MaxCols

LEMMA ColumnNumber ==
    ASSUME Headed, NEW c \in 1..MaxCols
    PROVE  c \in Nat \ {0}
<1>1. MaxCols \in Nat
  BY MaxColsType
<1>2. QED
  BY <1>1

LEMMA WindowIs ==
    ASSUME Headed, NEW c \in Nat
    PROVE  /\ Window(c) \in SUBSET Int
           /\ \A k \in Window(c) : /\ c <= k /\ k < c + SubColumns /\ k <= MaxCols
                                   /\ \A j \in (c + 1)..k : ~IsCompany(j)
           /\ \A k \in Nat : /\ c <= k /\ k < c + SubColumns /\ k <= MaxCols
                             /\ \A j \in (c + 1)..k : ~IsCompany(j)
                             => k \in Window(c)
<1>1. SubColumns \in Nat
  BY BooksAssumption
<1>2. QED
  BY <1>1 DEF Window

\* The last of the columns of a kind, 0 for none.
LEMMA ColumnIs ==
    ASSUME Headed, NEW c \in Nat \ {0}, NEW kind
    PROVE  /\ ColumnOf(c, kind) \in Nat
           /\ ColumnOf(c, kind) # 0 =>
                 /\ ColumnOf(c, kind) \in Window(c)
                 /\ Kind(SubHeader(ColumnOf(c, kind))) = kind
           /\ \A k \in Window(c) : Kind(SubHeader(k)) = kind =>
                 k <= ColumnOf(c, kind) /\ ColumnOf(c, kind) # 0
<1> DEFINE found == {k \in Window(c) : Kind(SubHeader(k)) = kind}
<1>1. ColumnOf(c, kind) = IF found = {} THEN 0 ELSE Max(found)
  BY DEF ColumnOf
<1>2. found \in SUBSET Int /\ MaxCols \in Int /\ \A k \in found : c <= k /\ k <= MaxCols
  BY WindowIs, MaxColsType
<1>3. \A k \in found : k \in Window(c) /\ Kind(SubHeader(k)) = kind
  OBVIOUS
<1>4. \A k \in Window(c) : Kind(SubHeader(k)) = kind => k \in found
  OBVIOUS
<1> HIDE DEF found
<1>5. CASE found = {}
  BY <1>1, <1>4, <1>5
<1>6. CASE found # {}
  <2>1. Max(found) \in found /\ \A k \in found : k <= Max(found)
    BY <1>2, <1>6, MaxIs
  <2>2. PICK m : m = Max(found)
    OBVIOUS
  <2>3. m \in Int /\ c <= m /\ c \in Nat /\ c # 0
    BY <1>2, <2>1, <2>2
  <2>4. m \in Nat /\ m # 0
    BY <2>3
  <2>5. QED
    BY <1>1, <1>3, <1>4, <1>6, <2>1, <2>2, <2>4
<1>7. QED
  BY <1>5, <1>6

\* The columns of a supplier lie between its own and the one where the search
\* goes on, and none between the two is another supplier's.
LEMMA AdvanceIs ==
    ASSUME Headed, NEW c \in Nat \ {0}, c <= MaxCols
    PROVE  /\ Advance(c) \in Nat /\ c <= Advance(c) /\ Advance(c) <= MaxCols
           /\ \A kind \in {"purchase", "payment", "balance"} : ColumnOf(c, kind) <= Advance(c)
           /\ \A j \in (c + 1)..Advance(c) : ~IsCompany(j)
<1>1. PICK p, q, b : p = ColumnOf(c, "purchase") /\ q = ColumnOf(c, "payment")
                     /\ b = ColumnOf(c, "balance")
  OBVIOUS
<1> DEFINE S == {c, p, q, b}
<1>2. /\ \A n \in S : n \in Nat /\ n <= MaxCols
      /\ \A n \in S : \A j \in (c + 1)..n : ~IsCompany(j)
  <2>1. ASSUME NEW n \in S, n # 0, n # c PROVE n \in Window(c)
    BY <1>1, <2>1, ColumnIs
  <2>2. \A n \in S : n \in Nat
    BY <1>1, ColumnIs
  <2>3. ASSUME NEW n \in S
        PROVE  n <= MaxCols /\ \A j \in (c + 1)..n : ~IsCompany(j)
    <3>1. CASE n = 0 \/ n = c
      BY <3>1, MaxColsType
    <3>2. CASE n # 0 /\ n # c
      BY <2>1, <3>2, WindowIs
    <3>3. QED
      BY <3>1, <3>2
  <2>4. QED
    BY <2>2, <2>3
<1>3. Advance(c) = Max(S)
  BY <1>1 DEF Advance
<1>4. S \in SUBSET Int /\ S # {} /\ MaxCols \in Int
  BY <1>2, MaxColsType
<1>5. c \in S /\ p \in S /\ q \in S /\ b \in S
  OBVIOUS
<1> HIDE DEF S
<1>6. Advance(c) \in S /\ \A n \in S : n <= Advance(c)
  BY <1>2, <1>3, <1>4, MaxIs
<1>7. QED
  BY <1>1, <1>2, <1>5, <1>6
-----------------------------------------------------------------------------
(* Detecting the suppliers.                                                *)

Blocks == [name : Texts, at : [Kinds -> Nat]]

AmountKinds == {"purchase", "payment", "balance"}

Types ==
    /\ book \in Books /\ sheet \in Sheets
    /\ pc \in {"match", "detect", "parse", "done", "failed"}
    /\ col \in Nat \ {0} /\ row \in Nat
    /\ blocks \in Seq(Blocks)

\* What has been detected: the blocks of all columns that the search has
\* passed, and no other.
Detected ==
    /\ \A i \in DOMAIN blocks, k \in AmountKinds : blocks[i].at[k] < col
    /\ blocks # <<>> \/ col # 1 => Len(sheet) >= 2
    /\ \A i \in DOMAIN blocks :
          \E c \in 1..MaxCols : IsBlock(c) /\ blocks[i] = Block(c)
    /\ \A c \in 1..(col - 1) : IsBlock(c) => \E i \in DOMAIN blocks : blocks[i] = Block(c)
    /\ pc = "match" => col = 1 /\ blocks = <<>>

DetectInv == Types /\ Detected /\ BlocksDisjoint

LEMMA BlockType ==
    ASSUME Headed, NEW c \in Nat \ {0}
    PROVE  Block(c) \in Blocks /\ \A k \in Kinds : Block(c).at[k] = ColumnOf(c, k)
  BY ColumnIs, CellType DEF Block, Blocks, Headed

LEMMA BlocksAt ==
    ASSUME Types, NEW i \in DOMAIN blocks, NEW k \in Kinds
    PROVE  blocks[i].at[k] \in Nat
<1>1. blocks[i] \in Blocks
  BY DEF Types
<1>2. QED
  BY <1>1 DEF Blocks

LEMMA TypesStep == Types /\ [ExcelNext]_excelVars => Types'
<1> SUFFICES ASSUME Types, [ExcelNext]_excelVars PROVE Types'
  OBVIOUS
<1>1. ASSUME pc' \in {"match", "detect", "parse", "done", "failed"},
             UNCHANGED <<book, sheet, col, row, blocks>>
      PROVE  Types'
  BY <1>1 DEF Types
<1>2. CASE NoSheet \/ TooFewRows \/ DetectFails \/ InsertFails
  BY <1>1, <1>2 DEF NoSheet, TooFewRows, DetectFails, InsertFails, Fail
<1>3. CASE InsertAll \/ UNCHANGED excelVars
  BY <1>1, <1>3 DEF InsertAll, excelVars, Types
<1>4. CASE ReadSheet
  BY <1>4, BooksAssumption DEF ReadSheet, Types, Sheets
<1>5. CASE DetectBlock
  <2>1. Headed /\ col <= MaxCols
    BY <1>5 DEF DetectBlock, Headed, Types
  <2>2. col' \in Nat \ {0}
    <3>1. Advance(col) \in Nat
      BY <2>1, AdvanceIs DEF Types
    <3>2. QED
      BY <1>5, <3>1 DEF DetectBlock, Types
  <2>3. blocks' \in Seq(Blocks)
    <3>1. Block(col) \in Blocks /\ blocks \in Seq(Blocks)
      BY <2>1, BlockType DEF Types
    <3>2. Append(blocks, Block(col)) \in Seq(Blocks)
      BY <3>1
    <3>3. QED
      BY <1>5, <3>1, <3>2 DEF DetectBlock
  <2>4. QED
    BY <1>5, <2>2, <2>3 DEF DetectBlock, Types
<1>6. CASE StartBody
  BY <1>6 DEF StartBody, FirstBodyRow, Types
<1>7. CASE PassEmptyRow \/ ParseRow
  BY <1>7 DEF PassEmptyRow, ParseRow, Types
<1>8. QED
  BY <1>2, <1>3, <1>4, <1>5, <1>6, <1>7 DEF ExcelNext

\* The columns of the next block are not those of an earlier one, nor the same.
LEMMA DetectStep ==
    ASSUME DetectInv, DetectBlock
    PROVE  Detected' /\ BlocksDisjoint'
<1>1. Headed /\ col <= MaxCols /\ col \in Nat \ {0} /\ Types' /\ UNCHANGED <<sheet, pc>>
  BY TypesStep DEF DetectInv, DetectBlock, Headed, Types, ExcelNext
<1>2. /\ \A c : IsBlock(c)' <=> IsBlock(c)
      /\ \A c : Block(c)' = Block(c)
      /\ MaxCols' = MaxCols
  BY <1>1 DEF IsBlock, Block, MaxCols, IsCompany, Cell, ColumnOf, Window, SubHeader
<1>3. CASE ~IsBlock(col)
  <2>1. blocks' = blocks /\ col' = col + 1
    BY <1>3 DEF DetectBlock
  <2>2. \A c \in 1..(col' - 1) : c \in 1..(col - 1) \/ c = col
    BY <1>1, <2>1
  <2>3. \A i \in DOMAIN blocks, k \in AmountKinds : blocks[i].at[k] \in Nat
    BY BlocksAt DEF DetectInv, AmountKinds, Kinds
  <2>4. QED
    BY <1>1, <1>2, <1>3, <2>1, <2>2, <2>3 DEF DetectInv, Detected, BlocksDisjoint, DetectBlock
<1>4. CASE IsBlock(col)
  <2>1. blocks' = Append(blocks, Block(col)) /\ col' = Advance(col) + 1
    BY <1>4 DEF DetectBlock
  <2> DEFINE n == Len(blocks) + 1
  <2>2. /\ Len(blocks) \in Nat /\ DOMAIN blocks = 1..Len(blocks)
        /\ DOMAIN blocks' = DOMAIN blocks \cup {n} /\ n \notin DOMAIN blocks
        /\ blocks'[n] = Block(col)
        /\ \A i \in DOMAIN blocks : blocks'[i] = blocks[i]
    BY <2>1, BlockType, <1>1 DEF DetectInv, Types
  <2> HIDE DEF n
  <2>3. /\ Advance(col) \in Nat /\ col <= Advance(col) /\ Advance(col) <= MaxCols
        /\ \A k \in AmountKinds : ColumnOf(col, k) <= Advance(col)
        /\ \A j \in (col + 1)..Advance(col) : ~IsCompany(j)
    BY <1>1, AdvanceIs DEF AmountKinds
  <2>4. \A k \in AmountKinds : /\ k \in Kinds
                           /\ Block(col).at[k] = ColumnOf(col, k)
                           /\ Block(col).at[k] \in Nat
    BY <1>1, BlockType, ColumnIs DEF AmountKinds, Kinds
  <2>5. \A i \in DOMAIN blocks, k \in AmountKinds : blocks[i].at[k] \in Nat /\ blocks[i].at[k] < col
    BY BlocksAt DEF DetectInv, Detected, AmountKinds, Kinds
  <2>6. ASSUME NEW k \in AmountKinds, Block(col).at[k] # 0
        PROVE  col <= Block(col).at[k] /\ Kind(SubHeader(Block(col).at[k])) = k
    BY <1>1, <2>4, <2>6, ColumnIs, WindowIs
  <2>7. BlocksDisjoint'
    <3> SUFFICES ASSUME NEW i \in DOMAIN blocks', NEW j \in DOMAIN blocks',
                        NEW k \in AmountKinds, NEW l \in AmountKinds, <<i, k>> # <<j, l>>,
                        blocks'[i].at[k] # 0, blocks'[i].at[k] = blocks'[j].at[l]
                 PROVE  FALSE
      BY DEF BlocksDisjoint, AmountKinds
    <3>1. CASE i = n /\ j = n
      BY <2>2, <2>6, <3>1
    <3>2. CASE i = n /\ j # n
      BY <1>1, <2>2, <2>4, <2>5, <2>6, <3>2
    <3>3. CASE i # n /\ j = n
      BY <1>1, <2>2, <2>4, <2>5, <2>6, <3>3
    <3>4. CASE i # n /\ j # n
      BY <2>2, <3>4 DEF DetectInv, BlocksDisjoint, AmountKinds
    <3>5. QED
      BY <3>1, <3>2, <3>3, <3>4
  <2>8. \A i \in DOMAIN blocks', k \in AmountKinds : blocks'[i].at[k] < col'
    BY <1>1, <2>1, <2>2, <2>3, <2>4, <2>5
  <2>9. \A i \in DOMAIN blocks' : \E c \in 1..MaxCols : IsBlock(c) /\ blocks'[i] = Block(c)
    <3>1. col \in 1..MaxCols
      BY <1>1, MaxColsType
    <3>2. QED
      BY <1>4, <2>2, <3>1 DEF DetectInv, Detected
  <2>10. ASSUME NEW c \in 1..(col' - 1), IsBlock(c)
         PROVE  \E i \in DOMAIN blocks' : blocks'[i] = Block(c)
    <3>1. c \in 1..(col - 1) \/ c = col \/ c \in (col + 1)..Advance(col)
      BY <1>1, <2>1, <2>3
    <3>2. c \notin (col + 1)..Advance(col)
      BY <2>3, <2>10 DEF IsBlock
    <3>3. QED
      BY <2>2, <2>10, <3>1, <3>2 DEF DetectInv, Detected
  <2>11. QED
    BY <1>1, <1>2, <2>7, <2>8, <2>9, <2>10 DEF Detected, Headed, DetectBlock
<1>5. QED
  BY <1>3, <1>4

LEMMA DetectNext == DetectInv /\ [ExcelNext]_excelVars => DetectInv'
<1> SUFFICES ASSUME DetectInv, [ExcelNext]_excelVars PROVE DetectInv'
  OBVIOUS
<1>1. Types'
  BY TypesStep DEF DetectInv
<1>2. CASE DetectBlock
  BY <1>1, <1>2, DetectStep DEF DetectInv
<1>3. CASE ReadSheet
  <2>1. col' = 1 /\ blocks' = <<>> /\ pc' = "detect"
    BY <1>3 DEF ReadSheet, DetectInv, Detected
  <2>2. QED
    BY <1>1, <2>1 DEF DetectInv, Detected, BlocksDisjoint
<1>4. CASE UNCHANGED <<sheet, col, blocks>> /\ (pc' # "match" \/ pc' = pc)
  <2>1. /\ \A c : IsBlock(c)' <=> IsBlock(c)
        /\ \A c : Block(c)' = Block(c)
        /\ MaxCols' = MaxCols
    BY <1>4 DEF IsBlock, Block, MaxCols, IsCompany, Cell, ColumnOf, Window, SubHeader
  <2>2. QED
    BY <1>1, <1>4, <2>1 DEF DetectInv, Detected, BlocksDisjoint
<1>5. QED
  BY <1>2, <1>3, <1>4 DEF ExcelNext, excelVars, NoSheet, TooFewRows, DetectFails, InsertFails, Fail,
     InsertAll, StartBody, PassEmptyRow, ParseRow

LEMMA DetectInit == ExcelInit => DetectInv
<1> SUFFICES ASSUME ExcelInit PROVE DetectInv
  OBVIOUS
<1>1. sheet = <<>> /\ blocks = <<>> /\ col = 1 /\ row = 1 /\ book \in Books /\ pc = "match"
  BY DEF ExcelInit
<1>2. QED
  BY <1>1 DEF DetectInv, Types, Detected, BlocksDisjoint, Sheets

\* Whatever the headers look like, detectSupplierBlocks gives no column to two
\* suppliers, nor to one in two ways, for sheets of any width.
THEOREM NoColumnTwice == ExcelSpec => []BlocksDisjoint
<1>1. DetectInv => BlocksDisjoint
  BY DEF DetectInv
<1>2. ExcelInit => DetectInv
  BY DetectInit
<1>3. DetectInv /\ [ExcelNext]_excelVars => DetectInv'
  BY DetectNext
<1>4. QED
  BY <1>1, <1>2, <1>3, PTL DEF ExcelSpec

-----------------------------------------------------------------------------
(* Reading a tidy sheet.                                                   *)

\* What the rows before the next one gave has been kept, and nothing else.
RowsRead ==
    /\ pc \in {"match", "detect"} => txs = {}
    /\ pc \in {"parse", "done"} =>
          /\ Len(sheet) >= 2 /\ col > MaxCols /\ row >= FirstBodyRow
          /\ \A tx \in txs :
                \E r \in FirstBodyRow..Len(sheet), i \in DOMAIN blocks : tx \in RowTxs(r, blocks[i])
          /\ \A r \in FirstBodyRow..Len(sheet), i \in DOMAIN blocks :
                r < row => RowTxs(r, blocks[i]) \subseteq txs /\ RowErrors(r, blocks[i]) \subseteq errors
    /\ pc = "done" => row > Len(sheet)

ReadInv == DetectInv /\ RowsRead

LEMMA EmptyRow ==
    ASSUME NEW r, NEW b, sheet[r] = <<>>
    PROVE  RowTxs(r, b) = {} /\ RowErrors(r, b) = {}
<1>1. \A c : Cell(r, c) = ""
  BY DEF Cell
<1>2. IsSummaryOrEmpty(r, b)
  BY <1>1 DEF IsSummaryOrEmpty
<1>3. QED
  BY <1>2 DEF RowTxs, RowErrors, Looked

LEMMA SameSheet ==
    ASSUME sheet' = sheet
    PROVE  /\ MaxCols' = MaxCols /\ FirstBodyRow' = FirstBodyRow
           /\ \A r, b : RowTxs(r, b)' = RowTxs(r, b)
           /\ \A r, b : RowErrors(r, b)' = RowErrors(r, b)
  BY DEF MaxCols, FirstBodyRow, RowTxs, RowErrors, Looked, Tx, IsSummaryOrEmpty, Cell

LEMMA FirstRow == FirstBodyRow \in {3, 4}
  BY DEF FirstBodyRow

LEMMA RowsReadStep ==
    ASSUME ReadInv, [ExcelNext]_excelVars
    PROVE  RowsRead'
<1>1. /\ Types /\ RowsRead /\ row \in Nat /\ Len(sheet) \in Nat
      /\ DOMAIN blocks = 1..Len(blocks) /\ FirstBodyRow \in Nat
  BY FirstRow DEF ReadInv, DetectInv, Types, Sheets
<1>2. CASE pc' = "failed"
  BY <1>2 DEF RowsRead
<1>3. CASE ReadSheet \/ DetectBlock
  BY <1>1, <1>3 DEF ReadSheet, DetectBlock, RowsRead
<1>4. CASE StartBody
  <2>1. /\ pc' = "parse" /\ sheet' = sheet /\ blocks' = blocks /\ row' = FirstBodyRow
        /\ txs' = {} /\ Len(sheet) >= 2 /\ col > MaxCols /\ col' = col
    BY <1>1, <1>4 DEF StartBody, RowsRead
  <2>2. QED
    BY <1>1, <2>1, SameSheet DEF RowsRead
<1>5. CASE PassEmptyRow
  <2>1. /\ pc = "parse" /\ pc' = pc /\ row <= Len(sheet) /\ sheet[row] = <<>> /\ row' = row + 1
        /\ UNCHANGED <<sheet, col, blocks, txs, errors>>
    BY <1>5 DEF PassEmptyRow
  <2>2. \A i \in DOMAIN blocks : RowTxs(row, blocks[i]) = {} /\ RowErrors(row, blocks[i]) = {}
    BY <2>1, EmptyRow
  <2>3. \A r \in FirstBodyRow..Len(sheet) : r < row + 1 => r < row \/ r = row
    BY <1>1
  <2>4. QED
    BY <1>1, <2>1, <2>2, <2>3, SameSheet DEF RowsRead
<1>6. CASE ParseRow
  <2>1. /\ pc = "parse" /\ pc' = pc /\ row <= Len(sheet) /\ row' = row + 1
        /\ UNCHANGED <<sheet, col, blocks>>
        /\ txs' = txs \cup UNION {RowTxs(row, b) : b \in Range(blocks)}
        /\ errors' = errors \cup UNION {RowErrors(row, b) : b \in Range(blocks)}
    BY <1>6 DEF ParseRow
  <2>2. Range(blocks) = {blocks[i] : i \in DOMAIN blocks}
    BY DEF Range
  <2>3. /\ \A r \in FirstBodyRow..Len(sheet) : r < row + 1 => r < row \/ r = row
        /\ row \in FirstBodyRow..Len(sheet)
    BY <1>1, <2>1 DEF RowsRead
  <2>4. \A i \in DOMAIN blocks : RowTxs(row, blocks[i]) \subseteq txs' /\ RowErrors(row, blocks[i]) \subseteq errors'
    BY <2>1, <2>2
  <2>5. ASSUME NEW tx \in txs'
        PROVE  \E r \in FirstBodyRow..Len(sheet), i \in DOMAIN blocks : tx \in RowTxs(r, blocks[i])
    <3>1. CASE tx \in txs
      BY <2>1, <3>1, <1>1 DEF RowsRead
    <3>2. CASE tx \notin txs
      <4>1. tx \in UNION {RowTxs(row, b) : b \in Range(blocks)}
        BY <2>1, <3>2
      <4>2. PICK i \in DOMAIN blocks : tx \in RowTxs(row, blocks[i])
        BY <2>2, <4>1
      <4>3. QED
        BY <2>3, <4>2
    <3>3. QED
      BY <3>1, <3>2
  <2>6. txs \subseteq txs' /\ errors \subseteq errors'
    BY <2>1
  <2>7. ASSUME NEW r \in FirstBodyRow..Len(sheet), NEW i \in DOMAIN blocks, r < row'
        PROVE  RowTxs(r, blocks[i]) \subseteq txs' /\ RowErrors(r, blocks[i]) \subseteq errors'
    <3>1. r < row \/ r = row
      BY <2>1, <2>3, <2>7
    <3>2. CASE r < row
      BY <1>1, <2>1, <2>6, <3>2 DEF RowsRead
    <3>3. QED
      BY <2>4, <3>1, <3>2
  <2>8. Len(sheet) >= 2 /\ col > MaxCols /\ row + 1 >= FirstBodyRow
    BY <1>1, <2>1 DEF RowsRead
  <2>9. QED
    BY <2>1, <2>5, <2>7, <2>8, SameSheet DEF RowsRead
<1>7. CASE InsertAll
  BY <1>1, <1>7, SameSheet DEF InsertAll, RowsRead
<1>8. CASE UNCHANGED excelVars
  BY <1>1, <1>8, SameSheet DEF excelVars, RowsRead
<1>9. QED
  BY <1>2, <1>3, <1>4, <1>5, <1>6, <1>7, <1>8
     DEF ExcelNext, NoSheet, TooFewRows, DetectFails, InsertFails, Fail

LEMMA ReadNext == ReadInv /\ [ExcelNext]_excelVars => ReadInv'
<1> SUFFICES ASSUME ReadInv, [ExcelNext]_excelVars PROVE ReadInv'
  OBVIOUS
<1>1. QED
  BY DetectNext, RowsReadStep DEF ReadInv

LEMMA ReadInit == ExcelInit => ReadInv
<1> SUFFICES ASSUME ExcelInit PROVE ReadInv
  OBVIOUS
<1>1. pc = "match" /\ txs = {}
  BY DEF ExcelInit
<1>2. QED
  BY <1>1, DetectInit DEF ReadInv, RowsRead

\* A column belongs to the company it follows with no other between.
LEMMA OwnerOf ==
    ASSUME NEW k \in Nat, NEW c \in 1..k, IsCompany(c), \A j \in (c + 1)..k : ~IsCompany(j)
    PROVE  Owner(k) = c
<1> DEFINE left == {n \in 1..k : IsCompany(n)}
<1>1. Owner(k) = IF left = {} THEN 0 ELSE Max(left)
  BY DEF Owner
<1>2. c \in left /\ \A n \in left : n \in Int /\ n <= c
  OBVIOUS
<1> HIDE DEF left
<1>3. Max(left) \in left /\ \A n \in left : n <= Max(left)
  BY <1>2, MaxIs
<1>4. Max(left) <= c /\ c <= Max(left) /\ Max(left) \in Int
  BY <1>2, <1>3
<1>5. QED
  BY <1>1, <1>2, <1>4

LEMMA OwnerIs ==
    ASSUME NEW k \in Nat, Owner(k) # 0
    PROVE  /\ Owner(k) \in 1..k /\ IsCompany(Owner(k))
           /\ \A j \in (Owner(k) + 1)..k : ~IsCompany(j)
<1> DEFINE left == {n \in 1..k : IsCompany(n)}
<1>1. Owner(k) = Max(left) /\ left # {}
  BY DEF Owner
<1>2. /\ \A n \in left : n \in 1..k /\ n \in Int /\ n <= k /\ IsCompany(n)
      /\ \A n \in 1..k : IsCompany(n) => n \in left
      /\ left \in SUBSET Int /\ k \in Int
  OBVIOUS
<1> HIDE DEF left
<1>3. Max(left) \in left /\ \A n \in left : n <= Max(left)
  BY <1>1, <1>2, MaxIs
<1>4. PICK o \in 1..k : o = Owner(k)
  BY <1>1, <1>2, <1>3
<1>5. \A j \in (o + 1)..k : j \in 1..k /\ j > o
  OBVIOUS
<1>6. \A j \in (o + 1)..k : ~IsCompany(j)
  BY <1>1, <1>2, <1>3, <1>4, <1>5
<1>7. QED
  BY <1>1, <1>2, <1>3, <1>4, <1>6

\* A column of a detected supplier is one that belongs to it.
LEMMA BlockColumn ==
    ASSUME Headed, NEW c \in 1..MaxCols, IsCompany(c), NEW kind, ColumnOf(c, kind) # 0
    PROVE  /\ ColumnOf(c, kind) \in 1..MaxCols /\ Owner(ColumnOf(c, kind)) = c
           /\ Kind(SubHeader(ColumnOf(c, kind))) = kind
<1>1. MaxCols \in Nat /\ c \in Nat \ {0} /\ c \in Nat
  BY MaxColsType
<1>2. PICK m \in Nat : m = ColumnOf(c, kind) /\ m \in Window(c) /\ Kind(SubHeader(m)) = kind
  BY <1>1, ColumnIs
<1>3. c <= m /\ m <= MaxCols /\ \A j \in (c + 1)..m : ~IsCompany(j)
  BY <1>1, <1>2, WindowIs
<1>4. m \in 1..MaxCols /\ c \in 1..m
  BY <1>1, <1>3
<1>5. Owner(m) = c
  BY <1>3, <1>4, OwnerOf
<1>6. QED
  BY <1>2, <1>4, <1>5

\* In a tidy sheet every amount column makes its company a supplier, of which
\* it is the column of its kind.
LEMMA AmountColumn ==
    ASSUME Headed, Tidy, NEW c \in 1..MaxCols, IsAmountColumn(c)
    PROVE  /\ Owner(c) \in 1..MaxCols /\ IsBlock(Owner(c))
           /\ ColumnOf(Owner(c), Kind(SubHeader(c))) = c
<1>1. /\ Owner(c) # 0 /\ ~IsTitle(Cell(1, Owner(c))) /\ c < Owner(c) + SubColumns
      /\ \A d \in 1..MaxCols :
            Owner(d) = Owner(c) /\ Kind(SubHeader(d)) = Kind(SubHeader(c)) => c = d
  BY DEF Tidy
<1>2. MaxCols \in Nat /\ c \in Nat /\ c # 0 /\ c <= MaxCols
  BY MaxColsType
<1>3. PICK o \in 1..c : o = Owner(c) /\ IsCompany(o) /\ \A j \in (o + 1)..c : ~IsCompany(j)
  BY <1>1, <1>2, OwnerIs
<1>4. o \in Nat \ {0} /\ o \in Nat /\ o \in 1..MaxCols
  BY <1>2
<1>5. c \in Window(o)
  BY <1>1, <1>2, <1>3, <1>4, WindowIs
<1>6. ColumnOf(o, Kind(SubHeader(c))) # 0
  BY <1>4, <1>5, ColumnIs
<1>7. ColumnOf(o, Kind(SubHeader(c))) = c
  BY <1>1, <1>3, <1>4, <1>6, BlockColumn
<1>8. IsBlock(o)
  BY <1>1, <1>2, <1>3, <1>7 DEF IsBlock, IsAmountColumn
<1>9. QED
  BY <1>3, <1>4, <1>7, <1>8

LEMMA NoCell ==
    ASSUME sheet \in Sheets, NEW r
    PROVE  Cell(r, 0) = ""
<1>1. ASSUME r \in DOMAIN sheet PROVE 0 \notin DOMAIN sheet[r]
  <2>1. sheet[r] \in Seq(STRING)
    BY <1>1 DEF Sheets
  <2>2. QED
    BY <2>1
<1>2. QED
  BY <1>1 DEF Cell

\* A supplier is passed over in a row of the body when one of its columns
\* names a total, and then only.
LEMMA SummaryRow ==
    ASSUME Headed, Tidy, NEW r \in DOMAIN sheet, r > book.heads,
           NEW c \in 1..MaxCols, IsAmountColumn(c), Cell(r, c) # ""
    PROVE  IsSummaryOrEmpty(r, Block(Owner(c))) <=> SumsUp(r, c)
<1>1. PICK o \in 1..MaxCols :
         o = Owner(c) /\ IsBlock(o) /\ ColumnOf(o, Kind(SubHeader(c))) = c
  BY AmountColumn
<1> DEFINE b == Block(o)
<1>2. MaxCols \in Nat /\ o \in Nat \ {0} /\ IsCompany(o)
  <2>1. MaxCols \in Nat
    BY MaxColsType
  <2>2. o \in Nat \ {0}
    BY ColumnNumber
  <2>3. IsCompany(o)
    BY <1>1 DEF IsBlock
  <2>4. QED
    BY <2>1, <2>2, <2>3
<1>3. \A k \in Kinds : b.at[k] = ColumnOf(o, k)
  BY DEF Block
<1>4. Kind(SubHeader(c)) \in {"payment", "purchase"}
  BY DEF IsAmountColumn
<1>5. Cell(r, 0) = ""
  BY NoCell DEF Headed
<1>6. b.at[Kind(SubHeader(c))] = c
  BY <1>1, <1>3, <1>4 DEF Kinds
<1> HIDE DEF b
<1>7. ASSUME SumsUp(r, c) PROVE IsSummaryOrEmpty(r, b)
  <2>1. PICK d \in 1..MaxCols : Owner(d) = o /\ IsSummaryCell(Cell(r, d))
    BY <1>1, <1>7 DEF SumsUp
  <2>2. Kind(SubHeader(d)) \in {"invoice", "customer", "status"} /\ ColumnOf(o, Kind(SubHeader(d))) = d
    BY <2>1 DEF Tidy
  <2>3. b.at[Kind(SubHeader(d))] = d
    BY <1>3, <2>2 DEF Kinds
  <2>4. QED
    BY <2>1, <2>2, <2>3 DEF IsSummaryOrEmpty
<1>8. ASSUME IsSummaryOrEmpty(r, b) PROVE SumsUp(r, c)
  <2>1. ~\A kind \in {"payment", "purchase", "invoice", "customer"} : Cell(r, b.at[kind]) = ""
    BY <1>4, <1>6
  <2>2. PICK kind \in {"invoice", "customer", "status"} : IsSummaryCell(Cell(r, b.at[kind]))
    BY <1>8, <2>1 DEF IsSummaryOrEmpty
  <2>3. b.at[kind] = ColumnOf(o, kind)
    BY <1>3 DEF Kinds
  <2>4. ColumnOf(o, kind) # 0
    BY <1>5, <2>2, <2>3 DEF IsSummaryCell
  <2>5. ColumnOf(o, kind) \in 1..MaxCols /\ Owner(ColumnOf(o, kind)) = o
    BY <1>1, <1>2, <2>4, BlockColumn
  <2>6. QED
    BY <1>1, <2>2, <2>3, <2>5 DEF SumsUp
<1>9. QED
  BY <1>1, <1>7, <1>8 DEF b

LEMMA BlankOrNumber ==
    ASSUME NEW t
    PROVE  /\ IsNumber(t) => ~IsBlankAmount(t)
           /\ ~IsBlankAmount(t) => t # ""
  BY DEF IsNumber, IsBlankAmount, Numbers

\* What is looked at in a body row is what the sheet's author means to be.
LEMMA LookedIs ==
    ASSUME Headed, Tidy, NEW r \in DOMAIN sheet, r > book.heads,
           NEW c \in 1..MaxCols, IsAmountColumn(c)
    PROVE  /\ Block(Owner(c)).at[Kind(SubHeader(c))] = c
           /\ Looked(r, Block(Owner(c)), Kind(SubHeader(c)))
                 <=> ~SumsUp(r, c) /\ ~IsBlankAmount(Cell(r, c))
<1>1. Block(Owner(c)).at[Kind(SubHeader(c))] = c
  BY AmountColumn DEF Block, Kinds, IsAmountColumn
<1>2. c # 0
  BY MaxColsType
<1>3. CASE IsBlankAmount(Cell(r, c))
  BY <1>1, <1>3 DEF Looked
<1>4. CASE ~IsBlankAmount(Cell(r, c))
  <2>1. Cell(r, c) # ""
    BY <1>4, BlankOrNumber
  <2>2. QED
    BY <1>1, <1>2, <1>4, <2>1, SummaryRow DEF Looked
<1>5. QED
  BY <1>1, <1>3, <1>4

\* The rows after the headers are read, and of the headers none but such as
\* hold no numbers.
LEMMA BodyRows ==
    ASSUME Types, Headed, Tidy
    PROVE  /\ book.heads \in Nat /\ Len(sheet) \in Nat /\ FirstBodyRow <= book.heads + 1
           /\ \A r \in FirstBodyRow..Len(sheet) : r \in DOMAIN sheet
           /\ \A r \in (book.heads + 1)..Len(sheet) :
                 r \in DOMAIN sheet /\ r > book.heads /\ r \in FirstBodyRow..Len(sheet)
           /\ \A r \in FirstBodyRow..Len(sheet), c \in 1..MaxCols :
                 r <= book.heads => ~IsNumber(Cell(r, c))
<1>1. /\ book.heads \in Nat /\ Len(sheet) \in Nat /\ DOMAIN sheet = 1..Len(sheet)
      /\ book.heads >= 2
  BY BooksAssumption DEF Types, Headed, Sheets, Tidy
<1>2. FirstBodyRow <= book.heads + 1
  <2>1. CASE book.heads = 2
    <3>1. Len(sheet) > 3 => \A c \in DOMAIN sheet[3] : ~IsHeaderCell(sheet[3][c])
      BY <1>1, <2>1 DEF Tidy
    <3>2. FirstBodyRow = 3
      BY <3>1 DEF FirstBodyRow
    <3>3. QED
      BY <2>1, <3>2
  <2>2. CASE book.heads # 2
    BY <1>1, <2>2, FirstRow
  <2>3. QED
    BY <2>1, <2>2
<1>3. \A r \in FirstBodyRow..Len(sheet) : r \in DOMAIN sheet /\ r >= 3
  BY <1>1, FirstRow
<1>4. \A r \in 3..book.heads, c \in 1..MaxCols : ~IsNumber(Cell(r, c))
  BY DEF Tidy
<1>5. QED
  BY <1>1, <1>2, <1>3, <1>4, FirstRow

\* The suppliers detected in a tidy sheet and their amount columns.
LEMMA AmountBlocks ==
    ASSUME Types, Detected, Headed, Tidy, col > MaxCols
    PROVE  /\ \A c \in 1..MaxCols : IsAmountColumn(c) =>
                 \E i \in DOMAIN blocks : blocks[i] = Block(Owner(c))
           /\ \A i \in DOMAIN blocks, kind \in {"purchase", "payment"} :
                 blocks[i].at[kind] # 0 =>
                    /\ blocks[i].at[kind] \in 1..MaxCols /\ IsAmountColumn(blocks[i].at[kind])
                    /\ Kind(SubHeader(blocks[i].at[kind])) = kind
                    /\ blocks[i] = Block(Owner(blocks[i].at[kind]))
<1>1. MaxCols \in Nat /\ col \in Nat
  BY MaxColsType DEF Types
<1>2. ASSUME NEW c \in 1..MaxCols, IsAmountColumn(c)
      PROVE  \E i \in DOMAIN blocks : blocks[i] = Block(Owner(c))
  <2>1. Owner(c) \in 1..MaxCols /\ IsBlock(Owner(c))
    BY <1>2, AmountColumn
  <2>2. Owner(c) \in 1..(col - 1)
    BY <1>1, <2>1
  <2>3. QED
    BY <2>1, <2>2 DEF Detected
<1>3. ASSUME NEW i \in DOMAIN blocks, NEW kind \in {"purchase", "payment"},
             blocks[i].at[kind] # 0
      PROVE  /\ blocks[i].at[kind] \in 1..MaxCols /\ IsAmountColumn(blocks[i].at[kind])
             /\ Kind(SubHeader(blocks[i].at[kind])) = kind
             /\ blocks[i] = Block(Owner(blocks[i].at[kind]))
  <2>1. PICK c \in 1..MaxCols : IsBlock(c) /\ blocks[i] = Block(c)
    BY DEF Detected
  <2>2. blocks[i].at[kind] = ColumnOf(c, kind)
    BY <2>1 DEF Block, Kinds
  <2>3. IsCompany(c)
    BY <2>1 DEF IsBlock
  <2>4. QED
    BY <1>3, <2>1, <2>2, <2>3, BlockColumn DEF IsAmountColumn
<1>4. QED
  BY <1>2, <1>3

\* What a transaction says of the cell it comes from.
Said(tx) == <<tx.row, tx.col, tx.supplier, tx.dir>>

Meant(p) == <<p[1], p[2], Cell(1, Owner(p[2])), Kind(SubHeader(p[2]))>>

LEMMA TxSays ==
    ASSUME NEW r, NEW c, NEW b, NEW kind, b = Block(Owner(c)), b.at[kind] = c,
           kind = Kind(SubHeader(c))
    PROVE  Said(Tx(r, b, kind)) = Meant(<<r, c>>)
  BY DEF Said, Meant, Tx, Block

LEMMA ReadIsMeant ==
    ASSUME ReadInv, pc = "done", Tidy, NEW tx \in txs
    PROVE  \E p \in Places : PositiveAt(p) /\ Said(tx) = Meant(p)
<1>1. Types /\ Detected /\ Headed /\ col > MaxCols
  BY DEF ReadInv, DetectInv, RowsRead, Headed, Types
<1>2. PICK r \in FirstBodyRow..Len(sheet), i \in DOMAIN blocks : tx \in RowTxs(r, blocks[i])
  BY DEF ReadInv, RowsRead
<1>3. PICK kind \in {"purchase", "payment"} :
         /\ Looked(r, blocks[i], kind) /\ IsNumber(Cell(r, blocks[i].at[kind]))
         /\ Numbers[Cell(r, blocks[i].at[kind])] > 0
         /\ tx = Tx(r, blocks[i], kind)
  BY <1>2 DEF RowTxs
<1>4. PICK c : c = blocks[i].at[kind]
  OBVIOUS
<1>5. /\ c \in 1..MaxCols /\ IsAmountColumn(c) /\ Kind(SubHeader(c)) = kind
      /\ blocks[i] = Block(Owner(c))
  BY <1>1, <1>3, <1>4, AmountBlocks DEF Looked
<1>6. /\ r \in DOMAIN sheet /\ r > book.heads /\ r \in (book.heads + 1)..Len(sheet)
  <2>1. ~(r <= book.heads)
    BY <1>1, <1>3, <1>4, <1>5, BodyRows
  <2>2. book.heads \in Nat /\ Len(sheet) \in Nat /\ r \in Nat /\ r <= Len(sheet)
    BY <1>1, BodyRows, FirstRow
  <2>3. QED
    BY <1>1, <2>1, <2>2, BodyRows
<1>7. ~SumsUp(r, c)
  BY <1>1, <1>3, <1>5, <1>6, LookedIs
<1> DEFINE p == <<r, c>>
<1>8. p \in Places /\ PositiveAt(p)
  BY <1>3, <1>4, <1>5, <1>6, <1>7 DEF Places, PositiveAt
<1>9. Said(tx) = Meant(p)
  BY <1>3, <1>4, <1>5, TxSays
<1>10. QED
  BY <1>8, <1>9

LEMMA MeantIsRead ==
    ASSUME ReadInv, pc = "done", Tidy, NEW p \in Places
    PROVE  /\ PositiveAt(p) => \E tx \in txs : Said(tx) = Meant(p)
           /\ IsNumber(Cell(p[1], p[2])) \/ IsBlankAmount(Cell(p[1], p[2])) \/ p \in errors
<1>1. Types /\ Detected /\ Headed /\ col > MaxCols /\ row > Len(sheet) /\ row \in Nat
  BY DEF ReadInv, DetectInv, RowsRead, Headed, Types
<1>2. PICK r \in (book.heads + 1)..Len(sheet), c \in 1..MaxCols :
         p = <<r, c>> /\ IsAmountColumn(c) /\ ~SumsUp(r, c)
  BY DEF Places
<1>3. p[1] = r /\ p[2] = c
  BY <1>2
<1>4. r \in DOMAIN sheet /\ r > book.heads /\ r \in FirstBodyRow..Len(sheet) /\ r < row
  <2>1. Len(sheet) \in Nat /\ book.heads \in Nat
    BY <1>1, BodyRows
  <2>2. r < row
    BY <1>1, <2>1
  <2>3. QED
    BY <1>1, <2>2, BodyRows
<1>5. PICK i \in DOMAIN blocks : blocks[i] = Block(Owner(c))
  BY <1>1, <1>2, AmountBlocks
<1>6. PICK kind \in {"purchase", "payment"} : kind = Kind(SubHeader(c))
  BY <1>2 DEF IsAmountColumn
<1>7. /\ blocks[i].at[kind] = c
      /\ ~IsBlankAmount(Cell(r, c)) => Looked(r, blocks[i], kind)
  BY <1>1, <1>2, <1>4, <1>5, <1>6, LookedIs
<1>8. RowTxs(r, blocks[i]) \subseteq txs /\ RowErrors(r, blocks[i]) \subseteq errors
  BY <1>4 DEF ReadInv, RowsRead
<1>9. ASSUME PositiveAt(p) PROVE \E tx \in txs : Said(tx) = Meant(p)
  <2>1. IsNumber(Cell(r, c)) /\ Numbers[Cell(r, c)] > 0
    BY <1>3, <1>9 DEF PositiveAt
  <2>2. Tx(r, blocks[i], kind) \in RowTxs(r, blocks[i])
    BY <1>7, <2>1, BlankOrNumber DEF RowTxs
  <2>3. QED
    BY <1>2, <1>5, <1>6, <1>7, <1>8, <2>2, TxSays
<1>10. ASSUME ~IsNumber(Cell(r, c)), ~IsBlankAmount(Cell(r, c)) PROVE p \in errors
  <2>1. <<r, blocks[i].at[kind]>> \in RowErrors(r, blocks[i])
    BY <1>7, <1>10 DEF RowErrors
  <2>2. QED
    BY <1>2, <1>7, <1>8, <2>1
<1>11. QED
  BY <1>3, <1>9, <1>10

LEMMA AllRead ==
    ASSUME ReadInv
    PROVE  EveryAmountRead
<1> SUFFICES ASSUME pc = "done", Tidy
             PROVE  /\ {Said(tx) : tx \in txs} = {Meant(p) : p \in {q \in Places : PositiveAt(q)}}
                    /\ \A p \in Places : \/ IsNumber(Cell(p[1], p[2])) \/ IsBlankAmount(Cell(p[1], p[2]))
                                         \/ p \in errors
  BY DEF EveryAmountRead, Said, Meant
<1>1. \A tx \in txs : \E p \in Places : PositiveAt(p) /\ Said(tx) = Meant(p)
  BY ReadIsMeant
<1>2. \A p \in Places :
         /\ PositiveAt(p) => \E tx \in txs : Said(tx) = Meant(p)
         /\ IsNumber(Cell(p[1], p[2])) \/ IsBlankAmount(Cell(p[1], p[2])) \/ p \in errors
  BY MeantIsRead
<1>3. QED
  BY <1>1, <1>2

\* When ImportExcel is done with a tidy sheet, of any size, its transactions
\* are exactly the positive amounts of the body, each with its supplier and
\* direction, and every amount that is no number is among the errors.
THEOREM TidySheetsAreRead == ExcelSpec => []EveryAmountRead
<1>1. ReadInv => EveryAmountRead
  BY AllRead
<1>2. ExcelInit => ReadInv
  BY ReadInit
<1>3. ReadInv /\ [ExcelNext]_excelVars => ReadInv'
  BY ReadNext
<1>4. QED
  BY <1>1, <1>2, <1>3, PTL DEF ExcelSpec

\* matchSheetForPeriod prefers the sheet of the right year to those of the
\* same month of other years, for any number of sheets.
THEOREM RightSheet == ExcelSpec => []RightYearPreferred
<1>1. ReadInv => RightYearPreferred
  BY RightYear DEF ReadInv, DetectInv, Types
<1>2. ExcelInit => ReadInv
  BY ReadInit
<1>3. ReadInv /\ [ExcelNext]_excelVars => ReadInv'
  BY ReadNext
<1>4. QED
  BY <1>1, <1>2, <1>3, PTL DEF ExcelSpec
=============================================================================
