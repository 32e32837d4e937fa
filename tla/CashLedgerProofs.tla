-------------------------- MODULE CashLedgerProofs --------------------------
(***************************************************************************)
(* The theorems about the cash ledger, for every number of workers, set of *)
(* labels and amounts.                                                     *)
(***************************************************************************)
EXTENDS CashLedgerHistory, CashLedgerRefinement, SumLemmas, TLAPS

LEMMA ReversalOfType ==
    ASSUME NEW s \in Seq(Row), NEW i \in DOMAIN s
    PROVE  /\ ReversalOf(s, i) \in Row
           /\ ReversalOf(s, i).rev = i
           /\ ReversalOf(s, i).period = s[i].period
<1>1. s[i] \in Row
  OBVIOUS
<1>2. Opposite(s[i].dir) \in Direction /\ i \in Nat
  BY <1>1 DEF Opposite, Direction
<1>3. QED
  BY <1>1, <1>2 DEF ReversalOf, Row

-----------------------------------------------------------------------------
(* The sums of the SQL.                                                    *)

Values(s) == [k \in DOMAIN s |-> Signed(s[k])]

LEMMA SignedType ==
    ASSUME NEW r \in Row
    PROVE  /\ Signed(r) \in Int
           /\ r.dir \in Direction
           /\ r.amount \in Int
<1>1. r.amount \in Amounts /\ r.dir \in Direction
  BY DEF Row
<1>2. r.amount \in Int
  BY <1>1, AmountsAssumption
<1>3. QED
  BY <1>1, <1>2 DEF Signed

LEMMA ValuesSummable ==
    ASSUME NEW s \in Seq(Row)
    PROVE  /\ Summable(Values(s))
           /\ DOMAIN Values(s) = DOMAIN s
           /\ \A k \in DOMAIN s : Values(s)[k] = Signed(s[k])
<1>1. /\ DOMAIN Values(s) = DOMAIN s
      /\ \A k \in DOMAIN s : Values(s)[k] = Signed(s[k])
  BY DEF Values
<1>2. IsFiniteSet(DOMAIN s)
  <2>1. Len(s) \in Nat /\ DOMAIN s = 1..Len(s)
    OBVIOUS
  <2>2. QED
    BY <2>1, FS_Interval
<1>3. \A k \in DOMAIN s : Signed(s[k]) \in Int
  BY SignedType
<1>4. Values(s) = [k \in DOMAIN Values(s) |-> Values(s)[k]]
  BY DEF Values
<1>5. QED
  BY <1>1, <1>2, <1>3, <1>4 DEF Summable

\* The sums of the queries are sums over parts of the table.
LEMMA Nets ==
    ASSUME NEW s \in Seq(Row), NEW l
    PROVE  /\ NetOfAll(s, l) = SumFunction(Part(Values(s), InPeriod(s, l)))
           /\ NetOfActive(s, l) = SumFunction(Part(Values(s), Active(s, l)))
           /\ NetOfAll(s, l) \in Int
           /\ \A T \in SUBSET DOMAIN s : NetOf(s, T) = SumFunction(Part(Values(s), T))
           /\ InPeriod(s, l) \subseteq DOMAIN s
           /\ Active(s, l) \subseteq InPeriod(s, l)
<1>1. InPeriod(s, l) \subseteq DOMAIN s /\ Active(s, l) \subseteq InPeriod(s, l)
  BY DEF InPeriod, Active
<1>2. \A T \in SUBSET DOMAIN s : [k \in T |-> Signed(s[k])] = Part(Values(s), T)
  <2>1. ASSUME NEW T \in SUBSET DOMAIN s
        PROVE  [k \in T |-> Signed(s[k])] = Part(Values(s), T)
    <3>1. \A k \in T : Values(s)[k] = Signed(s[k])
      BY ValuesSummable
    <3>2. QED
      BY <3>1 DEF Part
  <2>2. QED
    BY <2>1
<1>3. SumFunction(Part(Values(s), InPeriod(s, l))) \in Int
  BY <1>1, ValuesSummable, PartSummable
<1>4. QED
  BY <1>1, <1>2, <1>3 DEF NetOfAll, NetOfActive, NetOf

-----------------------------------------------------------------------------
(* Type correctness.                                                       *)

\* What a worker is doing is told by its pc.
LEMMA RequestCases ==
    ASSUME TypeOK, NEW w \in Workers
    PROVE  /\ req[w].pc \in {"check", "insert", "commit"} => req[w] \in RowReq
           /\ req[w].pc \in {"sum", "write"} => req[w] \in OpenReq
           /\ req[w].pc = "idle" => req[w] = Idle
           /\ req[w].pc \in {"idle", "check", "insert", "commit", "sum", "write"}
<1>1. req[w] \in IdleReq \cup RowReq \cup OpenReq
  BY DEF TypeOK
<1>2. CASE req[w] \in IdleReq
  BY <1>2 DEF IdleReq, Idle
<1>3. CASE req[w] \in RowReq
  BY <1>3 DEF RowReq
<1>4. CASE req[w] \in OpenReq
  BY <1>4 DEF OpenReq
<1>5. QED
  BY <1>1, <1>2, <1>3, <1>4

\* A request moves on to its next statement and keeps what it works on.
LEMMA Advance ==
    ASSUME TypeOK, NEW w \in Workers, NEW p \in {"check", "insert", "commit", "sum", "write"},
           GoTo(w, p)
    PROVE  /\ req' = [req EXCEPT ![w] = req'[w]]
           /\ req[w] \in RowReq => req'[w] = [pc |-> p, row |-> req[w].row]
           /\ req[w] \in OpenReq => req'[w] = [pc |-> p, label |-> req[w].label, prev |-> req[w].prev,
                                               wasOpen |-> req[w].wasOpen, at |-> req[w].at]
<1>1. req'[w] = [req[w] EXCEPT !.pc = p] /\ req' = [req EXCEPT ![w] = req'[w]]
  BY DEF TypeOK, GoTo
<1>2. QED
  BY <1>1 DEF RowReq, OpenReq

LEMMA TypeStep == TypeOK /\ [Next]_vars => TypeOK'
<1> SUFFICES ASSUME TypeOK, [Next]_vars PROVE TypeOK'
  OBVIOUS
<1> USE DEF TypeOK
<1>1. ASSUME NEW w \in Workers, NEW l \in Labels, NEW d \in Direction, NEW a \in Amounts,
             BeginCreate(w, l, d, a)
      PROVE  TypeOK'
  BY <1>1 DEF BeginCreate, RowReq, Row, NoReversal
<1>2. ASSUME NEW w \in Workers, NEW i \in DOMAIN rows, BeginReverse(w, i)
      PROVE  TypeOK'
  BY <1>2, ReversalOfType DEF BeginReverse, RowReq
<1>3. ASSUME NEW w \in Workers, CheckReversed(w)
      PROVE  TypeOK'
  <2>1. req[w] \in RowReq
    BY <1>3, RequestCases DEF CheckReversed
  <2>2. CASE Finish(w)
    BY <1>3, <2>2 DEF CheckReversed, Finish, Idle, IdleReq
  <2>3. CASE GoTo(w, "insert")
    <3>1. /\ req' = [req EXCEPT ![w] = req'[w]]
          /\ req'[w] = [pc |-> "insert", row |-> req[w].row]
      BY <2>1, <2>3, Advance
    <3>2. req'[w] \in RowReq
      BY <2>1, <3>1 DEF RowReq
    <3>3. QED
      BY <1>3, <3>1, <3>2 DEF CheckReversed
  <2>4. QED
    BY <1>3, <2>2, <2>3 DEF CheckReversed
<1>4. ASSUME NEW w \in Workers, InsertRow(w)
      PROVE  TypeOK'
  <2>1. req[w] \in RowReq
    BY <1>4, RequestCases DEF InsertRow
  <2>2. CASE Finish(w)
    BY <1>4, <2>2 DEF InsertRow, Finish, Idle, IdleReq
  <2>3. CASE GoTo(w, "commit")
    <3>1. /\ req' = [req EXCEPT ![w] = req'[w]]
          /\ req'[w] = [pc |-> "commit", row |-> req[w].row]
      BY <2>1, <2>3, Advance
    <3>2. req'[w] \in RowReq
      BY <2>1, <3>1 DEF RowReq
    <3>3. QED
      BY <1>4, <3>1, <3>2 DEF InsertRow
  <2>4. QED
    BY <1>4, <2>2, <2>3 DEF InsertRow
<1>5. ASSUME NEW w \in Workers, CommitRow(w)
      PROVE  TypeOK'
  <2>1. req[w].row \in Row
    BY <1>5, RequestCases DEF CommitRow, RowReq
  <2>2. rows' \in Seq(Row) /\ UNCHANGED <<status, startBal, openedAt, clock, carry>>
    BY <1>5, <2>1 DEF CommitRow
  <2>3. req' \in [Workers -> IdleReq \cup RowReq \cup OpenReq]
    BY <1>5 DEF CommitRow, Finish, Idle, IdleReq
  <2>4. QED
    BY <2>2, <2>3
<1>6. ASSUME NEW w \in Workers, NEW l \in Labels, LockPeriod(w, l) \/ UnlockPeriod(w, l)
      PROVE  TypeOK'
  BY <1>6 DEF LockPeriod, UnlockPeriod, Status
<1>7. ASSUME NEW w \in Workers, NEW l \in Labels, BeginOpen(w, l)
      PROVE  TypeOK'
  BY <1>7 DEF BeginOpen, OpenReq
<1>8. ASSUME NEW w \in Workers, SumPrevious(w)
      PROVE  TypeOK'
  <2>1. req[w] \in OpenReq
    BY <1>8, RequestCases DEF SumPrevious
  <2>2. /\ req' = [req EXCEPT ![w] = req'[w]]
        /\ req'[w] = [pc |-> "write", label |-> req[w].label, prev |-> req[w].prev,
                      wasOpen |-> req[w].wasOpen, at |-> req[w].at]
    BY <1>8, <2>1, Advance DEF SumPrevious
  <2>3. req'[w] \in OpenReq
    BY <2>1, <2>2 DEF OpenReq
  <2>4. carry' \in [Workers -> Int]
    <3>1. PICK c : /\ carry' = [carry EXCEPT ![w] = c]
                   /\ c = IF req[w].prev = NoPeriod THEN 0 ELSE Closing(req[w].prev)
      BY <1>8 DEF SumPrevious
    <3>2. c \in Int
      <4>1. req[w].prev # NoPeriod => startBal[req[w].prev] \in Int
        BY <2>1 DEF OpenReq
      <4>2. NetOfAll(rows, req[w].prev) \in Int
        BY Nets
      <4>3. QED
        BY <3>1, <4>1, <4>2 DEF Closing
    <3>3. QED
      BY <3>1, <3>2
  <2>5. QED
    BY <1>8, <2>2, <2>3, <2>4 DEF SumPrevious
<1>9. ASSUME NEW w \in Workers, WriteOpened(w)
      PROVE  TypeOK'
  <2>1. req[w] \in OpenReq
    BY <1>9, RequestCases DEF WriteOpened
  <2>2. req' \in [Workers -> IdleReq \cup RowReq \cup OpenReq] /\ carry' \in [Workers -> Int]
    BY <1>9 DEF WriteOpened, Finish, Idle, IdleReq
  <2>3. CASE status[req[w].label] # "none"
    BY <1>9, <2>2, <2>3 DEF WriteOpened, LabelTaken
  <2>4. CASE status[req[w].label] = "none"
    <3>1. /\ status' = [l \in Labels |->
                            IF l = req[w].label THEN "open"
                            ELSE IF l = req[w].prev /\ req[w].wasOpen THEN "locked"
                            ELSE status[l]]
          /\ startBal' = [startBal EXCEPT ![req[w].label] = carry[w]]
          /\ openedAt' = [openedAt EXCEPT ![req[w].label] = req[w].at]
          /\ UNCHANGED <<rows, clock>>
      BY <1>9, <2>4 DEF WriteOpened, LabelTaken, StatusAfter
    <3>2. req[w].label \in Labels /\ req[w].at \in Nat
      BY <2>1 DEF OpenReq
    <3>3. status' \in [Labels -> Status]
      BY <3>1 DEF Status
    <3>4. openedAt' \in [Labels -> Nat] /\ startBal' \in [Labels -> Int]
      BY <3>1, <3>2
    <3>5. QED
      BY <2>2, <3>1, <3>3, <3>4
  <2>5. QED
    BY <2>3, <2>4
<1>10. ASSUME NEW w \in Workers, Abort(w)
       PROVE  TypeOK'
  BY <1>10 DEF Abort, Finish, Idle, IdleReq
<1>11. CASE UNCHANGED vars
  BY <1>11 DEF vars
<1>12. QED
  BY <1>1, <1>2, <1>3, <1>4, <1>5, <1>6, <1>7, <1>8, <1>9, <1>10, <1>11
     DEF Next, RowStep, PeriodStep, OpenStep, Reject

\* Rows, periods and requests in progress stay within their types, for any
\* number of requests and periods.
THEOREM TypeCorrect == Spec => []TypeOK
<1>1. Init => TypeOK
  BY DEF Init, TypeOK, Status, Idle, IdleReq
<1>2. QED
  BY <1>1, TypeStep, PTL DEF Spec

-----------------------------------------------------------------------------
(* A reversal mirrors its original.                                        *)

LEMMA AppendRow ==
    ASSUME NEW s \in Seq(Row), NEW r \in Row
    PROVE  /\ Append(s, r) \in Seq(Row)
           /\ DOMAIN s \subseteq Nat \ {0}
           /\ Len(s) \in Nat
           /\ DOMAIN Append(s, r) = DOMAIN s \cup {Len(s) + 1}
           /\ Len(s) + 1 \notin DOMAIN s
           /\ \A k \in DOMAIN s : k < Len(s) + 1 /\ Append(s, r)[k] = s[k]
           /\ Append(s, r)[Len(s) + 1] = r
  OBVIOUS

\* The reversal a request carries mirrors the row it names; once it has been
\* checked, that row is no reversal.
CarriedMirrors(w) ==
    Reversing(w) =>
        /\ req[w].row.rev \in DOMAIN rows
        /\ req[w].row = ReversalOf(rows, req[w].row.rev)
        /\ req[w].pc # "check" => rows[req[w].row.rev].rev = NoReversal

MirrorInv == TypeOK /\ ReversalsMirror /\ \A w \in Workers : CarriedMirrors(w)

\* Only CommitRow changes the rows.
LEMMA RowsStep ==
    ASSUME TypeOK, [Next]_vars
    PROVE  \/ rows' = rows
           \/ \E w \in Workers : CommitRow(w)
  BY DEF Next, RowStep, PeriodStep, OpenStep, vars, BeginCreate, BeginReverse, Reject,
         CheckReversed, InsertRow, LockPeriod, UnlockPeriod, BeginOpen, SumPrevious,
         WriteOpened, Abort

LEMMA CommittedRow ==
    ASSUME TypeOK, NEW w \in Workers, CommitRow(w)
    PROVE  /\ req[w] \in RowReq
           /\ req[w].row \in Row
           /\ rows' = Append(rows, req[w].row)
           /\ req[w].row.rev # NoReversal => Reversing(w)
<1>1. req[w] \in RowReq
  BY RequestCases DEF CommitRow
<1>2. QED
  BY <1>1 DEF CommitRow, RowReq, Reversing

LEMMA CommitMirrors ==
    ASSUME MirrorInv, NEW w \in Workers, CommitRow(w)
    PROVE  ReversalsMirror'
<1> DEFINE r == req[w].row
<1>1. /\ TypeOK
      /\ r \in Row
      /\ rows' = Append(rows, r)
      /\ r.rev # NoReversal => /\ r.rev \in DOMAIN rows
                               /\ r = ReversalOf(rows, r.rev)
                               /\ rows[r.rev].rev = NoReversal
  BY CommittedRow DEF MirrorInv, CarriedMirrors, CommitRow
<1>2. /\ DOMAIN rows' = DOMAIN rows \cup {Len(rows) + 1}
      /\ Len(rows) + 1 \notin DOMAIN rows
      /\ \A k \in DOMAIN rows : k < Len(rows) + 1 /\ rows'[k] = rows[k]
      /\ rows'[Len(rows) + 1] = r
  BY <1>1, AppendRow DEF TypeOK
<1> HIDE DEF r
<1>3. ASSUME NEW k \in DOMAIN rows', rows'[k].rev # NoReversal
      PROVE  /\ rows'[k].rev < k
             /\ rows'[rows'[k].rev].rev = NoReversal
             /\ rows'[k] = ReversalOf(rows', rows'[k].rev)
  <2>1. CASE k \in DOMAIN rows
    <3>1. /\ rows[k].rev < k
          /\ rows[rows[k].rev].rev = NoReversal
          /\ rows[k] = ReversalOf(rows, rows[k].rev)
      BY <1>2, <1>3, <2>1 DEF MirrorInv, ReversalsMirror
    <3>2. rows[k].rev \in DOMAIN rows
      <4>1. rows[k] \in Row
        BY <1>1, <2>1 DEF TypeOK
      <4>2. rows[k].rev \in Nat \ {0}
        BY <1>2, <1>3, <2>1, <4>1 DEF Row, NoReversal
      <4>3. DOMAIN rows = 1 .. Len(rows)
        BY <1>1 DEF TypeOK
      <4>4. Len(rows) \in Nat
        BY <1>1 DEF TypeOK
      <4>5. QED
        BY <2>1, <3>1, <4>2, <4>3, <4>4
    <3>3. QED
      BY <1>2, <2>1, <3>1, <3>2 DEF ReversalOf
  <2>2. CASE k = Len(rows) + 1
    BY <1>1, <1>2, <1>3, <2>2 DEF ReversalOf
  <2>3. QED
    BY <1>2, <2>1, <2>2
<1>4. QED
  BY <1>3 DEF ReversalsMirror

\* Rows are never changed or removed.
RowsGrow == \A i \in DOMAIN rows : i \in DOMAIN rows' /\ rows'[i] = rows[i]

LEMMA RowsGrowStep ==
    ASSUME TypeOK, [Next]_vars
    PROVE  RowsGrow
<1>1. CASE rows' = rows
  BY <1>1 DEF RowsGrow
<1>2. ASSUME NEW w \in Workers, CommitRow(w)
      PROVE  RowsGrow
  <2>1. req[w].row \in Row /\ rows' = Append(rows, req[w].row)
    BY <1>2, CommittedRow
  <2>2. QED
    BY <2>1, AppendRow DEF TypeOK, RowsGrow
<1>3. QED
  BY <1>1, <1>2, RowsStep

LEMMA CarriedFrame ==
    ASSUME NEW v \in Workers, CarriedMirrors(v), RowsGrow, req'[v] = req[v]
    PROVE  CarriedMirrors(v)'
<1> SUFFICES ASSUME Reversing(v)'
             PROVE  /\ req'[v].row.rev \in DOMAIN rows'
                    /\ req'[v].row = ReversalOf(rows', req'[v].row.rev)
                    /\ req'[v].pc # "check" => rows'[req'[v].row.rev].rev = NoReversal
  BY DEF CarriedMirrors
<1>1. Reversing(v)
  BY DEF Reversing
<1>2. /\ req[v].row.rev \in DOMAIN rows
      /\ req[v].row = ReversalOf(rows, req[v].row.rev)
      /\ req[v].pc # "check" => rows[req[v].row.rev].rev = NoReversal
  BY <1>1 DEF CarriedMirrors
<1>3. req[v].row.rev \in DOMAIN rows' /\ rows'[req[v].row.rev] = rows[req[v].row.rev]
  BY <1>2 DEF RowsGrow
<1>4. QED
  BY <1>2, <1>3 DEF ReversalOf

\* A step of one worker leaves the requests of the others alone.
LEMMA OthersKept ==
    ASSUME TypeOK, NEW w \in Workers,
           RowStep(w) \/ PeriodStep(w) \/ OpenStep(w) \/ Abort(w),
           NEW v \in Workers, v # w
    PROVE  req'[v] = req[v]
  BY DEF TypeOK, RowStep, PeriodStep, OpenStep, Abort, BeginCreate, BeginReverse, Reject, vars,
         CheckReversed, InsertRow, CommitRow, LockPeriod, UnlockPeriod, BeginOpen, SumPrevious,
         WriteOpened, Finish, GoTo

\* A reversal in progress after a step was in progress before it, in the same
\* or in the preceding statement, or has just begun.
LEMMA ReversingStep ==
    ASSUME TypeOK, NEW w \in Workers, [Next]_vars, Reversing(w)'
    PROVE  \/ req'[w] = req[w]
           \/ \E i \in DOMAIN rows : BeginReverse(w, i)
           \/ /\ Reversing(w) /\ req[w].pc = "check" /\ req'[w].pc = "insert"
              /\ req'[w].row = req[w].row
              /\ ~AlreadyReversed(rows, req[w].row.rev)
              /\ rows' = rows
           \/ /\ Reversing(w) /\ req[w].pc = "insert" /\ req'[w].pc = "commit"
              /\ req'[w].row = req[w].row
              /\ rows' = rows
<1> USE DEF Reversing
<1>1. CASE CheckReversed(w)
  <2>1. req[w] \in RowReq
    BY <1>1, RequestCases DEF CheckReversed
  <2>2. CASE Finish(w)
    BY <2>2 DEF TypeOK, Finish, Idle
  <2>3. CASE ~AlreadyReversed(rows, req[w].row.rev) /\ GoTo(w, "insert")
    <3>1. req'[w] = [pc |-> "insert", row |-> req[w].row]
      BY <2>1, <2>3, Advance
    <3>2. QED
      BY <1>1, <2>1, <2>3, <3>1 DEF CheckReversed, RowReq
  <2>4. QED
    BY <1>1, <2>2, <2>3 DEF CheckReversed
<1>2. CASE InsertRow(w)
  <2>1. req[w] \in RowReq
    BY <1>2, RequestCases DEF InsertRow
  <2>2. CASE Finish(w)
    BY <2>2 DEF TypeOK, Finish, Idle
  <2>3. CASE GoTo(w, "commit")
    <3>1. req'[w] = [pc |-> "commit", row |-> req[w].row]
      BY <2>1, <2>3, Advance
    <3>2. QED
      BY <1>2, <2>1, <2>3, <3>1 DEF InsertRow, RowReq
  <2>4. QED
    BY <1>2, <2>2, <2>3 DEF InsertRow
<1>3. CASE CommitRow(w) \/ WriteOpened(w) \/ Abort(w)
  BY <1>3 DEF CommitRow, WriteOpened, Abort, Finish, TypeOK, Idle
<1>4. ASSUME NEW l \in Labels, NEW d \in Direction, NEW a \in Amounts, BeginCreate(w, l, d, a)
      PROVE  FALSE
  BY <1>4 DEF BeginCreate, TypeOK
<1>5. ASSUME NEW l \in Labels, BeginOpen(w, l)
      PROVE  FALSE
  BY <1>5 DEF BeginOpen, TypeOK
<1>6. CASE SumPrevious(w)
  <2>1. req[w] \in OpenReq
    BY <1>6, RequestCases DEF SumPrevious
  <2>2. GoTo(w, "write")
    BY <1>6 DEF SumPrevious
  <2>3. req'[w] = [pc |-> "write", label |-> req[w].label, prev |-> req[w].prev,
                   wasOpen |-> req[w].wasOpen, at |-> req[w].at]
    BY <2>1, <2>2, Advance
  <2>4. QED
    BY <2>3
<1>7. CASE UNCHANGED req
  BY <1>7
<1>8. ASSUME NEW v \in Workers, v # w, RowStep(v) \/ PeriodStep(v) \/ OpenStep(v) \/ Abort(v)
      PROVE  req'[w] = req[w]
  BY <1>8, OthersKept
<1>9. QED
  BY <1>1, <1>2, <1>3, <1>4, <1>5, <1>6, <1>7, <1>8
     DEF Next, RowStep, PeriodStep, OpenStep, Reject, LockPeriod, UnlockPeriod, vars

LEMMA MirrorStep == MirrorInv /\ [Next]_vars => MirrorInv'
<1> SUFFICES ASSUME MirrorInv, [Next]_vars PROVE MirrorInv'
  OBVIOUS
<1>1. TypeOK /\ TypeOK' /\ RowsGrow
  BY TypeStep, RowsGrowStep DEF MirrorInv
<1>2. ReversalsMirror'
  <2>1. CASE rows' = rows
    BY <2>1 DEF MirrorInv, ReversalsMirror
  <2>2. QED
    BY <1>1, <2>1, RowsStep, CommitMirrors
<1>3. ASSUME NEW w \in Workers
      PROVE  CarriedMirrors(w)'
  <2>1. CASE req'[w] = req[w]
    BY <1>1, <2>1, CarriedFrame DEF MirrorInv
  <2>2. ASSUME NEW i \in DOMAIN rows, BeginReverse(w, i)
        PROVE  CarriedMirrors(w)'
    <3>1. req'[w] = [pc |-> "check", row |-> ReversalOf(rows, i)] /\ rows' = rows
      BY <1>1, <2>2 DEF BeginReverse, TypeOK
    <3>2. ReversalOf(rows, i).rev = i
      BY DEF ReversalOf
    <3>3. QED
      BY <3>1, <3>2 DEF CarriedMirrors
  <2>3. CASE /\ Reversing(w) /\ req[w].pc = "check" /\ req'[w].pc = "insert"
             /\ req'[w].row = req[w].row
             /\ ~AlreadyReversed(rows, req[w].row.rev)
             /\ rows' = rows
    BY <2>3 DEF MirrorInv, CarriedMirrors, AlreadyReversed
  <2>4. CASE /\ Reversing(w) /\ req[w].pc = "insert" /\ req'[w].pc = "commit"
             /\ req'[w].row = req[w].row
             /\ rows' = rows
    BY <2>4 DEF MirrorInv, CarriedMirrors
  <2>5. CASE ~Reversing(w)'
    BY <2>5 DEF CarriedMirrors
  <2>6. QED
    BY <1>1, <2>1, <2>2, <2>3, <2>4, <2>5, ReversingStep
<1>4. QED
  BY <1>1, <1>2, <1>3 DEF MirrorInv

LEMMA MirrorInit == Init => MirrorInv
<1> SUFFICES ASSUME Init PROVE MirrorInv
  OBVIOUS
<1>1. TypeOK
  BY DEF Init, TypeOK, Status, Idle, IdleReq
<1>2. ReversalsMirror
  BY DEF Init, ReversalsMirror
<1>3. ASSUME NEW w \in Workers
      PROVE  CarriedMirrors(w)
  BY DEF Init, CarriedMirrors, Reversing, Idle
<1>4. QED
  BY <1>1, <1>2, <1>3 DEF MirrorInv

\* A reversal cancels an earlier row that is no reversal, exactly, although
\* ReverseTransaction reads that row and looks for its reversals in separate
\* statements.
THEOREM MirrorsAlways == Spec => []ReversalsMirror
<1>1. MirrorInv => ReversalsMirror
  BY DEF MirrorInv
<1>2. QED
  BY <1>1, MirrorInit, MirrorStep, PTL DEF Spec

-----------------------------------------------------------------------------
(* When no two requests reverse the same row at once none is reversed      *)
(* twice: the refinement rests on it.                                      *)

\* A reversal that has been checked is still the first one of its row.
CheckedUnreversed(w) ==
    Reversing(w) /\ req[w].pc # "check" => Reversals(rows, req[w].row.rev) = {}

SingleInv ==
    /\ MirrorInv
    /\ ReversalsDisjoint
    /\ SingleReversal
    /\ \A w \in Workers : CheckedUnreversed(w)

\* What an appended row does to the reversals of row i.
LEMMA AppendReversals ==
    ASSUME NEW s \in Seq(Row), NEW r \in Row, NEW i \in Nat
    PROVE  /\ r.rev # i => Reversals(Append(s, r), i) = Reversals(s, i)
           /\ r.rev = i => Reversals(Append(s, r), i) = Reversals(s, i) \cup {Len(s) + 1}
<1> DEFINE t == Append(s, r)
<1>1. /\ DOMAIN t = DOMAIN s \cup {Len(s) + 1}
      /\ Len(s) + 1 \notin DOMAIN s
      /\ \A k \in DOMAIN s : t[k] = s[k]
      /\ t[Len(s) + 1] = r
  BY AppendRow
<1> HIDE DEF t
<1>2. \A k \in DOMAIN t : t[k].rev = i <=> \/ k \in DOMAIN s /\ s[k].rev = i
                                           \/ k = Len(s) + 1 /\ r.rev = i
  BY <1>1
<1>3. QED
  BY <1>1, <1>2 DEF Reversals, t

LEMMA SingleCommit ==
    ASSUME SingleInv, NEW w \in Workers, CommitRow(w)
    PROVE  /\ SingleReversal'
           /\ \A v \in Workers : v # w => CheckedUnreversed(v)'
<1> DEFINE r == req[w].row
<1>1. /\ TypeOK /\ rows \in Seq(Row)
      /\ r \in Row
      /\ rows' = Append(rows, r)
      /\ r.rev \in Nat
      /\ r.rev # NoReversal => /\ Reversing(w)
                               /\ r.rev \in DOMAIN rows
                               /\ Reversals(rows, r.rev) = {}
  BY CommittedRow DEF SingleInv, MirrorInv, CarriedMirrors, CheckedUnreversed, CommitRow, Row, TypeOK
<1>2. /\ DOMAIN rows \subseteq Nat \ {0}
      /\ Len(rows) \in Nat
      /\ DOMAIN rows' = DOMAIN rows \cup {Len(rows) + 1}
      /\ Len(rows) + 1 \notin DOMAIN rows
      /\ \A k \in DOMAIN rows : k < Len(rows) + 1
  BY <1>1, AppendRow
<1>3. \A i \in Nat : /\ r.rev # i => Reversals(rows', i) = Reversals(rows, i)
                     /\ r.rev = i => Reversals(rows', i) = Reversals(rows, i) \cup {Len(rows) + 1}
  BY <1>1, AppendReversals
<1> HIDE DEF r
<1>4. ASSUME NEW i \in DOMAIN rows', NEW j \in Reversals(rows', i), NEW k \in Reversals(rows', i)
      PROVE  j = k
  <2>1. i \in Nat \ {0}
    BY <1>2
  <2>2. CASE i \in DOMAIN rows
    <3>1. CASE r.rev = i
      BY <1>1, <1>3, <1>4, <2>1, <3>1 DEF NoReversal
    <3>2. CASE r.rev # i
      BY <1>3, <1>4, <2>1, <2>2, <3>2 DEF SingleInv, SingleReversal
    <3>3. QED
      BY <3>1, <3>2
  <2>3. CASE i = Len(rows) + 1
    <3>1. ASSUME NEW m \in DOMAIN rows, rows[m].rev = i
          PROVE  FALSE
      <4>1. rows[m].rev < m
        BY <2>1, <3>1 DEF SingleInv, MirrorInv, ReversalsMirror, NoReversal
      <4>2. QED
        BY <1>2, <2>3, <3>1, <4>1
    <3>2. Reversals(rows, i) = {}
      BY <3>1 DEF Reversals
    <3>3. r.rev # i
      BY <1>1, <1>2, <2>1, <2>3 DEF NoReversal
    <3>4. QED
      BY <1>3, <1>4, <2>1, <3>2, <3>3
  <2>4. QED
    BY <1>2, <2>2, <2>3
<1>5. ASSUME NEW v \in Workers, v # w
      PROVE  CheckedUnreversed(v)'
  <2>1. req'[v] = req[v]
    BY <1>1, <1>5 DEF CommitRow, Finish, TypeOK
  <2>2. SUFFICES ASSUME Reversing(v), req[v].pc # "check"
                 PROVE  Reversals(rows', req[v].row.rev) = {}
    BY <2>1 DEF CheckedUnreversed, Reversing
  <2>3. req[v].row.rev \in DOMAIN rows /\ req[v].row.rev \in Nat \ {0}
    BY <1>2, <2>2 DEF SingleInv, MirrorInv, CarriedMirrors
  <2>4. r.rev # req[v].row.rev
    BY <1>1, <1>5, <2>2, <2>3 DEF SingleInv, ReversalsDisjoint, NoReversal, r
  <2>5. Reversals(rows, req[v].row.rev) = {}
    BY <2>2 DEF SingleInv, CheckedUnreversed
  <2>6. QED
    BY <1>3, <2>3, <2>4, <2>5
<1>6. QED
  BY <1>4, <1>5 DEF SingleReversal

LEMMA SingleStep == SingleInv /\ [Next /\ ReversalsDisjoint']_vars => SingleInv'
<1> SUFFICES ASSUME SingleInv, [Next /\ ReversalsDisjoint']_vars PROVE SingleInv'
  OBVIOUS
<1>1. CASE UNCHANGED vars
  BY <1>1 DEF vars, SingleInv, MirrorInv, TypeOK, ReversalsMirror, CarriedMirrors, Reversing,
              ReversalsDisjoint, SingleReversal, CheckedUnreversed, Reversals
<1>2. CASE Next /\ ReversalsDisjoint'
  <2>1. MirrorInv /\ TypeOK /\ MirrorInv'
    BY <1>2, MirrorStep DEF SingleInv, MirrorInv
  <2>2. CASE rows' = rows
    <3>1. SingleReversal'
      BY <2>2 DEF SingleInv, SingleReversal
    <3>2. ASSUME NEW w \in Workers
          PROVE  CheckedUnreversed(w)'
      <4>1. CASE req'[w] = req[w]
        BY <2>2, <4>1 DEF SingleInv, CheckedUnreversed, Reversing, Reversals
      <4>2. ASSUME NEW i \in DOMAIN rows, BeginReverse(w, i)
            PROVE  CheckedUnreversed(w)'
        <5>1. req'[w] = [pc |-> "check", row |-> ReversalOf(rows, i)]
          BY <2>1, <4>2 DEF BeginReverse, TypeOK
        <5>2. QED
          BY <5>1 DEF CheckedUnreversed
      <4>3. CASE /\ Reversing(w) /\ req[w].pc = "check" /\ req'[w].pc = "insert"
                 /\ req'[w].row = req[w].row
                 /\ ~AlreadyReversed(rows, req[w].row.rev)
                 /\ rows' = rows
        BY <4>3 DEF CheckedUnreversed, AlreadyReversed, Reversals
      <4>4. CASE /\ Reversing(w) /\ req[w].pc = "insert" /\ req'[w].pc = "commit"
                 /\ req'[w].row = req[w].row
                 /\ rows' = rows
        BY <4>4 DEF SingleInv, CheckedUnreversed, Reversals
      <4>5. CASE ~Reversing(w)'
        BY <4>5 DEF CheckedUnreversed
      <4>6. QED
        BY <1>2, <2>1, <4>1, <4>2, <4>3, <4>4, <4>5, ReversingStep
    <3>3. QED
      BY <1>2, <2>1, <3>1, <3>2 DEF SingleInv
  <2>3. ASSUME NEW w \in Workers, CommitRow(w)
        PROVE  SingleInv'
    <3>1. SingleReversal' /\ \A v \in Workers : v # w => CheckedUnreversed(v)'
      BY <2>3, SingleCommit
    <3>2. CheckedUnreversed(w)'
      BY <2>1, <2>3 DEF CommitRow, Finish, TypeOK, Idle, CheckedUnreversed, Reversing
    <3>3. QED
      BY <1>2, <2>1, <3>1, <3>2 DEF SingleInv
  <2>4. QED
    BY <1>2, <2>1, <2>2, <2>3, RowsStep
<1>3. QED
  BY <1>1, <1>2

LEMMA SingleInit == Init => SingleInv
<1> SUFFICES ASSUME Init PROVE SingleInv
  OBVIOUS
<1>1. TypeOK
  BY DEF Init, TypeOK, Status, Idle, IdleReq
<1>2. ReversalsMirror /\ SingleReversal
  BY DEF Init, ReversalsMirror, SingleReversal
<1>3. \A w \in Workers : ~Reversing(w)
  BY DEF Init, Reversing, Idle
<1>4. QED
  BY <1>1, <1>2, <1>3 DEF SingleInv, MirrorInv, CarriedMirrors, CheckedUnreversed, ReversalsDisjoint

-----------------------------------------------------------------------------
(* The summary and the rollover agree up to surplus reversals, because the  *)
(* other rows the summary leaves out come in pairs that cancel out.        *)

LEMMA SummaryAgrees ==
    ASSUME TypeOK, ReversalsMirror, NEW l \in Labels
    PROVE  NetOfAll(rows, l) = NetOfActive(rows, l) + NetOf(rows, Surplus(l))
<1>1. PICK v, S : v = Values(rows) /\ S = Surplus(l)
  OBVIOUS
<1>2. /\ Summable(v) /\ DOMAIN v = DOMAIN rows
      /\ \A k \in DOMAIN rows : v[k] = Signed(rows[k]) /\ rows[k] \in Row
      /\ DOMAIN rows = 1..Len(rows) /\ Len(rows) \in Nat
  BY <1>1, ValuesSummable DEF TypeOK
<1>3. PICK R : R = {k \in InPeriod(rows, l) : rows[k].rev # NoReversal /\ k \notin S}
  OBVIOUS
<1>4. PICK m : m = [k \in R |-> rows[k].rev]
  OBVIOUS
<1>5. ASSUME NEW k \in R
      PROVE  /\ k \in DOMAIN rows /\ rows[k].period = l /\ rows[k].rev # NoReversal
             /\ m[k] = rows[k].rev /\ m[k] \in InPeriod(rows, l) /\ m[k] \notin R
             /\ rows[m[k]].rev = NoReversal
             /\ k \in Reversals(rows, m[k])
             /\ v[m[k]] = -v[k]
  <2>1. k \in DOMAIN rows /\ rows[k].period = l /\ rows[k].rev # NoReversal /\ m[k] = rows[k].rev
    BY <1>3, <1>4 DEF InPeriod
  <2>2. /\ m[k] < k /\ rows[m[k]].rev = NoReversal
        /\ rows[k] = ReversalOf(rows, m[k])
    BY <2>1 DEF ReversalsMirror
  <2>3. m[k] \in DOMAIN rows
    <3>1. rows[k].rev \in Nat
      BY <1>2, <2>1 DEF Row
    <3>2. QED
      BY <1>2, <2>1, <2>2, <3>1 DEF NoReversal
  <2>4. m[k] \in InPeriod(rows, l) /\ m[k] \notin R
    BY <1>3, <2>1, <2>2, <2>3 DEF ReversalOf, InPeriod
  <2>5. Signed(rows[k]) = -Signed(rows[m[k]])
    <3>1. /\ rows[k].dir = Opposite(rows[m[k]].dir) /\ rows[k].amount = rows[m[k]].amount
      BY <2>2 DEF ReversalOf
    <3>2. rows[m[k]].dir \in Direction /\ rows[m[k]].amount \in Int
      BY <1>2, <2>3, SignedType
    <3>3. QED
      BY <3>1, <3>2 DEF Signed, Opposite, Direction
  <2>6. v[m[k]] = -v[k]
    <3>1. Signed(rows[m[k]]) \in Int
      BY <1>2, <2>3, SignedType
    <3>2. QED
      BY <1>2, <2>1, <2>3, <2>5, <3>1
  <2>7. QED
    BY <2>1, <2>2, <2>3, <2>4, <2>6 DEF Reversals
<1>6. PICK P : P = R \cup ImageOf(m, R)
  OBVIOUS
<1>7. ASSUME NEW k \in DOMAIN rows
      PROVE  k \in S <=> /\ k \in InPeriod(rows, l) /\ rows[k].rev # NoReversal
                         /\ \E j \in DOMAIN rows : j < k /\ rows[j].rev = rows[k].rev
  BY <1>1 DEF Surplus, InPeriod
<1>8. SumFunction(Part(v, P)) = 0
  <2>1. R \in SUBSET DOMAIN v /\ m \in [R -> DOMAIN v \ R]
    BY <1>2, <1>3, <1>4, <1>5 DEF InPeriod
  <2>2. ASSUME NEW j \in R, NEW k \in R, m[j] = m[k]
        PROVE  j = k
    <3>1. /\ j \in DOMAIN rows /\ k \in DOMAIN rows /\ j \in Nat /\ k \in Nat
          /\ rows[j].rev = rows[k].rev /\ j \notin S /\ k \notin S
      BY <1>2, <1>3, <1>5, <2>2
    <3>2. ~(j < k) /\ ~(k < j)
      BY <1>3, <1>5, <1>7, <3>1
    <3>3. QED
      BY <3>1, <3>2
  <2>3. QED
    BY <1>2, <1>5, <1>6, <2>1, <2>2, SumPairs
<1>9. /\ InPeriod(rows, l) = (Active(rows, l) \cup P) \cup S
      /\ Active(rows, l) \cap P = {}
      /\ (Active(rows, l) \cup P) \cap S = {}
  <2>1. P \subseteq InPeriod(rows, l) /\ S \subseteq InPeriod(rows, l)
    BY <1>1, <1>3, <1>5, <1>6 DEF ImageOf, Surplus
  <2>2. ASSUME NEW k \in InPeriod(rows, l)
        PROVE  /\ k \in P \cup S <=> ~(rows[k].rev = NoReversal /\ Reversals(rows, k) = {})
               /\ ~(k \in P /\ k \in S)
    <3>1. k \in DOMAIN rows /\ rows[k].period = l
      BY DEF InPeriod
    <3>2. k \in P => \/ k \in R
                     \/ rows[k].rev = NoReversal /\ Reversals(rows, k) # {}
      <4>1. ASSUME NEW j \in R, k = m[j]
            PROVE  rows[k].rev = NoReversal /\ Reversals(rows, k) # {}
        BY <1>5, <4>1
      <4>2. QED
        BY <1>6, <4>1 DEF ImageOf
    <3>3. ASSUME rows[k].rev = NoReversal, Reversals(rows, k) # {}
          PROVE  k \in P
      <4>1. Reversals(rows, k) \in SUBSET Nat
        BY <1>2 DEF Reversals
      <4>2. PICK j \in Reversals(rows, k) : \A i \in Reversals(rows, k) : j <= i
        BY <3>3, <4>1, Least
      <4>3. j \in DOMAIN rows /\ rows[j].rev = k /\ k # NoReversal
        BY <1>2, <3>1 DEF Reversals, NoReversal
      <4>4. rows[j] = ReversalOf(rows, k)
        BY <4>3 DEF ReversalsMirror
      <4>5. j \in InPeriod(rows, l)
        BY <3>1, <4>3, <4>4 DEF ReversalOf, InPeriod
      <4>6. ASSUME NEW i \in DOMAIN rows, i < j PROVE rows[i].rev # rows[j].rev
        <5>1. i \in Nat /\ j \in Nat
          BY <1>2, <4>3
        <5>2. QED
          BY <4>2, <4>3, <4>6, <5>1 DEF Reversals
      <4>7. j \in R /\ m[j] = k
        BY <1>3, <1>4, <1>7, <4>3, <4>5, <4>6
      <4>8. QED
        BY <1>6, <4>7 DEF ImageOf
    <3>4. k \in S => rows[k].rev # NoReversal
      BY <1>7, <3>1
    <3>5. rows[k].rev # NoReversal => k \in R \/ k \in S
      BY <1>3
    <3>6. k \in R => rows[k].rev # NoReversal /\ k \notin S /\ k \in P
      BY <1>3, <1>6
    <3>7. QED
      BY <3>2, <3>3, <3>4, <3>5, <3>6
  <2>3. QED
    BY <2>1, <2>2 DEF Active
<1>10. PICK A : A = Active(rows, l)
  OBVIOUS
<1>11. SumFunction(Part(v, (A \cup P) \cup S)) = SumFunction(Part(v, A)) + SumFunction(Part(v, S))
  <2>1. /\ A \in SUBSET DOMAIN v /\ P \in SUBSET DOMAIN v /\ S \in SUBSET DOMAIN v
        /\ A \cap P = {} /\ A \cup P \in SUBSET DOMAIN v /\ (A \cup P) \cap S = {}
    BY <1>2, <1>9, <1>10, Nets DEF TypeOK
  <2>2. SumFunction(Part(v, A \cup P)) = SumFunction(Part(v, A)) + SumFunction(Part(v, P))
    BY <1>2, <2>1, PartUnion
  <2>3. SumFunction(Part(v, (A \cup P) \cup S))
            = SumFunction(Part(v, A \cup P)) + SumFunction(Part(v, S))
    BY <1>2, <2>1, PartUnion
  <2>4. SumFunction(Part(v, A)) \in Int
    BY <1>2, <2>1, PartSummable
  <2>5. QED
    BY <1>8, <2>2, <2>3, <2>4
<1>12. QED
  <2>1. S \in SUBSET DOMAIN rows /\ rows \in Seq(Row)
    BY <1>9, Nets DEF TypeOK
  <2>2. NetOf(rows, S) = SumFunction(Part(v, S))
    BY <1>1, <2>1, Nets
  <2>3. QED
    BY <1>1, <1>9, <1>10, <1>11, <2>1, <2>2, Nets

\* The closing balance of the summary, which leaves cancelled rows out, is
\* the one the rollover carries, which sums every row, up to the reversals of
\* rows already reversed: for any number of requests and any interleaving.
THEOREM SummaryAlwaysAgrees == Spec => []SummaryAgreesWithRollover
<1>1. Init => MirrorInv
  BY MirrorInit
<1>2. MirrorInv => SummaryAgreesWithRollover
  BY SummaryAgrees DEF MirrorInv, SummaryAgreesWithRollover, Existing
<1>3. QED
  BY <1>1, <1>2, MirrorStep, PTL DEF Spec

-----------------------------------------------------------------------------
(* Once a row is reversed only requests past their check reverse it again. *)

LEMMA CancellingFinite ==
    ASSUME NEW i, NEW l
    PROVE  /\ IsFiniteSet(Cancelling(i)) /\ Cardinality(Cancelling(i)) \in Nat
           /\ IsFiniteSet(Committing(l)) /\ Cardinality(Committing(l)) \in Nat
<1>1. Cancelling(i) \subseteq Workers /\ Committing(l) \subseteq Workers
  BY DEF Cancelling, Committing
<1>2. IsFiniteSet(Cancelling(i)) /\ IsFiniteSet(Committing(l))
  BY <1>1, WorkersAssumption, FS_Subset
<1>3. QED
  BY <1>2, FS_CardinalityType

LEMMA ReversedClosedStep ==
    ASSUME MirrorInv, [Next]_vars, NEW i \in DOMAIN rows, Reversals(rows, i) # {}
    PROVE  Cardinality(Reversals(rows, i))' + Cardinality(Cancelling(i))'
               <= Cardinality(Reversals(rows, i)) + Cardinality(Cancelling(i))
<1>1. TypeOK /\ rows \in Seq(Row) /\ i \in Nat /\ i # NoReversal
  <2>1. DOMAIN rows \subseteq Nat \ {0}
    BY AppendRow DEF MirrorInv, TypeOK
  <2>2. QED
    BY <2>1 DEF MirrorInv, TypeOK, NoReversal
<1>2. PICK C, D, S, T : /\ C = Cancelling(i) /\ D = Cancelling(i)'
                        /\ S = Reversals(rows, i) /\ T = Reversals(rows', i)
  OBVIOUS
<1>3. D \subseteq C
  <2>1. ASSUME NEW w \in D
        PROVE  w \in C
    <3>1. /\ w \in Workers /\ Reversing(w)' /\ req'[w].pc \in {"insert", "commit"}
          /\ req'[w].row.rev = i
      BY <1>1, <1>2, <2>1 DEF Cancelling, Reversing
    <3>2. CASE req'[w] = req[w]
      BY <1>2, <3>1, <3>2 DEF Cancelling
    <3>3. ASSUME NEW j \in DOMAIN rows, BeginReverse(w, j)
          PROVE  FALSE
      <4>1. req'[w] = [pc |-> "check", row |-> ReversalOf(rows, j)]
        BY <1>1, <3>1, <3>3 DEF BeginReverse, TypeOK
      <4>2. QED
        BY <3>1, <4>1
    <3>4. CASE req'[w].row = req[w].row /\ ~AlreadyReversed(rows, req[w].row.rev)
      BY <3>1, <3>4 DEF AlreadyReversed
    <3>5. CASE req[w].pc = "insert" /\ req'[w].row = req[w].row
      BY <1>2, <3>1, <3>5 DEF Cancelling
    <3>6. QED
      BY <1>1, <3>1, <3>2, <3>3, <3>4, <3>5, ReversingStep
  <2>2. QED
    BY <2>1
<1>4. IsFiniteSet(C) /\ Cardinality(C) \in Nat
  BY <1>2, CancellingFinite
<1>5. S \in SUBSET DOMAIN rows
  BY <1>2 DEF Reversals
<1>6. Cardinality(S) \in Nat
  BY <1>1, <1>5, RowSetsGrow
<1>7. IsFiniteSet(D) /\ Cardinality(D) \in Nat
  BY <1>3, <1>4, FS_Subset, FS_CardinalityType
<1>8. Cardinality(T) + Cardinality(D) <= Cardinality(S) + Cardinality(C)
  <2>1. CASE T = S
    BY <1>3, <1>4, <1>6, <1>7, <2>1, FewerLeft
  <2>2. ASSUME NEW w \in Workers, CommitRow(w)
        PROVE  Cardinality(T) + Cardinality(D) <= Cardinality(S) + Cardinality(C)
    <3>1. req[w].row \in Row /\ rows' = Append(rows, req[w].row)
      BY <1>1, <2>2, CommittedRow
    <3>2. CASE req[w].row.rev # i
      BY <1>1, <1>2, <2>1, <3>1, <3>2, AppendReversals
    <3>3. CASE req[w].row.rev = i
      <4>1. T = S \cup {Len(rows) + 1}
        BY <1>1, <1>2, <3>1, <3>3, AppendReversals
      <4>2. Cardinality(T) = Cardinality(S) + 1
        BY <1>1, <1>5, <4>1, RowSetsGrow
      <4>3. w \in C /\ w \notin D
        BY <1>1, <1>2, <2>2, <3>3 DEF Cancelling, CommitRow, Finish, Idle, TypeOK
      <4>4. Cardinality(D) <= Cardinality(C) - 1
        BY <1>3, <1>4, <4>3, FewerLeft
      <4>5. QED
        BY <1>4, <1>6, <1>7, <4>2, <4>4
    <3>4. QED
      BY <3>2, <3>3
  <2>3. CASE rows' = rows
    BY <1>2, <2>1, <2>3
  <2>4. QED
    BY <1>1, <2>2, <2>3, RowsStep
<1>9. QED
  BY <1>2, <1>8

\* A reversed row is closed to reversals but those past their check, for any
\* number of requests.
THEOREM ReversedAlwaysClosed == Spec => ReversedRowsClosed
<1>1. Init => MirrorInv
  BY MirrorInit
<1>2. MirrorInv /\ [Next]_vars =>
        [\A i \in DOMAIN rows : Reversals(rows, i) # {} =>
            Cardinality(Reversals(rows, i))' + Cardinality(Cancelling(i))'
                <= Cardinality(Reversals(rows, i)) + Cardinality(Cancelling(i))]_vars
  BY ReversedClosedStep
<1>3. QED
  BY <1>1, <1>2, MirrorStep, PTL DEF Spec, ReversedRowsClosed

-----------------------------------------------------------------------------
(* A period is opened once, however many requests race for its label.      *)

LEMMA OpenedOnceStep ==
    ASSUME TypeOK, [Next]_vars
    PROVE  \A l \in Existing : /\ status'[l] # "none"
                               /\ startBal'[l] = startBal[l]
                               /\ openedAt'[l] = openedAt[l]
<1> SUFFICES ASSUME NEW l \in Labels, status[l] # "none"
             PROVE  /\ status'[l] # "none"
                    /\ startBal'[l] = startBal[l]
                    /\ openedAt'[l] = openedAt[l]
  BY DEF Existing
<1>1. CASE UNCHANGED <<status, startBal, openedAt>>
  BY <1>1
<1>2. ASSUME NEW w \in Workers, NEW m \in Labels, LockPeriod(w, m) \/ UnlockPeriod(w, m)
      PROVE  /\ status'[l] # "none"
             /\ startBal'[l] = startBal[l]
             /\ openedAt'[l] = openedAt[l]
  BY <1>2 DEF LockPeriod, UnlockPeriod, TypeOK
<1>3. ASSUME NEW w \in Workers, WriteOpened(w), ~LabelTaken(req[w].label)
      PROVE  /\ status'[l] # "none"
             /\ startBal'[l] = startBal[l]
             /\ openedAt'[l] = openedAt[l]
  <2>1. l # req[w].label
    BY <1>3 DEF LabelTaken
  <2>2. /\ status' = StatusAfter(req[w])
        /\ startBal' = [startBal EXCEPT ![req[w].label] = carry[w]]
        /\ openedAt' = [openedAt EXCEPT ![req[w].label] = req[w].at]
    BY <1>3 DEF WriteOpened
  <2>3. QED
    BY <2>1, <2>2 DEF TypeOK, StatusAfter
<1>4. QED
  BY <1>1, <1>2, <1>3
     DEF Next, RowStep, PeriodStep, OpenStep, vars, BeginCreate, BeginReverse, Reject,
         CheckReversed, InsertRow, CommitRow, BeginOpen, SumPrevious, WriteOpened, Abort

\* A period keeps its starting balance and its place in the order of opening,
\* for any number of concurrent calls of open_next_period.
THEOREM OpenedOnceAlways == Spec => OpenedOnce
<1>1. Init => TypeOK
  BY DEF Init, TypeOK, Status, Idle, IdleReq
<1>2. TypeOK /\ [Next]_vars =>
        [\A l \in Existing : /\ status'[l] # "none"
                             /\ startBal'[l] = startBal[l]
                             /\ openedAt'[l] = openedAt[l]]_vars
  BY OpenedOnceStep
<1>3. QED
  BY <1>1, <1>2, TypeStep, PTL DEF Spec, OpenedOnce

-----------------------------------------------------------------------------
(* A locked period is frozen, but for rows inserted before the lock.       *)

\* A request about to commit a row was so before, or has just inserted it.
LEMMA InsertedStep ==
    ASSUME TypeOK, NEW w \in Workers, [Next]_vars, req'[w].pc = "commit"
    PROVE  \/ req'[w] = req[w]
           \/ /\ req'[w].row = req[w].row
              /\ status[req[w].row.period] # "locked"
              /\ status' = status
<1>1. CASE CheckReversed(w)
  <2>1. req[w] \in RowReq
    BY <1>1, RequestCases DEF CheckReversed
  <2>2. CASE Finish(w)
    BY <2>2 DEF TypeOK, Finish, Idle
  <2>3. CASE GoTo(w, "insert")
    <3>1. req'[w] = [pc |-> "insert", row |-> req[w].row]
      BY <2>1, <2>3, Advance
    <3>2. QED
      BY <3>1
  <2>4. QED
    BY <1>1, <2>2, <2>3 DEF CheckReversed
<1>2. CASE InsertRow(w)
  <2>1. req[w] \in RowReq
    BY <1>2, RequestCases DEF InsertRow
  <2>2. CASE Finish(w)
    BY <2>2 DEF TypeOK, Finish, Idle
  <2>3. CASE ~PeriodLockedTrigger(req[w].row.period) /\ GoTo(w, "commit")
    <3>1. req'[w] = [pc |-> "commit", row |-> req[w].row]
      BY <2>1, <2>3, Advance
    <3>2. QED
      BY <1>2, <2>3, <3>1 DEF InsertRow, PeriodLockedTrigger
  <2>4. QED
    BY <1>2, <2>2, <2>3 DEF InsertRow
<1>3. CASE CommitRow(w) \/ WriteOpened(w) \/ Abort(w)
  BY <1>3 DEF CommitRow, WriteOpened, Abort, Finish, TypeOK, Idle
<1>4. ASSUME NEW l \in Labels, NEW d \in Direction, NEW a \in Amounts, BeginCreate(w, l, d, a)
      PROVE  FALSE
  BY <1>4 DEF BeginCreate, TypeOK
<1>5. ASSUME NEW i \in DOMAIN rows, BeginReverse(w, i)
      PROVE  FALSE
  <2>1. req'[w] = [pc |-> "check", row |-> ReversalOf(rows, i)]
    BY <1>5 DEF BeginReverse, TypeOK
  <2>2. QED
    BY <2>1
<1>6. ASSUME NEW l \in Labels, BeginOpen(w, l)
      PROVE  FALSE
  BY <1>6 DEF BeginOpen, TypeOK
<1>7. CASE SumPrevious(w)
  <2>1. req[w] \in OpenReq
    BY <1>7, RequestCases DEF SumPrevious
  <2>2. GoTo(w, "write")
    BY <1>7 DEF SumPrevious
  <2>3. req'[w] = [pc |-> "write", label |-> req[w].label, prev |-> req[w].prev,
                   wasOpen |-> req[w].wasOpen, at |-> req[w].at]
    BY <2>1, <2>2, Advance
  <2>4. QED
    BY <2>3
<1>8. CASE UNCHANGED req
  BY <1>8
<1>9. ASSUME NEW v \in Workers, v # w, RowStep(v) \/ PeriodStep(v) \/ OpenStep(v) \/ Abort(v)
      PROVE  req'[w] = req[w]
  BY <1>9, OthersKept
<1>10. QED
  BY <1>1, <1>2, <1>3, <1>4, <1>5, <1>6, <1>7, <1>8, <1>9
     DEF Next, RowStep, PeriodStep, OpenStep, Reject, LockPeriod, UnlockPeriod, vars

\* A row appended to another period changes nothing in period l.
LEMMA AppendElsewhere ==
    ASSUME NEW s \in Seq(Row), NEW r \in Row, NEW l \in Labels, r.period # l
    PROVE  /\ InPeriod(Append(s, r), l) = InPeriod(s, l)
           /\ \A k \in InPeriod(s, l) : Append(s, r)[k] = s[k]
<1> DEFINE t == Append(s, r)
<1>1. /\ DOMAIN t = DOMAIN s \cup {Len(s) + 1}
      /\ Len(s) + 1 \notin DOMAIN s
      /\ \A k \in DOMAIN s : t[k] = s[k]
      /\ t[Len(s) + 1] = r
  BY AppendRow
<1> HIDE DEF t
<1>2. \A k \in DOMAIN t : t[k].period = l <=> k \in DOMAIN s /\ s[k].period = l
  BY <1>1
<1>3. InPeriod(t, l) = InPeriod(s, l)
  BY <1>1, <1>2 DEF InPeriod
<1>4. \A k \in InPeriod(s, l) : t[k] = s[k]
  BY <1>1 DEF InPeriod
<1>5. QED
  BY <1>3, <1>4 DEF t

LEMMA FrozenStep ==
    ASSUME TypeOK, [Next]_vars, NEW l \in Labels, status[l] = "locked"
    PROVE  Cardinality(InPeriod(rows, l))' + Cardinality(Committing(l))'
               <= Cardinality(InPeriod(rows, l)) + Cardinality(Committing(l))
<1>1. PICK C, D, S, T : /\ C = Committing(l) /\ D = Committing(l)'
                        /\ S = InPeriod(rows, l) /\ T = InPeriod(rows', l)
  OBVIOUS
<1>2. D \subseteq C
  <2>1. ASSUME NEW w \in D
        PROVE  w \in C
    <3>1. w \in Workers /\ req'[w].pc = "commit" /\ req'[w].row.period = l
      BY <1>1, <2>1 DEF Committing
    <3>2. CASE req'[w] = req[w]
      BY <1>1, <3>1, <3>2 DEF Committing
    <3>3. QED
      BY <3>1, <3>2, InsertedStep
  <2>2. QED
    BY <2>1
<1>3. IsFiniteSet(C) /\ Cardinality(C) \in Nat
  BY <1>1, CancellingFinite
<1>4. S \in SUBSET DOMAIN rows /\ rows \in Seq(Row)
  BY <1>1 DEF InPeriod, TypeOK
<1>5. Cardinality(S) \in Nat
  BY <1>4, RowSetsGrow
<1>6. IsFiniteSet(D) /\ Cardinality(D) \in Nat
  BY <1>2, <1>3, FS_Subset, FS_CardinalityType
<1>7. CASE T = S
  BY <1>1, <1>2, <1>3, <1>5, <1>6, <1>7, FewerLeft
<1>8. ASSUME NEW w \in Workers, CommitRow(w)
      PROVE  Cardinality(T) + Cardinality(D) <= Cardinality(S) + Cardinality(C)
  <2>1. req[w].row \in Row /\ rows' = Append(rows, req[w].row)
    BY <1>8, CommittedRow
  <2>2. CASE req[w].row.period # l
    <3>1. T = S
      BY <1>1, <1>4, <2>1, <2>2, AppendElsewhere
    <3>2. QED
      BY <1>1, <1>7, <3>1
  <2>3. CASE req[w].row.period = l
    <3>1. T = S \cup {Len(rows) + 1}
      BY <1>1, <1>4, <2>1, <2>3, AppendRow DEF InPeriod
    <3>2. Cardinality(T) = Cardinality(S) + 1
      BY <1>4, <3>1, RowSetsGrow
    <3>3. w \in C /\ w \notin D
      BY <1>1, <1>8, <2>3 DEF Committing, CommitRow, Finish, Idle, TypeOK
    <3>4. Cardinality(D) <= Cardinality(C) - 1
      BY <1>2, <1>3, <3>3, FewerLeft
    <3>5. QED
      BY <1>3, <1>5, <1>6, <3>2, <3>4
  <2>4. QED
    BY <2>2, <2>3
<1>9. QED
  BY <1>1, <1>7, <1>8, RowsStep

\* Nothing is inserted into a locked period, for any number of requests.
THEOREM LockedPeriodFrozenAlways == Spec => LockedPeriodFrozen
<1>1. Init => TypeOK
  BY DEF Init, TypeOK, Status, Idle, IdleReq
<1>2. TypeOK /\ [Next]_vars =>
        [\A l \in Labels : status[l] = "locked" =>
            Cardinality(InPeriod(rows, l))' + Cardinality(Committing(l))'
                <= Cardinality(InPeriod(rows, l)) + Cardinality(Committing(l))]_vars
  BY FrozenStep
<1>3. QED
  BY <1>1, <1>2, TypeStep, PTL DEF Spec, LockedPeriodFrozen

-----------------------------------------------------------------------------
(* Periods that change alone: what open_next_period has read is still so   *)
(* when it writes.                                                         *)

RowPCs == {"check", "insert", "commit"}

OpenedInPast == \A l \in Existing : openedAt[l] <= clock

OpenedApart == \A p, q \in Existing : openedAt[p] = openedAt[q] => p = q

\* A row on its way is for an open period.
RowsForOpen ==
    \A w \in Workers : req[w].pc \in RowPCs => status[req[w].row.period] = "open"

OpensAlone == \A v, w \in Workers : Opening(v) /\ ~IsIdle(w) => v = w

\* What open_next_period has read is still so.
ReadsCurrent(w) ==
    Opening(w) =>
        /\ req[w].at <= clock
        /\ \A l \in Existing : openedAt[l] < req[w].at
        /\ IsLatest(req[w].prev)
        /\ req[w].wasOpen <=> req[w].prev # NoPeriod /\ status[req[w].prev] = "open"
        /\ req[w].pc = "write" =>
              carry[w] = IF req[w].prev = NoPeriod THEN 0 ELSE Closing(req[w].prev)

AloneInv ==
    /\ TypeOK
    /\ OpenedInPast /\ OpenedApart
    /\ RowsForOpen
    /\ OpensAlone
    /\ \A w \in Workers : ReadsCurrent(w)

AloneNext == Next /\ PeriodsChangeAlone

-----------------------------------------------------------------------------
(* Which steps change what.                                                *)

LEMMA NextIsNext == ASSUME [AloneNext]_vars PROVE [Next]_vars
  BY DEF AloneNext

LEMMA PeriodsStep ==
    ASSUME AloneNext
    PROVE  \/ UNCHANGED <<status, startBal, openedAt>>
           \/ \E w \in Workers, l \in Labels : LockPeriod(w, l) \/ UnlockPeriod(w, l)
           \/ \E w \in Workers : WriteOpened(w) /\ ~LabelTaken(req[w].label)
  BY DEF AloneNext, Next, RowStep, PeriodStep, OpenStep, vars, BeginCreate, BeginReverse,
         Reject, CheckReversed, InsertRow, CommitRow, BeginOpen, SumPrevious, WriteOpened, Abort

\* A row on its way was so before, or its period has just been found open.
LEMMA RowReqStep ==
    ASSUME TypeOK, NEW w \in Workers, [Next]_vars, req'[w].pc \in RowPCs
    PROVE  \/ req[w].pc \in RowPCs /\ req'[w].row = req[w].row
           \/ status[req'[w].row.period] = "open"
<1> USE DEF RowPCs
<1>1. CASE CheckReversed(w) \/ InsertRow(w)
  <2>1. req[w] \in RowReq /\ req[w].pc \in RowPCs
    BY <1>1, RequestCases DEF CheckReversed, InsertRow
  <2>2. CASE Finish(w)
    BY <2>2 DEF TypeOK, Finish, Idle
  <2>3. ASSUME NEW p \in {"insert", "commit"}, GoTo(w, p)
        PROVE  req'[w].row = req[w].row
    <3>1. req'[w] = [pc |-> p, row |-> req[w].row]
      BY <2>1, <2>3, Advance
    <3>2. QED
      BY <3>1
  <2>4. QED
    BY <1>1, <2>1, <2>2, <2>3 DEF CheckReversed, InsertRow
<1>2. CASE CommitRow(w) \/ WriteOpened(w) \/ Abort(w)
  BY <1>2 DEF CommitRow, WriteOpened, Abort, Finish, TypeOK, Idle
<1>3. ASSUME NEW l \in Labels, NEW d \in Direction, NEW a \in Amounts, BeginCreate(w, l, d, a)
      PROVE  status[req'[w].row.period] = "open"
  BY <1>3 DEF BeginCreate, TypeOK
<1>4. ASSUME NEW i \in DOMAIN rows, BeginReverse(w, i)
      PROVE  status[req'[w].row.period] = "open"
  <2>1. req'[w] = [pc |-> "check", row |-> ReversalOf(rows, i)]
    BY <1>4 DEF BeginReverse, TypeOK
  <2>2. QED
    BY <1>4, <2>1 DEF BeginReverse, ReversalOf
<1>5. ASSUME NEW l \in Labels, BeginOpen(w, l)
      PROVE  FALSE
  BY <1>5 DEF BeginOpen, TypeOK
<1>6. CASE SumPrevious(w)
  <2>1. req[w] \in OpenReq
    BY <1>6, RequestCases DEF SumPrevious
  <2>2. GoTo(w, "write")
    BY <1>6 DEF SumPrevious
  <2>3. req'[w] = [pc |-> "write", label |-> req[w].label, prev |-> req[w].prev,
                   wasOpen |-> req[w].wasOpen, at |-> req[w].at]
    BY <2>1, <2>2, Advance
  <2>4. QED
    BY <2>3
<1>7. CASE req'[w] = req[w]
  BY <1>7
<1>8. ASSUME NEW v \in Workers, v # w, RowStep(v) \/ PeriodStep(v) \/ OpenStep(v) \/ Abort(v)
      PROVE  req'[w] = req[w]
  BY <1>8, OthersKept
<1>9. QED
  BY <1>1, <1>2, <1>3, <1>4, <1>5, <1>6, <1>7, <1>8
     DEF Next, RowStep, PeriodStep, OpenStep, Reject, LockPeriod, UnlockPeriod, vars

\* A call of open_next_period in progress was so before, has just begun, or
\* has just summed.
LEMMA OpeningStep ==
    ASSUME TypeOK, NEW w \in Workers, [Next]_vars, Opening(w)'
    PROVE  \/ req'[w] = req[w] /\ carry'[w] = carry[w]
           \/ \E l \in Labels : BeginOpen(w, l)
           \/ /\ SumPrevious(w)
              /\ req[w] \in OpenReq
              /\ req'[w] = [pc |-> "write", label |-> req[w].label, prev |-> req[w].prev,
                            wasOpen |-> req[w].wasOpen, at |-> req[w].at]
<1> USE DEF Opening
<1>1. CASE CheckReversed(w) \/ InsertRow(w)
  <2>1. req[w] \in RowReq
    BY <1>1, RequestCases DEF CheckReversed, InsertRow
  <2>2. CASE Finish(w)
    BY <2>2 DEF TypeOK, Finish, Idle
  <2>3. ASSUME NEW p \in {"insert", "commit"}, GoTo(w, p)
        PROVE  FALSE
    <3>1. req'[w] = [pc |-> p, row |-> req[w].row]
      BY <2>1, <2>3, Advance
    <3>2. QED
      BY <3>1
  <2>4. QED
    BY <1>1, <2>2, <2>3 DEF CheckReversed, InsertRow
<1>2. CASE CommitRow(w) \/ WriteOpened(w) \/ Abort(w)
  BY <1>2 DEF CommitRow, WriteOpened, Abort, Finish, TypeOK, Idle
<1>3. ASSUME NEW l \in Labels, NEW d \in Direction, NEW a \in Amounts, BeginCreate(w, l, d, a)
      PROVE  FALSE
  BY <1>3 DEF BeginCreate, TypeOK
<1>4. ASSUME NEW i \in DOMAIN rows, BeginReverse(w, i)
      PROVE  FALSE
  <2>1. req'[w] = [pc |-> "check", row |-> ReversalOf(rows, i)]
    BY <1>4 DEF BeginReverse, TypeOK
  <2>2. QED
    BY <2>1
<1>5. CASE SumPrevious(w)
  <2>1. req[w] \in OpenReq
    BY <1>5, RequestCases DEF SumPrevious
  <2>2. GoTo(w, "write")
    BY <1>5 DEF SumPrevious
  <2>3. QED
    BY <1>5, <2>1, <2>2, Advance
<1>6. CASE UNCHANGED <<req, carry>>
  BY <1>6
<1>7. ASSUME NEW v \in Workers, v # w, RowStep(v) \/ PeriodStep(v) \/ OpenStep(v) \/ Abort(v)
      PROVE  req'[w] = req[w] /\ carry'[w] = carry[w]
  <2>1. carry'[w] = carry[w]
    BY <1>7 DEF TypeOK, RowStep, PeriodStep, OpenStep, Abort, BeginCreate, BeginReverse, Reject, vars,
                CheckReversed, InsertRow, CommitRow, LockPeriod, UnlockPeriod, BeginOpen, SumPrevious, WriteOpened
  <2>2. QED
    BY <1>7, <2>1, OthersKept
<1>8. QED
  BY <1>1, <1>2, <1>3, <1>4, <1>5, <1>6, <1>7
     DEF Next, RowStep, PeriodStep, OpenStep, Reject, LockPeriod, UnlockPeriod, vars

-----------------------------------------------------------------------------
(* The conjuncts of the invariant, one lemma each.                         *)

LEMMA OpensAloneStep ==
    ASSUME OpensAlone, [AloneNext]_vars
    PROVE  OpensAlone'
<1>1. CASE UNCHANGED vars
  BY <1>1 DEF OpensAlone, Opening, IsIdle, vars
<1>2. CASE AloneNext
  BY <1>2 DEF AloneNext, PeriodsChangeAlone, OpensAlone
<1>3. QED
  BY <1>1, <1>2

LEMMA RowsForOpenStep ==
    ASSUME TypeOK, RowsForOpen, [AloneNext]_vars
    PROVE  RowsForOpen'
<1>1. CASE status' = status
  <2>1. ASSUME NEW w \in Workers, req'[w].pc \in RowPCs
        PROVE  status[req'[w].row.period] = "open"
    BY <2>1, NextIsNext, RowReqStep DEF RowsForOpen
  <2>2. QED
    BY <1>1, <2>1 DEF RowsForOpen
<1>2. CASE status' # status
  <2>1. \A w \in Workers : req'[w] = Idle
    BY <1>2 DEF AloneNext, PeriodsChangeAlone, IsIdle, vars
  <2>2. QED
    BY <2>1 DEF RowsForOpen, RowPCs, Idle
<1>3. QED
  BY <1>1, <1>2

\* What WriteOpened makes of the periods.
LEMMA Opened ==
    ASSUME AloneInv, AloneNext, NEW w \in Workers, WriteOpened(w), ~LabelTaken(req[w].label),
           NEW L, L = req[w].label
    PROVE  /\ L \in Labels /\ L \notin Existing /\ L # NoPeriod
           /\ Existing' = Existing \cup {L}
           /\ \A l \in Existing : /\ l # L
                                  /\ openedAt'[l] = openedAt[l]
                                  /\ startBal'[l] = startBal[l]
                                  /\ openedAt[l] < openedAt'[L]
           /\ openedAt'[L] = req[w].at /\ req[w].at \in Nat /\ openedAt'[L] <= clock
           /\ startBal'[L] = IF req[w].prev = NoPeriod THEN 0 ELSE Closing(req[w].prev)
           /\ rows' = rows /\ clock' = clock
           /\ \A v \in Workers : req'[v] = Idle
<1>1. /\ req[w] \in OpenReq /\ Opening(w) /\ req[w].pc = "write" /\ TypeOK
  BY RequestCases DEF WriteOpened, AloneInv, Opening
<1>2. /\ L \in Labels /\ L \notin Existing /\ L # NoPeriod /\ req[w].at \in Nat
  BY <1>1, NoPeriodAssumption DEF OpenReq, LabelTaken, Existing
<1>3. /\ status' = StatusAfter(req[w])
      /\ startBal' = [startBal EXCEPT ![L] = carry[w]]
      /\ openedAt' = [openedAt EXCEPT ![L] = req[w].at]
      /\ rows' = rows /\ clock' = clock
  BY DEF WriteOpened
<1>4. Existing' = Existing \cup {L}
  <2>1. req[w].wasOpen => status[req[w].prev] = "open"
    BY <1>1 DEF AloneInv, ReadsCurrent
  <2>2. \A l \in Labels : status'[l] # "none" <=> l = L \/ status[l] # "none"
    BY <1>3, <2>1 DEF StatusAfter
  <2>3. QED
    BY <1>2, <2>2 DEF Existing
<1>5. /\ openedAt'[L] = req[w].at /\ startBal'[L] = carry[w]
      /\ \A l \in Existing : l # L /\ openedAt'[l] = openedAt[l] /\ startBal'[l] = startBal[l]
  BY <1>1, <1>2, <1>3 DEF Existing, TypeOK
<1>6. /\ req[w].at <= clock
      /\ \A l \in Existing : openedAt[l] < req[w].at
      /\ carry[w] = IF req[w].prev = NoPeriod THEN 0 ELSE Closing(req[w].prev)
  BY <1>1 DEF AloneInv, ReadsCurrent
<1>7. \A v \in Workers : req'[v] = Idle
  <2>1. status' # status
    BY <1>1, <1>2, <1>3 DEF StatusAfter, Existing
  <2>2. QED
    BY <2>1 DEF AloneNext, PeriodsChangeAlone, IsIdle
<1>8. QED
  BY <1>2, <1>3, <1>4, <1>5, <1>6, <1>7

LEMMA OpenedInPastStep ==
    ASSUME AloneInv, AloneNext
    PROVE  OpenedInPast'
<1> TypeOK /\ OpenedInPast /\ [Next]_vars
  BY NextIsNext DEF AloneInv
<1>1. clock' \in Nat /\ clock \in Nat /\ clock <= clock'
  <2>1. clock' = clock \/ clock' = clock + 1
    BY DEF Next, RowStep, PeriodStep, OpenStep, vars, BeginCreate, BeginReverse, Reject,
           CheckReversed, InsertRow, CommitRow, LockPeriod, UnlockPeriod, BeginOpen, SumPrevious,
           WriteOpened, Abort
  <2>2. QED
    BY <2>1 DEF TypeOK
<1>2. CASE UNCHANGED <<status, startBal, openedAt>>
  BY <1>1, <1>2 DEF OpenedInPast, Existing, TypeOK
<1>3. ASSUME NEW w \in Workers, NEW l \in Labels, LockPeriod(w, l) \/ UnlockPeriod(w, l)
      PROVE  OpenedInPast'
  BY <1>1, <1>3 DEF LockPeriod, UnlockPeriod, OpenedInPast, Existing, TypeOK
<1>4. ASSUME NEW w \in Workers, WriteOpened(w), ~LabelTaken(req[w].label)
      PROVE  OpenedInPast'
  BY <1>4, Opened DEF OpenedInPast
<1>5. QED
  BY <1>2, <1>3, <1>4, PeriodsStep

LEMMA OpenedApartStep ==
    ASSUME AloneInv, AloneNext
    PROVE  OpenedApart'
<1> TypeOK /\ OpenedApart
  BY DEF AloneInv
<1>1. CASE UNCHANGED <<status, startBal, openedAt>>
  BY <1>1 DEF OpenedApart, Existing
<1>2. ASSUME NEW w \in Workers, NEW l \in Labels, LockPeriod(w, l) \/ UnlockPeriod(w, l)
      PROVE  OpenedApart'
  BY <1>2 DEF LockPeriod, UnlockPeriod, OpenedApart, Existing, TypeOK
<1>3. ASSUME NEW w \in Workers, WriteOpened(w), ~LabelTaken(req[w].label)
      PROVE  OpenedApart'
  <2> DEFINE L == req[w].label
  <2>1. /\ Existing' = Existing \cup {L}
        /\ \A l \in Existing : openedAt'[l] = openedAt[l] /\ openedAt[l] < openedAt'[L]
    BY <1>3, Opened
  <2>2. \A l \in Existing : openedAt[l] \in Nat
    BY DEF Existing, TypeOK
  <2> HIDE DEF L
  <2>3. QED
    BY <2>1, <2>2 DEF OpenedApart
<1>4. QED
  BY <1>1, <1>2, <1>3, PeriodsStep

LEMMA ReadsCurrentStep ==
    ASSUME AloneInv, AloneNext, NEW w \in Workers
    PROVE  ReadsCurrent(w)'
<1> /\ TypeOK /\ ReadsCurrent(w) /\ OpensAlone /\ OpenedInPast
    /\ [Next]_vars /\ OpensAlone'
  BY NextIsNext, OpensAloneStep DEF AloneInv
<1> SUFFICES ASSUME Opening(w)' PROVE ReadsCurrent(w)'
  BY DEF ReadsCurrent
<1>1. req'[w] # Idle
  BY DEF Opening, Idle
<1>2. UNCHANGED <<status, startBal, openedAt>>
  <2>1. status' = status
    BY <1>1 DEF AloneNext, PeriodsChangeAlone, IsIdle
  <2>2. ASSUME NEW v \in Workers, WriteOpened(v), ~LabelTaken(req[v].label)
        PROVE  FALSE
    BY <1>1, <2>2, Opened
  <2>3. ASSUME NEW v \in Workers, NEW l \in Labels, LockPeriod(v, l) \/ UnlockPeriod(v, l)
        PROVE  UNCHANGED <<startBal, openedAt>>
    BY <2>3 DEF LockPeriod, UnlockPeriod
  <2>4. QED
    BY <2>1, <2>2, <2>3, PeriodsStep
<1>3. CASE req'[w] = req[w] /\ carry'[w] = carry[w]
  <2>1. Opening(w)
    BY <1>3 DEF Opening
  <2>2. rows' = rows
    <3>1. ASSUME NEW v \in Workers, CommitRow(v)
          PROVE  FALSE
      <4>1. v # w /\ req[v] # Idle
        BY <2>1, <3>1 DEF CommitRow, Opening, Idle
      <4>2. QED
        BY <2>1, <4>1 DEF OpensAlone, IsIdle
    <3>2. QED
      BY <3>1, RowsStep
  <2>3. clock' = clock
    <3>1. ASSUME NEW v \in Workers, NEW l \in Labels, BeginOpen(v, l)
          PROVE  FALSE
      <4>1. v # w /\ req'[v] # Idle
        BY <1>1, <1>3, <3>1 DEF BeginOpen, IsIdle, TypeOK, Idle
      <4>2. QED
        BY <4>1 DEF OpensAlone, IsIdle
    <3>2. QED
      BY <3>1 DEF Next, RowStep, PeriodStep, OpenStep, vars, BeginCreate, BeginReverse,
                  Reject, CheckReversed, InsertRow, CommitRow, LockPeriod, UnlockPeriod,
                  SumPrevious, WriteOpened, Abort
  <2>4. QED
    BY <1>2, <1>3, <2>1, <2>2, <2>3 DEF ReadsCurrent, IsLatest, Existing, Closing
<1>4. ASSUME NEW l \in Labels, BeginOpen(w, l)
      PROVE  ReadsCurrent(w)'
  <2>1. PICK p \in Labels \cup {NoPeriod} :
            /\ IsLatest(p)
            /\ req' = [req EXCEPT ![w] = [pc |-> "sum", label |-> l, prev |-> p,
                           wasOpen |-> p # NoPeriod /\ status[p] = "open", at |-> clock + 1]]
    BY <1>4 DEF BeginOpen
  <2>2. PICK b \in BOOLEAN : b <=> p # NoPeriod /\ status[p] = "open"
    OBVIOUS
  <2>3. req'[w] = [pc |-> "sum", label |-> l, prev |-> p, wasOpen |-> b, at |-> clock + 1]
    BY <2>2, <2>1 DEF TypeOK
  <2>4. clock' = clock + 1 /\ clock \in Nat
    BY <1>4 DEF BeginOpen, TypeOK
  <2>5. \A m \in Existing' : openedAt'[m] < clock + 1
    BY <1>2, <2>4 DEF OpenedInPast, Existing, TypeOK
  <2>6. IsLatest(req[w].prev)'
    BY <1>2, <2>1, <2>3 DEF IsLatest, Existing
  <2>7. req'[w].pc = "sum" /\ req'[w].prev = p /\ req'[w].at = clock + 1
    BY <2>3
  <2>8. req'[w].wasOpen <=> p # NoPeriod /\ status[p] = "open"
    BY <2>2, <2>3
  <2>9. QED
    BY <1>2, <2>4, <2>5, <2>6, <2>7, <2>8 DEF ReadsCurrent
<1>5. CASE /\ SumPrevious(w)
           /\ req[w] \in OpenReq
           /\ req'[w] = [pc |-> "write", label |-> req[w].label, prev |-> req[w].prev,
                         wasOpen |-> req[w].wasOpen, at |-> req[w].at]
  <2>1. /\ Opening(w) /\ rows' = rows /\ clock' = clock
        /\ carry'[w] = IF req[w].prev = NoPeriod THEN 0 ELSE Closing(req[w].prev)
    BY <1>5 DEF SumPrevious, Opening, TypeOK
  <2>2. QED
    BY <1>2, <1>5, <2>1 DEF ReadsCurrent, IsLatest, Existing, Closing
<1>6. QED
  BY <1>3, <1>4, <1>5, OpeningStep

LEMMA AloneStep == AloneInv /\ [AloneNext]_vars => AloneInv'
<1> SUFFICES ASSUME AloneInv, [AloneNext]_vars PROVE AloneInv'
  OBVIOUS
<1>1. TypeOK' /\ OpensAlone' /\ RowsForOpen'
  BY NextIsNext, TypeStep, OpensAloneStep, RowsForOpenStep DEF AloneInv
<1>2. CASE AloneNext
  <2>1. OpenedInPast' /\ OpenedApart'
    BY <1>2, OpenedInPastStep, OpenedApartStep
  <2>2. \A w \in Workers : ReadsCurrent(w)'
    BY <1>2, ReadsCurrentStep
  <2>3. QED
    BY <1>1, <2>1, <2>2 DEF AloneInv
<1>3. CASE UNCHANGED vars
  <2>1. OpenedInPast' /\ OpenedApart'
    BY <1>3 DEF vars, AloneInv, OpenedInPast, OpenedApart, Existing
  <2>2. \A w \in Workers : ReadsCurrent(w)'
    BY <1>3 DEF vars, AloneInv, ReadsCurrent, IsLatest, Existing, Opening, Closing
  <2>3. QED
    BY <1>1, <2>1, <2>2 DEF AloneInv
<1>4. QED
  BY <1>2, <1>3

LEMMA AloneInit == Init => AloneInv
<1> SUFFICES ASSUME Init PROVE AloneInv
  OBVIOUS
<1>1. TypeOK
  BY DEF Init, TypeOK, Status, Idle, IdleReq
<1>2. Existing = {} /\ \A w \in Workers : req[w] = Idle
  BY DEF Init, Existing
<1>3. OpenedInPast /\ OpenedApart
  BY <1>2 DEF Init, OpenedInPast, OpenedApart
<1>4. RowsForOpen /\ OpensAlone /\ \A w \in Workers : ReadsCurrent(w)
  BY <1>2 DEF RowsForOpen, RowPCs, OpensAlone, ReadsCurrent, Opening, Idle
<1>5. QED
  BY <1>1, <1>3, <1>4 DEF AloneInv

-----------------------------------------------------------------------------
(* What a balance carried is the balance of, however requests interleave.  *)

LEMMA HistoryIsNext ==
    ASSUME [HistoryNext]_historyVars
    PROVE  [Next]_vars
  BY DEF HistoryNext, historyVars, NoteSum, NoteOrigin, ForgetSum, NoteNothing, Next, OpenStep

\* The history variables only watch: without them, it is the ledger.
THEOREM HistoryIsLedger == HistorySpec => Spec
<1>1. HistoryInit => Init
  BY DEF HistoryInit
<1>2. QED
  BY <1>1, HistoryIsNext, PTL DEF HistorySpec, Spec

LEMMA OpenPCs ==
    ASSUME TypeOK, NEW w \in Workers, req[w].pc \in {"sum", "write"}
    PROVE  /\ req[w].label \in Labels /\ req[w].at \in Nat
           /\ req[w].prev \in Labels \cup {NoPeriod}
  BY RequestCases DEF OpenReq

LEMMA HistoryTypeStep == HistoryTypeOK /\ [HistoryNext]_historyVars => HistoryTypeOK'
<1> SUFFICES ASSUME HistoryTypeOK, [HistoryNext]_historyVars PROVE HistoryTypeOK'
  OBVIOUS
<1>1. TypeOK /\ TypeOK' /\ Len(rows) \in Nat
  BY HistoryIsNext, TypeStep DEF HistoryTypeOK, TypeOK
<1>2. ASSUME NEW w \in Workers, NoteSum(w) \/ ForgetSum(w)
      PROVE  HistoryTypeOK'
  BY <1>1, <1>2 DEF NoteSum, ForgetSum, HistoryTypeOK
<1>3. ASSUME NEW w \in Workers, NoteOrigin(w)
      PROVE  HistoryTypeOK'
  <2>1. req[w].label \in Labels /\ req[w].prev \in Labels \cup {NoPeriod}
    BY <1>1, <1>3, OpenPCs DEF NoteOrigin, WriteOpened
  <2>2. PICK o : o = [prev |-> req[w].prev, upTo |-> summed[w]]
    OBVIOUS
  <2>3. o \in Origin
    BY <2>1, <2>2 DEF HistoryTypeOK, Origin
  <2>4. origin' = origin \/ origin' = [origin EXCEPT ![req[w].label] = o]
    BY <1>3, <2>2 DEF NoteOrigin
  <2>5. QED
    BY <1>1, <1>3, <2>1, <2>3, <2>4 DEF NoteOrigin, HistoryTypeOK
<1>4. ASSUME NEW w \in Workers, NoteNothing(w)
      PROVE  HistoryTypeOK'
  BY <1>1, <1>4 DEF NoteNothing, HistoryTypeOK
<1>5. CASE UNCHANGED historyVars
  BY <1>1, <1>5 DEF historyVars, HistoryTypeOK
<1>6. QED
  BY <1>2, <1>3, <1>4, <1>5 DEF HistoryNext

LEMMA HistoryTypeInit == HistoryInit => HistoryTypeOK
<1> SUFFICES ASSUME HistoryInit PROVE HistoryTypeOK
  OBVIOUS
<1>1. TypeOK
  BY DEF HistoryInit, Init, TypeOK, Status, Idle, IdleReq
<1>2. NoOrigin \in Origin
  BY DEF NoOrigin, Origin
<1>3. QED
  BY <1>1, <1>2 DEF HistoryInit, HistoryTypeOK

\* The type invariant, with the history variables.
THEOREM HistoryTypeCorrect == HistorySpec => []HistoryTypeOK
  BY HistoryTypeInit, HistoryTypeStep, PTL DEF HistorySpec

\* What the balance a rollover has summed is the balance of.
CarryNoted(w) ==
    Opening(w) =>
        /\ req[w].at <= clock
        /\ req[w].prev # NoPeriod =>
              req[w].prev \in Existing /\ openedAt[req[w].prev] < req[w].at
        /\ req[w].pc = "write" =>
              /\ summed[w] <= Len(rows)
              /\ carry[w] = IF req[w].prev = NoPeriod THEN 0
                            ELSE startBal[req[w].prev]
                                    + NetOf(rows, Early(rows, req[w].prev, summed[w]))

RowsOwned ==
    /\ \A k \in DOMAIN rows : rows[k].period \in Existing
    /\ \A w \in Workers : req[w].pc \in RowPCs => req[w].row.period \in Existing

OriginsPast == \A q \in Existing : origin[q].upTo <= Len(rows)

HasRoot == Existing # {} => \E q \in Existing : origin[q].prev = NoPeriod

LastUnique == OneChain => \A p, q \in Labels : IsLast(p) /\ IsLast(q) => p = q

CarriedInv ==
    /\ HistoryTypeOK
    /\ OpenedInPast
    /\ \A w \in Workers : CarryNoted(w)
    /\ RowsOwned
    /\ OriginsPast
    /\ HasRoot
    /\ BalanceCarried

ChainInv == CarriedInv /\ LastUnique /\ CashAccounted

-----------------------------------------------------------------------------
(* Sums over a table that grows.                                           *)

LEMMA NetOfType ==
    ASSUME NEW s \in Seq(Row), NEW T \in SUBSET DOMAIN s
    PROVE  NetOf(s, T) \in Int
<1>1. NetOf(s, T) = SumFunction(Part(Values(s), T))
  BY Nets
<1>2. QED
  BY <1>1, ValuesSummable, PartSummable

LEMMA NetOfUnion ==
    ASSUME NEW s \in Seq(Row), NEW S \in SUBSET DOMAIN s, NEW T \in SUBSET DOMAIN s,
           S \cap T = {}
    PROVE  NetOf(s, S \cup T) = NetOf(s, S) + NetOf(s, T)
<1>1. PICK v : v = Values(s)
  OBVIOUS
<1>2. Summable(v) /\ DOMAIN v = DOMAIN s
  BY <1>1, ValuesSummable
<1>3. S \cup T \in SUBSET DOMAIN s
  OBVIOUS
<1>4. /\ NetOf(s, S \cup T) = SumFunction(Part(v, S \cup T))
      /\ NetOf(s, S) = SumFunction(Part(v, S))
      /\ NetOf(s, T) = SumFunction(Part(v, T))
  BY <1>1, <1>3, Nets
<1>5. SumFunction(Part(v, S \cup T)) = SumFunction(Part(v, S)) + SumFunction(Part(v, T))
  BY <1>2, PartUnion
<1>6. QED
  BY <1>4, <1>5

LEMMA NetOfGrown ==
    ASSUME NEW s \in Seq(Row), NEW r \in Row, NEW T \in SUBSET DOMAIN s
    PROVE  /\ NetOf(Append(s, r), T) = NetOf(s, T)
           /\ NetOf(Append(s, r), T \cup {Len(s) + 1}) = NetOf(s, T) + Signed(r)
<1>1. PICK t, n : t = Append(s, r) /\ n = Len(s) + 1
  OBVIOUS
<1>2. /\ t \in Seq(Row)
      /\ DOMAIN t = DOMAIN s \cup {n} /\ n \notin DOMAIN s
      /\ \A k \in DOMAIN s : t[k] = s[k]
      /\ t[n] = r
  BY <1>1, AppendRow
<1>3. NetOf(t, T) = NetOf(s, T)
  <2>1. [k \in T |-> Signed(t[k])] = [k \in T |-> Signed(s[k])]
    BY <1>2
  <2>2. QED
    BY <2>1 DEF NetOf
<1>4. PICK v : v = Values(t)
  OBVIOUS
<1>5. Summable(v) /\ DOMAIN v = DOMAIN t /\ v[n] = Signed(r)
  BY <1>2, <1>4, ValuesSummable
<1>6. /\ NetOf(t, T \cup {n}) = SumFunction(Part(v, T \cup {n}))
      /\ NetOf(t, T) = SumFunction(Part(v, T))
  BY <1>2, <1>4, Nets
<1>7. SumFunction(Part(v, T \cup {n})) = SumFunction(Part(v, T)) + v[n]
  BY <1>2, <1>5, PartAdd
<1>8. QED
  BY <1>1, <1>3, <1>5, <1>6, <1>7

LEMMA EarlyGrown ==
    ASSUME NEW s \in Seq(Row), NEW r \in Row, NEW p, NEW n \in Nat, n <= Len(s)
    PROVE  /\ Early(Append(s, r), p, n) = Early(s, p, n)
           /\ NetOf(Append(s, r), Early(Append(s, r), p, n)) = NetOf(s, Early(s, p, n))
           /\ Early(s, p, n) \in SUBSET DOMAIN s
<1>1. PICK t, m : t = Append(s, r) /\ m = Len(s) + 1
  OBVIOUS
<1>2. /\ DOMAIN t = DOMAIN s \cup {m} /\ m \notin DOMAIN s
      /\ \A k \in DOMAIN s : t[k] = s[k]
      /\ ~(m <= n)
  BY <1>1, AppendRow
<1>3. Early(t, p, n) = Early(s, p, n)
  BY <1>2 DEF Early, InPeriod
<1>4. Early(s, p, n) \in SUBSET DOMAIN s
  BY DEF Early, InPeriod
<1>5. QED
  BY <1>1, <1>3, <1>4, NetOfGrown

\* All rows of a period are early at the instant they are summed.
LEMMA EarlyNow ==
    ASSUME NEW s \in Seq(Row), NEW p
    PROVE  Early(s, p, Len(s)) = InPeriod(s, p)
<1>1. \A k \in DOMAIN s : k <= Len(s)
  OBVIOUS
<1>2. QED
  BY <1>1 DEF Early, InPeriod

-----------------------------------------------------------------------------
(* Which steps open periods.                                               *)

LEMMA ManualKeeps ==
    ASSUME TypeOK, NEW w \in Workers, NEW l \in Labels, LockPeriod(w, l) \/ UnlockPeriod(w, l)
    PROVE  Existing' = Existing /\ UNCHANGED <<rows, startBal, openedAt>>
  BY DEF LockPeriod, UnlockPeriod, Existing, TypeOK

LEMMA ExistingStep ==
    ASSUME HistoryTypeOK, [HistoryNext]_historyVars
    PROVE  \/ UNCHANGED <<Existing, startBal, openedAt, origin>>
           \/ \E w \in Workers : NoteOrigin(w) /\ ~LabelTaken(req[w].label)
<1>1. ASSUME NEW w \in Workers, NoteSum(w) \/ ForgetSum(w)
      PROVE  UNCHANGED <<Existing, startBal, openedAt, origin>>
  BY <1>1 DEF NoteSum, ForgetSum, SumPrevious, Abort, Existing
<1>2. ASSUME NEW w \in Workers, RowStep(w), UNCHANGED <<summed, origin>>
      PROVE  UNCHANGED <<Existing, startBal, openedAt, origin>>
  BY <1>2 DEF RowStep, BeginCreate, BeginReverse, Reject, CheckReversed, InsertRow, CommitRow,
              Existing, vars
<1>3. ASSUME NEW w \in Workers, PeriodStep(w), UNCHANGED <<summed, origin>>
      PROVE  UNCHANGED <<Existing, startBal, openedAt, origin>>
  BY <1>3, ManualKeeps DEF PeriodStep, BeginOpen, Existing, HistoryTypeOK
<1>4. ASSUME NEW w \in Workers, NoteOrigin(w), LabelTaken(req[w].label)
      PROVE  UNCHANGED <<Existing, startBal, openedAt, origin>>
  BY <1>4 DEF NoteOrigin, WriteOpened, Existing
<1>5. CASE UNCHANGED historyVars
  BY <1>5 DEF historyVars, vars, Existing
<1>6. QED
  BY <1>1, <1>2, <1>3, <1>4, <1>5 DEF HistoryNext, NoteNothing

LEMMA NewPeriod ==
    ASSUME CarriedInv, NEW w \in Workers, NoteOrigin(w), ~LabelTaken(req[w].label),
           NEW L, L = req[w].label, NEW P, P = req[w].prev
    PROVE  /\ L \in Labels /\ L \notin Existing /\ L # NoPeriod
           /\ P # NoPeriod => P \in Existing /\ openedAt[P] < openedAt'[L]
           /\ Existing' = Existing \cup {L}
           /\ \A l \in Existing : /\ l # L
                                  /\ openedAt'[l] = openedAt[l]
                                  /\ startBal'[l] = startBal[l]
                                  /\ origin'[l] = origin[l]
           /\ origin'[L].prev = P /\ origin'[L].upTo = summed[w]
           /\ summed[w] \in Nat /\ summed[w] <= Len(rows)
           /\ openedAt'[L] <= clock
           /\ startBal'[L] = IF P = NoPeriod THEN 0
                             ELSE startBal[P] + NetOf(rows, Early(rows, P, summed[w]))
           /\ rows' = rows /\ clock' = clock
<1>1. /\ TypeOK /\ WriteOpened(w) /\ req[w].pc = "write" /\ Opening(w)
      /\ origin' = [origin EXCEPT ![L] = [prev |-> P, upTo |-> summed[w]]]
      /\ summed[w] \in Nat
  BY DEF CarriedInv, HistoryTypeOK, NoteOrigin, WriteOpened, Opening
<1>2. L \in Labels /\ L \notin Existing /\ L # NoPeriod
  BY <1>1, OpenPCs, NoPeriodAssumption DEF LabelTaken, Existing
<1>3. /\ P # NoPeriod => P \in Existing /\ openedAt[P] < req[w].at
      /\ req[w].at <= clock
      /\ summed[w] <= Len(rows)
      /\ carry[w] = IF P = NoPeriod THEN 0
                    ELSE startBal[P] + NetOf(rows, Early(rows, P, summed[w]))
  BY <1>1 DEF CarriedInv, CarryNoted
<1>4. /\ status' = StatusAfter(req[w])
      /\ startBal' = [startBal EXCEPT ![L] = carry[w]]
      /\ openedAt' = [openedAt EXCEPT ![L] = req[w].at]
      /\ rows' = rows /\ clock' = clock
  BY <1>1 DEF WriteOpened
<1>5. Existing' = Existing \cup {L}
  <2>1. P \in Labels => status[P] # "none"
    BY <1>3, NoPeriodAssumption DEF Existing
  <2>2. \A l \in Labels : status'[l] # "none" <=> l = L \/ status[l] # "none"
    BY <1>4, <2>1 DEF StatusAfter
  <2>3. QED
    BY <1>2, <2>2 DEF Existing
<1>6. /\ openedAt'[L] = req[w].at /\ startBal'[L] = carry[w]
      /\ \A l \in Existing : l # L /\ openedAt'[l] = openedAt[l] /\ startBal'[l] = startBal[l]
  BY <1>1, <1>2, <1>4 DEF Existing, TypeOK
<1>7. /\ origin'[L] = [prev |-> P, upTo |-> summed[w]]
      /\ \A l \in Existing : origin'[l] = origin[l]
  BY <1>1, <1>2 DEF CarriedInv, HistoryTypeOK, Existing
<1>8. QED
  BY <1>1, <1>2, <1>3, <1>4, <1>5, <1>6, <1>7

\* Rows stay, or one is appended to an existing period.
LEMMA OwnedRows ==
    ASSUME CarriedInv, [HistoryNext]_historyVars
    PROVE  \/ rows' = rows
           \/ \E r \in Row : /\ rows' = Append(rows, r)
                             /\ r.period \in Existing
                             /\ UNCHANGED <<Existing, startBal, openedAt, origin, clock>>
<1>1. [Next]_vars /\ TypeOK
  BY HistoryIsNext DEF CarriedInv, HistoryTypeOK
<1>2. ASSUME NEW w \in Workers, CommitRow(w)
      PROVE  \E r \in Row : /\ rows' = Append(rows, r)
                            /\ r.period \in Existing
                            /\ UNCHANGED <<Existing, startBal, openedAt, origin, clock>>
  <2>1. req[w].row \in Row /\ rows' = Append(rows, req[w].row)
    BY <1>1, <1>2, CommittedRow
  <2>2. req[w].row.period \in Existing
    BY <1>2 DEF CarriedInv, RowsOwned, CommitRow, RowPCs
  <2>3. UNCHANGED <<Existing, startBal, openedAt, clock>>
    BY <1>2 DEF CommitRow, Existing
  <2>4. rows' # rows
    BY <1>1, <2>1, AppendRow DEF TypeOK
  <2>5. ~\E v \in Workers : NoteOrigin(v)
    BY <2>4 DEF NoteOrigin, WriteOpened
  <2>6. UNCHANGED origin
    BY <2>5, ExistingStep DEF CarriedInv
  <2>7. QED
    BY <2>1, <2>2, <2>3, <2>6
<1>3. QED
  BY <1>1, <1>2, RowsStep

-----------------------------------------------------------------------------
(* The conjuncts of the invariant.                                         *)

LEMMA ClockStep ==
    ASSUME TypeOK, [Next]_vars
    PROVE  clock' \in Nat /\ clock \in Nat /\ clock <= clock'
<1>1. clock' = clock \/ clock' = clock + 1
  BY DEF Next, RowStep, PeriodStep, OpenStep, vars, BeginCreate, BeginReverse, Reject,
         CheckReversed, InsertRow, CommitRow, LockPeriod, UnlockPeriod, BeginOpen, SumPrevious,
         WriteOpened, Abort
<1>2. QED
  BY <1>1 DEF TypeOK

LEMMA HistoryPastStep ==
    ASSUME CarriedInv, [HistoryNext]_historyVars
    PROVE  OpenedInPast'
<1>1. TypeOK /\ [Next]_vars /\ OpenedInPast
  BY HistoryIsNext DEF CarriedInv, HistoryTypeOK
<1>2. clock' \in Nat /\ clock \in Nat /\ clock <= clock'
  BY <1>1, ClockStep
<1>3. \A l \in Existing : openedAt[l] \in Nat
  BY <1>1 DEF TypeOK, Existing
<1>4. CASE UNCHANGED <<Existing, startBal, openedAt, origin>>
  BY <1>1, <1>2, <1>3, <1>4 DEF OpenedInPast
<1>5. ASSUME NEW w \in Workers, NoteOrigin(w), ~LabelTaken(req[w].label)
      PROVE  OpenedInPast'
  <2>1. PICK L, P : L = req[w].label /\ P = req[w].prev
    OBVIOUS
  <2>2. /\ Existing' = Existing \cup {L}
        /\ \A l \in Existing : openedAt'[l] = openedAt[l]
        /\ openedAt'[L] <= clock /\ clock' = clock
    BY <1>5, <2>1, NewPeriod
  <2>3. QED
    BY <1>1, <2>2 DEF OpenedInPast
<1>6. QED
  BY <1>4, <1>5, ExistingStep DEF CarriedInv

LEMMA RowsOwnedStep ==
    ASSUME CarriedInv, [HistoryNext]_historyVars
    PROVE  RowsOwned'
<1>1. TypeOK /\ [Next]_vars /\ RowsOwned
  BY HistoryIsNext DEF CarriedInv, HistoryTypeOK
<1>2. Existing \subseteq Existing'
  BY <1>1, OpenedOnceStep DEF Existing
<1>3. \A k \in DOMAIN rows' : rows'[k].period \in Existing
  <2>1. CASE rows' = rows
    BY <1>1, <2>1 DEF RowsOwned
  <2>2. ASSUME NEW r \in Row, rows' = Append(rows, r), r.period \in Existing
        PROVE  \A k \in DOMAIN rows' : rows'[k].period \in Existing
    <3>1. /\ DOMAIN rows' = DOMAIN rows \cup {Len(rows) + 1}
          /\ \A k \in DOMAIN rows : rows'[k] = rows[k]
          /\ rows'[Len(rows) + 1] = r
      BY <1>1, <2>2, AppendRow DEF TypeOK
    <3>2. QED
      BY <1>1, <2>2, <3>1 DEF RowsOwned
  <2>3. QED
    BY <2>1, <2>2, OwnedRows
<1>4. ASSUME NEW w \in Workers, req'[w].pc \in RowPCs
      PROVE  req'[w].row.period \in Existing
  <2>1. CASE req[w].pc \in RowPCs /\ req'[w].row = req[w].row
    BY <1>1, <2>1 DEF RowsOwned
  <2>2. CASE status[req'[w].row.period] = "open"
    <3>1. req'[w].row.period \in Labels
      <4>1. TypeOK'
        BY <1>1, TypeStep
      <4>2. req'[w] \in RowReq
        BY <1>4, <4>1 DEF TypeOK, IdleReq, OpenReq, RowPCs, RowReq
      <4>3. QED
        BY <4>2 DEF RowReq, Row
    <3>2. QED
      BY <2>2, <3>1 DEF Existing
  <2>3. QED
    BY <1>1, <1>4, <2>1, <2>2, RowReqStep
<1>5. QED
  BY <1>2, <1>3, <1>4 DEF RowsOwned

LEMMA OriginsPastStep ==
    ASSUME CarriedInv, [HistoryNext]_historyVars
    PROVE  OriginsPast'
<1>1. TypeOK /\ OriginsPast /\ rows \in Seq(Row)
  BY DEF CarriedInv, HistoryTypeOK, TypeOK
<1>2. Len(rows') \in Nat /\ Len(rows) \in Nat /\ Len(rows) <= Len(rows')
  <2>1. CASE rows' = rows
    BY <1>1, <2>1
  <2>2. ASSUME NEW r \in Row, rows' = Append(rows, r)
        PROVE  Len(rows') \in Nat /\ Len(rows) \in Nat /\ Len(rows) <= Len(rows')
    BY <1>1, <2>2
  <2>3. QED
    BY <2>1, <2>2, OwnedRows
<1>3. \A q \in Existing : origin[q].upTo \in Nat
  BY DEF CarriedInv, HistoryTypeOK, Origin, Existing
<1>4. CASE UNCHANGED <<Existing, startBal, openedAt, origin>>
  BY <1>1, <1>2, <1>3, <1>4 DEF OriginsPast
<1>5. ASSUME NEW w \in Workers, NoteOrigin(w), ~LabelTaken(req[w].label)
      PROVE  OriginsPast'
  <2>1. PICK L, P : L = req[w].label /\ P = req[w].prev
    OBVIOUS
  <2>2. /\ Existing' = Existing \cup {L}
        /\ \A l \in Existing : origin'[l] = origin[l]
        /\ origin'[L].upTo = summed[w] /\ summed[w] <= Len(rows) /\ rows' = rows
    BY <1>5, <2>1, NewPeriod
  <2>3. QED
    BY <1>1, <2>2 DEF OriginsPast
<1>6. QED
  BY <1>4, <1>5, ExistingStep DEF CarriedInv

LEMMA HasRootStep ==
    ASSUME CarriedInv, [HistoryNext]_historyVars
    PROVE  HasRoot'
<1>1. HasRoot
  BY DEF CarriedInv
<1>2. CASE UNCHANGED <<Existing, startBal, openedAt, origin>>
  BY <1>1, <1>2 DEF HasRoot
<1>3. ASSUME NEW w \in Workers, NoteOrigin(w), ~LabelTaken(req[w].label)
      PROVE  HasRoot'
  <2>1. PICK L, P : L = req[w].label /\ P = req[w].prev
    OBVIOUS
  <2>2. /\ Existing' = Existing \cup {L}
        /\ \A l \in Existing : origin'[l] = origin[l]
        /\ origin'[L].prev = P
        /\ P # NoPeriod => P \in Existing
    BY <1>3, <2>1, NewPeriod
  <2>3. QED
    BY <1>1, <2>2 DEF HasRoot
<1>4. QED
  BY <1>2, <1>3, ExistingStep DEF CarriedInv

\* A balance carried stays the balance of what it was when rows are appended.
LEMMA EarlyKept ==
    ASSUME CarriedInv, [HistoryNext]_historyVars, NEW p \in Existing, NEW n \in Nat,
           n <= Len(rows)
    PROVE  /\ startBal'[p] = startBal[p]
           /\ openedAt'[p] = openedAt[p]
           /\ p \in Existing'
           /\ NetOf(rows', Early(rows', p, n)) = NetOf(rows, Early(rows, p, n))
           /\ n <= Len(rows')
<1>1. TypeOK /\ rows \in Seq(Row) /\ [Next]_vars
  BY HistoryIsNext DEF CarriedInv, HistoryTypeOK, TypeOK
<1>2. startBal'[p] = startBal[p] /\ openedAt'[p] = openedAt[p] /\ p \in Existing'
  BY <1>1, OpenedOnceStep DEF Existing
<1>3. CASE rows' = rows
  BY <1>2, <1>3
<1>4. ASSUME NEW r \in Row, rows' = Append(rows, r)
      PROVE  /\ NetOf(rows', Early(rows', p, n)) = NetOf(rows, Early(rows, p, n))
             /\ n <= Len(rows')
  BY <1>1, <1>4, EarlyGrown
<1>5. QED
  BY <1>2, <1>3, <1>4, OwnedRows

LEMMA BalanceCarriedStep ==
    ASSUME CarriedInv, [HistoryNext]_historyVars
    PROVE  BalanceCarried'
<1>1. BalanceCarried /\ OriginsPast
  BY DEF CarriedInv
<1>2. \A q \in Existing : origin[q].upTo \in Nat /\ origin[q].upTo <= Len(rows)
  BY <1>1 DEF CarriedInv, HistoryTypeOK, Origin, Existing, OriginsPast
<1>3. ASSUME NEW q \in Existing, startBal'[q] = startBal[q], openedAt'[q] = openedAt[q],
             origin'[q] = origin[q]
      PROVE  IF origin'[q].prev = NoPeriod THEN startBal'[q] = 0
             ELSE /\ origin'[q].prev \in Existing'
                  /\ openedAt'[origin'[q].prev] < openedAt'[q]
                  /\ startBal'[q] = startBal'[origin'[q].prev]
                        + NetOf(rows', Early(rows', origin'[q].prev, origin'[q].upTo))
  <2>1. PICK p, n : p = origin[q].prev /\ n = origin[q].upTo
    OBVIOUS
  <2>2. n \in Nat /\ n <= Len(rows)
    BY <1>2, <2>1
  <2>3. IF p = NoPeriod THEN startBal[q] = 0
        ELSE /\ p \in Existing /\ openedAt[p] < openedAt[q]
             /\ startBal[q] = startBal[p] + NetOf(rows, Early(rows, p, n))
    BY <1>1, <2>1 DEF BalanceCarried
  <2>4. CASE p = NoPeriod
    BY <1>3, <2>1, <2>3, <2>4
  <2>5. CASE p # NoPeriod
    <3>1. p \in Existing
      BY <2>3, <2>5
    <3>2. /\ startBal'[p] = startBal[p] /\ openedAt'[p] = openedAt[p] /\ p \in Existing'
          /\ NetOf(rows', Early(rows', p, n)) = NetOf(rows, Early(rows, p, n))
      BY <2>2, <3>1, EarlyKept
    <3>3. QED
      BY <1>3, <2>1, <2>3, <2>5, <3>2
  <2>6. QED
    BY <2>4, <2>5
<1>4. CASE UNCHANGED <<Existing, startBal, openedAt, origin>>
  BY <1>3, <1>4 DEF BalanceCarried
<1>5. ASSUME NEW w \in Workers, NoteOrigin(w), ~LabelTaken(req[w].label)
      PROVE  BalanceCarried'
  <2>1. PICK L, P : L = req[w].label /\ P = req[w].prev
    OBVIOUS
  <2>2. /\ Existing' = Existing \cup {L} /\ L \notin Existing
        /\ P # NoPeriod => P \in Existing /\ openedAt[P] < openedAt'[L]
        /\ \A l \in Existing : /\ openedAt'[l] = openedAt[l]
                               /\ startBal'[l] = startBal[l]
                               /\ origin'[l] = origin[l]
        /\ origin'[L].prev = P /\ origin'[L].upTo = summed[w]
        /\ startBal'[L] = IF P = NoPeriod THEN 0
                          ELSE startBal[P] + NetOf(rows, Early(rows, P, summed[w]))
        /\ rows' = rows
    BY <1>5, <2>1, NewPeriod
  <2>3. IF origin'[L].prev = NoPeriod THEN startBal'[L] = 0
        ELSE /\ origin'[L].prev \in Existing'
             /\ openedAt'[origin'[L].prev] < openedAt'[L]
             /\ startBal'[L] = startBal'[origin'[L].prev]
                   + NetOf(rows', Early(rows', origin'[L].prev, origin'[L].upTo))
    BY <2>2
  <2>4. ASSUME NEW q \in Existing'
        PROVE  q = L \/ q \in Existing
    BY <2>2
  <2>5. QED
    BY <1>3, <2>2, <2>3, <2>4 DEF BalanceCarried
<1>6. QED
  BY <1>4, <1>5, ExistingStep DEF CarriedInv

LEMMA SumsThenWrites ==
    ASSUME TypeOK, NEW w \in Workers, SumPrevious(w)
    PROVE  req[w].pc = "sum" /\ req'[w].pc = "write" /\ req'[w] # req[w]
<1>1. req[w] \in OpenReq /\ req[w].pc = "sum" /\ GoTo(w, "write")
  BY RequestCases DEF SumPrevious
<1>2. req'[w] = [pc |-> "write", label |-> req[w].label, prev |-> req[w].prev,
                 wasOpen |-> req[w].wasOpen, at |-> req[w].at]
  BY <1>1, Advance
<1>3. req'[w].pc = "write"
  BY <1>2
<1>4. QED
  BY <1>1, <1>3

\* The history of a rollover is written by its own steps.
LEMMA NotedStep ==
    ASSUME HistoryTypeOK, NEW w \in Workers, [HistoryNext]_historyVars, Opening(w)'
    PROVE  /\ req'[w] = req[w] => summed'[w] = summed[w]
           /\ SumPrevious(w) => summed'[w] = Len(rows)
<1>1. TypeOK /\ summed \in [Workers -> Nat]
  BY DEF HistoryTypeOK
<1>2. ASSUME NoteSum(w)
      PROVE  summed'[w] = Len(rows) /\ req'[w] # req[w]
  BY <1>1, <1>2, SumsThenWrites DEF NoteSum
<1>3. ~NoteOrigin(w) /\ ~ForgetSum(w)
  BY <1>1 DEF NoteOrigin, ForgetSum, WriteOpened, Abort, Finish, TypeOK, Idle, Opening
<1>4. ASSUME NoteNothing(w)
      PROVE  summed'[w] = summed[w] /\ ~SumPrevious(w)
  <2>1. ~(req[w].pc = "sum" /\ req'[w].pc = "write")
    BY <1>1, <1>4 DEF NoteNothing, RowStep, PeriodStep, BeginCreate, BeginReverse, Reject,
                      CheckReversed, InsertRow, CommitRow, LockPeriod, UnlockPeriod, BeginOpen,
                      IsIdle, Idle
  <2>2. SumPrevious(w) => req[w].pc = "sum" /\ req'[w].pc = "write"
    BY <1>1, SumsThenWrites
  <2>3. QED
    BY <1>4, <2>1, <2>2 DEF NoteNothing
<1>5. ASSUME NEW v \in Workers, v # w,
             NoteSum(v) \/ NoteOrigin(v) \/ ForgetSum(v) \/ NoteNothing(v)
      PROVE  summed'[w] = summed[w] /\ req'[w] = req[w]
  <2>1. summed'[w] = summed[w]
    BY <1>1, <1>5 DEF NoteSum, NoteOrigin, ForgetSum, NoteNothing
  <2>2. RowStep(v) \/ PeriodStep(v) \/ OpenStep(v) \/ Abort(v)
    BY <1>5 DEF NoteSum, NoteOrigin, ForgetSum, NoteNothing, OpenStep
  <2>3. QED
    BY <1>1, <1>5, <2>1, <2>2, OthersKept
<1>6. SumPrevious(w) => req'[w] # req[w]
  BY <1>1, SumsThenWrites
<1>7. CASE UNCHANGED historyVars
  BY <1>6, <1>7 DEF historyVars, vars
<1>8. QED
  BY <1>2, <1>3, <1>4, <1>5, <1>6, <1>7 DEF HistoryNext

LEMMA CarryNotedStep ==
    ASSUME CarriedInv, NEW w \in Workers, [HistoryNext]_historyVars
    PROVE  CarryNoted(w)'
<1> SUFFICES ASSUME Opening(w)' PROVE CarryNoted(w)'
  BY DEF CarryNoted
<1>1. TypeOK /\ [Next]_vars /\ OpenedInPast /\ HistoryTypeOK
  BY HistoryIsNext DEF CarriedInv, HistoryTypeOK
<1>2. clock' \in Nat /\ clock \in Nat /\ clock <= clock'
  BY <1>1, ClockStep
<1>3. CASE req'[w] = req[w] /\ carry'[w] = carry[w]
  <2>1. PICK p, n, a : p = req[w].prev /\ n = summed[w] /\ a = req[w].at
    OBVIOUS
  <2>2. /\ Opening(w) /\ summed'[w] = n /\ n \in Nat /\ a \in Nat
    BY <1>1, <1>3, <2>1, NotedStep, OpenPCs DEF Opening, HistoryTypeOK
  <2>3. /\ a <= clock
        /\ p # NoPeriod => p \in Existing /\ openedAt[p] < a
        /\ req[w].pc = "write" =>
              /\ n <= Len(rows)
              /\ carry[w] = IF p = NoPeriod THEN 0
                            ELSE startBal[p] + NetOf(rows, Early(rows, p, n))
    BY <2>1, <2>2 DEF CarriedInv, CarryNoted
  <2>4. /\ a <= clock'
        /\ p # NoPeriod => p \in Existing' /\ openedAt'[p] < a
    <3>1. p \in Existing => p \in Existing' /\ openedAt'[p] = openedAt[p]
      BY <1>1, OpenedOnceStep DEF Existing
    <3>2. QED
      BY <1>2, <2>2, <2>3, <3>1
  <2>5. req[w].pc = "write" =>
            /\ n <= Len(rows')
            /\ carry[w] = IF p = NoPeriod THEN 0
                          ELSE startBal'[p] + NetOf(rows', Early(rows', p, n))
    <3>1. SUFFICES ASSUME req[w].pc = "write"
                   PROVE  /\ n <= Len(rows')
                          /\ carry[w] = IF p = NoPeriod THEN 0
                                ELSE startBal'[p] + NetOf(rows', Early(rows', p, n))
      OBVIOUS
    <3>2. CASE p = NoPeriod
      <4>1. n <= Len(rows')
        <5>1. CASE rows' = rows
          BY <2>3, <3>1, <5>1
        <5>2. ASSUME NEW r \in Row, rows' = Append(rows, r)
              PROVE  n <= Len(rows')
          BY <1>1, <2>2, <2>3, <3>1, <5>2 DEF TypeOK
        <5>3. QED
          BY <5>1, <5>2, OwnedRows
      <4>2. QED
        BY <2>3, <3>1, <3>2, <4>1
    <3>3. CASE p # NoPeriod
      <4>1. p \in Existing /\ n <= Len(rows)
        BY <2>3, <3>1, <3>3
      <4>2. /\ startBal'[p] = startBal[p] /\ n <= Len(rows')
            /\ NetOf(rows', Early(rows', p, n)) = NetOf(rows, Early(rows, p, n))
        BY <2>2, <4>1, EarlyKept
      <4>3. QED
        BY <2>3, <3>1, <3>3, <4>2
    <3>4. QED
      BY <3>2, <3>3
  <2>6. QED
    BY <1>3, <2>1, <2>2, <2>4, <2>5 DEF CarryNoted
<1>4. ASSUME NEW l \in Labels, BeginOpen(w, l)
      PROVE  CarryNoted(w)'
  <2>1. PICK p \in Labels \cup {NoPeriod} :
            /\ IsLatest(p)
            /\ req' = [req EXCEPT ![w] = [pc |-> "sum", label |-> l, prev |-> p,
                           wasOpen |-> p # NoPeriod /\ status[p] = "open", at |-> clock + 1]]
    BY <1>4 DEF BeginOpen
  <2>2. /\ req'[w].pc = "sum" /\ req'[w].prev = p /\ req'[w].at = clock + 1
        /\ clock' = clock + 1 /\ Existing' = Existing /\ openedAt' = openedAt
    BY <1>1, <1>4, <2>1 DEF BeginOpen, TypeOK, Existing
  <2>3. p # NoPeriod => p \in Existing /\ openedAt[p] < clock + 1
    <3>1. p # NoPeriod => p \in Existing
      BY <2>1 DEF IsLatest
    <3>2. p \in Existing => openedAt[p] \in Nat /\ openedAt[p] <= clock
      BY <1>1 DEF OpenedInPast, Existing, TypeOK
    <3>3. QED
      BY <1>2, <3>1, <3>2
  <2>4. QED
    BY <1>2, <2>2, <2>3 DEF CarryNoted
<1>5. CASE /\ SumPrevious(w)
           /\ req[w] \in OpenReq
           /\ req'[w] = [pc |-> "write", label |-> req[w].label, prev |-> req[w].prev,
                         wasOpen |-> req[w].wasOpen, at |-> req[w].at]
  <2>1. PICK p, n : p = req[w].prev /\ n = Len(rows)
    OBVIOUS
  <2>2. /\ req[w].at <= clock
        /\ p # NoPeriod => p \in Existing /\ openedAt[p] < req[w].at
    BY <1>5, <2>1 DEF CarriedInv, CarryNoted, SumPrevious, Opening
  <2>3. /\ carry'[w] = IF p = NoPeriod THEN 0 ELSE Closing(p)
        /\ UNCHANGED <<rows, status, startBal, openedAt, clock>>
    BY <1>1, <1>5, <2>1 DEF SumPrevious, TypeOK
  <2>4. Closing(p) = startBal[p] + NetOf(rows, Early(rows, p, n))
    BY <1>1, <2>1, EarlyNow DEF Closing, NetOfAll, TypeOK
  <2>5. summed'[w] = n /\ n <= Len(rows)
    BY <1>1, <1>5, <2>1, NotedStep DEF TypeOK
  <2>6. Existing' = Existing
    BY <2>3 DEF Existing
  <2>7. /\ req'[w].pc = "write" /\ req'[w].prev = p /\ req'[w].at = req[w].at
    BY <1>5, <2>1
  <2>8. QED
    BY <2>2, <2>3, <2>4, <2>5, <2>6, <2>7 DEF CarryNoted
<1>6. QED
  BY <1>1, <1>3, <1>4, <1>5, OpeningStep

LEMMA CarriedStep == CarriedInv /\ [HistoryNext]_historyVars => CarriedInv'
<1> SUFFICES ASSUME CarriedInv, [HistoryNext]_historyVars PROVE CarriedInv'
  OBVIOUS
<1>1. HistoryTypeOK'
  BY HistoryTypeStep DEF CarriedInv
<1>2. \A w \in Workers : CarryNoted(w)'
  BY CarryNotedStep
<1>3. QED
  BY <1>1, <1>2, HistoryPastStep, RowsOwnedStep, OriginsPastStep, HasRootStep, BalanceCarriedStep
     DEF CarriedInv

LEMMA CarriedInit == HistoryInit => CarriedInv
<1> SUFFICES ASSUME HistoryInit PROVE CarriedInv
  OBVIOUS
<1>1. HistoryTypeOK /\ Existing = {}
  BY HistoryTypeInit DEF HistoryInit, Init, Existing
<1>2. /\ \A w \in Workers : CarryNoted(w)
      /\ RowsOwned
  BY DEF HistoryInit, Init, CarryNoted, Opening, RowsOwned, RowPCs, Idle
<1>3. OpenedInPast /\ OriginsPast /\ HasRoot /\ BalanceCarried
  BY <1>1 DEF OpenedInPast, OriginsPast, HasRoot, BalanceCarried
<1>4. QED
  BY <1>1, <1>2, <1>3 DEF CarriedInv

\* Every starting balance is one its predecessor really had: its starting
\* balance and the net of the rows it held at one instant, for any number of
\* requests, rollovers and unlocked periods at a time.
THEOREM BalanceAlwaysCarried == HistorySpec => []BalanceCarried
<1>1. CarriedInv => BalanceCarried
  BY DEF CarriedInv
<1>2. QED
  BY <1>1, CarriedInit, CarriedStep, PTL DEF HistorySpec

-----------------------------------------------------------------------------
(* The chain of periods accounts for every row.                            *)

LEMMA LateKept ==
    ASSUME UNCHANGED <<Existing, startBal, origin, rows>>
    PROVE  /\ OneChain' <=> OneChain
           /\ \A p : IsLast(p)' <=> IsLast(p)
           /\ Late' = Late
           /\ \A p : Closing(p)' = Closing(p)
  BY DEF OneChain, IsLast, Late, Closing

\* A row committed into the last period moves its closing balance, one
\* committed into another is late.
LEMMA ChainCommit ==
    ASSUME ChainInv, NEW r \in Row, rows' = Append(rows, r), r.period \in Existing,
           UNCHANGED <<Existing, startBal, openedAt, origin>>
    PROVE  LastUnique' /\ CashAccounted'
<1>1. rows \in Seq(Row) /\ TypeOK
  BY DEF ChainInv, CarriedInv, HistoryTypeOK, TypeOK
<1>2. PICK n : n = Len(rows) + 1
  OBVIOUS
<1>3. /\ DOMAIN rows' = DOMAIN rows \cup {n} /\ n \notin DOMAIN rows
      /\ \A k \in DOMAIN rows : rows'[k] = rows[k]
      /\ rows'[n] = r
      /\ rows' \in Seq(Row)
  BY <1>1, <1>2, AppendRow
<1>4. /\ OneChain' <=> OneChain
      /\ \A p : IsLast(p)' <=> IsLast(p)
  BY DEF OneChain, IsLast
<1>5. LastUnique'
  BY <1>4 DEF ChainInv, LastUnique
<1>6. Late \in SUBSET DOMAIN rows /\ DOMAIN rows \in SUBSET DOMAIN rows
  BY DEF Late
<1>7. Signed(r) \in Int
  BY SignedType
<1>8. NetOf(rows', DOMAIN rows') = NetOf(rows, DOMAIN rows) + Signed(r)
  BY <1>1, <1>2, <1>3, <1>6, NetOfGrown
<1>9. ASSUME OneChain, NEW p \in Labels, IsLast(p)
      PROVE  (startBal[p] + NetOfAll(rows', p)) + NetOf(rows', Late') = NetOf(rows', DOMAIN rows')
  <2>1. startBal[p] + NetOfAll(rows, p) + NetOf(rows, Late) = NetOf(rows, DOMAIN rows)
    BY <1>9 DEF ChainInv, CashAccounted, Closing
  <2>2. /\ startBal[p] \in Int
        /\ NetOfAll(rows, p) \in Int /\ NetOf(rows, Late) \in Int /\ NetOf(rows, DOMAIN rows) \in Int
    BY <1>1, <1>6, Nets, NetOfType DEF TypeOK
  <2>3. InPeriod(rows, p) \in SUBSET DOMAIN rows
    BY DEF InPeriod
  <2>4. CASE r.period = p
    <3>1. InPeriod(rows', p) = InPeriod(rows, p) \cup {n}
      BY <1>3, <2>4 DEF InPeriod
    <3>2. \A q \in Existing : origin[q].prev # r.period
      BY <1>9, <2>4 DEF IsLast
    <3>3. Late' = Late
      BY <1>3, <3>2 DEF Late
    <3>4. NetOfAll(rows', p) = NetOfAll(rows, p) + Signed(r)
      BY <1>1, <1>2, <2>3, <3>1, NetOfGrown DEF NetOfAll
    <3>5. NetOf(rows', Late') = NetOf(rows, Late)
      BY <1>1, <1>6, <3>3, NetOfGrown
    <3>6. QED
      BY <1>7, <1>8, <2>1, <2>2, <3>4, <3>5
  <2>5. CASE r.period # p
    <3>1. InPeriod(rows', p) = InPeriod(rows, p)
      BY <1>3, <2>5 DEF InPeriod
    <3>2. PICK q \in Existing : origin[q].prev = r.period
      <4>1. ~IsLast(r.period)
        BY <1>9, <2>5 DEF ChainInv, LastUnique, Existing
      <4>2. QED
        BY <4>1 DEF IsLast
    <3>3. origin[q].upTo < n
      <4>1. origin[q].upTo <= Len(rows) /\ origin[q].upTo \in Nat
        BY <3>2 DEF ChainInv, CarriedInv, OriginsPast, HistoryTypeOK, Origin, Existing
      <4>2. QED
        BY <1>1, <1>2, <4>1
    <3>4. Late' = Late \cup {n}
      BY <1>3, <3>2, <3>3 DEF Late
    <3>5. NetOfAll(rows', p) = NetOfAll(rows, p)
      BY <1>1, <2>3, <3>1, NetOfGrown DEF NetOfAll
    <3>6. NetOf(rows', Late') = NetOf(rows, Late) + Signed(r)
      BY <1>1, <1>2, <1>6, <3>4, NetOfGrown
    <3>7. QED
      BY <1>7, <1>8, <2>1, <2>2, <3>5, <3>6
  <2>6. QED
    BY <2>4, <2>5
<1>10. CashAccounted'
  BY <1>4, <1>9 DEF CashAccounted, Closing
<1>11. QED
  BY <1>5, <1>10

\* A period opened from the last one takes its balance over; the rows that
\* came after the sum are late from then on.
LEMMA ChainOpen ==
    ASSUME ChainInv, NEW w \in Workers, NoteOrigin(w), ~LabelTaken(req[w].label)
    PROVE  LastUnique' /\ CashAccounted'
<1>1. PICK L, P, n : L = req[w].label /\ P = req[w].prev /\ n = summed[w]
  OBVIOUS
<1>2. /\ L \in Labels /\ L \notin Existing /\ L # NoPeriod
      /\ P # NoPeriod => P \in Existing /\ openedAt[P] < openedAt'[L]
      /\ Existing' = Existing \cup {L}
      /\ \A l \in Existing : /\ l # L
                             /\ startBal'[l] = startBal[l]
                             /\ origin'[l] = origin[l]
      /\ origin'[L].prev = P /\ origin'[L].upTo = n
      /\ n \in Nat /\ n <= Len(rows)
      /\ startBal'[L] = IF P = NoPeriod THEN 0
                        ELSE startBal[P] + NetOf(rows, Early(rows, P, n))
      /\ rows' = rows
  BY <1>1, NewPeriod DEF ChainInv
<1>3. CarriedInv /\ rows \in Seq(Row) /\ TypeOK
  BY DEF ChainInv, CarriedInv, HistoryTypeOK, TypeOK
<1>4. \A q \in Existing : origin[q].prev # L
  BY <1>2, <1>3 DEF CarriedInv, BalanceCarried
<1>5. SUFFICES ASSUME OneChain'
               PROVE  /\ \A p \in Labels : IsLast(p)' => p = L
                      /\ Closing(L)' + NetOf(rows', Late') = NetOf(rows', DOMAIN rows')
  BY DEF LastUnique, CashAccounted
<1>6. \A q \in Existing : origin[q].prev # P
  BY <1>2, <1>5 DEF OneChain
<1>7. OneChain
  BY <1>2, <1>5 DEF OneChain
<1>8. InPeriod(rows, L) = {} /\ NetOfAll(rows, L) = 0
  <2>1. InPeriod(rows, L) = {}
    BY <1>2, <1>3 DEF CarriedInv, RowsOwned, InPeriod
  <2>2. NetOfAll(rows, L) = SumFunction(Part(Values(rows), {}))
    BY <1>3, <2>1, Nets
  <2>3. QED
    BY <2>1, <2>2, PartEmpty
<1>9. startBal'[L] \in Int
  <2>1. TypeOK'
    <3>1. [Next]_vars
      BY DEF NoteOrigin, Next, OpenStep
    <3>2. QED
      BY <1>3, <3>1, TypeStep
  <2>2. QED
    BY <1>2, <2>1 DEF TypeOK
<1>10. Closing(L)' = startBal'[L]
  BY <1>2, <1>8, <1>9 DEF Closing
<1>11. CASE P = NoPeriod
  <2>1. Existing = {}
    BY <1>3, <1>6, <1>11 DEF CarriedInv, HasRoot
  <2>2. DOMAIN rows = {} /\ Late' = {}
    BY <1>2, <1>3, <2>1 DEF CarriedInv, RowsOwned, Late
  <2>3. NetOf(rows, {}) = 0
    <3>1. NetOf(rows, {}) = SumFunction(Part(Values(rows), {}))
      BY <1>3, Nets
    <3>2. QED
      BY <3>1, PartEmpty
  <2>4. \A p \in Labels : IsLast(p)' => p = L
    BY <1>2, <2>1 DEF IsLast
  <2>5. QED
    BY <1>2, <1>10, <1>11, <2>2, <2>3, <2>4
<1>12. CASE P # NoPeriod
  <2>1. P \in Existing /\ IsLast(P) /\ P \in Labels
    BY <1>2, <1>6, <1>12 DEF IsLast, Existing
  <2>2. \A p \in Labels : IsLast(p)' => p = L
    <3>1. ASSUME NEW p \in Labels, IsLast(p)', p # L
          PROVE  FALSE
      <4>1. p \in Existing /\ p # P /\ \A q \in Existing : origin[q].prev # p
        BY <1>2, <3>1 DEF IsLast
      <4>2. IsLast(p)
        BY <4>1 DEF IsLast
      <4>3. QED
        BY <1>7, <2>1, <4>1, <4>2 DEF ChainInv, LastUnique
    <3>2. QED
      BY <3>1
  <2>3. startBal[P] + NetOfAll(rows, P) + NetOf(rows, Late) = NetOf(rows, DOMAIN rows)
    BY <1>7, <2>1 DEF ChainInv, CashAccounted, Closing
  <2>4. PICK E, T : E = Early(rows, P, n) /\ T = InPeriod(rows, P) \ E
    OBVIOUS
  <2>5. /\ E \in SUBSET DOMAIN rows /\ T \in SUBSET DOMAIN rows /\ E \cap T = {}
        /\ E \cup T = InPeriod(rows, P)
        /\ Late \in SUBSET DOMAIN rows /\ DOMAIN rows \in SUBSET DOMAIN rows
    BY <2>4 DEF Early, InPeriod, Late
  <2>6. NetOfAll(rows, P) = NetOf(rows, E) + NetOf(rows, T)
    BY <1>3, <2>5, NetOfUnion DEF NetOfAll
  <2>7. Late' = Late \cup T /\ Late \cap T = {}
    <3>1. \A k \in DOMAIN rows : k \in T <=> rows[k].period = P /\ n < k
      BY <1>2, <1>3, <2>4 DEF Early, InPeriod
    <3>2. \A k \in DOMAIN rows : k \in Late' <=> k \in Late \/ (rows[k].period = P /\ n < k)
      BY <1>2 DEF Late
    <3>3. Late \cap T = {}
      BY <1>6, <3>1 DEF Late
    <3>4. Late' \subseteq DOMAIN rows
      BY <1>2 DEF Late
    <3>5. QED
      BY <2>5, <3>1, <3>2, <3>3, <3>4
  <2>8. NetOf(rows, Late') = NetOf(rows, Late) + NetOf(rows, T)
    BY <1>3, <2>5, <2>7, NetOfUnion
  <2>9. /\ startBal[P] \in Int /\ NetOf(rows, E) \in Int /\ NetOf(rows, T) \in Int
        /\ NetOf(rows, Late) \in Int /\ NetOf(rows, DOMAIN rows) \in Int
    BY <1>3, <2>1, <2>5, NetOfType DEF TypeOK
  <2>10. startBal'[L] = startBal[P] + NetOf(rows, E)
    BY <1>2, <1>12, <2>4
  <2>11. QED
    BY <1>2, <1>10, <2>2, <2>3, <2>6, <2>8, <2>9, <2>10
<1>13. QED
  BY <1>11, <1>12

LEMMA ChainStep == ChainInv /\ [HistoryNext]_historyVars => ChainInv'
<1> SUFFICES ASSUME ChainInv, [HistoryNext]_historyVars PROVE ChainInv'
  OBVIOUS
<1>1. CarriedInv /\ CarriedInv' /\ HistoryTypeOK
  BY CarriedStep DEF ChainInv, CarriedInv
<1>2. LastUnique' /\ CashAccounted'
  <2>1. ASSUME NEW w \in Workers, NoteOrigin(w), ~LabelTaken(req[w].label)
        PROVE  LastUnique' /\ CashAccounted'
    BY <2>1, ChainOpen
  <2>2. CASE rows' = rows /\ UNCHANGED <<Existing, startBal, openedAt, origin>>
    BY <2>2, LateKept DEF ChainInv, LastUnique, CashAccounted
  <2>3. ASSUME NEW r \in Row, rows' = Append(rows, r), r.period \in Existing,
               UNCHANGED <<Existing, startBal, openedAt, origin>>
        PROVE  LastUnique' /\ CashAccounted'
    BY <2>3, ChainCommit
  <2>4. QED
    BY <1>1, <2>1, <2>2, <2>3, OwnedRows, ExistingStep
<1>3. QED
  BY <1>1, <1>2 DEF ChainInv

LEMMA ChainInit == HistoryInit => ChainInv
<1> SUFFICES ASSUME HistoryInit PROVE ChainInv
  OBVIOUS
<1>1. CarriedInv /\ Existing = {}
  BY CarriedInit DEF HistoryInit, Init, Existing
<1>2. LastUnique /\ CashAccounted
  BY <1>1 DEF LastUnique, CashAccounted, IsLast
<1>3. QED
  BY <1>1, <1>2 DEF ChainInv

\* As long as no two rollovers start from the same period, the closing balance
\* of the last period and the rows that came late into others are together
\* every row ever entered.
THEOREM CashAlwaysAccounted == HistorySpec => []CashAccounted
<1>1. ChainInv => CashAccounted
  BY DEF ChainInv
<1>2. QED
  BY <1>1, ChainInit, ChainStep, PTL DEF HistorySpec

-----------------------------------------------------------------------------
(* The statements of the backend amount to the atomic ledger.              *)

LatestExists == \E p \in Labels \cup {NoPeriod} : IsLatest(p)

\* What a commit rests on: what its request has read is still so.
SerialInv == AloneInv /\ SingleInv /\ LatestExists

\* SpecSerialized takes only such steps.
SerialNext == Next /\ PeriodsChangeAlone /\ ReversalsDisjoint'

LEMMA LatestUnique ==
    ASSUME AloneInv, NEW p \in Labels \cup {NoPeriod}, NEW q \in Labels \cup {NoPeriod},
           IsLatest(p), IsLatest(q)
    PROVE  p = q
<1>1. CASE Existing = {}
  BY <1>1 DEF IsLatest
<1>2. CASE Existing # {}
  <2>1. /\ p \in Existing /\ q \in Existing
        /\ openedAt[p] <= openedAt[q] /\ openedAt[q] <= openedAt[p]
    BY <1>2 DEF IsLatest
  <2>2. openedAt[p] \in Nat /\ openedAt[q] \in Nat
    BY <2>1 DEF AloneInv, TypeOK, Existing
  <2>3. QED
    BY <2>1, <2>2 DEF AloneInv, OpenedApart
<1>3. QED
  BY <1>1, <1>2

LEMMA LatestIs ==
    ASSUME AloneInv, NEW p \in Labels \cup {NoPeriod}, IsLatest(p)
    PROVE  LatestPeriod = p
<1>1. LatestPeriod \in Labels \cup {NoPeriod} /\ IsLatest(LatestPeriod)
  BY DEF LatestPeriod
<1>2. QED
  BY <1>1, LatestUnique

\* The mapped period changes only when one is opened.
LEMMA LatestKept ==
    ASSUME Existing' = Existing, openedAt' = openedAt
    PROVE  /\ LatestPeriod' = LatestPeriod
           /\ LatestExists => LatestExists'
<1>1. \A p : IsLatest(p)' <=> IsLatest(p)
  BY DEF IsLatest
<1>2. QED
  BY <1>1 DEF LatestPeriod, LatestExists

LEMMA LatestOpened ==
    ASSUME AloneInv, AloneNext, NEW w \in Workers, WriteOpened(w), ~LabelTaken(req[w].label),
           NEW L, L = req[w].label
    PROVE  L \in Labels /\ IsLatest(L)'
<1>1. /\ L \in Labels /\ L # NoPeriod
      /\ Existing' = Existing \cup {L}
      /\ \A l \in Existing : openedAt'[l] = openedAt[l] /\ openedAt[l] < openedAt'[L]
      /\ openedAt'[L] \in Nat
  BY Opened
<1>2. \A l \in Existing : openedAt[l] \in Nat
  BY DEF Existing, AloneInv, TypeOK
<1>3. IsLatest(L)'
  BY <1>1, <1>2 DEF IsLatest
<1>4. QED
  BY <1>1, <1>3

LEMMA SerialStep == SerialInv /\ [SerialNext]_vars => SerialInv'
<1> SUFFICES ASSUME SerialInv, [SerialNext]_vars PROVE SerialInv'
  OBVIOUS
<1>1. AloneInv' /\ SingleInv'
  BY AloneStep, SingleStep DEF SerialInv, SerialNext, AloneNext
<1>2. LatestExists'
  <2>1. CASE UNCHANGED <<status, startBal, openedAt>>
    BY <2>1, LatestKept DEF SerialInv, Existing
  <2>2. ASSUME NEW w \in Workers, NEW l \in Labels, LockPeriod(w, l) \/ UnlockPeriod(w, l)
        PROVE  LatestExists'
    BY <2>2, ManualKeeps, LatestKept DEF SerialInv, AloneInv
  <2>3. ASSUME AloneNext, NEW w \in Workers, WriteOpened(w), ~LabelTaken(req[w].label)
        PROVE  LatestExists'
    <3>1. PICK L : L = req[w].label
      OBVIOUS
    <3>2. L \in Labels /\ IsLatest(L)'
      BY <2>3, <3>1, LatestOpened DEF SerialInv
    <3>3. QED
      BY <3>2 DEF LatestExists
  <2>4. QED
    BY <2>1, <2>2, <2>3, PeriodsStep DEF SerialNext, AloneNext, vars
<1>3. QED
  BY <1>1, <1>2 DEF SerialInv

\* The operators of AtomicLedger are those of LedgerRows again.
LEMMA AtomicRows ==
    ASSUME NEW s, NEW i
    PROVE  /\ Atomic!ReversalOf(s, i) = ReversalOf(s, i)
           /\ Atomic!AlreadyReversed(s, i) <=> AlreadyReversed(s, i)
           /\ Atomic!NoReversal = NoReversal
           /\ Atomic!Direction = Direction
           /\ Atomic!Valid(i) <=> Valid(i)
  BY DEF Atomic!ReversalOf, ReversalOf, Atomic!Opposite, Opposite, Atomic!AlreadyReversed,
         AlreadyReversed, Atomic!Reversals, Reversals, Atomic!NoReversal, NoReversal,
         Atomic!Direction, Direction, Atomic!Valid, Valid

LEMMA AtomicNet ==
    ASSUME NEW s, NEW l
    PROVE  Atomic!NetOfAll(s, l) = NetOfAll(s, l)
<1>1. Atomic!InPeriod(s, l) = InPeriod(s, l)
  BY DEF Atomic!InPeriod, InPeriod
<1>2. [k \in Atomic!InPeriod(s, l) |-> Atomic!Signed(s[k])] = [k \in InPeriod(s, l) |-> Signed(s[k])]
  BY <1>1 DEF Atomic!Signed, Signed
<1>3. \A f : Atomic!SumFunction(f) = SumFunction(f)
  BY DEF Atomic!SumFunction, SumFunction, Atomic!SumFunctionOnSet, SumFunctionOnSet,
         Atomic!FoldFunctionOnSet, FoldFunctionOnSet, Atomic!MapThenFoldSet, MapThenFoldSet
<1>4. QED
  BY <1>2, <1>3 DEF Atomic!NetOfAll, NetOfAll, Atomic!NetOf, NetOf

LEMMA RowCommitted ==
    ASSUME SerialInv, NEW w \in Workers, CommitRow(w)
    PROVE  Atomic!Next
<1>1. /\ req[w].row \in Row /\ rows' = Append(rows, req[w].row)
      /\ req[w].row.rev # NoReversal => Reversing(w)
      /\ UNCHANGED <<status, startBal, openedAt>>
  BY CommittedRow DEF CommitRow, SerialInv, AloneInv
<1>2. PICK r \in Row : r = req[w].row
  BY <1>1
<1>3. status[r.period] = "open"
  BY <1>2 DEF SerialInv, AloneInv, RowsForOpen, RowPCs, CommitRow
<1>4. UNCHANGED <<status, startBal, LatestPeriod>>
  BY <1>1, LatestKept DEF Existing
<1>5. CASE r.rev = NoReversal
  <2>1. PICK l \in Labels, d \in Direction, a \in Amounts :
            l = r.period /\ d = r.dir /\ a = r.amount /\ Valid(a)
    BY DEF Row
  <2>2. r = [period |-> l, dir |-> d, amount |-> a, rev |-> NoReversal]
    BY <1>5, <2>1 DEF Row
  <2>3. Atomic!CreateTransaction(l, d, a)
    BY <1>1, <1>2, <1>3, <1>4, <2>1, <2>2, AtomicRows DEF Atomic!CreateTransaction
  <2>4. QED
    BY <2>1, <2>3, AtomicRows DEF Atomic!Next
<1>6. CASE r.rev # NoReversal
  <2>1. PICK i : i = r.rev
    OBVIOUS
  <2>2. Reversing(w) /\ req[w].pc # "check"
    BY <1>1, <1>2, <1>6 DEF CommitRow
  <2>3. /\ i \in DOMAIN rows /\ r = ReversalOf(rows, i)
        /\ rows[i].rev = NoReversal /\ Reversals(rows, i) = {}
    BY <1>2, <2>1, <2>2 DEF SerialInv, SingleInv, MirrorInv, CarriedMirrors, CheckedUnreversed
  <2>4. r.period = rows[i].period
    BY <2>3 DEF ReversalOf
  <2>5. Atomic!ReverseTransaction(i)
    <3>1. ~AlreadyReversed(rows, i)
      BY <2>3 DEF AlreadyReversed
    <3>2. QED
      BY <1>1, <1>2, <1>3, <1>4, <2>3, <2>4, <3>1, AtomicRows DEF Atomic!ReverseTransaction
  <2>6. QED
    BY <2>3, <2>5 DEF Atomic!Next
<1>7. QED
  BY <1>5, <1>6

\* What open_next_period writes is what the atomic operation would: the
\* period it has read is still the latest, with the balance it has summed.
LEMMA PeriodOpened ==
    ASSUME SerialInv, AloneNext, NEW w \in Workers, WriteOpened(w), ~LabelTaken(req[w].label)
    PROVE  Atomic!Next
<1>1. PICK L, P : L = req[w].label /\ P = req[w].prev
  OBVIOUS
<1>2. AloneInv /\ TypeOK /\ req[w] \in OpenReq /\ Opening(w) /\ req[w].pc = "write"
  BY RequestCases DEF SerialInv, AloneInv, WriteOpened, Opening
<1>3. /\ IsLatest(P)
      /\ req[w].wasOpen <=> P # NoPeriod /\ status[P] = "open"
      /\ carry[w] = IF P = NoPeriod THEN 0 ELSE Closing(P)
  BY <1>1, <1>2 DEF AloneInv, ReadsCurrent
<1>4. P \in Labels \cup {NoPeriod} /\ L \in Labels /\ status[L] = "none"
  BY <1>1, <1>2 DEF OpenReq, LabelTaken
<1>5. LatestPeriod = P
  BY <1>2, <1>3, <1>4, LatestIs
<1>6. LatestPeriod' = L
  <2>1. L \in Labels /\ IsLatest(L)' /\ AloneInv'
    BY <1>1, <1>2, LatestOpened, AloneStep
  <2>2. \A p \in Labels \cup {NoPeriod} : IsLatest(p)' => p = L
    <3>1. ASSUME NEW p \in Labels \cup {NoPeriod}, IsLatest(p)'
          PROVE  p = L
      <4>1. Existing' # {} /\ L \in Existing' /\ L # NoPeriod
        BY <1>1, <1>2, Opened
      <4>2. /\ p \in Existing'
            /\ openedAt'[p] <= openedAt'[L] /\ openedAt'[L] <= openedAt'[p]
        BY <2>1, <3>1, <4>1 DEF IsLatest
      <4>3. openedAt'[p] \in Nat /\ openedAt'[L] \in Nat
        BY <2>1, <4>1, <4>2 DEF AloneInv, TypeOK, Existing
      <4>4. QED
        BY <2>1, <4>1, <4>2, <4>3 DEF AloneInv, OpenedApart
    <3>2. QED
      BY <3>1
  <2>3. QED
    BY <2>1, <2>2 DEF LatestPeriod
<1>7. /\ status' = StatusAfter(req[w])
      /\ startBal' = [startBal EXCEPT ![L] = carry[w]]
      /\ rows' = rows
  BY <1>1 DEF WriteOpened
<1>8. status' = [m \in Labels |-> IF m = L THEN "open"
                                  ELSE IF m = P THEN "locked" ELSE status[m]]
  <2>1. P \in Labels /\ status[P] # "open" => status[P] = "locked"
    BY <1>2, <1>3, <1>4, NoPeriodAssumption DEF IsLatest, Existing, TypeOK, Status
  <2>2. QED
    BY <1>1, <1>3, <1>7, <2>1, NoPeriodAssumption DEF StatusAfter
<1>9. startBal' = [startBal EXCEPT ![L] =
                      IF P = NoPeriod THEN 0 ELSE startBal[P] + Atomic!NetOfAll(rows, P)]
  BY <1>3, <1>7, AtomicNet DEF Closing
<1>10. Atomic!OpenNextPeriod(L)
  BY <1>4, <1>5, <1>6, <1>7, <1>8, <1>9 DEF Atomic!OpenNextPeriod
<1>11. QED
  BY <1>4, <1>10 DEF Atomic!Next

LEMMA PeriodSwitched ==
    ASSUME TypeOK, NEW w \in Workers, NEW l \in Labels, LockPeriod(w, l) \/ UnlockPeriod(w, l)
    PROVE  Atomic!Next
<1>1. UNCHANGED <<rows, startBal, LatestPeriod>>
  BY ManualKeeps, LatestKept
<1>2. Atomic!LockPeriod(l) \/ Atomic!UnlockPeriod(l)
  BY <1>1 DEF LockPeriod, UnlockPeriod, Atomic!LockPeriod, Atomic!UnlockPeriod
<1>3. QED
  BY <1>2 DEF Atomic!Next

\* Every step of a serialized schedule is an operation of the atomic ledger or
\* changes nothing its users see.
LEMMA AtomicStep ==
    ASSUME SerialInv, [SerialNext]_vars
    PROVE  [Atomic!Next]_(Atomic!vars)
<1> USE DEF Atomic!vars
<1>1. CASE rows' = rows /\ UNCHANGED <<status, startBal, openedAt>>
  BY <1>1, LatestKept DEF Existing
<1>2. ASSUME NEW w \in Workers, CommitRow(w)
      PROVE  Atomic!Next
  BY <1>2, RowCommitted
<1>3. ASSUME NEW w \in Workers, NEW l \in Labels, LockPeriod(w, l) \/ UnlockPeriod(w, l)
      PROVE  Atomic!Next
  BY <1>3, PeriodSwitched DEF SerialInv, AloneInv
<1>4. ASSUME AloneNext, NEW w \in Workers, WriteOpened(w), ~LabelTaken(req[w].label)
      PROVE  Atomic!Next
  BY <1>4, PeriodOpened
<1>5. QED
  <2>1. TypeOK /\ [Next]_vars
    BY DEF SerialInv, AloneInv, SerialNext
  <2>2. CASE SerialNext
    <3>1. AloneNext
      BY <2>2 DEF SerialNext, AloneNext
    <3>2. QED
      BY <1>1, <1>2, <1>3, <1>4, <2>1, <3>1, RowsStep, PeriodsStep
  <2>3. CASE UNCHANGED vars
    BY <1>1, <2>3 DEF vars
  <2>4. QED
    BY <2>2, <2>3

LEMMA AtomicInit == Init => SerialInv /\ Atomic!Init
<1> SUFFICES ASSUME Init PROVE SerialInv /\ Atomic!Init
  OBVIOUS
<1>1. IsLatest(NoPeriod)
  BY DEF Init, IsLatest, Existing
<1>2. SerialInv
  BY <1>1, AloneInit, SingleInit DEF SerialInv, LatestExists
<1>3. LatestPeriod = NoPeriod
  BY <1>1, <1>2, LatestIs DEF SerialInv
<1>4. QED
  BY <1>2, <1>3 DEF Init, Atomic!Init

\* Requests whose statements interleave keep the promise of the atomic ledger,
\* for any number of them, as long as periods change alone and no two requests
\* reverse the same row at once.
THEOREM Refines == SpecSerialized => RefinesAtomicLedger
<1>1. SerialInv /\ [Next /\ PeriodsChangeAlone /\ ReversalsDisjoint']_vars => SerialInv'
  BY SerialStep DEF SerialNext
<1>2. SerialInv /\ [Next /\ PeriodsChangeAlone /\ ReversalsDisjoint']_vars
        => [Atomic!Next]_(Atomic!vars)
  BY AtomicStep DEF SerialNext
<1>3. QED
  BY <1>1, <1>2, AtomicInit, PTL DEF SpecSerialized, RefinesAtomicLedger, Atomic!Spec

=============================================================================
