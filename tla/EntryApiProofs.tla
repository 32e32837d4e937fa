--------------------------- MODULE EntryApiProofs ---------------------------
(***************************************************************************)
(* Theorems about what users send to the API.  EntryApi, for any entries,  *)
(* keys and copies: answers are real whatever happens, and a key records   *)
(* its entry no more often than once and once for every slip.              *)
(* CsvImport, for any files and uploads: what is stored of a file, and     *)
(* what is read from it.  The two modules share nothing; their theorems    *)
(* stand apart, each for its own specification.                            *)
(***************************************************************************)
EXTENDS EntryApiHistory, CsvImport, SumLemmas, TLAPS

Delivery == [at : Step, row : Nat]

\* What Move changes, and what it leaves alone.
LEMMA Moved ==
    ASSUME TypeOK, NEW k \in Keys, NEW c \in Copies,
           NEW step \in Step, NEW row \in Nat, Move(k, c, step, row)
    PROVE  /\ delivery' \in [Keys -> [Copies -> Delivery]]
           /\ delivery'[k][c] = [at |-> step, row |-> row]
           /\ \A j \in Keys, d \in Copies :
                  j # k \/ d # c => delivery'[j][d] = delivery[j][d]
  BY DEF TypeOK, Move, Delivery

\* What Confirm changes.
LEMMA Confirmed ==
    ASSUME TypeOK, NEW k \in Keys, NEW row \in Nat, Confirm(k, row)
    PROVE  /\ form' \in [Keys -> {"unused", "waiting", "ok", "error"}]
           /\ shown' \in [Keys -> Nat]
           /\ shown'[k] = row
           /\ form'[k] = IF row = 0 THEN "error" ELSE "ok"
           /\ \A j \in Keys : j # k => form'[j] = form[j] /\ shown'[j] = shown[j]
  BY DEF TypeOK, Confirm

\* A committed row stays, and a new one is the last.
LEMMA RowsGrow ==
    ASSUME TypeOK, NEW k \in Keys, rows' = Append(rows, k)
    PROVE  /\ rows' \in Seq(Keys)
           /\ Len(rows) + 1 \in Nat \ {0}
           /\ Len(rows) + 1 \in RowsOf(k)'
           /\ \A j \in Keys : RowsOf(j) \subseteq RowsOf(j)'
           /\ \A j \in Keys : j # k => RowsOf(j)' = RowsOf(j)
           /\ DOMAIN rows' = DOMAIN rows \cup {Len(rows) + 1}
           /\ \A i \in DOMAIN rows : rows'[i] = rows[i]
           /\ rows'[Len(rows) + 1] = k
           /\ Len(rows) + 1 \notin DOMAIN rows
<1>1. /\ rows' \in Seq(Keys)
      /\ DOMAIN rows = 1 .. Len(rows)
      /\ DOMAIN rows' = 1 .. Len(rows) + 1
      /\ Len(rows) \in Nat
      /\ \A i \in DOMAIN rows : rows'[i] = rows[i]
      /\ rows'[Len(rows) + 1] = k
  BY DEF TypeOK
<1>2. DOMAIN rows' = DOMAIN rows \cup {Len(rows) + 1} /\ Len(rows) + 1 \notin DOMAIN rows
  BY <1>1
<1> QED
  BY <1>1, <1>2 DEF RowsOf

-----------------------------------------------------------------------------
\* Every variable keeps its type.
LEMMA TypeStep == TypeOK /\ [Next]_vars => TypeOK'
<1> SUFFICES ASSUME TypeOK, [Next]_vars PROVE TypeOK'
  OBVIOUS
<1> USE DEF Step
<1>1. ASSUME NEW k \in Keys, NEW e \in Entries, Submit(e, k)
      PROVE  TypeOK'
  <2>1. PICK c \in Copies : At(k, c, "none") /\ Move(k, c, "sent", 0)
    BY <1>1 DEF Submit
  <2> QED
    BY <1>1, <2>1, Moved DEF Submit, TypeOK, Delivery
<1>2. ASSUME NEW k \in Keys, ConnectionLost(k)
      PROVE  TypeOK'
  BY <1>2, Confirmed DEF ConnectionLost, TypeOK
<1>3. ASSUME NEW k \in Keys, NEW c \in Copies, Serve(k, c) \/ Fail(k, c)
      PROVE  TypeOK'
  <2>1. delivery[k][c].row \in Nat /\ Len(rows) + 1 \in Nat
    BY DEF TypeOK
  <2>2. CASE Unauthorized(k, c) \/ LookUpMiss(k, c) \/ LookUpFails(k, c)
    BY <2>2, Moved DEF Unauthorized, LookUpMiss, LookUpFails, TypeOK, Delivery, client
  <2>3. CASE LookUpHit(k, c)
    <3>1. Cached(k) \in Nat
      BY DEF Cached, TypeOK
    <3> QED
      BY <2>3, <3>1, Moved DEF LookUpHit, TypeOK, Delivery, client
  <2>4. CASE Commit(k, c) \/ CommitUnseen(k, c)
    <3>1. rows' \in Seq(Keys)
      BY <2>4, RowsGrow DEF Commit, CommitUnseen
    <3> QED
      BY <2>4, <2>1, <3>1, Moved DEF Commit, CommitUnseen, TypeOK, Delivery, client
  <2>5. CASE Refuse(k, c)
    <3>1. PICK step \in {"reply", "forbidden"} : Move(k, c, step, 0)
      BY <2>5 DEF Refuse
    <3>2. step \in Step
      OBVIOUS
    <3>3. delivery' \in [Keys -> [Copies -> Delivery]]
      BY <3>1, <3>2, Moved
    <3> QED
      BY <2>5, <3>3 DEF Refuse, TypeOK, Delivery, client
  <2>6. CASE Save(k, c)
    <3>1. saved' \in [Keys -> Nat]
      BY <2>6, <2>1 DEF Save, TypeOK
    <3> QED
      BY <2>6, <2>1, <3>1, Moved DEF Save, TypeOK, Delivery, client
  <2>7. CASE SaveFails(k, c)
    BY <2>7, <2>1, Moved DEF SaveFails, TypeOK, Delivery, client
  <2> QED
    BY <1>3, <2>2, <2>3, <2>4, <2>5, <2>6, <2>7 DEF Serve, Fail
<1>4. ASSUME NEW k \in Keys, NEW c \in Copies, Receive(k, c)
      PROVE  TypeOK'
  <2>1. delivery[k][c].row \in Nat
    BY DEF TypeOK
  <2>2. CASE ReceiveAnswer(k, c)
    BY <2>2, <2>1, Moved, Confirmed DEF ReceiveAnswer, TypeOK, Delivery
  <2>3. CASE RefreshAndRetry(k, c)
    BY <2>3, Moved DEF RefreshAndRetry, TypeOK, Delivery
  <2>4. CASE ReceiveForbidden(k, c)
    BY <2>4, Moved, Confirmed DEF ReceiveForbidden, TypeOK, Delivery
  <2> QED
    BY <1>4, <2>2, <2>3, <2>4 DEF Receive
<1>5. ASSUME NEW k \in Keys, NEW c \in Copies, Resend(k, c) \/ Lose(k, c)
      PROVE  TypeOK'
  BY <1>5, Moved DEF Resend, Lose, TypeOK, Delivery, client
<1>6. CASE Crash
  BY <1>6 DEF Crash, TypeOK, client
<1>7. CASE Cleanup
  BY <1>7 DEF Cleanup, TypeOK, client
<1>8. CASE UNCHANGED vars
  BY <1>8 DEF vars, TypeOK
<1> QED
  BY <1>1, <1>2, <1>3, <1>4, <1>5, <1>6, <1>7, <1>8 DEF Next, Works

\* Every variable has its type, whatever happens.
THEOREM TypeCorrect == Spec => []TypeOK
<1>1. Init => TypeOK
  BY DEF Init, TypeOK, Step
<1> QED
  BY <1>1, TypeStep, PTL DEF Spec

-----------------------------------------------------------------------------
\* A delivery carries the row it had, none, or one of its key.
AnswersCarried ==
    \A j \in Keys, d \in Copies :
        delivery'[j][d].row \in {0, delivery[j][d].row} \cup RowsOf(j)'

\* Rows stay, and every answer is an old one, none, or one that names a row
\* of its key.
OnlyRealAnswers ==
    /\ AnswersCarried
    /\ \A j \in Keys :
           /\ RowsOf(j) \subseteq RowsOf(j)'
           /\ saved'[j] \in {0, saved[j]} \cup RowsOf(j)'
           /\ form'[j] = "ok" =>
                  \/ form[j] = "ok" /\ shown'[j] = shown[j]
                  \/ shown'[j] \in RowsOf(j)'

\* It is enough to look at the delivery that moves.
LEMMA MovedAnswer ==
    ASSUME TypeOK, NEW k \in Keys, NEW c \in Copies,
           NEW step \in Step, NEW row \in Nat, Move(k, c, step, row),
           row \in {0, delivery[k][c].row} \cup RowsOf(k)'
    PROVE  AnswersCarried
<1>1. delivery'[k][c] = [at |-> step, row |-> row]
  BY Moved
<1>2. \A j \in Keys, d \in Copies : j # k \/ d # c => delivery'[j][d] = delivery[j][d]
  BY Moved
<1>3. ASSUME NEW j \in Keys, NEW d \in Copies
      PROVE  delivery'[j][d].row \in {0, delivery[j][d].row} \cup RowsOf(j)'
  <2>1. CASE j = k /\ d = c
    BY <1>1, <2>1
  <2>2. CASE j # k \/ d # c
    BY <1>2, <2>2
  <2> QED
    BY <2>1, <2>2
<1> QED
  BY <1>3 DEF AnswersCarried

\* So answers stay real.
LEMMA AnswersKept ==
    ASSUME AnswersReal, OnlyRealAnswers
    PROVE  AnswersReal'
<1> SUFFICES ASSUME NEW j \in Keys
             PROVE  /\ saved'[j] # 0 => saved'[j] \in RowsOf(j)'
                    /\ form'[j] = "ok" => shown'[j] \in RowsOf(j)'
                    /\ \A d \in Copies : delivery'[j][d].row # 0 =>
                           delivery'[j][d].row \in RowsOf(j)'
  BY DEF AnswersReal
<1>1. /\ saved[j] # 0 => saved[j] \in RowsOf(j)'
      /\ form[j] = "ok" => shown[j] \in RowsOf(j)'
      /\ \A d \in Copies : delivery[j][d].row # 0 => delivery[j][d].row \in RowsOf(j)'
  BY DEF AnswersReal, OnlyRealAnswers, AnswersCarried
<1> QED
  BY <1>1 DEF OnlyRealAnswers, AnswersCarried

\* Every step leaves answers real.
LEMMA AnswersStep == TypeOK /\ AnswersReal /\ [Next]_vars => AnswersReal'
<1> SUFFICES ASSUME TypeOK, AnswersReal, [Next]_vars PROVE AnswersReal'
  OBVIOUS
<1> SUFFICES OnlyRealAnswers
  BY AnswersKept
<1> USE DEF Step
<1>1. rows' = rows => \A j \in Keys : RowsOf(j)' = RowsOf(j)
  BY DEF RowsOf
<1>2. ASSUME NEW k \in Keys, NEW e \in Entries, Submit(e, k)
      PROVE  OnlyRealAnswers
  <2>1. PICK c \in Copies : At(k, c, "none") /\ Move(k, c, "sent", 0)
    BY <1>2 DEF Submit
  <2>2. AnswersCarried
    BY <2>1, MovedAnswer
  <2>3. \A j \in Keys : form'[j] = "ok" => form[j] = "ok"
    BY <1>2 DEF Submit, TypeOK
  <2> QED
    BY <1>1, <1>2, <2>2, <2>3 DEF OnlyRealAnswers, Submit
<1>3. ASSUME NEW k \in Keys, ConnectionLost(k)
      PROVE  OnlyRealAnswers
  BY <1>1, <1>3, Confirmed DEF OnlyRealAnswers, AnswersCarried, ConnectionLost
<1>4. ASSUME NEW k \in Keys, NEW c \in Copies, Serve(k, c) \/ Fail(k, c)
      PROVE  OnlyRealAnswers
  <2>1. /\ delivery[k][c].row \in Nat
        /\ delivery[k][c].row # 0 => delivery[k][c].row \in RowsOf(k)
    BY DEF TypeOK, AnswersReal
  <2>2. CASE Unauthorized(k, c) \/ LookUpMiss(k, c) \/ LookUpFails(k, c)
    <3>1. AnswersCarried
      BY <2>2, MovedAnswer DEF Unauthorized, LookUpMiss, LookUpFails
    <3> QED
      BY <1>1, <2>2, <3>1 DEF OnlyRealAnswers, Unauthorized, LookUpMiss, LookUpFails, client
  <2>3. CASE LookUpHit(k, c)
    <3>1. Cached(k) \in Nat /\ Cached(k) \in RowsOf(k)
      BY <2>3 DEF LookUpHit, Cached, TypeOK, AnswersReal
    <3>2. AnswersCarried
      <4>1. Move(k, c, "reply", Cached(k)) /\ RowsOf(k)' = RowsOf(k)
        BY <1>1, <2>3 DEF LookUpHit
      <4> QED
        BY <3>1, <4>1, MovedAnswer
    <3> QED
      BY <1>1, <2>3, <3>2 DEF OnlyRealAnswers, LookUpHit, client
  <2>4. CASE Commit(k, c) \/ CommitUnseen(k, c)
    <3>1. rows' = Append(rows, k)
      BY <2>4 DEF Commit, CommitUnseen
    <3>2. AnswersCarried
      BY <2>4, <3>1, RowsGrow, MovedAnswer DEF Commit, CommitUnseen
    <3>3. \A j \in Keys : RowsOf(j) \subseteq RowsOf(j)'
      BY <3>1, RowsGrow
    <3> QED
      BY <2>4, <3>2, <3>3 DEF OnlyRealAnswers, Commit, CommitUnseen, client
  <2>5. CASE Refuse(k, c)
    <3>1. PICK step \in {"reply", "forbidden"} : Move(k, c, step, 0)
      BY <2>5 DEF Refuse
    <3>2. step \in Step
      OBVIOUS
    <3>3. AnswersCarried
      BY <3>1, <3>2, MovedAnswer
    <3> QED
      BY <1>1, <2>5, <3>3 DEF OnlyRealAnswers, Refuse, client
  <2>6. CASE Save(k, c) \/ SaveFails(k, c)
    <3>1. AnswersCarried
      BY <2>1, <2>6, MovedAnswer DEF Save, SaveFails
    <3>2. \A j \in Keys : saved'[j] \in {0, saved[j]} \cup RowsOf(j)
      BY <2>1, <2>6 DEF Save, SaveFails, TypeOK
    <3> QED
      BY <1>1, <2>6, <3>1, <3>2 DEF OnlyRealAnswers, Save, SaveFails, client
  <2> QED
    BY <1>4, <2>2, <2>3, <2>4, <2>5, <2>6 DEF Serve, Fail
<1>5. ASSUME NEW k \in Keys, NEW c \in Copies, Receive(k, c)
      PROVE  OnlyRealAnswers
  <2>1. /\ delivery[k][c].row \in Nat
        /\ delivery[k][c].row # 0 => delivery[k][c].row \in RowsOf(k)
    BY DEF TypeOK, AnswersReal
  <2>2. AnswersCarried
    BY <1>5, MovedAnswer DEF Receive, ReceiveAnswer, RefreshAndRetry, ReceiveForbidden
  <2>3. CASE ReceiveAnswer(k, c)
    <3>1. \A j \in Keys : form'[j] = "ok" =>
              \/ form[j] = "ok" /\ shown'[j] = shown[j]
              \/ shown'[j] \in RowsOf(j)
      BY <2>1, <2>3, Confirmed DEF ReceiveAnswer
    <3> QED
      BY <1>1, <2>2, <2>3, <3>1 DEF OnlyRealAnswers, ReceiveAnswer
  <2>4. CASE RefreshAndRetry(k, c)
    BY <1>1, <2>2, <2>4 DEF OnlyRealAnswers, RefreshAndRetry
  <2>5. CASE ReceiveForbidden(k, c)
    <3>1. \A j \in Keys : form'[j] = "ok" => form[j] = "ok" /\ shown'[j] = shown[j]
      BY <2>5, Confirmed DEF ReceiveForbidden
    <3> QED
      BY <1>1, <2>2, <2>5, <3>1 DEF OnlyRealAnswers, ReceiveForbidden
  <2> QED
    BY <1>5, <2>3, <2>4, <2>5 DEF Receive
<1>6. ASSUME NEW k \in Keys, NEW c \in Copies, Resend(k, c) \/ Lose(k, c)
      PROVE  OnlyRealAnswers
  <2>1. AnswersCarried
    BY <1>6, MovedAnswer DEF Resend, Lose
  <2> QED
    BY <1>1, <1>6, <2>1 DEF OnlyRealAnswers, Resend, Lose, client
<1>7. CASE Crash
  <2>1. AnswersCarried
    BY <1>7 DEF Crash, AnswersCarried, TypeOK
  <2> QED
    BY <1>1, <1>7, <2>1 DEF OnlyRealAnswers, Crash, client
<1>8. CASE Cleanup
  <2>1. \A j \in Keys : saved'[j] = 0
    BY <1>8 DEF Cleanup
  <2> QED
    BY <1>1, <1>8, <2>1 DEF OnlyRealAnswers, AnswersCarried, Cleanup, client
<1>9. CASE UNCHANGED vars
  BY <1>1, <1>9 DEF OnlyRealAnswers, AnswersCarried, vars
<1> QED
  BY <1>2, <1>3, <1>4, <1>5, <1>6, <1>7, <1>8, <1>9 DEF Next, Works

\* Answers are real, whatever is lost, repeated, refused or cleaned up.
THEOREM AnswersRealAlways == Spec => []AnswersReal
<1>1. Init => TypeOK /\ AnswersReal
  BY DEF Init, TypeOK, AnswersReal, Step
<1>2. TypeOK /\ AnswersReal /\ [Next]_vars => (TypeOK /\ AnswersReal)'
  BY TypeStep, AnswersStep
<1> QED
  BY <1>1, <1>2, PTL DEF Spec

-----------------------------------------------------------------------------
(* Every duplicate has a slip of its own.                                  *)

Handled(k) == {c \in Copies : At(k, c, "handler")}
Saving(k)  == {c \in Copies : At(k, c, "save")}

Made(k)    == Cardinality(RowsOf(k))
Working(k) == Cardinality(Handled(k))

\* The next delivery of the key will miss, and nobody is about to change that.
Unknown(k) == saved[k] = 0 /\ Saving(k) = {}

\* The rows of a key, those its handlers may still add, and the slips.  While
\* the key is unknown one slip more has happened.
Accounted(k) ==
    /\ Made(k) + Working(k) <= 1 + slips[k]
    /\ Unknown(k) => Made(k) <= slips[k]
    /\ \A c \in Copies : At(k, c, "save") => delivery[k][c].row # 0

AccountInv == HistoryTypeOK /\ \A k \in Keys : Accounted(k)

LEMMA Counts ==
    ASSUME TypeOK, NEW k \in Keys
    PROVE  /\ RowsOf(k) \in SUBSET DOMAIN rows /\ Made(k) \in Nat
           /\ IsFiniteSet(Handled(k)) /\ Working(k) \in Nat
<1>1. RowsOf(k) \in SUBSET DOMAIN rows /\ rows \in Seq(Keys)
  BY DEF RowsOf, TypeOK
<1>2. IsFiniteSet(Handled(k))
  BY CopiesAssumption, FS_Subset DEF Handled
<1>3. QED
  BY <1>1, <1>2, RowSetsGrow, FS_CardinalityType DEF Made, Working

\* A handler fewer.
LEMMA HandlerLeaves ==
    ASSUME TypeOK, NEW k \in Keys
    PROVE  \A S \in SUBSET Handled(k) :
               /\ Cardinality(S) \in Nat /\ Cardinality(S) <= Working(k)
               /\ \A c \in Handled(k) \ S : Cardinality(S) <= Working(k) - 1
<1>1. IsFiniteSet(Handled(k))
  BY Counts
<1>2. ASSUME NEW S \in SUBSET Handled(k)
      PROVE  /\ Cardinality(S) \in Nat /\ Cardinality(S) <= Working(k)
             /\ \A c \in Handled(k) \ S : Cardinality(S) <= Working(k) - 1
  <2>1. IsFiniteSet(S) /\ Cardinality(S) \in Nat
    BY <1>1, FS_Subset, FS_CardinalityType
  <2>2. QED
    BY <1>1, <2>1, FewerLeft DEF Working
<1>3. QED
  BY <1>2

\* Who is in the handler, and who at its save, once a delivery has moved.
LEMMA MovedSets ==
    ASSUME TypeOK, NEW k \in Keys, NEW c \in Copies,
           NEW step \in Step, NEW row \in Nat, Move(k, c, step, row)
    PROVE  /\ \A j \in Keys : j # k => Handled(j)' = Handled(j) /\ Saving(j)' = Saving(j)
           /\ Handled(k)' = IF step = "handler" THEN Handled(k) \cup {c} ELSE Handled(k) \ {c}
           /\ Saving(k)' = IF step = "save" THEN Saving(k) \cup {c} ELSE Saving(k) \ {c}
<1>1. /\ delivery'[k][c] = [at |-> step, row |-> row]
      /\ \A j \in Keys, d \in Copies : j # k \/ d # c => delivery'[j][d] = delivery[j][d]
  BY Moved
<1>2. \A d \in Copies : delivery'[k][d].at = IF d = c THEN step ELSE delivery[k][d].at
  BY <1>1
<1>3. QED
  BY <1>1, <1>2 DEF Handled, Saving, At

-----------------------------------------------------------------------------
(* What a step may do to the account of a key.                             *)

Same(k) ==
    /\ Made(k)' = Made(k) /\ Working(k)' <= Working(k)
    /\ slips'[k] >= slips[k] /\ (Unknown(k)' => Unknown(k))

First(k) ==
    /\ Made(k)' = Made(k) /\ Working(k)' = 1 /\ slips'[k] >= slips[k] /\ Unknown(k)

Commits(k) ==
    /\ Made(k)' = Made(k) + 1 /\ Working(k)' <= Working(k) - 1
    /\ slips'[k] >= slips[k] /\ ~Unknown(k)'

\* With a slip: one more in the handler, one row more, or a saved row less.
Slips(k) ==
    /\ slips'[k] = slips[k] + 1
    /\ \/ Made(k)' = Made(k) /\ Working(k)' <= Working(k) + 1 /\ (Unknown(k)' => Unknown(k))
       \/ /\ Made(k)' = Made(k) + 1 /\ Working(k)' <= Working(k) - 1
          /\ Unknown(k)' => Unknown(k)
       \/ Made(k)' = Made(k) /\ Working(k)' <= Working(k)

Changes(k) == Same(k) \/ First(k) \/ Commits(k) \/ Slips(k)

LEMMA ChangesKeep ==
    ASSUME AccountInv, HistoryTypeOK', NEW k \in Keys, Changes(k)
    PROVE  /\ Made(k)' + Working(k)' <= 1 + slips'[k]
           /\ Unknown(k)' => Made(k)' <= slips'[k]
<1>1. /\ Made(k) \in Nat /\ Working(k) \in Nat /\ slips[k] \in Nat
      /\ Made(k) + Working(k) <= 1 + slips[k]
      /\ Unknown(k) => Made(k) <= slips[k]
  BY Counts DEF AccountInv, HistoryTypeOK, Accounted
<1>2. Made(k)' \in Nat /\ Working(k)' \in Nat /\ slips'[k] \in Nat
  <2>1. TypeOK'
    BY DEF HistoryTypeOK
  <2>2. IsFiniteSet(Handled(k)') /\ RowsOf(k)' \in SUBSET DOMAIN rows' /\ rows' \in Seq(Keys)
    <3>1. Handled(k)' \subseteq Copies
      BY DEF Handled
    <3>2. QED
      BY <2>1, <3>1, CopiesAssumption, FS_Subset DEF RowsOf, TypeOK
  <2>3. QED
    BY <2>2, RowSetsGrow, FS_CardinalityType DEF Made, Working, HistoryTypeOK
<1>3. CASE Same(k)
  BY <1>1, <1>2, <1>3 DEF Same
<1>4. CASE First(k)
  BY <1>1, <1>2, <1>4 DEF First
<1>5. CASE Commits(k)
  BY <1>1, <1>2, <1>5 DEF Commits
<1>6. CASE Slips(k)
  BY <1>1, <1>2, <1>6 DEF Slips
<1>7. QED
  BY <1>3, <1>4, <1>5, <1>6 DEF Changes

LEMMA SlipCounts ==
    ASSUME HistoryTypeOK, NEW S \in SUBSET Keys, Slip(S)
    PROVE  /\ slips' \in [Keys -> Nat]
           /\ \A j \in Keys : slips'[j] = slips[j] + IF j \in S THEN 1 ELSE 0
           /\ \A j \in Keys : slips[j] \in Nat /\ slips'[j] >= slips[j]
<1>1. \A j \in Keys : slips[j] \in Nat
  BY DEF HistoryTypeOK
<1>2. \A j \in Keys : slips'[j] = slips[j] + IF j \in S THEN 1 ELSE 0
  BY DEF Slip
<1>3. \A j \in Keys : slips'[j] \in Nat /\ slips'[j] >= slips[j]
  BY <1>1, <1>2
<1>4. slips' = [j \in Keys |-> slips'[j]]
  BY DEF Slip
<1>5. QED
  BY <1>1, <1>2, <1>3, <1>4

\* What a step leaves alone of a key.
LEMMA Untouched ==
    ASSUME HistoryTypeOK, NEW j \in Keys, RowsOf(j)' = RowsOf(j), Handled(j)' \subseteq Handled(j),
           Saving(j)' = Saving(j), saved'[j] = saved[j], slips'[j] >= slips[j]
    PROVE  Same(j)
<1>1. Working(j)' <= Working(j)
  <2>1. Cardinality(Handled(j)') <= Working(j)
    BY HandlerLeaves DEF HistoryTypeOK
  <2>2. QED
    BY <2>1 DEF Working
<1>2. QED
  BY <1>1 DEF Same, Made, Unknown

-----------------------------------------------------------------------------
\* The server's steps, and those that fail.
LEMMA ServerChanges ==
    ASSUME AccountInv, NEW k \in Keys, NEW c \in Copies, NEW S \in SUBSET Keys, Slip(S),
           \/ Serve(k, c) /\ (Overtakes(k) => k \in S)
           \/ Fail(k, c) /\ k \in S
    PROVE  \A j \in Keys : Changes(j)
<1> USE DEF Step
<1>1. /\ TypeOK /\ HistoryTypeOK
      /\ \A j \in Keys : slips'[j] = slips[j] + IF j \in S THEN 1 ELSE 0
      /\ \A j \in Keys : slips[j] \in Nat /\ slips'[j] >= slips[j]
  BY SlipCounts DEF AccountInv, HistoryTypeOK
<1>2. rows' = rows => \A j \in Keys : RowsOf(j)' = RowsOf(j)
  BY DEF RowsOf
<1>3. Made(k) \in Nat /\ Working(k) \in Nat
  BY <1>1, Counts
<1>4. Len(rows) + 1 \in Nat /\ delivery[k][c].row \in Nat /\ Cached(k) \in Nat
  BY <1>1 DEF TypeOK, Cached
<1>5. ASSUME NEW step \in Step, NEW row \in Nat, Move(k, c, step, row),
             rows' = rows, saved' = saved, step \notin {"handler", "save"}, ~At(k, c, "save")
      PROVE  \A j \in Keys : Changes(j)
  <2>1. \A j \in Keys : /\ RowsOf(j)' = RowsOf(j) /\ Handled(j)' \subseteq Handled(j)
                        /\ Saving(j)' = Saving(j)
    BY <1>1, <1>2, <1>5, MovedSets DEF Saving
  <2>2. QED
    BY <1>1, <1>5, <2>1, Untouched DEF Changes
<1>6. CASE Unauthorized(k, c) \/ LookUpHit(k, c)
  BY <1>4, <1>5, <1>6 DEF Unauthorized, LookUpHit, client, At
<1>7. CASE Refuse(k, c)
  <2>1. PICK step \in {"reply", "forbidden"} : Move(k, c, step, 0)
    BY <1>7 DEF Refuse
  <2>2. step \in Step
    OBVIOUS
  <2>3. QED
    BY <1>5, <1>7, <2>1, <2>2 DEF Refuse, client, At
<1>8. ASSUME Move(k, c, "handler", 0), rows' = rows, saved' = saved, At(k, c, "sent"),
             k \in S \/ (Unknown(k) /\ Handled(k) = {})
      PROVE  \A j \in Keys : Changes(j)
  <2>1. /\ \A j \in Keys : j # k => Handled(j)' = Handled(j) /\ Saving(j)' = Saving(j)
        /\ Handled(k)' = Handled(k) \cup {c} /\ Saving(k)' = Saving(k)
    <3>1. "handler" \in Step /\ 0 \in Nat
      OBVIOUS
    <3>2. c \notin Saving(k) /\ "handler" # "save"
      BY <1>8 DEF Saving, At
    <3>3. /\ \A j \in Keys : j # k => Handled(j)' = Handled(j) /\ Saving(j)' = Saving(j)
          /\ Handled(k)' = Handled(k) \cup {c}
          /\ Saving(k)' = Saving(k) \ {c}
      BY <1>1, <1>8, <3>1, MovedSets
    <3>4. Saving(k) \ {c} = Saving(k)
      BY <3>2
    <3>5. QED
      BY <3>3, <3>4
  <2>2. \A j \in Keys : j # k => Changes(j)
    BY <1>1, <1>2, <1>8, <2>1, Untouched DEF Changes
  <2>3. Made(k)' = Made(k) /\ (Unknown(k)' <=> Unknown(k))
    BY <1>2, <1>8, <2>1 DEF Made, Unknown
  <2>4. CASE k \in S
    <3>1. Working(k)' <= Working(k) + 1
      <4>1. c \notin Handled(k) /\ IsFiniteSet(Handled(k))
        BY <1>1, <1>8, Counts DEF Handled, At
      <4>2. Cardinality(Handled(k) \cup {c}) = Cardinality(Handled(k)) + 1
        BY <4>1, FS_AddElement
      <4>3. QED
        BY <1>3, <2>1, <4>2 DEF Working
    <3>2. slips'[k] = slips[k] + 1
      BY <1>1, <2>4
    <3>3. Slips(k)
      BY <2>3, <3>1, <3>2 DEF Slips
    <3>4. QED
      BY <2>2, <3>3 DEF Changes
  <2>5. CASE Unknown(k) /\ Handled(k) = {}
    <3>1. Working(k)' = 1
      <4>1. Cardinality({c}) = 1
        BY FS_Singleton
      <4>2. Handled(k)' = {c}
        BY <2>1, <2>5
      <4>3. QED
        BY <4>1, <4>2 DEF Working
    <3>2. First(k)
      <4>1. slips'[k] >= slips[k]
        BY <1>1
      <4>2. Unknown(k)
        BY <2>5
      <4>3. Made(k)' = Made(k)
        BY <2>3
      <4>4. QED
        BY <3>1, <4>1, <4>2, <4>3, Zenon DEF First
    <3>3. QED
      BY <2>2, <3>2 DEF Changes
  <2>6. QED
    BY <1>8, <2>4, <2>5
<1>9. CASE LookUpMiss(k, c) /\ (Overtakes(k) => k \in S)
  <2>1. /\ Move(k, c, "handler", 0) /\ rows' = rows /\ saved' = saved
        /\ At(k, c, "sent") /\ saved[k] = 0
    BY <1>9 DEF LookUpMiss, client, Cached
  <2>2. delivery'[k][c].at = "handler"
    <3>1. "handler" \in Step /\ 0 \in Nat
      OBVIOUS
    <3>2. delivery'[k][c] = [at |-> "handler", row |-> 0]
      BY <1>1, <2>1, <3>1, Moved
    <3>3. QED
      BY <3>2
  <2>3. Overtakes(k) \/ (Unknown(k) /\ Handled(k) = {})
    BY <2>1, <2>2 DEF Overtakes, Unknown, Handled, Saving, At
  <2>4. QED
    BY <1>8, <1>9, <2>1, <2>3
<1>10. CASE LookUpFails(k, c) /\ k \in S
  BY <1>8, <1>10 DEF LookUpFails, client
<1>11. ASSUME NEW step \in {"save", "reply"}, NEW row \in Nat, At(k, c, "handler"),
              rows' = Append(rows, k), Move(k, c, step, row), saved' = saved,
              step = "save" \/ k \in S
       PROVE  \A j \in Keys : Changes(j)
  <2>1. /\ RowsOf(k)' = RowsOf(k) \cup {Len(rows) + 1}
        /\ \A j \in Keys : j # k => RowsOf(j)' = RowsOf(j)
    BY <1>1, <1>11, RowsGrow DEF RowsOf
  <2>2. Made(k)' = Made(k) + 1
    <3>1. RowsOf(k) \in SUBSET DOMAIN rows /\ rows \in Seq(Keys)
      BY <1>1, Counts DEF TypeOK
    <3>2. Cardinality(RowsOf(k) \cup {Len(rows) + 1}) = Cardinality(RowsOf(k)) + 1
      BY <3>1, RowSetsGrow
    <3>3. QED
      BY <2>1, <3>2 DEF Made
  <2>3. step \in Step
    OBVIOUS
  <2>4. /\ \A j \in Keys : j # k => Handled(j)' = Handled(j) /\ Saving(j)' = Saving(j)
        /\ Handled(k)' = Handled(k) \ {c}
        /\ Saving(k)' = IF step = "save" THEN Saving(k) \cup {c} ELSE Saving(k) \ {c}
    BY <1>1, <1>11, <2>3, MovedSets
  <2>5. Working(k)' <= Working(k) - 1
    <3>1. c \in Handled(k)
      BY <1>11 DEF Handled
    <3>2. Cardinality(Handled(k) \ {c}) <= Working(k) - 1
      BY <1>1, <3>1, HandlerLeaves
    <3>3. QED
      BY <2>4, <3>2 DEF Working
  <2>6. Changes(k)
    <3>1. CASE step = "save"
      BY <1>1, <2>2, <2>4, <2>5, <3>1 DEF Changes, Commits, Unknown
    <3>2. CASE step = "reply" /\ k \in S
      <4>1. c \notin Saving(k)
        BY <1>11 DEF Saving, At
      <4>2. Unknown(k)' => Unknown(k)
        BY <1>11, <2>4, <3>2, <4>1 DEF Unknown
      <4>3. slips'[k] = slips[k] + 1
        BY <1>1, <3>2
      <4>4. QED
        BY <2>2, <2>5, <4>2, <4>3 DEF Changes, Slips
    <3>3. QED
      BY <1>11, <3>1, <3>2
  <2>7. QED
    BY <1>1, <1>11, <2>1, <2>4, <2>6, Untouched DEF Changes
<1>12. CASE Commit(k, c)
  BY <1>4, <1>11, <1>12 DEF Commit, client
<1>13. CASE CommitUnseen(k, c) /\ k \in S
  BY <1>11, <1>13 DEF CommitUnseen, client
<1>14. ASSUME At(k, c, "save"), Move(k, c, "reply", delivery[k][c].row), rows' = rows,
              saved'[k] # 0 \/ k \in S,
              \A j \in Keys : j # k => saved'[j] = saved[j]
       PROVE  \A j \in Keys : Changes(j)
  <2>1. "reply" \in Step
    OBVIOUS
  <2>2. /\ \A j \in Keys : j # k => Handled(j)' = Handled(j) /\ Saving(j)' = Saving(j)
        /\ Handled(k)' = Handled(k) \ {c}
    BY <1>1, <1>4, <1>14, <2>1, MovedSets
  <2>3. Made(k)' = Made(k)
    BY <1>2, <1>14 DEF Made
  <2>4. Working(k)' <= Working(k)
    <3>1. Cardinality(Handled(k) \ {c}) <= Working(k)
      BY <1>1, HandlerLeaves
    <3>2. QED
      BY <2>2, <3>1 DEF Working
  <2>5. Changes(k)
    <3>1. CASE saved'[k] # 0
      BY <1>1, <2>3, <2>4, <3>1 DEF Changes, Same, Unknown
    <3>2. CASE k \in S
      BY <1>1, <2>3, <2>4, <3>2 DEF Changes, Slips
    <3>3. QED
      BY <1>14, <3>1, <3>2
  <2>6. QED
    BY <1>1, <1>2, <1>14, <2>2, <2>5, Untouched DEF Changes
<1>15. CASE Save(k, c)
  <2>1. delivery[k][c].row # 0
    BY <1>15 DEF Save, AccountInv, Accounted
  <2>2. saved'[k] # 0 /\ \A j \in Keys : j # k => saved'[j] = saved[j]
    BY <1>1, <1>15, <2>1 DEF Save, TypeOK
  <2>3. QED
    BY <1>14, <1>15, <2>2 DEF Save, client
<1>16. CASE SaveFails(k, c) /\ k \in S
  BY <1>14, <1>16 DEF SaveFails, client
<1>17. QED
  BY <1>6, <1>7, <1>9, <1>10, <1>12, <1>13, <1>15, <1>16 DEF Serve, Fail, Overtakes

\* The steps of the browser and the network.
LEMMA ClientChanges ==
    ASSUME AccountInv, NEW S \in SUBSET Keys, Slip(S),
           \/ \E k \in Keys, e \in Entries : Submit(e, k)
           \/ \E k \in Keys : ConnectionLost(k)
           \/ \E k \in Keys, c \in Copies : Resend(k, c) \/ Receive(k, c) \/ Lose(k, c)
    PROVE  \A j \in Keys : Changes(j)
<1> USE DEF Step
<1>1. /\ TypeOK /\ HistoryTypeOK /\ \A j \in Keys : slips'[j] >= slips[j]
  BY SlipCounts DEF AccountInv, HistoryTypeOK
<1>2. /\ rows' = rows /\ saved' = saved
      /\ \/ delivery' = delivery
         \/ \E k \in Keys, c \in Copies : \E step \in {"sent", "gone"} :
                Move(k, c, step, 0) /\ ~At(k, c, "handler") /\ ~At(k, c, "save")
  <2>1. ASSUME NEW k \in Keys, NEW e \in Entries, Submit(e, k)
        PROVE  \E c \in Copies : Move(k, c, "sent", 0) /\ ~At(k, c, "handler") /\ ~At(k, c, "save")
    BY <2>1 DEF Submit, At
  <2>2. ASSUME NEW k \in Keys, NEW c \in Copies, Resend(k, c) \/ Receive(k, c) \/ Lose(k, c)
        PROVE  /\ \E step \in {"sent", "gone"} : Move(k, c, step, 0)
               /\ ~At(k, c, "handler") /\ ~At(k, c, "save")
    BY <2>2 DEF Resend, Receive, ReceiveAnswer, RefreshAndRetry, ReceiveForbidden, Lose, At
  <2>3. rows' = rows /\ saved' = saved
    BY DEF Submit, ConnectionLost, Resend, Receive, ReceiveAnswer, RefreshAndRetry,
           ReceiveForbidden, Lose, client
  <2>4. QED
    BY <2>1, <2>2, <2>3 DEF ConnectionLost
<1>3. \A j \in Keys : RowsOf(j)' = RowsOf(j)
  BY <1>2 DEF RowsOf
<1>4. \A j \in Keys : Handled(j)' \subseteq Handled(j) /\ Saving(j)' = Saving(j)
  <2>1. CASE delivery' = delivery
    BY <2>1 DEF Handled, Saving, At
  <2>2. ASSUME NEW k \in Keys, NEW c \in Copies, NEW step \in {"sent", "gone"},
               Move(k, c, step, 0), ~At(k, c, "handler"), ~At(k, c, "save")
        PROVE  \A j \in Keys : Handled(j)' \subseteq Handled(j) /\ Saving(j)' = Saving(j)
    <3>1. step \in Step /\ 0 \in Nat
      OBVIOUS
    <3>2. c \notin Saving(k)
      BY <2>2 DEF Saving
    <3>3. /\ \A j \in Keys : j # k => Handled(j)' = Handled(j) /\ Saving(j)' = Saving(j)
          /\ Handled(k)' = Handled(k) \ {c} /\ Saving(k)' = Saving(k) \ {c}
      BY <1>1, <2>2, <3>1, MovedSets
    <3>4. Saving(k) \ {c} = Saving(k)
      BY <3>2
    <3>5. \A j \in Keys : j = k \/ j # k
      OBVIOUS
    <3>6. QED
      BY <3>3, <3>4, <3>5
  <2>3. QED
    BY <1>2, <2>1, <2>2
<1>5. QED
  BY <1>1, <1>2, <1>3, <1>4, Untouched DEF Changes

LEMMA CrashChanges ==
    ASSUME AccountInv, Crash, Slip({k \in Keys : \E c \in Copies : At(k, c, "save")})
    PROVE  \A j \in Keys : Changes(j)
<1> DEFINE S == {k \in Keys : \E c \in Copies : At(k, c, "save")}
<1>1. /\ TypeOK /\ HistoryTypeOK
      /\ \A j \in Keys : slips'[j] = slips[j] + IF j \in S THEN 1 ELSE 0
      /\ \A j \in Keys : slips[j] \in Nat /\ slips'[j] >= slips[j]
  BY SlipCounts DEF AccountInv, HistoryTypeOK
<1>2. rows' = rows /\ saved' = saved
  BY DEF Crash, client
<1>3. \A j \in Keys, c \in Copies :
        /\ delivery'[j][c].at \notin {"handler", "save"}
  BY DEF Crash
<1> SUFFICES ASSUME NEW j \in Keys PROVE Changes(j)
  OBVIOUS
<1>4. RowsOf(j)' = RowsOf(j) /\ Handled(j)' = {} /\ Saving(j)' = {}
  BY <1>2, <1>3 DEF RowsOf, Handled, Saving, At
<1>5. Working(j)' <= Working(j)
  <2>1. Cardinality({}) <= Working(j)
    BY <1>1, HandlerLeaves
  <2>2. QED
    BY <1>4, <2>1 DEF Working
<1>6. CASE j \in S
  BY <1>1, <1>4, <1>5, <1>6 DEF Changes, Slips, Made
<1>7. CASE j \notin S
  <2>1. Saving(j) = {}
    BY <1>7 DEF Saving
  <2>2. QED
    BY <1>1, <1>2, <1>4, <2>1, Untouched DEF Changes
<1>8. QED
  BY <1>6, <1>7

LEMMA CleanupChanges ==
    ASSUME AccountInv, Cleanup, Slip({k \in Keys : saved[k] # 0})
    PROVE  \A j \in Keys : Changes(j)
<1> DEFINE S == {k \in Keys : saved[k] # 0}
<1>1. /\ TypeOK /\ HistoryTypeOK
      /\ \A j \in Keys : slips'[j] = slips[j] + IF j \in S THEN 1 ELSE 0
      /\ \A j \in Keys : slips[j] \in Nat /\ slips'[j] >= slips[j]
  BY SlipCounts DEF AccountInv, HistoryTypeOK
<1>2. rows' = rows /\ delivery' = delivery /\ \A j \in Keys : saved'[j] = 0
  BY DEF Cleanup, client
<1> SUFFICES ASSUME NEW j \in Keys PROVE Changes(j)
  OBVIOUS
<1>3. RowsOf(j)' = RowsOf(j) /\ Handled(j)' = Handled(j) /\ Saving(j)' = Saving(j)
  BY <1>2 DEF RowsOf, Handled, Saving, At
<1>4. Working(j) \in Nat
  BY <1>1, Counts
<1>5. CASE j \in S
  BY <1>1, <1>3, <1>4, <1>5 DEF Changes, Slips, Made, Working
<1>6. CASE j \notin S
  BY <1>1, <1>2, <1>3, <1>6, Untouched DEF Changes
<1>7. QED
  BY <1>5, <1>6

\* Every answer that is to be saved names a row.
LEMMA SavesCarryRows ==
    ASSUME AccountInv, [Next]_vars, NEW k \in Keys, NEW c \in Copies, (At(k, c, "save"))'
    PROVE  delivery'[k][c].row # 0
<1>1. TypeOK /\ (At(k, c, "save") => delivery[k][c].row # 0)
  BY DEF AccountInv, HistoryTypeOK, Accounted
<1>2. CASE delivery'[k][c] = delivery[k][c]
  BY <1>1, <1>2 DEF At
<1>3. ASSUME NEW j \in Keys, NEW d \in Copies, Commit(j, d)
      PROVE  delivery'[k][c].row # 0
  <2>1. "save" \in Step /\ Len(rows) + 1 \in Nat \ {0}
    BY <1>1 DEF Step, TypeOK
  <2>2. /\ delivery'[j][d] = [at |-> "save", row |-> Len(rows) + 1]
        /\ k # j \/ c # d => delivery'[k][c] = delivery[k][c]
    BY <1>1, <1>3, <2>1, Moved DEF Commit
  <2>3. QED
    BY <1>2, <2>1, <2>2
<1>4. ASSUME NEW j \in Keys, NEW d \in Copies, NEW step, NEW row, Move(j, d, step, row),
             step # "save"
      PROVE  delivery'[k][c].row # 0
  <2>1. delivery'[k][c] = IF k = j /\ c = d THEN [at |-> step, row |-> row]
                          ELSE delivery[k][c]
    BY <1>1, <1>4 DEF Move, TypeOK
  <2>2. QED
    BY <1>2, <1>4, <2>1 DEF At
<1>5. CASE Crash
  BY <1>5 DEF Crash, At
<1>6. CASE delivery' = delivery
  BY <1>2, <1>6
<1>7. ASSUME NEW j \in Keys, NEW d \in Copies,
             \/ Resend(j, d) \/ Receive(j, d) \/ Lose(j, d) \/ Serve(j, d) \/ Fail(j, d)
      PROVE  \/ Commit(j, d)
             \/ \E step \in Step \ {"save"} : \E row : Move(j, d, step, row)
  BY <1>7 DEF Resend, Receive, ReceiveAnswer, RefreshAndRetry, ReceiveForbidden, Lose, Serve,
              Fail, Unauthorized, LookUpHit, LookUpMiss, Refuse, Save, LookUpFails,
              CommitUnseen, SaveFails, Step
<1>8. ASSUME NEW j \in Keys, NEW e \in Entries, Submit(e, j)
      PROVE  \E d \in Copies : Move(j, d, "sent", 0)
  BY <1>8 DEF Submit
<1>9. ASSUME NEW j \in Keys, ConnectionLost(j) PROVE delivery' = delivery
  BY <1>9 DEF ConnectionLost
<1>10. Cleanup \/ UNCHANGED vars => delivery' = delivery
  BY DEF Cleanup, vars
<1>11. QED
  BY <1>3, <1>4, <1>5, <1>6, <1>7, <1>8, <1>9, <1>10 DEF Next, Works

LEMMA HistoryStep == [HistoryNext]_historyVars => [Next]_vars
  BY DEF HistoryNext, historyVars, Next

LEMMA AccountStep == AccountInv /\ [HistoryNext]_historyVars => AccountInv'
<1> SUFFICES ASSUME AccountInv, [HistoryNext]_historyVars PROVE AccountInv'
  OBVIOUS
<1>1. CASE UNCHANGED historyVars
  BY <1>1 DEF historyVars, vars, client, AccountInv, HistoryTypeOK, TypeOK, Accounted, Made,
              Working, Unknown, RowsOf, Handled, Saving, At
<1>2. CASE HistoryNext
  <2>1. HistoryTypeOK /\ TypeOK' /\ [Next]_vars
    BY <1>2, HistoryStep, TypeStep DEF AccountInv, HistoryTypeOK
  <2>2. PICK S \in SUBSET Keys : Slip(S)
    BY <1>2 DEF HistoryNext
  <2>3. HistoryTypeOK'
    BY <2>1, <2>2, SlipCounts DEF HistoryTypeOK
  <2>4. \A j \in Keys : Changes(j)
    <3>1. ASSUME Works, Slip({k \in Keys : Overtakes(k)})
          PROVE  \A j \in Keys : Changes(j)
      <4>1. PICK T \in SUBSET Keys : T = {k \in Keys : Overtakes(k)}
        OBVIOUS
      <4>2. ASSUME NEW k \in Keys, NEW c \in Copies, Serve(k, c)
            PROVE  \A j \in Keys : Changes(j)
        BY <3>1, <4>1, <4>2, ServerChanges
      <4>3. QED
        BY <3>1, <4>1, <4>2, ClientChanges DEF Works
    <3>2. ASSUME NEW k \in Keys, NEW c \in Copies, Fail(k, c), Slip({k})
          PROVE  \A j \in Keys : Changes(j)
      BY <3>2, ServerChanges
    <3>3. QED
      BY <1>2, <3>1, <3>2, CrashChanges, CleanupChanges DEF HistoryNext
  <2>5. \A j \in Keys : Accounted(j)'
    BY <2>1, <2>3, <2>4, ChangesKeep, SavesCarryRows DEF Accounted
  <2>6. QED
    BY <2>3, <2>5 DEF AccountInv
<1>3. QED
  BY <1>1, <1>2

LEMMA AccountInit == HistoryInit => AccountInv
<1> SUFFICES ASSUME HistoryInit PROVE AccountInv
  OBVIOUS
<1>1. TypeOK /\ HistoryTypeOK
  BY DEF HistoryInit, Init, TypeOK, HistoryTypeOK, Step
<1>2. ASSUME NEW k \in Keys
      PROVE  RowsOf(k) = {} /\ Handled(k) = {} /\ Saving(k) = {} /\ slips[k] = 0
  BY DEF HistoryInit, Init, RowsOf, Handled, Saving, At
<1>3. Cardinality({}) = 0
  BY FS_EmptySet
<1>4. ASSUME NEW k \in Keys PROVE Accounted(k)
  <2>1. Made(k) = 0 /\ Working(k) = 0 /\ slips[k] = 0
    BY <1>2, <1>3 DEF Made, Working
  <2>2. QED
    BY <1>2, <2>1 DEF Accounted, Saving
<1>5. QED
  BY <1>1, <1>4 DEF AccountInv

\* The count neither adds behaviours to the program nor takes any away: what
\* is counted is a step of it.
THEOREM HistoryIsApi == HistorySpec => Spec
<1>1. HistoryInit => Init
  BY DEF HistoryInit
<1>2. QED
  BY <1>1, HistoryStep, PTL DEF HistorySpec, Spec

\* A key records its entry once, and once more at most for every slip: for
\* any number of keys and deliveries, in any order, whatever fails.
THEOREM DuplicatesAlwaysAccounted == HistorySpec => []DuplicatesAccounted
<1>1. AccountInv => DuplicatesAccounted
  <2> SUFFICES ASSUME AccountInv, NEW k \in Keys
               PROVE  Cardinality(RowsOf(k)) <= 1 + slips[k]
    BY DEF DuplicatesAccounted
  <2>1. Made(k) \in Nat /\ Working(k) \in Nat /\ slips[k] \in Nat
    BY Counts DEF AccountInv, HistoryTypeOK
  <2>2. Made(k) + Working(k) <= 1 + slips[k]
    BY DEF AccountInv, Accounted
  <2>3. Made(k) <= 1 + slips[k]
    BY <2>1, <2>2
  <2>4. QED
    BY <2>3 DEF Made
<1>2. QED
  BY <1>1, AccountInit, AccountStep, PTL DEF HistorySpec

-----------------------------------------------------------------------------
(* Files of transactions: storing the rows.                                *)

Upload == [pc : {"read", "insert", "error", "ok"}, file : Files, count : Nat]

Records == {[upload |-> u, tx |-> Parsed(f)[n]] : u \in Uploads, f \in Files, n \in Nat}

UploadsOK ==
    /\ up \in [Uploads -> {NoUpload} \cup Upload]
    /\ stored \in Seq(Records)

\* An upload counts the rows it has stored; it stores none of a file with a
\* bad row, and all of them before it succeeds.
Counted ==
    \A u \in Uploads :
        /\ up[u] = NoUpload => StoredBy(u) = {}
        /\ up[u] # NoUpload => up[u].count = Cardinality(StoredBy(u))
        /\ up[u].pc = "insert" => Accepted(up[u].file)

CsvInv == UploadsOK /\ Counted /\ StoredIsPrefix

LEMMA UploadCases ==
    ASSUME UploadsOK, NEW u \in Uploads
    PROVE  /\ up[u] # NoUpload <=> up[u].pc \in {"read", "insert", "error", "ok"}
           /\ up[u] # NoUpload <=> up[u] \in Upload
  BY DEF UploadsOK, NoUpload, Upload

LEMMA StoredFinite ==
    ASSUME stored \in Seq(Records), NEW u
    PROVE  /\ IsFiniteSet(StoredBy(u)) /\ Cardinality(StoredBy(u)) \in Nat
           /\ StoredBy(u) \subseteq 1..Len(stored)
<1>1. Len(stored) \in Nat /\ DOMAIN stored = 1..Len(stored)
  OBVIOUS
<1>2. StoredBy(u) \subseteq 1..Len(stored)
  BY <1>1 DEF StoredBy
<1>3. IsFiniteSet(1..Len(stored))
  BY <1>1, FS_Interval
<1>4. IsFiniteSet(StoredBy(u))
  BY <1>2, <1>3, FS_Subset
<1>5. QED
  BY <1>2, <1>4, FS_CardinalityType

\* What storing a row changes.
LEMMA InsertStores ==
    ASSUME UploadsOK, NEW u \in Uploads, InsertNext(u), status # "locked",
           NEW n, n = Len(stored) + 1
    PROVE  /\ up[u] \in Upload /\ up[u].pc = "insert"
           /\ up'[u] = [up[u] EXCEPT !.count = up[u].count + 1]
           /\ \A v \in Uploads \ {u} : up'[v] = up[v]
           /\ UploadsOK'
           /\ DOMAIN stored' = DOMAIN stored \cup {n}
           /\ \A i \in DOMAIN stored : i \in Nat /\ i < n /\ stored'[i] = stored[i]
           /\ n \in Nat /\ stored'[n].upload = u
           /\ up[u].count + 1 \in DOMAIN Parsed(up[u].file)
           /\ stored'[n].tx = Parsed(up[u].file)[up[u].count + 1]
<1> DEFINE e == [upload |-> u, tx |-> Parsed(up[u].file)[up[u].count + 1]]
           s == [up[u] EXCEPT !.count = up[u].count + 1]
<1>1. up[u] \in Upload /\ up[u].pc = "insert"
  BY UploadCases DEF InsertNext
<1>2. stored' = Append(stored, e) /\ up' = [up EXCEPT ![u] = s]
      /\ up[u].count + 1 \in DOMAIN Parsed(up[u].file)
  BY DEF InsertNext
<1>3. s \in Upload
  BY <1>1 DEF Upload
<1>4. e \in Records /\ e.upload = u /\ e.tx = Parsed(up[u].file)[up[u].count + 1]
  <2>1. up[u].file \in Files /\ up[u].count + 1 \in Nat
    BY <1>1 DEF Upload
  <2>2. QED
    BY <2>1 DEF Records
<1> HIDE DEF e, s
<1>5. stored \in Seq(Records) /\ up \in [Uploads -> {NoUpload} \cup Upload]
  BY DEF UploadsOK
<1>6. stored' \in Seq(Records) /\ up' \in [Uploads -> {NoUpload} \cup Upload]
  BY <1>2, <1>3, <1>4, <1>5
<1>7. /\ Len(stored) \in Nat /\ DOMAIN stored = 1..Len(stored)
      /\ DOMAIN stored' = 1..(Len(stored) + 1)
      /\ stored'[n] = e
      /\ \A i \in DOMAIN stored : stored'[i] = stored[i]
  BY <1>2, <1>4, <1>5
<1>8. up'[u] = s /\ \A v \in Uploads \ {u} : up'[v] = up[v]
  BY <1>2, <1>5
<1>9. QED
  BY <1>1, <1>2, <1>4, <1>6, <1>7, <1>8 DEF UploadsOK, s

LEMMA StoredKept ==
    ASSUME CsvInv, stored' = stored
    PROVE  \A u : StoredBy(u)' = StoredBy(u) /\ \A i : Place(i)' = Place(i)
  BY DEF StoredBy, Place

\* An upload goes on, or ends, without storing anything.
LEMMA CsvAnswer ==
    ASSUME CsvInv, NEW u \in Uploads, up[u] # NoUpload, stored' = stored, NEW pc, Answer(u, pc),
           pc \in {"read", "insert", "error", "ok"},
           pc = "insert" => Accepted(up[u].file),
           pc = "ok" => up[u].count = Len(Parsed(up[u].file))
    PROVE  CsvInv'
<1>1. up[u] \in Upload /\ UploadsOK
  BY UploadCases DEF CsvInv
<1> DEFINE s == [up[u] EXCEPT !.pc = pc]
<1>2. s \in Upload /\ s.pc = pc /\ s.file = up[u].file /\ s.count = up[u].count
  BY <1>1 DEF Upload
<1>3. up' = [up EXCEPT ![u] = s]
  BY DEF Answer
<1> HIDE DEF s
<1>4. /\ up' \in [Uploads -> {NoUpload} \cup Upload]
      /\ up'[u] = s /\ \A v \in Uploads \ {u} : up'[v] = up[v]
  BY <1>1, <1>2, <1>3 DEF UploadsOK
<1>5. UploadsOK' /\ up'[u] # NoUpload
  BY <1>1, <1>2, <1>4, UploadCases DEF UploadsOK, NoUpload, Upload
<1>6. Counted'
  BY <1>1, <1>2, <1>4, <1>5, StoredKept DEF CsvInv, Counted
<1>7. StoredIsPrefix'
  BY <1>1, <1>2, <1>4, <1>5, StoredKept DEF CsvInv, Counted, StoredIsPrefix
<1>8. QED
  BY <1>5, <1>6, <1>7 DEF CsvInv

LEMMA CsvBegin ==
    ASSUME CsvInv, NEW u \in Uploads, NEW f \in Files, Begin(u, f)
    PROVE  CsvInv'
<1> DEFINE s == [pc |-> IF status = "locked" THEN "error" ELSE "read", file |-> f, count |-> 0]
<1>1. up' = [up EXCEPT ![u] = s] /\ stored' = stored /\ up[u] = NoUpload
  BY DEF Begin
<1>2. s \in Upload /\ s.pc \in {"error", "read"} /\ s.file = f /\ s.count = 0
  BY DEF Upload
<1> HIDE DEF s
<1>3. /\ up' \in [Uploads -> {NoUpload} \cup Upload]
      /\ up'[u] = s /\ \A v \in Uploads \ {u} : up'[v] = up[v]
  BY <1>1, <1>2 DEF CsvInv, UploadsOK
<1>4. StoredBy(u) = {} /\ Cardinality({}) = 0
  BY <1>1, FS_EmptySet DEF CsvInv, Counted
<1>5. UploadsOK'
  BY <1>1, <1>3 DEF CsvInv, UploadsOK
<1>6. s # NoUpload
  BY <1>2 DEF NoUpload
<1>7. Counted'
  BY <1>1, <1>2, <1>3, <1>4, <1>6, StoredKept DEF CsvInv, Counted
<1>8. StoredIsPrefix'
  BY <1>1, <1>2, <1>3, <1>4, <1>6, StoredKept DEF CsvInv, StoredIsPrefix
<1>9. QED
  BY <1>5, <1>7, <1>8 DEF CsvInv

LEMMA CsvInsert ==
    ASSUME CsvInv, NEW u \in Uploads, InsertNext(u)
    PROVE  CsvInv'
<1>1. CASE status = "locked"
  <2>1. up[u].pc = "insert" /\ stored' = stored /\ Answer(u, "error")
    BY <1>1 DEF InsertNext
  <2>2. up[u] # NoUpload
    BY <2>1, UploadCases DEF CsvInv
  <2>3. QED
    BY <2>1, <2>2, CsvAnswer
<1>2. CASE status # "locked"
  <2>1. PICK n : n = Len(stored) + 1
    OBVIOUS
  <2>2. /\ up[u] \in Upload /\ up[u].pc = "insert"
        /\ up'[u] = [up[u] EXCEPT !.count = up[u].count + 1]
        /\ \A v \in Uploads \ {u} : up'[v] = up[v]
        /\ UploadsOK'
        /\ DOMAIN stored' = DOMAIN stored \cup {n}
        /\ \A i \in DOMAIN stored : i \in Nat /\ i < n /\ stored'[i] = stored[i]
        /\ n \in Nat /\ stored'[n].upload = u
        /\ up[u].count + 1 \in DOMAIN Parsed(up[u].file)
        /\ stored'[n].tx = Parsed(up[u].file)[up[u].count + 1]
    BY <1>2, <2>1, InsertStores DEF CsvInv
  <2>3. /\ up'[u].pc = "insert" /\ up'[u].file = up[u].file /\ up'[u].count = up[u].count + 1
        /\ up[u].count \in Nat /\ up[u] # NoUpload /\ up'[u] # NoUpload
    BY <2>2 DEF Upload, NoUpload
  <2>4. /\ StoredBy(u)' = StoredBy(u) \cup {n} /\ n \notin StoredBy(u)
        /\ \A v \in Uploads \ {u} : StoredBy(v)' = StoredBy(v)
        /\ \A v : \A i \in StoredBy(v) : i \in DOMAIN stored
    BY <2>2 DEF StoredBy
  <2>5. /\ IsFiniteSet(StoredBy(u)) /\ up[u].count = Cardinality(StoredBy(u))
    BY <2>3, StoredFinite DEF CsvInv, UploadsOK, Counted
  <2>6. Cardinality(StoredBy(u)') = up[u].count + 1
    BY <2>4, <2>5, FS_AddElement
  <2>7. Counted'
    <3> SUFFICES ASSUME NEW v \in Uploads
                 PROVE  /\ up'[v] = NoUpload => StoredBy(v)' = {}
                        /\ up'[v] # NoUpload => up'[v].count = Cardinality(StoredBy(v)')
                        /\ up'[v].pc = "insert" => Accepted(up'[v].file)
      BY DEF Counted
    <3>1. CASE v = u
      BY <2>2, <2>3, <2>6, <3>1 DEF CsvInv, Counted
    <3>2. CASE v # u
      <4>1. up'[v] = up[v] /\ StoredBy(v)' = StoredBy(v)
        BY <2>2, <2>4, <3>2
      <4>2. QED
        BY <4>1 DEF CsvInv, Counted
    <3>3. QED
      BY <3>1, <3>2
  <2>8. ASSUME NEW i \in DOMAIN stored PROVE Place(i)' = Place(i)
    <3> DEFINE U == {j \in DOMAIN stored : stored[j].upload = stored[i].upload /\ j <= i}
               W == {j \in DOMAIN stored' : stored'[j].upload = stored'[i].upload /\ j <= i}
    <3>1. Place(i) = Cardinality(U) /\ Place(i)' = Cardinality(W)
      <4>1. U = {j \in StoredBy(stored[i].upload) : j <= i}
        BY DEF StoredBy
      <4>2. W = {j \in StoredBy(stored[i].upload)' : j <= i}
        BY <2>2 DEF StoredBy
      <4> HIDE DEF U, W
      <4>3. QED
        BY <2>2, <4>1, <4>2 DEF Place, StoredBy
    <3>2. U = W
      <4>1. \A j \in DOMAIN stored' : j <= i => j \in DOMAIN stored
        BY <2>2
      <4>2. QED
        BY <2>2, <4>1
    <3>3. QED
      BY <3>1, <3>2
  <2>9. Place(n)' = up[u].count + 1
    <3>1. {j \in StoredBy(u)' : j <= n} = StoredBy(u)'
      BY <2>2, <2>4
    <3>2. QED
      BY <2>2, <2>6, <3>1 DEF Place, StoredBy
  <2>10. StoredIsPrefix'
    <3> SUFFICES ASSUME NEW v \in Uploads, up'[v] # NoUpload
                 PROVE  /\ \A i \in StoredBy(v)' :
                              /\ Place(i)' \in DOMAIN Parsed(up'[v].file)
                              /\ stored'[i].tx = Parsed(up'[v].file)[Place(i)']
                        /\ up'[v].pc = "ok" =>
                              Cardinality(StoredBy(v)') = Len(Parsed(up'[v].file))
                        /\ ~Accepted(up'[v].file) => StoredBy(v)' = {}
      BY DEF StoredIsPrefix
    <3>1. up[v] # NoUpload /\ up'[v].file = up[v].file
      BY <2>2, <2>3
    <3>2. \A i \in StoredBy(v) : /\ Place(i) \in DOMAIN Parsed(up[v].file)
                                 /\ stored[i].tx = Parsed(up[v].file)[Place(i)]
      BY <3>1 DEF CsvInv, StoredIsPrefix
    <3>3. \A i \in StoredBy(v)' : i \in StoredBy(v) \/ (v = u /\ i = n)
      BY <2>4
    <3>4. \A i \in StoredBy(v)' : /\ Place(i)' \in DOMAIN Parsed(up'[v].file)
                                  /\ stored'[i].tx = Parsed(up'[v].file)[Place(i)']
      BY <2>2, <2>4, <2>8, <2>9, <3>1, <3>2, <3>3
    <3>5. up'[v].pc = "ok" => Cardinality(StoredBy(v)') = Len(Parsed(up'[v].file))
      <4>1. CASE v = u
        BY <2>3, <4>1
      <4>2. CASE v # u
        <5>1. up'[v] = up[v] /\ StoredBy(v)' = StoredBy(v)
          BY <2>2, <2>4, <4>2
        <5>2. QED
          BY <3>1, <5>1 DEF CsvInv, StoredIsPrefix
      <4>3. QED
        BY <4>1, <4>2
    <3>6. ~Accepted(up'[v].file) => StoredBy(v)' = {}
      BY <2>2, <2>3, <2>4, <3>1 DEF CsvInv, Counted, StoredIsPrefix
    <3>7. QED
      BY <3>4, <3>5, <3>6
  <2>11. QED
    BY <2>2, <2>7, <2>10 DEF CsvInv
<1>3. QED
  BY <1>1, <1>2

LEMMA CsvStep == CsvInv /\ [CsvNext]_csvVars => CsvInv'
<1> SUFFICES ASSUME CsvInv, [CsvNext]_csvVars PROVE CsvInv'
  OBVIOUS
<1>1. CASE stored' = stored /\ up' = up
  <2>1. UploadsOK' /\ Counted' /\ StoredIsPrefix'
    BY <1>1, StoredKept DEF CsvInv, UploadsOK, Counted, StoredIsPrefix
  <2>2. QED
    BY <2>1 DEF CsvInv
<1>2. ASSUME NEW u \in Uploads, ReadFile(u) \/ Break(u) \/ Succeed(u) PROVE CsvInv'
  <2>1. up[u] # NoUpload /\ stored' = stored
    BY <1>2, UploadCases DEF CsvInv, ReadFile, Break, Succeed
  <2>2. CASE ReadFile(u)
    BY <2>1, <2>2, CsvAnswer DEF ReadFile
  <2>3. CASE Break(u)
    BY <2>1, <2>3, CsvAnswer DEF Break
  <2>4. CASE Succeed(u)
    BY <2>1, <2>4, CsvAnswer DEF Succeed
  <2>5. QED
    BY <1>2, <2>2, <2>3, <2>4
<1>3. QED
  BY <1>1, <1>2, CsvBegin, CsvInsert DEF CsvNext, csvVars, SetStatus

LEMMA CsvStart == CsvInit => CsvInv
<1> SUFFICES ASSUME CsvInit PROVE CsvInv
  OBVIOUS
<1>1. stored = <<>> /\ up = [u \in Uploads |-> NoUpload]
  BY DEF CsvInit
<1>2. UploadsOK
  BY <1>1 DEF UploadsOK
<1>3. \A u : StoredBy(u) = {}
  BY <1>1 DEF StoredBy
<1>4. QED
  BY <1>1, <1>2, <1>3 DEF CsvInv, Counted, StoredIsPrefix, NoUpload

\* The rows an upload has inserted are the first transactions of its file, in
\* their order and each once, however uploads, locks and failures of
\* ImportTransactionsFromCSV interleave; none for a file with a bad row.
THEOREM StoredAlwaysPrefix == CsvSpec => []StoredIsPrefix
<1>1. CsvInv => StoredIsPrefix
  BY DEF CsvInv
<1>2. QED
  BY <1>1, CsvStart, CsvStep, PTL DEF CsvSpec

-----------------------------------------------------------------------------
(* Files of transactions: the header.                                      *)

CsvFile == Seq(Seq(STRING))

LEMMA FileTyped ==
    ASSUME NEW f \in Files
    PROVE  f \in CsvFile
  BY FilesAssumption DEF CsvFile

\* The header is the first row that can be one.
LEMMA LayoutIs ==
    ASSUME NEW S, NEW f \in Seq(S), HeaderRows(f) # {}
    PROVE  /\ Layout(f).row \in HeaderRows(f) /\ Layout(f).row \in 1..Len(f)
           /\ \A r \in HeaderRows(f) : Layout(f).row <= r
           /\ Layout(f).at = Columns(f[Layout(f).row])
<1>1. Len(f) \in Nat /\ DOMAIN f = 1..Len(f)
  OBVIOUS
<1>2. HeaderRows(f) \in SUBSET Nat /\ HeaderRows(f) \subseteq 1..Len(f)
  BY <1>1 DEF HeaderRows
<1>3. Min(HeaderRows(f)) \in HeaderRows(f) /\ \A r \in HeaderRows(f) : Min(HeaderRows(f)) <= r
  BY <1>2, MinIs
<1>4. Layout(f).row = Min(HeaderRows(f)) /\ Layout(f).at = Columns(f[Min(HeaderRows(f))])
  BY DEF Layout
<1>5. QED
  BY <1>2, <1>3, <1>4

LEMMA ReadingsAre ==
    ASSUME NEW f
    PROVE  /\ Readings(f) = [k \in 1..(Len(f) - Layout(f).row) |->
                                ReadRow(f[Layout(f).row + k], Layout(f).at)]
           /\ DOMAIN Readings(f) = 1..(Len(f) - Layout(f).row)
           /\ \A k \in 1..(Len(f) - Layout(f).row) :
                 Readings(f)[k] = ReadRow(f[Layout(f).row + k], Layout(f).at)
  BY DEF Readings

\* The rows from the header on.
LEMMA BelowIs ==
    ASSUME NEW f \in CsvFile, HeaderRows(f) # {}
    PROVE  /\ FromHeader(f) \in CsvFile
           /\ Len(FromHeader(f)) = Len(f) - Layout(f).row + 1
           /\ \A k \in 0..(Len(f) - Layout(f).row) :
                 FromHeader(f)[k + 1] = f[Layout(f).row + k]
<1>1. PICK h \in 1..Len(f) : h = Layout(f).row
  BY LayoutIs DEF CsvFile
<1>2. FromHeader(f) = SubSeq(f, h, Len(f))
  BY <1>1 DEF FromHeader
<1>3. f \in Seq(Seq(STRING)) /\ Len(f) \in Nat
  BY DEF CsvFile
<1>4. SubSeq(f, h, Len(f)) \in Seq(Seq(STRING)) /\ Len(SubSeq(f, h, Len(f))) = Len(f) - h + 1
  BY <1>3
<1>5. \A k \in 0..(Len(f) - h) : SubSeq(f, h, Len(f))[k + 1] = f[h + k]
  BY <1>3
<1>6. QED
  BY <1>1, <1>2, <1>4, <1>5 DEF CsvFile

LEMMA NoColumn ==
    ASSUME NEW cells, NEW kind, \A c \in DOMAIN cells : cells[c] \notin Words[kind]
    PROVE  ColumnOf(cells, kind) = 0
  BY DEF ColumnOf

LEMMA ColumnsAt ==
    ASSUME NEW cells
    PROVE  \A kind \in DOMAIN Words : Columns(cells)[kind] = ColumnOf(cells, kind)
  BY DEF Columns

LEMMA RowOfOne ==
    ASSUME NEW a
    PROVE  \A c \in DOMAIN <<a>> : <<a>>[c] = a
  OBVIOUS

LEMMA RowOfTwo ==
    ASSUME NEW a, NEW b
    PROVE  \A c \in DOMAIN <<a, b>> : <<a, b>>[c] \in {a, b}
  OBVIOUS

LEMMA TitleCells ==
    ASSUME NEW title \in Titles
    PROVE  \/ \A c \in DOMAIN title : title[c] \in {"", "detay"}
           \/ \A c \in DOMAIN title : title[c] \in {"", "gelen tutar", "yon"}
<1>1. CASE title = <<"", "">> \/ title = <<"", "detay">>
  <2>1. PICK a, b : a = "" /\ b \in {"", "detay"} /\ title = <<a, b>>
    BY <1>1
  <2>2. \A c \in DOMAIN title : title[c] \in {a, b}
    BY <2>1, RowOfTwo
  <2>3. QED
    BY <2>1, <2>2
<1>2. CASE title = <<"gelen tutar">> \/ title = <<"yon">>
  BY <1>2, RowOfOne
<1>3. QED
  BY <1>1, <1>2 DEF Titles

LEMMA TitleIsNoHeader ==
    ASSUME NEW title \in Titles
    PROVE  ~IsHeader(title)
<1>1. DOMAIN Words = {"gelen", "giden", "dir", "chan", "amt", "desc"}
  BY DEF Words
<1>2. \A c \in DOMAIN title : title[c] \in {"", "gelen tutar", "detay", "yon"}
  BY TitleCells
<1>3. ColumnOf(title, "amt") = 0 /\ ColumnOf(title, "giden") = 0
  BY <1>2, NoColumn DEF Words
<1>4. ColumnOf(title, "desc") = 0 \/ ColumnOf(title, "gelen") = 0
  BY TitleCells, NoColumn DEF Words
<1>5. QED
  BY <1>1, <1>3, <1>4, ColumnsAt DEF IsHeader

LEMMA TitleIrrelevant ==
    ASSUME NEW f \in CsvFile, HeaderRows(f) # {}, NEW title \in Titles
    PROVE  Readings(<<title>> \o FromHeader(f)) = Readings(f)
<1>1. PICK h \in 1..Len(f) :
         /\ h = Layout(f).row /\ h \in HeaderRows(f) /\ Layout(f).at = Columns(f[h])
  BY LayoutIs DEF CsvFile
<1>2. PICK below \in CsvFile :
         /\ below = FromHeader(f) /\ Len(below) = Len(f) - h + 1
         /\ \A k \in 0..(Len(f) - h) : below[k + 1] = f[h + k]
  BY <1>1, BelowIs
<1>3. PICK S : S = Seq(STRING) \cup {title}
  OBVIOUS
<1>4. PICK g \in Seq(S) :
         /\ g = <<title>> \o below
         /\ Len(g) = Len(f) - h + 2 /\ g[1] = title
         /\ \A k \in 0..(Len(f) - h) : g[k + 2] = f[h + k]
  <2>1. title \in S /\ below \in Seq(S)
    BY <1>3 DEF CsvFile
  <2>2. <<title>> \in Seq(S) /\ Len(<<title>>) = 1
    BY <2>1
  <2>3. Len(below) \in Nat /\ Len(f) \in Nat /\ DOMAIN f = 1..Len(f)
    BY DEF CsvFile
  <2>4. /\ <<title>> \o below \in Seq(S)
        /\ Len(<<title>> \o below) = 1 + Len(below)
        /\ (<<title>> \o below)[1] = title
        /\ \A k \in 1..Len(below) : (<<title>> \o below)[k + 1] = below[k]
    BY <2>1, <2>2, <2>3
  <2>5. \A k \in 0..(Len(f) - h) : (<<title>> \o below)[k + 2] = f[h + k]
    <3> TAKE k \in 0..(Len(f) - h)
    <3>1. k + 1 \in 1..Len(below) /\ (k + 1) + 1 = k + 2
      BY <1>2, <2>3
    <3>2. QED
      BY <1>2, <2>4, <3>1
  <2>6. Len(<<title>> \o below) = Len(f) - h + 2
    BY <1>2, <2>3, <2>4
  <2>7. QED
    BY <2>4, <2>5, <2>6
<1>5. Len(f) \in Nat /\ Len(g) \in Nat /\ DOMAIN g = 1..Len(g) /\ 0 \in 0..(Len(f) - h)
  BY DEF CsvFile
<1>6. IsHeader(f[h]) /\ g[2] = f[h]
  <2>1. g[0 + 2] = f[h + 0]
    BY <1>4, <1>5
  <2>2. QED
    BY <1>1, <2>1 DEF HeaderRows
<1>7. 2 \in HeaderRows(g) /\ \A r \in HeaderRows(g) : r \in 1..Len(g) /\ r # 1
  BY <1>4, <1>5, <1>6, TitleIsNoHeader DEF HeaderRows
<1>8. Layout(g).row = 2 /\ Layout(g).at = Columns(f[h])
  <2>1. Layout(g).row \in HeaderRows(g) /\ Layout(g).row <= 2 /\ Layout(g).at = Columns(g[Layout(g).row])
    BY <1>7, LayoutIs
  <2>2. Layout(g).row = 2
    BY <1>7, <2>1
  <2>3. QED
    BY <1>6, <2>1, <2>2
<1>9. Readings(g) = [k \in 1..(Len(f) - h) |-> ReadRow(g[2 + k], Columns(f[h]))]
  <2>1. Len(g) - 2 = Len(f) - h
    BY <1>4, <1>5
  <2>2. QED
    BY <1>8, <2>1, ReadingsAre
<1>10. Readings(f) = [k \in 1..(Len(f) - h) |-> ReadRow(f[h + k], Columns(f[h]))]
  BY <1>1, ReadingsAre
<1>11. \A k \in 1..(Len(f) - h) : g[2 + k] = f[h + k]
  <2> TAKE k \in 1..(Len(f) - h)
  <2>1. k \in 0..(Len(f) - h) /\ 2 + k = k + 2
    BY <1>5
  <2>2. QED
    BY <1>4, <2>1
<1>12. Readings(g) = Readings(f)
  BY <1>9, <1>10, <1>11
<1>13. QED
  BY <1>2, <1>4, <1>12

-----------------------------------------------------------------------------
(* Files of transactions: the order of the columns.                        *)

\* Two columns changed places in a row.
SwappedRow(cells, c, d) == [k \in DOMAIN cells |-> cells[Swap(k, c, d)]]

LEMMA SwapRow ==
    ASSUME NEW cells \in Seq(STRING), NEW c \in DOMAIN cells, NEW d \in DOMAIN cells
    PROVE  /\ SwappedRow(cells, c, d) \in Seq(STRING)
           /\ DOMAIN SwappedRow(cells, c, d) = DOMAIN cells
           /\ Len(SwappedRow(cells, c, d)) = Len(cells)
           /\ \A k \in DOMAIN cells :
                 /\ Swap(k, c, d) \in DOMAIN cells
                 /\ SwappedRow(cells, c, d)[k] = cells[Swap(k, c, d)]
                 /\ SwappedRow(cells, c, d)[Swap(k, c, d)] = cells[k]
                 /\ Swap(Swap(k, c, d), c, d) = k
<1>1. Len(cells) \in Nat /\ DOMAIN cells = 1..Len(cells) /\ \A k \in DOMAIN cells : cells[k] \in STRING
  OBVIOUS
<1>2. \A k \in DOMAIN cells : Swap(k, c, d) \in DOMAIN cells /\ Swap(Swap(k, c, d), c, d) = k
  BY DEF Swap
<1>3. PICK s : s = SwappedRow(cells, c, d)
  OBVIOUS
<1>4. DOMAIN s = DOMAIN cells /\ \A k \in DOMAIN cells : s[k] = cells[Swap(k, c, d)]
  BY <1>3 DEF SwappedRow
<1>5. s \in [1..Len(cells) -> STRING]
  BY <1>1, <1>2, <1>3 DEF SwappedRow
<1>6. s \in Seq(STRING) /\ Len(s) = Len(cells)
  BY <1>1, <1>5
<1>7. QED
  BY <1>2, <1>3, <1>4, <1>6

LEMMA AtMostOne ==
    ASSUME NEW S, IsFiniteSet(S), Cardinality(S) <= 1, NEW x \in S, NEW y \in S
    PROVE  x = y
<1> SUFFICES ASSUME x # y PROVE FALSE
  OBVIOUS
<1>1. IsFiniteSet({x}) /\ Cardinality({x}) = 1
  BY FS_Singleton
<1>2. PICK T : T = {x} \cup {y}
  OBVIOUS
<1>3. IsFiniteSet(T) /\ Cardinality(T) = 2
  <2>1. y \notin {x}
    OBVIOUS
  <2>2. IsFiniteSet({x} \cup {y}) /\ Cardinality({x} \cup {y}) = Cardinality({x}) + 1
    BY <1>1, <2>1, FS_AddElement
  <2>3. QED
    BY <1>1, <1>2, <2>2
<1>4. T \subseteq S
  BY <1>2
<1>5. Cardinality(T) <= Cardinality(S)
  BY <1>4, FS_Subset
<1>6. Cardinality(S) \in Nat
  BY FS_CardinalityType
<1>7. QED
  BY <1>3, <1>5, <1>6

LEMMA ColumnNamed ==
    ASSUME NEW cells \in Seq(STRING), NEW kind
    PROVE  /\ ColumnOf(cells, kind) \in 0..Len(cells)
           /\ Named(cells, kind) = {} <=> ColumnOf(cells, kind) = 0
           /\ ColumnOf(cells, kind) # 0 => ColumnOf(cells, kind) \in Named(cells, kind)
           /\ IsFiniteSet(Named(cells, kind)) /\ Named(cells, kind) \subseteq DOMAIN cells
<1>1. Len(cells) \in Nat /\ DOMAIN cells = 1..Len(cells)
  OBVIOUS
<1>2. PICK N : N = Named(cells, kind)
  OBVIOUS
<1>3. N \subseteq 1..Len(cells)
  BY <1>1, <1>2 DEF Named
<1>4. N \in SUBSET Int /\ \A n \in N : n <= Len(cells) /\ n # 0
  BY <1>1, <1>3
<1>5. ColumnOf(cells, kind) = IF N = {} THEN 0 ELSE Max(N)
  BY <1>2 DEF ColumnOf, Named
<1>6. IsFiniteSet(1..Len(cells))
  BY <1>1, FS_Interval
<1>7. IsFiniteSet(N)
  BY <1>3, <1>6, FS_Subset
<1>8. CASE N = {}
  BY <1>1, <1>2, <1>5, <1>7, <1>8, <1>3
<1>9. CASE N # {}
  <2>1. Len(cells) \in Int
    BY <1>1
  <2>2. Max(N) \in N
    BY <1>9, <1>4, <2>1, MaxIs
  <2>3. Max(N) \in 1..Len(cells) /\ Max(N) # 0
    BY <1>3, <1>4, <2>2
  <2>4. QED
    BY <1>1, <1>2, <1>5, <1>7, <1>9, <1>3, <2>2, <2>3
<1>10. QED
  BY <1>8, <1>9

\* A column that is named once is found where it went.
LEMMA SwapColumn ==
    ASSUME NEW cells \in Seq(STRING), NEW c \in DOMAIN cells, NEW d \in DOMAIN cells,
           NEW kind, Cardinality(Named(cells, kind)) <= 1
    PROVE  /\ ColumnOf(cells, kind) = 0 <=> ColumnOf(SwappedRow(cells, c, d), kind) = 0
           /\ ColumnOf(cells, kind) # 0 =>
                 /\ ColumnOf(cells, kind) \in DOMAIN cells
                 /\ ColumnOf(SwappedRow(cells, c, d), kind) = Swap(ColumnOf(cells, kind), c, d)
<1>1. PICK s \in Seq(STRING) :
         /\ s = SwappedRow(cells, c, d) /\ DOMAIN s = DOMAIN cells
         /\ \A k \in DOMAIN cells : /\ Swap(k, c, d) \in DOMAIN cells
                                    /\ s[k] = cells[Swap(k, c, d)]
                                    /\ s[Swap(k, c, d)] = cells[k]
                                    /\ Swap(Swap(k, c, d), c, d) = k
  BY SwapRow
<1>2. \A k \in DOMAIN cells : k \in Named(s, kind) <=> Swap(k, c, d) \in Named(cells, kind)
  BY <1>1 DEF Named
<1>3. Named(s, kind) \subseteq DOMAIN cells /\ Named(cells, kind) \subseteq DOMAIN cells
  BY <1>1 DEF Named
<1>4. Named(s, kind) = {} <=> Named(cells, kind) = {}
  BY <1>1, <1>2, <1>3
<1>5. ASSUME ColumnOf(cells, kind) # 0
      PROVE  ColumnOf(s, kind) = Swap(ColumnOf(cells, kind), c, d)
  <2>1. ColumnOf(cells, kind) \in Named(cells, kind) /\ ColumnOf(s, kind) \in Named(s, kind)
    BY <1>4, <1>5, ColumnNamed
  <2>2. Swap(ColumnOf(s, kind), c, d) \in Named(cells, kind)
    BY <1>2, <1>3, <2>1
  <2>3. IsFiniteSet(Named(cells, kind))
    BY ColumnNamed
  <2>4. Swap(ColumnOf(s, kind), c, d) = ColumnOf(cells, kind)
    BY <2>1, <2>2, <2>3, AtMostOne
  <2>5. QED
    BY <1>1, <1>3, <2>1, <2>4
<1>6. QED
  BY <1>1, <1>3, <1>4, <1>5, ColumnNamed

\* What is read from a row depends on what its columns hold and not on where
\* they are, if none is taken by its place.
SameCells(s, sat, cells, at) ==
    \A kind \in DOMAIN Words : /\ CellAt(s, sat[kind]) = CellAt(cells, at[kind])
                               /\ sat[kind] # 0 <=> at[kind] # 0

LEMMA SameRead ==
    ASSUME NEW s, NEW sat, NEW cells, NEW at, SameCells(s, sat, cells, at),
           IsEmptyRow(s) <=> IsEmptyRow(cells),
           \/ at.gelen # 0 /\ at.giden # 0
           \/ /\ at.gelen = 0 /\ at.dir # 0 /\ at.chan # 0 /\ at.amt # 0
              /\ at.dir <= Len(cells) /\ sat.dir <= Len(s)
              /\ at.chan <= Len(cells) /\ sat.chan <= Len(s)
    PROVE  ReadRow(s, sat) = ReadRow(cells, at)
<1>1. DOMAIN Words = {"gelen", "giden", "dir", "chan", "amt", "desc"}
  BY DEF Words
<1>2. /\ CellAt(s, sat.gelen) = CellAt(cells, at.gelen)
      /\ CellAt(s, sat.giden) = CellAt(cells, at.giden)
      /\ CellAt(s, sat.dir) = CellAt(cells, at.dir)
      /\ CellAt(s, sat.chan) = CellAt(cells, at.chan)
      /\ CellAt(s, sat.amt) = CellAt(cells, at.amt)
      /\ CellAt(s, sat.desc) = CellAt(cells, at.desc)
      /\ sat.gelen # 0 <=> at.gelen # 0
      /\ sat.giden # 0 <=> at.giden # 0
      /\ sat.dir # 0 <=> at.dir # 0
      /\ sat.chan # 0 <=> at.chan # 0
      /\ sat.amt # 0 <=> at.amt # 0
  BY <1>1 DEF SameCells
<1>3. Inferred(s, sat) = Inferred(cells, at)
  BY <1>2 DEF Inferred
<1>4. ReadDual(s, sat) = ReadDual(cells, at)
  BY <1>2, <1>3 DEF ReadDual
<1>5. CASE at.gelen # 0 /\ at.giden # 0
  BY <1>2, <1>4, <1>5 DEF ReadRow
<1>6. CASE /\ at.gelen = 0 /\ at.dir # 0 /\ at.chan # 0 /\ at.amt # 0
           /\ at.dir <= Len(cells) /\ sat.dir <= Len(s)
           /\ at.chan <= Len(cells) /\ sat.chan <= Len(s)
  <2>1. ReadSingle(s, sat) = ReadSingle(cells, at)
    BY <1>2, <1>3, <1>6 DEF ReadSingle
  <2>2. QED
    BY <1>2, <1>6, <2>1 DEF ReadRow
<1>7. QED
  BY <1>5, <1>6
\* No kind of column is named twice.
NamedOnce(header) == \A kind \in DOMAIN Words : Cardinality(Named(header, kind)) <= 1

LEMMA SwapHeader ==
    ASSUME NEW header \in Seq(STRING), NamedOnce(header), IsHeader(header),
           NEW c \in DOMAIN header, NEW d \in DOMAIN header
    PROVE  IsHeader(SwappedRow(header, c, d))
<1>1. DOMAIN Words = {"gelen", "giden", "dir", "chan", "amt", "desc"}
  BY DEF Words
<1>2. \A kind \in DOMAIN Words :
         ColumnOf(header, kind) = 0 <=> ColumnOf(SwappedRow(header, c, d), kind) = 0
  BY SwapColumn DEF NamedOnce
<1>3. QED
  BY <1>1, <1>2, ColumnsAt DEF IsHeader

LEMMA SwapCells ==
    ASSUME NEW header \in Seq(STRING), NamedOnce(header),
           NEW c \in DOMAIN header, NEW d \in DOMAIN header,
           NEW cells \in Seq(STRING), DOMAIN cells = DOMAIN header
    PROVE  /\ SameCells(SwappedRow(cells, c, d), Columns(SwappedRow(header, c, d)),
                        cells, Columns(header))
           /\ IsEmptyRow(SwappedRow(cells, c, d)) <=> IsEmptyRow(cells)
<1>1. c \in DOMAIN cells /\ d \in DOMAIN cells
  OBVIOUS
<1>2. PICK s : s = SwappedRow(cells, c, d)
  OBVIOUS
<1>3. /\ DOMAIN s = DOMAIN cells
       /\ \A k \in DOMAIN cells : /\ Swap(k, c, d) \in DOMAIN cells
                                  /\ s[k] = cells[Swap(k, c, d)]
                                  /\ s[Swap(k, c, d)] = cells[k]
  BY <1>1, <1>2, SwapRow
<1>4. 0 \notin DOMAIN cells
  <2>1. Len(cells) \in Nat /\ DOMAIN cells = 1..Len(cells)
    OBVIOUS
  <2>2. QED
    BY <2>1
<1>5. ASSUME NEW kind \in DOMAIN Words
      PROVE  /\ CellAt(s, ColumnOf(SwappedRow(header, c, d), kind))
                    = CellAt(cells, ColumnOf(header, kind))
             /\ ColumnOf(SwappedRow(header, c, d), kind) # 0 <=> ColumnOf(header, kind) # 0
  <2>1. PICK k, j : k = ColumnOf(header, kind) /\ j = ColumnOf(SwappedRow(header, c, d), kind)
    OBVIOUS
  <2>2. /\ k = 0 <=> j = 0
        /\ k # 0 => k \in DOMAIN cells /\ j = Swap(k, c, d)
    BY <2>1, SwapColumn DEF NamedOnce
  <2>3. CASE k = 0
    BY <1>4, <1>3, <2>1, <2>2, <2>3 DEF CellAt
  <2>4. CASE k # 0
    BY <1>3, <2>1, <2>2, <2>4 DEF CellAt
  <2>5. QED
    BY <2>3, <2>4
<1>6. SameCells(s, Columns(SwappedRow(header, c, d)), cells, Columns(header))
  BY <1>5, ColumnsAt DEF SameCells
<1>7. IsEmptyRow(s) <=> IsEmptyRow(cells)
  BY <1>3 DEF IsEmptyRow
<1>8. QED
  BY <1>2, <1>6, <1>7

LEMMA SwapRead ==
    ASSUME NEW header \in Seq(STRING), NamesAll(header),
           NEW c \in DOMAIN header, NEW d \in DOMAIN header,
           NEW cells \in Seq(STRING), Len(cells) = Len(header)
    PROVE  ReadRow(SwappedRow(cells, c, d), Columns(SwappedRow(header, c, d)))
               = ReadRow(cells, Columns(header))
<1>1. NamedOnce(header)
  BY DEF NamesAll, NamedOnce
<1>2. DOMAIN cells = DOMAIN header
  OBVIOUS
<1>3. PICK at, sat : at = Columns(header) /\ sat = Columns(SwappedRow(header, c, d))
  OBVIOUS
<1>4. PICK s : s = SwappedRow(cells, c, d)
  OBVIOUS
<1>5. SameCells(s, sat, cells, at) /\ (IsEmptyRow(s) <=> IsEmptyRow(cells))
  BY <1>1, <1>2, <1>3, <1>4, SwapCells
<1>6. DOMAIN Words = {"gelen", "giden", "dir", "chan", "amt", "desc"}
  BY DEF Words
<1>7. Len(SwappedRow(header, c, d)) = Len(header) /\ SwappedRow(header, c, d) \in Seq(STRING)
      /\ Len(s) = Len(cells)
  BY <1>2, <1>4, SwapRow
<1>8. /\ at.dir \in 0..Len(cells) /\ sat.dir \in 0..Len(s)
      /\ at.chan \in 0..Len(cells) /\ sat.chan \in 0..Len(s)
  BY <1>3, <1>6, <1>7, ColumnsAt, ColumnNamed
<1>9. Len(cells) \in Nat
  OBVIOUS
<1>10. /\ at.dir <= Len(cells) /\ sat.dir <= Len(s)
       /\ at.chan <= Len(cells) /\ sat.chan <= Len(s)
  BY <1>7, <1>8, <1>9
<1>11. \/ at.gelen # 0 /\ at.giden # 0
       \/ at.gelen = 0 /\ at.dir # 0 /\ at.chan # 0 /\ at.amt # 0
  BY <1>3 DEF NamesAll
<1>12. ReadRow(s, sat) = ReadRow(cells, at)
  BY <1>5, <1>10, <1>11, SameRead
<1>13. QED
  BY <1>3, <1>4, <1>12

LEMMA SwapFile ==
    ASSUME NEW b \in CsvFile, NEW c, NEW d,
           \A r \in DOMAIN b : c \in DOMAIN b[r] /\ d \in DOMAIN b[r]
    PROVE  /\ Swapped(b, c, d) \in CsvFile
           /\ Len(Swapped(b, c, d)) = Len(b)
           /\ \A r \in DOMAIN b : Swapped(b, c, d)[r] = SwappedRow(b[r], c, d)
<1>1. Len(b) \in Nat /\ DOMAIN b = 1..Len(b) /\ \A r \in DOMAIN b : b[r] \in Seq(STRING)
  BY DEF CsvFile
<1>2. \A r \in DOMAIN b : SwappedRow(b[r], c, d) \in Seq(STRING)
  BY <1>1, SwapRow
<1>3. PICK g : g = Swapped(b, c, d)
  OBVIOUS
<1>4. g = [r \in 1..Len(b) |-> SwappedRow(b[r], c, d)]
  BY <1>1, <1>3 DEF Swapped, SwappedRow
<1>5. g \in [1..Len(b) -> Seq(STRING)]
  BY <1>1, <1>2, <1>4
<1>6. g \in Seq(Seq(STRING)) /\ Len(g) = Len(b)
  BY <1>1, <1>5
<1>7. QED
  BY <1>1, <1>3, <1>4, <1>6 DEF CsvFile

LEMMA OrderIrrelevant ==
    ASSUME NEW f \in CsvFile, HeaderRows(f) # {}, NamesAll(f[Layout(f).row]),
           NEW c \in DOMAIN f[Layout(f).row], NEW d \in DOMAIN f[Layout(f).row],
           \A r \in DOMAIN FromHeader(f) : Len(FromHeader(f)[r]) = Len(f[Layout(f).row])
    PROVE  Readings(Swapped(FromHeader(f), c, d)) = Readings(f)
<1>1. PICK h \in 1..Len(f) :
         /\ h = Layout(f).row /\ h \in HeaderRows(f) /\ Layout(f).at = Columns(f[h])
  BY LayoutIs DEF CsvFile
<1>2. PICK b \in CsvFile :
         /\ b = FromHeader(f) /\ Len(b) = Len(f) - h + 1
         /\ \A k \in 0..(Len(f) - h) : b[k + 1] = f[h + k]
  BY <1>1, BelowIs
<1>3. Len(f) \in Nat /\ Len(b) \in Nat /\ DOMAIN b = 1..Len(b) /\ DOMAIN f = 1..Len(f)
      /\ 1 \in DOMAIN b /\ 0 \in 0..(Len(f) - h)
  BY <1>2 DEF CsvFile
<1>4. PICK header \in Seq(STRING) : header = f[h]
  BY <1>3 DEF CsvFile
<1>5. NamesAll(header) /\ IsHeader(header) /\ c \in DOMAIN header /\ d \in DOMAIN header
      /\ \A r \in DOMAIN b : Len(b[r]) = Len(header)
  BY <1>1, <1>2, <1>4 DEF HeaderRows
<1>6. b[1] = header
  <2>1. b[0 + 1] = f[h + 0]
    BY <1>2, <1>3
  <2>2. QED
    BY <1>4, <2>1
<1>7. \A r \in DOMAIN b : b[r] \in Seq(STRING)
  BY DEF CsvFile
<1>8. \A r \in DOMAIN b : c \in DOMAIN b[r] /\ d \in DOMAIN b[r]
  <2> TAKE r \in DOMAIN b
  <2>1. PICK cells \in Seq(STRING) : cells = b[r] /\ Len(cells) = Len(header)
    BY <1>5, <1>7
  <2>2. DOMAIN cells = DOMAIN header
    BY <2>1
  <2>3. QED
    BY <1>5, <2>1, <2>2
<1>9. PICK g \in CsvFile : /\ g = Swapped(b, c, d) /\ Len(g) = Len(b)
                           /\ \A r \in DOMAIN b : g[r] = SwappedRow(b[r], c, d)
  BY <1>8, SwapFile
<1>10. DOMAIN g = DOMAIN b
  BY <1>3, <1>9 DEF CsvFile
<1>11. PICK sat : sat = Columns(SwappedRow(header, c, d))
  OBVIOUS
<1>12. Layout(g).row = 1 /\ Layout(g).at = sat
  <2>1. g[1] = SwappedRow(header, c, d)
    BY <1>3, <1>6, <1>9
  <2>2. 1 \in HeaderRows(g)
    BY <1>3, <1>5, <1>10, <2>1, SwapHeader DEF HeaderRows, NamesAll, NamedOnce
  <2>3. Layout(g).row \in 1..Len(g) /\ Layout(g).row <= 1 /\ Layout(g).at = Columns(g[Layout(g).row])
    BY <2>2, LayoutIs DEF CsvFile
  <2>4. Layout(g).row = 1
    BY <1>3, <1>9, <2>3
  <2>5. QED
    BY <1>11, <2>1, <2>3, <2>4
<1>13. Readings(g) = [k \in 1..(Len(f) - h) |-> ReadRow(g[1 + k], sat)]
  <2>1. Len(g) - 1 = Len(f) - h
    BY <1>2, <1>3, <1>9
  <2>2. QED
    BY <1>12, <2>1, ReadingsAre
<1>14. Readings(f) = [k \in 1..(Len(f) - h) |-> ReadRow(f[h + k], Columns(header))]
  BY <1>1, <1>4, ReadingsAre
<1>15. \A k \in 1..(Len(f) - h) : ReadRow(g[1 + k], sat) = ReadRow(f[h + k], Columns(header))
  <2> TAKE k \in 1..(Len(f) - h)
  <2>1. k \in 0..(Len(f) - h) /\ 1 + k = k + 1 /\ k + 1 \in 1..Len(b)
    BY <1>2, <1>3
  <2>2. f[h + k] = b[k + 1] /\ g[1 + k] = SwappedRow(b[k + 1], c, d)
    BY <1>2, <1>3, <1>9, <2>1
  <2>3. PICK cells \in Seq(STRING) : cells = b[k + 1] /\ Len(cells) = Len(header)
    BY <1>3, <1>5, <1>7, <2>1
  <2>4. QED
    BY <1>5, <1>11, <2>2, <2>3, SwapRead
<1>16. QED
  BY <1>2, <1>9, <1>13, <1>14, <1>15

LEMMA BegunFiles == CsvInv => Begun \subseteq Files
<1> SUFFICES ASSUME CsvInv, NEW u \in Uploads, up[u] # NoUpload PROVE up[u].file \in Files
  BY DEF Begun
<1>1. up[u] \in Upload
  BY UploadCases DEF CsvInv
<1>2. QED
  BY <1>1 DEF Upload

LEMMA LayoutInv == CsvInv => LayoutIrrelevant
<1> SUFFICES ASSUME CsvInv, NEW f \in Begun, HeaderRows(f) # {}
             PROVE  /\ \A title \in Titles : Parsed(<<title>> \o FromHeader(f)) = Parsed(f)
                    /\ NamesAll(f[Layout(f).row]) => \A c, d \in DOMAIN f[Layout(f).row] :
                          (\A r \in DOMAIN FromHeader(f) :
                               Len(FromHeader(f)[r]) = Len(f[Layout(f).row])) =>
                              Readings(Swapped(FromHeader(f), c, d)) = Readings(f)
  BY DEF LayoutIrrelevant
<1>1. f \in CsvFile
  BY BegunFiles, FileTyped
<1>2. \A title \in Titles : Parsed(<<title>> \o FromHeader(f)) = Parsed(f)
  BY <1>1, TitleIrrelevant DEF Parsed
<1>3. QED
  BY <1>1, <1>2, OrderIrrelevant

\* A title above the header, and the order of columns the header names,
\* change nothing of what ImportTransactionsFromCSV reads.
THEOREM LayoutAlwaysIrrelevant == CsvSpec => []LayoutIrrelevant
  BY CsvStart, CsvStep, LayoutInv, PTL DEF CsvSpec
-----------------------------------------------------------------------------
(* Files of transactions: what the amounts add up to.                      *)

LEMMA AmountIs ==
    ASSUME NEW cell
    PROVE  /\ Amount(cell) \in Int
           /\ IsNumber(cell) => Amount(cell) = Numbers[cell]
           /\ ~IsNumber(cell) => Amount(cell) = 0
           /\ cell = "" => ~IsNumber(cell)
<1>1. DOMAIN Numbers = {"fifty", "grouped", "minus", "nil"}
  BY DEF Numbers
<1>2. \A name \in DOMAIN Numbers : Numbers[name] \in Int
  BY DEF Numbers
<1>3. cell = "" => ~IsNumber(cell)
  BY <1>1 DEF IsNumber
<1>4. CASE IsNumber(cell)
  <2>1. Amount(cell) = Numbers[cell] /\ cell \in DOMAIN Numbers
    BY <1>4 DEF Amount, IsNumber
  <2>2. QED
    BY <1>2, <1>3, <1>4, <2>1
<1>5. CASE ~IsNumber(cell)
  <2>1. Amount(cell) = 0
    BY <1>5 DEF Amount
  <2>2. Amount(cell) \in Int
    BY <2>1
  <2>3. QED
    BY <1>3, <1>5, <2>1, <2>2, Zenon
<1>6. QED
  BY <1>4, <1>5

LEMMA SignedIs ==
    /\ Signed(Skip) = 0
    /\ \A chan, n : Signed(Tx("in", chan, n)) = n /\ Signed(Tx("out", chan, n)) = -n
  BY DEF Signed, Skip, Tx

\* What a row adds to the balance.
LEMMA RowBalance ==
    ASSUME NEW cells, NEW at, at.gelen # 0, at.giden # 0, ReadRow(cells, at) # Bad,
           NEW gelen, gelen = CellAt(cells, at.gelen),
           NEW giden, giden = CellAt(cells, at.giden),
           Amount(gelen) >= 0, Amount(giden) >= 0, Amount(gelen) = 0 \/ Amount(giden) = 0
    PROVE  Signed(ReadRow(cells, at)) = Amount(gelen) - Amount(giden)
<1>1. /\ Amount(gelen) \in Int /\ Amount(giden) \in Int
  BY AmountIs
<1>2. CASE IsEmptyRow(cells)
  <2>1. gelen = "" /\ giden = ""
    BY <1>2 DEF IsEmptyRow, CellAt
  <2>2. Amount(gelen) = 0 /\ Amount(giden) = 0
    BY <2>1, AmountIs
  <2>3. ReadRow(cells, at) = Skip
    BY <1>2 DEF ReadRow
  <2>4. QED
    BY <2>2, <2>3, SignedIs
<1>3. CASE ~IsEmptyRow(cells)
  <2>1. PICK chan : chan = IF CellAt(cells, at.chan) \in Channels THEN CellAt(cells, at.chan)
                           ELSE Inferred(cells, at)
    OBVIOUS
  <2>2. ReadRow(cells, at) =
            IF gelen # "" /\ ~IsNumber(gelen) THEN Bad
            ELSE IF IsNumber(gelen) /\ Numbers[gelen] > 0 THEN Tx("in", chan, Numbers[gelen])
            ELSE IF giden # "" /\ ~IsNumber(giden) THEN Bad
            ELSE IF IsNumber(giden) /\ Numbers[giden] > 0 THEN Tx("out", chan, Numbers[giden])
            ELSE Skip
    BY <1>3, <2>1 DEF ReadRow, ReadDual
  <2>3. CASE IsNumber(gelen) /\ Numbers[gelen] > 0
    <3>1. Amount(gelen) = Numbers[gelen]
      BY <2>3, AmountIs
    <3>2. Amount(giden) = 0
      BY <1>1, <2>3, <3>1
    <3>3. ReadRow(cells, at) = Tx("in", chan, Amount(gelen))
      BY <2>2, <2>3, <3>1
    <3>4. Signed(ReadRow(cells, at)) = Amount(gelen)
      BY <3>3, SignedIs
    <3>5. QED
      BY <1>1, <3>2, <3>4
  <2>4. CASE ~(IsNumber(gelen) /\ Numbers[gelen] > 0)
    <3>1. Amount(gelen) = 0
      <4>1. CASE IsNumber(gelen)
        <5>1. Amount(gelen) = Numbers[gelen] /\ ~(Numbers[gelen] > 0)
          BY <2>4, <4>1, AmountIs
        <5>2. QED
          BY <1>1, <5>1
      <4>2. CASE ~IsNumber(gelen)
        BY <4>2, AmountIs
      <4>3. QED
        BY <4>1, <4>2
    <3>2. CASE IsNumber(giden) /\ Numbers[giden] > 0
      <4>1. Amount(giden) = Numbers[giden]
        BY <3>2, AmountIs
      <4>2. giden # ""
        BY <3>2, AmountIs
      <4>3. ReadRow(cells, at) = Tx("out", chan, Amount(giden))
        BY <2>2, <2>4, <3>2, <4>1
      <4>4. Signed(ReadRow(cells, at)) = -Amount(giden)
        BY <4>3, SignedIs
      <4>5. QED
        BY <1>1, <3>1, <4>4
    <3>3. CASE ~(IsNumber(giden) /\ Numbers[giden] > 0)
      <4>1. Amount(giden) = 0
        <5>1. CASE IsNumber(giden)
          <6>1. Amount(giden) = Numbers[giden] /\ ~(Numbers[giden] > 0)
            BY <3>3, <5>1, AmountIs
          <6>2. QED
            BY <1>1, <6>1
        <5>2. CASE ~IsNumber(giden)
          BY <5>2, AmountIs
        <5>3. QED
          BY <5>1, <5>2
      <4>2. ReadRow(cells, at) = Skip
        BY <2>2, <2>4, <3>3
      <4>3. QED
        BY <3>1, <4>1, <4>2, SignedIs
    <3>4. QED
      BY <3>2, <3>3
  <2>5. QED
    BY <2>3, <2>4
<1>4. QED
  BY <1>2, <1>3

\* The three functions whose sums the balance relates.
SignedOf(f) == [k \in DOMAIN Readings(f) |-> Signed(Readings(f)[k])]
AmountsOf(f, kind) == [k \in DOMAIN Readings(f) |-> AmountIn(f, kind, k)]

LEMMA RowsBalance ==
    ASSUME NEW f \in CsvFile, Accepted(f), Layout(f).at.gelen # 0, Layout(f).at.giden # 0,
           OneSided(f)
    PROVE  /\ IsFiniteSet(DOMAIN Readings(f))
           /\ \A k \in DOMAIN Readings(f) :
                 /\ AmountIn(f, "gelen", k) \in Int /\ AmountIn(f, "giden", k) \in Int
                 /\ Signed(Readings(f)[k]) = AmountIn(f, "gelen", k) - AmountIn(f, "giden", k)
<1>1. PICK at : at = Layout(f).at
  OBVIOUS
<1>2. HeaderRows(f) # {}
  BY DEF Layout, Fallback
<1>3. PICK h \in 1..Len(f) : h = Layout(f).row
  BY <1>2, LayoutIs DEF CsvFile
<1>4. PICK n \in Int : n = Len(f) - h
  BY DEF CsvFile
<1>5. DOMAIN Readings(f) = 1..n
      /\ \A k \in 1..n : Readings(f)[k] = ReadRow(f[h + k], at)
  BY <1>1, <1>3, <1>4, ReadingsAre
<1>6. IsFiniteSet(1..n)
  BY FS_Interval
<1>7. ASSUME NEW k \in 1..n
      PROVE  /\ AmountIn(f, "gelen", k) \in Int /\ AmountIn(f, "giden", k) \in Int
             /\ Signed(Readings(f)[k]) = AmountIn(f, "gelen", k) - AmountIn(f, "giden", k)
  <2>1. PICK gelen, giden : /\ gelen = CellAt(f[h + k], at.gelen)
                            /\ giden = CellAt(f[h + k], at.giden)
    OBVIOUS
  <2>2. AmountIn(f, "gelen", k) = Amount(gelen) /\ AmountIn(f, "giden", k) = Amount(giden)
    BY <1>1, <1>3, <2>1 DEF AmountIn
  <2>3. Readings(f)[k] = ReadRow(f[h + k], at) /\ k \in DOMAIN Readings(f)
    BY <1>5
  <2>4. Readings(f)[k] # Bad
    BY <2>3 DEF Accepted, Range
  <2>5. Amount(gelen) >= 0 /\ Amount(giden) >= 0 /\ (Amount(gelen) = 0 \/ Amount(giden) = 0)
    BY <2>2, <2>3 DEF OneSided
  <2>6. at.gelen # 0 /\ at.giden # 0
    BY <1>1
  <2>7. Signed(ReadRow(f[h + k], at)) = Amount(gelen) - Amount(giden)
    BY <2>1, <2>3, <2>4, <2>5, <2>6, RowBalance
  <2>8. QED
    BY <2>2, <2>3, <2>7, AmountIs
<1>8. QED
  BY <1>5, <1>6, <1>7

LEMMA FileBalance ==
    ASSUME NEW f \in CsvFile, Accepted(f), Layout(f).at.gelen # 0, Layout(f).at.giden # 0,
           OneSided(f)
    PROVE  SumFunction(SignedOf(f))
           = SumFunction(AmountsOf(f, "gelen")) - SumFunction(AmountsOf(f, "giden"))
<1>1. PICK D : D = DOMAIN Readings(f)
  OBVIOUS
<1>2. /\ IsFiniteSet(D)
      /\ \A k \in D : /\ AmountIn(f, "gelen", k) \in Int /\ AmountIn(f, "giden", k) \in Int
                      /\ Signed(Readings(f)[k])
                             = AmountIn(f, "gelen", k) - AmountIn(f, "giden", k)
  BY <1>1, RowsBalance
<1>3. PICK s, a, b : s = SignedOf(f) /\ a = AmountsOf(f, "gelen") /\ b = AmountsOf(f, "giden")
  OBVIOUS
<1>4. /\ s = [k \in D |-> Signed(Readings(f)[k])]
      /\ a = [k \in D |-> AmountIn(f, "gelen", k)]
      /\ b = [k \in D |-> AmountIn(f, "giden", k)]
  BY <1>1, <1>3 DEF SignedOf, AmountsOf
<1>5. DOMAIN s = D /\ DOMAIN a = D /\ DOMAIN b = D
      /\ \A k \in D : s[k] = a[k] - b[k] /\ a[k] \in Int /\ b[k] \in Int
  BY <1>2, <1>4
<1>6. s = [k \in D |-> s[k]] /\ a = [k \in D |-> a[k]] /\ b = [k \in D |-> b[k]]
  BY <1>4
<1>7. Summable(s) /\ Summable(a) /\ Summable(b)
  BY <1>2, <1>5, <1>6 DEF Summable
<1>8. SumFunction(s) = SumFunction(a) - SumFunction(b)
  BY <1>5, <1>7, SumDifference
<1>9. QED
  BY <1>3, <1>8

LEMMA BalanceInv == CsvInv => BalanceRead
<1> SUFFICES ASSUME CsvInv, NEW f \in Begun, Accepted(f), Layout(f).at.gelen # 0,
                    Layout(f).at.giden # 0, OneSided(f)
             PROVE  SumFunction(SignedOf(f))
                    = SumFunction(AmountsOf(f, "gelen")) - SumFunction(AmountsOf(f, "giden"))
  BY DEF BalanceRead, SignedOf, AmountsOf
<1>1. f \in CsvFile
  BY BegunFiles, FileTyped
<1>2. QED
  BY <1>1, FileBalance

\* What is read from a file with a column of incoming and one of outgoing
\* amounts adds up to the difference of the two columns.
THEOREM BalanceAlwaysRead == CsvSpec => []BalanceRead
  BY CsvStart, CsvStep, BalanceInv, PTL DEF CsvSpec

=============================================================================
