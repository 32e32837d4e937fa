-------------------------- MODULE EntryApiHistory --------------------------
(***************************************************************************)
(* EntryApi with a count, for each key, of what has gone wrong that may    *)
(* record its entry once more.  Nothing in the program keeps this count.   *)
(***************************************************************************)
EXTENDS EntryApi, FiniteSets

ASSUME CopiesAssumption == IsFiniteSet(Copies)

VARIABLE slips  \* of each key

historyVars == <<vars, slips>>

-----------------------------------------------------------------------------
\* A delivery misses in the look-up while another of its key is between its
\* own look-up and its save.
Overtakes(k) ==
    \E c, d \in Copies :
        /\ At(k, c, "sent") /\ delivery'[k][c].at = "handler"
        /\ delivery[k][d].at \in {"handler", "save"}

Slip(slipped) == slips' = [k \in Keys |-> slips[k] + IF k \in slipped THEN 1 ELSE 0]

HistoryInit == Init /\ slips = [k \in Keys |-> 0]

\* A slip is an overtaking, a statement that fails, a crash before a save or
\* the clean-up of a saved answer.
HistoryNext ==
    \/ Works /\ Slip({k \in Keys : Overtakes(k)})
    \/ \E k \in Keys, c \in Copies : Fail(k, c) /\ Slip({k})
    \/ Crash /\ Slip({k \in Keys : \E c \in Copies : At(k, c, "save")})
    \/ Cleanup /\ Slip({k \in Keys : saved[k] # 0})

HistorySpec == HistoryInit /\ [][HistoryNext]_historyVars

HistorySpecFair == HistorySpec /\ Fairness

-----------------------------------------------------------------------------
HistoryTypeOK == TypeOK /\ slips \in [Keys -> Nat]

\* A key records its entry once, and once more at most for every slip: each
\* duplicate has a cause of its own, however its deliveries are repeated,
\* refused, lost and interleaved.
DuplicatesAccounted == \A k \in Keys : Cardinality(RowsOf(k)) <= 1 + slips[k]

=============================================================================
