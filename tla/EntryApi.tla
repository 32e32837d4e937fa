------------------------------ MODULE EntryApi ------------------------------
(***************************************************************************)
(* Submitting an entry over HTTP: the forms of the frontend, apiFetch with *)
(* its one retry, and the idempotency middleware in front of the handler.  *)
(*                                                                         *)
(* An entry is what a user means to record once.  Every submission of its  *)
(* form draws a fresh Idempotency-Key; the requests that carry one key are *)
(* its deliveries.  The middleware looks the key up, runs the handler and  *)
(* saves the answer in three separate steps.  A key stands for the pair    *)
(* (key, tenant_id), the primary key of idempotency_keys, and all that     *)
(* happens here happens within one day.                                    *)
(***************************************************************************)
EXTENDS Naturals, Sequences

CONSTANTS
    Entries,    \* what users mean to record
    NoEntry,    \* the entry of a key not drawn yet
    Keys,       \* bound: the keys crypto.randomUUID will draw
    Copies,     \* bound: deliveries of one key
    Today       \* the day, counted from Go's zero time (1 January of year 1)

ASSUME NoEntryAssumption == NoEntry \notin Entries
ASSUME TodayAssumption == Today \in Nat /\ Today > 1

VARIABLES
    entry,      \* the entry each key was drawn for
    form,       \* what the form that drew the key is doing
    retried,    \* isRetry: the keys apiFetch has already sent again
    shown,      \* the row shown to the user, 0 for none
    delivery,   \* the requests, in the network and on the server
    rows,       \* the committed rows, each with the key that made it
    saved       \* idempotency_keys: the row in the saved answer, 0 for none

client == <<entry, form, retried, shown>>
vars == <<entry, form, retried, shown, delivery, rows, saved>>

-----------------------------------------------------------------------------
\* A delivery is on its way to the server, has missed in the look-up and is
\* in the handler, has succeeded and has its answer to save, or is an answer
\* on its way back: with the row it made (0 in an error), or a 401 or 403.
\* It is gone when answered or lost.
Step == {"none", "sent", "handler", "save", "reply", "forbidden", "gone"}

TypeOK ==
    /\ entry \in [Keys -> Entries \cup {NoEntry}]
    /\ form \in [Keys -> {"unused", "waiting", "ok", "error"}]
    /\ retried \in [Keys -> BOOLEAN]
    /\ shown \in [Keys -> Nat]
    /\ delivery \in [Keys -> [Copies -> [at : Step, row : Nat]]]
    /\ rows \in Seq(Keys)
    /\ saved \in [Keys -> Nat]

Init ==
    /\ entry = [k \in Keys |-> NoEntry]
    /\ form = [k \in Keys |-> "unused"]
    /\ retried = [k \in Keys |-> FALSE]
    /\ shown = [k \in Keys |-> 0]
    /\ delivery = [k \in Keys |-> [c \in Copies |-> [at |-> "none", row |-> 0]]]
    /\ rows = <<>>
    /\ saved = [k \in Keys |-> 0]

At(k, c, step) == delivery[k][c].at = step

Move(k, c, step, row) ==
    delivery' = [delivery EXCEPT ![k][c] = [at |-> step, row |-> row]]

RowsOf(k) == {i \in DOMAIN rows : rows[i] = k}

-----------------------------------------------------------------------------
(* The form and apiFetch.                                                  *)

\* A form is cleared once its entry is confirmed.
Unconfirmed(e) == \A j \in Keys : entry[j] = e => form[j] # "ok"

\* The form is submitted.  QuickEntryRow does so at every press of Enter,
\* also while it waits.
Submit(e, k) ==
    /\ form[k] = "unused"
    /\ Unconfirmed(e)
    /\ entry' = [entry EXCEPT ![k] = e]
    /\ form' = [form EXCEPT ![k] = "waiting"]
    /\ \E c \in Copies : At(k, c, "none") /\ Move(k, c, "sent", 0)
    /\ UNCHANGED <<retried, shown, rows, saved>>

\* Someone between the form and the server sends the request once more.
Resend(k, c) ==
    /\ form[k] # "unused"
    /\ At(k, c, "none")
    /\ Move(k, c, "sent", 0)
    /\ UNCHANGED <<client, rows, saved>>

\* Mutant of Confirm: the row keeps the temporary id of the optimistic update.
ConfirmTemporary(k, row) ==
    /\ form' = [form EXCEPT ![k] = IF row = 0 THEN "error" ELSE "ok"]
    /\ shown' = [shown EXCEPT ![k] = k]

\* The optimistic row gets its id, or is taken back with an error.
Confirm(k, row) ==
    /\ form' = [form EXCEPT ![k] = IF row = 0 THEN "error" ELSE "ok"]
    /\ shown' = [shown EXCEPT ![k] = row]

\* An answer other than 401 and 403 ends the submission.
ReceiveAnswer(k, c) ==
    /\ form[k] = "waiting"
    /\ At(k, c, "reply")
    /\ Confirm(k, delivery[k][c].row)
    /\ Move(k, c, "gone", 0)
    /\ UNCHANGED <<entry, retried, rows, saved>>

\* Mutant of MayRetry: the request is sent again without isRetry.
AlwaysRetry(k) == TRUE

MayRetry(k) == ~retried[k]

\* On 401 or 403 apiFetch refreshes the session and, the first time, sends
\* the request again with the same key.
RefreshAndRetry(k, c) ==
    /\ form[k] = "waiting"
    /\ At(k, c, "forbidden")
    /\ MayRetry(k)
    /\ retried' = [retried EXCEPT ![k] = TRUE]
    /\ Move(k, c, "sent", 0)
    /\ UNCHANGED <<entry, form, shown, rows, saved>>

\* The session cannot be refreshed, or this was the retry.
ReceiveForbidden(k, c) ==
    /\ form[k] = "waiting"
    /\ At(k, c, "forbidden")
    /\ Confirm(k, 0)
    /\ Move(k, c, "gone", 0)
    /\ UNCHANGED <<entry, retried, rows, saved>>

\* fetch throws: the form reports a network error, whatever became of the
\* requests already sent.
ConnectionLost(k) ==
    /\ form[k] = "waiting"
    /\ Confirm(k, 0)
    /\ UNCHANGED <<entry, retried, delivery, rows, saved>>

-----------------------------------------------------------------------------
(* The server.                                                             *)

\* The authentication middleware, or RequireRole, refuses the request before
\* the idempotency middleware sees it.
Unauthorized(k, c) ==
    /\ At(k, c, "sent")
    /\ Move(k, c, "forbidden", 0)
    /\ UNCHANGED <<client, rows, saved>>

\* Look-up by (key, tenant_id).
Cached(k) == saved[k]

LookUpHit(k, c) ==
    /\ At(k, c, "sent")
    /\ Cached(k) # 0
    /\ Move(k, c, "reply", Cached(k))
    /\ UNCHANGED <<client, rows, saved>>

LookUpMiss(k, c) ==
    /\ At(k, c, "sent")
    /\ Cached(k) = 0
    /\ Move(k, c, "handler", 0)
    /\ UNCHANGED <<client, rows, saved>>

\* "if err == nil && cached != nil": an error of the query counts as a miss.
LookUpFails(k, c) ==
    /\ At(k, c, "sent")
    /\ Move(k, c, "handler", 0)
    /\ UNCHANGED <<client, rows, saved>>

\* The handler commits a row and answers with 2xx.
Commit(k, c) ==
    /\ At(k, c, "handler")
    /\ rows' = Append(rows, k)
    /\ Move(k, c, "save", Len(rows) + 1)
    /\ UNCHANGED <<client, saved>>

\* The row is committed, but the connection to the database breaks before
\* the handler learns of it: a 500.
CommitUnseen(k, c) ==
    /\ At(k, c, "handler")
    /\ rows' = Append(rows, k)
    /\ Move(k, c, "reply", 0)
    /\ UNCHANGED <<client, saved>>

\* Mutant of Refuse: the answer to a refused request is saved as well.
SaveRefusal(k, c) ==
    /\ At(k, c, "handler")
    /\ Move(k, c, "save", Len(rows) + 1)
    /\ UNCHANGED <<client, rows, saved>>

\* The handler refuses and nothing is saved; ErrUnauthorized and ErrForbidden
\* become a 403, other errors do not.
Refuse(k, c) ==
    /\ At(k, c, "handler")
    /\ \E step \in {"reply", "forbidden"} : Move(k, c, step, 0)
    /\ UNCHANGED <<client, rows, saved>>

\* Mutant of Save: only 200 counts as success, and a row is made with 201.
SaveOnly200(k, c) ==
    /\ At(k, c, "save")
    /\ Move(k, c, "reply", delivery[k][c].row)
    /\ UNCHANGED <<client, rows, saved>>

\* idempotency_keys has one row for a key: a second INSERT fails, and the
\* error is ignored.
Save(k, c) ==
    /\ At(k, c, "save")
    /\ saved' = [saved EXCEPT ![k] = IF @ = 0 THEN delivery[k][c].row ELSE @]
    /\ Move(k, c, "reply", delivery[k][c].row)
    /\ UNCHANGED <<client, rows>>

\* "_ = idemRepo.Save(ctx, idemKey)".
SaveFails(k, c) ==
    /\ At(k, c, "save")
    /\ Move(k, c, "reply", delivery[k][c].row)
    /\ UNCHANGED <<client, rows, saved>>

-----------------------------------------------------------------------------
(* What goes wrong around them.                                            *)

\* A request or an answer is lost, or comes when nobody waits for it.
Lose(k, c) ==
    /\ delivery[k][c].at \in {"sent", "reply", "forbidden"}
    /\ Move(k, c, "gone", 0)
    /\ UNCHANGED <<client, rows, saved>>

\* The server stops, with every request it is serving.
Crash ==
    /\ delivery' = [k \in Keys |-> [c \in Copies |->
           IF delivery[k][c].at \in {"handler", "save"}
           THEN [at |-> "gone", row |-> 0] ELSE delivery[k][c]]]
    /\ UNCHANGED <<client, rows, saved>>

\* The middleware leaves CreatedAt unset and Save inserts it, so the zero
\* time takes the place of DEFAULT now().
CreatedAt == 0

\* cleanup_expired_idempotency_keys with its default of 24 hours.
Cleanup ==
    /\ CreatedAt < Today - 1
    /\ saved' = [k \in Keys |-> 0]
    /\ UNCHANGED <<client, delivery, rows>>

-----------------------------------------------------------------------------
Serve(k, c) ==
    \/ Unauthorized(k, c)
    \/ LookUpHit(k, c) \/ LookUpMiss(k, c)
    \/ Commit(k, c) \/ Refuse(k, c)
    \/ Save(k, c)

\* A statement of the middleware or the handler fails.
Fail(k, c) == LookUpFails(k, c) \/ CommitUnseen(k, c) \/ SaveFails(k, c)

Receive(k, c) ==
    ReceiveAnswer(k, c) \/ RefreshAndRetry(k, c) \/ ReceiveForbidden(k, c)

\* What happens while the server and its statements do not fail.
Works ==
    \/ \E k \in Keys, e \in Entries : Submit(e, k)
    \/ \E k \in Keys : ConnectionLost(k)
    \/ \E k \in Keys, c \in Copies :
           Resend(k, c) \/ Serve(k, c) \/ Receive(k, c) \/ Lose(k, c)

Next ==
    \/ Works
    \/ \E k \in Keys, c \in Copies : Fail(k, c)
    \/ Crash
    \/ Cleanup

Spec == Init /\ [][Next]_vars

\* The server goes on with a request it has, the browser hands every answer
\* it gets to apiFetch, and fetch fails once nothing is under way.
NothingUnderWay(k) ==
    \A c \in Copies : delivery[k][c].at \in {"none", "gone"}

Fairness ==
    /\ \A k \in Keys, c \in Copies :
           WF_vars(Serve(k, c) \/ Fail(k, c)) /\ WF_vars(Receive(k, c))
    /\ \A k \in Keys : WF_vars(NothingUnderWay(k) /\ ConnectionLost(k))

SpecFair == Spec /\ Fairness

-----------------------------------------------------------------------------
(* What holds.                                                             *)

\* An answer that names a row, saved, on its way or shown to the user, names
\* a row committed for that very key, whatever is lost, repeated or cleaned
\* up; a refusal is never saved as a success.
AnswersReal ==
    \A k \in Keys :
        /\ saved[k] # 0 => saved[k] \in RowsOf(k)
        /\ form[k] = "ok" => shown[k] \in RowsOf(k)
        /\ \A c \in Copies :
               delivery[k][c].row # 0 => delivery[k][c].row \in RowsOf(k)

\* Every submission is answered: one retry, then an answer or an error.
EverySubmissionAnswered ==
    \A k \in Keys : form[k] = "waiting" ~> form[k] # "waiting"

-----------------------------------------------------------------------------
(* What is said of it.                                                     *)

\* What a user means to record is recorded once, over all the submissions it
\* takes, each with a key of its own: "cift kayit olusmaz", says Y.5 of the
\* test scenarios.  The program does not keep it.
OncePerEntry ==
    \A i, j \in DOMAIN rows : entry[rows[i]] = entry[rows[j]] => i = j

=============================================================================
