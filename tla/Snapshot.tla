------------------------------ MODULE Snapshot ------------------------------
(***************************************************************************)
(* The tables that are backed up, the requests that write them, and what   *)
(* becomes of a dump when it is restored into an empty database: the dump  *)
(* creates the tables with the checks of its own DDL, inserts its rows in  *)
(* the order it holds them, and is one database transaction.  What becomes *)
(* of the values in a row is not followed (dates before 1970 are written   *)
(* as another day).                                                        *)
(***************************************************************************)
EXTENDS Integers, Sequences, FiniteSets

CONSTANTS
    Inserted,   \* bound: the tables requests insert into
    MaxRows     \* bound on the rows they insert

ASSUME SnapshotAssumption == MaxRows \in Nat /\ "tenants" \notin Inserted

VARIABLE db         \* the rows of the seven tables

-----------------------------------------------------------------------------
\* Mutant of Tables: entries are written before their suppliers.
TablesByName ==
    <<"periods", "supplier_transactions", "suppliers", "tenant_members", "tenants",
      "transactions", "user_security">>

\* The tables in the order CreateSnapshot reads and writes them.
Tables ==
    <<"tenants", "tenant_members", "periods", "transactions", "suppliers",
      "supplier_transactions", "user_security">>

Table == {Tables[i] : i \in 1..Len(Tables)}

Position(table) == CHOOSE i \in 1..Len(Tables) : Tables[i] = table

\* The tables the rows of a table refer to; both kinds of transaction may
\* refer to one of their own that they reverse.  The tenant, which every row
\* but those of user_security names, is there before them all.
Parents(table) ==
    CASE table = "transactions"          -> {"periods"}
      [] table = "supplier_transactions" -> {"periods", "suppliers"}
      [] OTHER                           -> {}

Reversible == {"transactions", "supplier_transactions"}

\* A row's id counts the insertions, as created_at does; return tells one of
\* the directions purchase_return and payment_return.
Row == [table : Table, id : 1..MaxRows + 4, refs : SUBSET (1..MaxRows + 4),
        return : BOOLEAN]

\* A set-up tenant with an entry in its supplier ledger.
Books ==
    {[table |-> "tenants", id |-> 1, refs |-> {}, return |-> FALSE],
     [table |-> "periods", id |-> 2, refs |-> {1}, return |-> FALSE],
     [table |-> "suppliers", id |-> 3, refs |-> {1}, return |-> FALSE],
     [table |-> "supplier_transactions", id |-> 4, refs |-> {1, 2, 3}, return |-> FALSE]}

RowsOf(rows, table) == {r \in rows : r.table = table}

\* What a new row may refer to: a parent in each table, and a row to reverse.
References(table) ==
    {refs \in SUBSET {r \in db : r.table \in Parents(table) \cup {table}} :
        /\ \A t \in Parents(table) : Cardinality(RowsOf(refs, t)) = 1
        /\ Cardinality(RowsOf(refs, table)) <= (IF table \in Reversible THEN 1 ELSE 0)
        /\ \A r \in RowsOf(refs, table) :
               {p.id : p \in refs \ {r}} \subseteq r.refs /\ ~\E s \in db : r.id \in s.refs}

\* A request inserts a row.  Tenants are not made by requests.  The reversal
\* of a supplier row is a return; a return may also be entered.
Insert ==
    /\ Cardinality(db) < MaxRows + 4
    /\ \E table \in Table \cap Inserted, return \in BOOLEAN :
        /\ return => table = "supplier_transactions"
        /\ \E refs \in References(table) :
            /\ table = "supplier_transactions" /\ RowsOf(refs, table) # {} =>
                   return = \A r \in RowsOf(refs, table) : ~r.return
            /\ db' = db \cup
                   {[table |-> table, id |-> Cardinality(db) + 1, return |-> return,
                     refs |-> {r.id : r \in refs}
                              \cup (IF table = "user_security" THEN {} ELSE {1})]}

-----------------------------------------------------------------------------
\* The order of a dump.  Supplier transactions are ordered by tx_date first,
\* which says nothing of the order they were made in.
Before(r, s) ==
    \/ Position(r.table) < Position(s.table)
    \/ r.table = s.table /\ r.table # "supplier_transactions" /\ r.id < s.id

\* direction VARCHAR(10) NOT NULL CHECK (direction IN ('purchase', 'payment'))
Accepts(r) == ~r.return

\* Any failing statement fails the transaction.
Restored(dump) ==
    IF \A r \in dump :
        /\ Accepts(r)
        /\ \A x \in r.refs : \E s \in dump : s.id = x /\ Before(s, r)
    THEN dump ELSE {}

=============================================================================
