# A verification project for Muhasebe ve Finans Otomasyonu

The program keeps the books of small businesses (*tenants*): a cash ledger
divided into periods, a ledger of suppliers, imports from CSV and Excel,
exports, members with roles, and a daily backup. A Go/Fiber backend
(`src/backend`) serves a Next.js frontend (`src/frontend`) and keeps all state
in PostgreSQL (`src/migrations`), part of the logic being SQL: constraints,
triggers and the procedure `open_next_period`.

This directory holds TLA+ models of the program's own logic, the TLC
configurations that check them on small instances, and TLAPS proofs of the
main properties for every instance. `PROJECT.json` links each definition to
the source lines it models, lists the runs, and names the hazards the
properties are aimed at.

## Inventory

| component | state | operations | hard behaviour | correct when |
|---|---|---|---|---|
| cash transactions | `transactions` (append-only) | create, reverse | requests check, then insert; a reversal must be unique | reversals cancel a row exactly, and a reversed row is closed to others; nothing new enters a locked period |
| periods | `periods` (status, starting balance, opened_at) | open next (rollover), lock, unlock, summary | the rollover reads, sums and writes in separate statements | each starting balance is one the period before it really had; cash missing at the end of the chain is accounted for |
| idempotency keys | `idempotency_keys` | look up, execute, save; cleanup | concurrent duplicates, a crash between commit and save, retries | a retry gets the answer of its own key; each duplicate has a cause |
| supplier ledger | `suppliers`, `supplier_transactions` | purchase, payment, returns, reverse, batch insert; `cmd/fix_returns` | no trigger and no unique index behind the checks; rows are relabelled | a reversal undoes its row and closes it to others; list and summary agree |
| Excel import | none | choose a sheet, detect supplier blocks, parse | free-form headers, loops that set their own index | the right sheet; no column read for two suppliers; every amount read or reported |
| CSV import | `transactions` | read all, insert each | two layouts with or without header; no database transaction around the inserts | what is stored is a prefix of the file, all of it on success |
| members | `tenant_members` | add, change role, remove | count admins, then write | a tenant keeps an admin; only an admin changes members |
| authentication | JWT claims, roles | resolve tenant and role, provision | the role may change while a request runs | no stale role changes members |
| JWKS cache | keys, time of last refresh | get key, refresh | fetches overlap and fail, keys rotate | a session whose key is still served goes on |
| Telegram alerts | time of last alert per key | throttle, send | concurrent failures, restarts | one alert in a minute, and no failure without one |
| backup exporter | none | seven queries, one dump | the ledger moves between the queries; errors at the end are dropped | the dump restores what there was, or fails for a reason |
| scheduler, uploader | timer, files on Drive | run daily, upload, clean, report | restarts, failing uploads | a run that is due ends; the folder is never emptied |
| migration tool | `schema_migrations` | read, baseline, apply and record each | overlapping and cut-off runs, queries whose errors are dropped, a file with its own COMMIT | recorded means applied, once and in order |
| exports, error mapping, frontend, other tools | none of their own | | | in part, see *Not modelled* |

How they interact: a request passes the authentication middleware, which sets
tenant and role; for some routes the role check and the idempotency middleware;
and then a handler, which calls a service, which calls a repository, which runs
SQL on a connection of the pool. Outside the database processes share nothing,
so the interesting interleavings are those of SQL statements of concurrent
requests. The database runs at READ COMMITTED (nothing in the code sets another
level).

## Modules

| module | models |
|---|---|
| `LedgerRows` | rows of `transactions` as values, reversals, and the two ways the SQL sums a period |
| `CashLedger` | periods and rows, and concurrent requests statement by statement |
| `AtomicLedger` | what the transaction and period services promise, every operation a single step |
| `CashLedgerHistory` | extends `CashLedger`: what each rollover had summed, and each period's origin |
| `CashLedgerRefinement` | the refinement mapping from `CashLedger` to `AtomicLedger` |
| `EntryApi` | submitting an entry over HTTP: the forms, `apiFetch` with its retry, the idempotency middleware around the handler, and the network |
| `EntryApiHistory` | extends `EntryApi`: for each key, how often something has gone wrong that may duplicate it |
| `SupplierLedger` | the supplier ledger: requests statement by statement, imports, `cmd/fix_returns`, and the queries that sum it |
| `ExcelImport` | reading a workbook: the sheet, the blocks of columns, the body |
| `CsvImport` | reading a CSV file and storing its rows one by one |
| `Access` | tokens, the resolution of tenant and role, and the member service |
| `AccessHistory` | extends `Access`: the requests that were overtaken, or could not count |
| `JwksCache` | the cache of public keys |
| `ApiProcess` | extends `JwksCache`: a request from its token to its handler's failure, and the alerts |
| `Snapshot` | the tables a backup covers, the requests that write them, and what restoring a dump does |
| `BackupJob` | extends `Snapshot`: backups, the daily timer, the folder on Google Drive |
| `Migrate` | the migration tool |
| `MigrateHistory` | extends `Migrate`: what has misled its runs |
| `MC...` | instances for TLC: symmetry, and the files and workbooks of the two imports |
| `SumLemmas` | what the proofs need to know of least and greatest elements and of sums |
| `CashLedgerProofs` | the theorems about the cash ledger, the refinement included |
| `EntryApiProofs` | the theorems about entries over HTTP, and in its last sections those about `CsvImport` |
| `SupplierLedgerProofs` | the theorems about the supplier ledger, and in its last sections those about `ExcelImport` |
| `AccessProofs`, `ApiProcessProofs`, `BackupJobProofs`, `MigrateProofs` | the theorems about the module they are named after |

The two imports have theorems next to the component they feed, or whose
requests they resemble; a proof module that extends two models needs their
names apart, which is why their specifications are `ExcelSpec` and `CsvSpec`,
with `ExcelNext`, `CsvInit` and so on. The theorems of one model use nothing of
the other.

### CashLedger and the code

A worker is a request in progress. Its `pc` names the SQL statement it is about
to run.

| action | code |
|---|---|
| `BeginCreate` | handler and service `CreateTransaction`: validation, the period is read and found open |
| `BeginReverse` | service `ReverseTransaction`: the row and its period are read, the reversal is built |
| `CheckReversed` | repository `ReverseTransaction`, step 2: the query for an earlier reversal |
| `InsertRow` | the INSERT of either path, with the trigger `prevent_write_to_locked_period` |
| `CommitRow` | the COMMIT (implicit in `Create`, which runs one statement) |
| `Reject` | a first check fails and the request ends without effect |
| `LockPeriod`, `UnlockPeriod` | the UPDATE in the period repository, whose WHERE clause decides |
| `BeginOpen`, `SumPrevious`, `WriteOpened` | the three queries of `open_next_period`: find the latest period, sum it, lock it and insert the new one |
| `Abort` | the request dies before its commit and PostgreSQL rolls back |

Three facts about PostgreSQL decide the granularity. Under READ COMMITTED each
statement, and each query inside a VOLATILE PL/pgSQL function or a trigger, sees
what is committed when it starts; so a request that has read something may act
on it after it has changed. The foreign-key check of an INSERT takes FOR KEY
SHARE on the period, which does not conflict with an UPDATE of its `status`, so
a lock does not wait for rows on their way. An UPDATE of a row waits for another
writer of that row, and an INSERT for another inserter of the same unique key;
so the UPDATE, the INSERT and the commit of `open_next_period` are one step.

Left out: channel, description, creator and tenant of a row (copied, never
decided upon; one tenant is modelled, and no statement of this component reads
another's rows), the roles asked for by lock and unlock (they belong to the
members component), the rounding and range of NUMERIC(15,2), and the case of
two rollovers that start in the same microsecond. The instant at which
`open_next_period` starts, which becomes `opened_at`, and its first query are
one step.

### EntryApi and the code

A key is drawn by one submission of a form and stands for the pair (key,
tenant_id). A *delivery* is one request that carries it, in the network or on
the server; `at` names the step it is about to take.

| action | code |
|---|---|
| `Submit` | `handleSubmit` of `QuickEntryRow` and `CreateTransactionDialog`: a fresh key, the optimistic row, the request. Nothing there stops a second press of Enter while the first is waiting |
| `Resend` | external: something between the form and the server repeats the request |
| `ReceiveAnswer` | `useTransactions.handleCreateTransaction`: the optimistic row gets its id, or is taken back |
| `RefreshAndRetry`, `ReceiveForbidden`, `ConnectionLost` | `apiFetch`: one retry with the same key after a 401 or 403, then an error; a network error otherwise |
| `Unauthorized` | the authentication middleware or `RequireRole`, which run first |
| `LookUpHit`, `LookUpMiss`, `LookUpFails` | the middleware's `Get`; a failing query counts as a miss |
| `Commit`, `CommitUnseen`, `Refuse` | the handler: a row is committed and answered with 2xx; it is committed but the answer is a 500; it is refused |
| `Save`, `SaveFails` | the middleware's `Save` after a 2xx, whose error is ignored |
| `Lose`, `Crash` | external: the network; the server process |
| `Cleanup` | `cleanup_expired_idempotency_keys`. The middleware leaves `CreatedAt` unset, so every key looks old. `cmd/clean_idem` truncates the same table to the same effect |

The handler is one step here; its own statements are those of `CashLedger`. An
answer is reduced to the row it names (0 for an error) or to "forbidden"; body,
status and path of the saved answer are copied and decide nothing. Sessions are
not modelled: any request may be refused.

### SupplierLedger and the code

| action | code |
|---|---|
| `FindOrCreateSupplier`, `RegisterSupplier` | the upsert of the repository, from the form or for a block of a sheet |
| `BeginCreate`, `InsertRow` | service `CreateTransaction`: the period is read and found unlocked; then the INSERT |
| `BeginReverse`, `CheckReversed` | the row is read by the service and its direction turned round; the repository asks for the row and for an earlier reversal |
| `BeginImport`, `InsertBatch` | `ImportExcel`: period and sheet are read; all rows are inserted in one transaction |
| `SetStatus` | the period service and the rollover, which know nothing of this ledger |
| `WidenColumn`, `RelabelReturns` | the two statements of `cmd/fix_returns`. It goes by the words of a description; those of a reversal always have them, and a user may have written them elsewhere (`also`) |

An INSERT reads nothing but its supplier and the width of a column, so it and
its COMMIT are one step. A request carries the id of a supplier, which may be
another tenant's (`Foreign`): neither the service nor the foreign key asks. Once
the view of migration 19 stands over the column, the ALTER of `fix_returns`
fails and is only logged, which `WidenColumn` allows. `Balance`, `Listed` and
`SummaryNet` are the queries. Dates, invoice numbers and descriptions are
copied. A request that fails a first check ends without effect and is no step.

### ExcelImport, CsvImport and the code

`ExcelImport` keeps the two loop variables of the code (`col`, `row`), counted
from 1, and takes a step for each round. A cell is a word of a small
vocabulary, chosen so that each test the code makes on a text succeeds for some
and fails for others, the accidental ones included: KADİR contains AD and so
counts as a customer column, BORÇ BAKİYE contains BORÇ. Numbers are in
hundredths, as the parser reads them (`1.250` is 1.25). In `CsvImport` reading a
file touches nothing else and is one step (`ReadFile`); the INSERTs are steps
of their own, each its own transaction.

### Access and the code

A token carries the claims of a membership at the time it was issued, or none.
`ResolveByClaim`, `ResolveByHeader`, `ResolveByMembership` and `Provision` are
the branches of the middleware; `extractJWTClaim` looks at the top level of a
token first, where the identity provider puts a role of its own, so a request
may act as "authenticated" whatever the hook has added. A membership query that
fails counts as no membership, so `ResolveByMembership` may send a member of any
tenant on to `Provision`, whose upsert makes an admin of him. Tokens carry
claims of the tenants in `Claimable` only, which bounds the run.
`ReadRequester`, `ReadTarget`, `CountAdmins` and `WriteMember` are the
statements of the three operations of the service; in `CountFails` the members
cannot be read and the code skips the check. `SignUp` and `IssueToken` are the
database functions the identity provider calls.

### ApiProcess, JwksCache and the code

`GetKey`, `Fetch` or `FetchFails`, `Install` and `Pick` are one call of
`GetKey`, cut where the lock is released. Key sets may be installed in another
order than they were fetched in; `Expire` keeps an hour from passing within a
fetch, whose timeout is ten seconds. `Recover` and `HandleError` are the two
places that call `SendAlert`: a panic is reported by both, under different
keys. `SendAlert` decides under its lock, so it is one step. A restart loses
the cache, the throttle and every request.

### BackupJob, Snapshot and the code

`Begin`, seven `ReadTable` or `LoseRows`, `CloseFile` or `DumpFails` are
`CreateSnapshot`; `SendDocument`, `Upload` or `UploadFails`, `CleanOldBackups`
and `Report` the rest of `RunBackup`. There are two jobs, the timer of the API
process and the command. `Snapshot` says when a dump restores: it is one
database transaction, creates the tables with its own DDL, and inserts table by
table. Requests write between the queries, and a dump holds what each query
found. At its end the file is reduced to what a reader of it wants to know:
whether it restores all rows that the database held when the run began, some,
or none (`Result`); whether rows were lost on the way, by a query that failed
both ways, by rows that ended early, or by a close whose error is discarded
(`CloseFile` with `cut`); and whether it mixes in returns or rows younger than
the run. Requests only insert: what deletes (removing a member) takes no parent
away. Time is counted in days that begin at the hour of the backup.

### Migrate and the code

Files are numbered. What a file does is reduced to what the tool's correctness
depends on: whether it succeeds when it is applied again, whether it has a
COMMIT of its own, as file 14 has, which ends the transaction the tool opened
so that the record is written outside it, whether a restored dump has made its
tables already (`Dumped`), and that it may fail when a file before it has not
been applied (`MissesFiles`). `ReadApplied`, `CheckInitialized`,
`RecordBaseline` (one file a step), `Execute` or `ExecuteFails`, `Record` and
`End` are the statements of `main`. `ReadBreaks` is a read of the records that
ends early, for which `rows.Err` is not asked, so the run goes on with some of
them or none; in `CheckFails` the look for `tenants` fails and its error is
dropped, so the run takes the database for an empty one. Every other failing
statement ends the run (`Crash`). The statements of a file wait for another run
that has executed the same file and not committed (`Waits`). A database is
fresh, set up from the combined schema, or restored from a backup.

### What is assumed, and what is accounted for

Nothing in the code keeps requests apart, and several promises of its documents
do not hold. No property is saved by leaving out the schedule that breaks it:
except for the refinement, every one is stated of all behaviours of the model,
with every race, failure and overlap above. Where the plain promise fails, the
property says instead what the code does keep, and names the causes of what it
does not. Some of these causes are events of the past; the modules called
`...History` add variables that record them. Actions write these and no guard
reads them, and a theorem says that without them nothing but the program is
left (`HistoryIsLedger`, `HistoryIsApi`, `HistoryIsAccess`, `HistoryIsMigrate`).

| promise | what holds always | causes named |
|---|---|---|
| no row is reversed twice | `ReversedRowsClosed`: how often a reversed row is reversed, and may still be, only falls | requests past their check when the first reversal was committed |
| the balance shown is the balance carried | `SummaryAgreesWithRollover`, `DebtIgnoresCancelled` | the surplus reversals, exactly |
| nothing enters a locked period | `LockedPeriodFrozen`, `LockedPeriodDrains`: its rows and those on their way only become fewer | rows inserted (cash) or requests let through (suppliers) before the lock |
| a period starts with the closing balance before it | `BalanceCarried`: it starts with a balance its predecessor had at one instant, its rows then committed and no others | rows committed after the sum |
| no cash is lost | `CashAccounted`: last closing balance and late rows are all rows | rows that came late, also into unlocked periods; says nothing after two rollovers from one period |
| an entry is recorded once | `DuplicatesAccounted`: a key makes one row, and one more at most for each slip | a delivery that overtakes another, a failed statement, a crash before the save, the cleanup |
| list and summary of suppliers agree | `SummaryMatchesList` | rows of another tenant's supplier, exactly |
| a tenant keeps an admin | `AdminRemains` | two changes that overtake each other, members that cannot be read, an admin who adds himself with a lower role |
| only an admin changes members | `ChangedByAdmins` | a requester who has lost the role since he was let through; sign-up and provisioning |
| a successful backup restores | `SuccessAccounted`: everything there when it began, or nothing, never a part | nothing only for lost rows, returns, or rows younger than the run |
| a recorded file is applied, once, in order | `RecordedApplied`, `AppliedOnce`, `AppliedInOrder`, `SuccessIsComplete`, `EventuallyMigrated` | a baseline recorded over no combined schema, or left halfway |

One condition is a schedule: `SpecSerialized` lets periods change alone and no
two requests reverse the same row at once, and `RefinesAtomicLedger` says that
then the statements amount to the single steps of `AtomicLedger`. It says when
the operations are atomic, not that they are; `AtomicLedger` promises no more
than they do.

## Runs

| run | checks | bounds |
|---|---|---|
| `interleaved` | types, `ReversalsMirror`, `SummaryAgreesWithRollover`, `BalanceCarried`, `CashAccounted`, `OpenedOnce`, `ReversedRowsClosed`, `LockedPeriodFrozen` | 2 requests, 3 labels, 3 rows, 3 rollovers |
| `refinement` | `RefinesAtomicLedger` | 2 requests, 2 labels, 3 rows, 3 rollovers |
| `reversed_twice` | violates `SingleReversal` | 2 requests, 2 labels, 2 rows |
| `answered` | types, `AnswersReal`, `DuplicatesAccounted`, `EverySubmissionAnswered` | 1 key, 3 deliveries |
| `recorded_twice` | violates `OncePerEntry` | 1 entry, 2 keys, 1 delivery of each |
| `supplier_ledger` | `ReversalCancels`, `SummaryMatchesList`, `DebtIgnoresCancelled`, `FixReturnsKeepsDebts`, `ReversedRowsClosed`, `LockedPeriodDrains` | 2 requests, suppliers and periods, 1 foreign supplier, 3 rows |
| `excel_import` | `RightYearPreferred`, `BlocksDisjoint`, `EveryAmountRead` | 2 sheets, or 4 columns under 2 or 3 rows of headers |
| `csv_import` | `StoredIsPrefix`, `LayoutIrrelevant`, `BalanceRead` | 2 uploads, files of 3 columns and 3 rows |
| `access` | `AdminRemains`, `ChangedByAdmins` | 2 requests, 2 tenants, 2 users |
| `api_process` | `SessionsGoOn`, `AlertsSpaced`, `EveryFailureReported` | 2 requests, 2 keys, 3 ticks |
| `backup` | `SuccessAccounted`, `DriveNeverEmptied`, `DailyRunEnds` | 2 rows besides the first four, 2 days, 1 day kept |
| `migrate` | `RecordedApplied`, `AppliedOnce`, `AppliedInOrder`, `SuccessIsComplete`, `EventuallyMigrated` | 2 runs, 6 files, 1 failure, all three origins |

Two runs expect a violation: what they check is what a document says and the
code does not keep (see *Where code and documents disagree*). In
`reversed_twice` two requests check the same row before either commits; in
`recorded_twice` one entry is submitted twice, each time with a key of its own.

Only `excel_import` disables the deadlock check: an import that has ended does
nothing more. Each property has a mutant in `PROJECT.json`, a plausible mistake
in the code that makes the run fail; the mutated operators stand before the
ones they replace in the modules.

Why the bounds are enough. In the ledgers every conflict in the code is between
two requests, so two workers meet each of them. `MaxRows` bounds committed rows
when an insert begins, so a run with three reaches four, enough for two rows,
the reversal of one, a second one that lost the race, and rows of different
periods. Three labels and three rollovers give a chain of two carried balances,
the first length at which forgetting the starting balance shows, two rollovers
from one period, and a call for a label already taken; entries stop at one row
there and reversals at three. The amount 0, in `refinement` and
`supplier_ledger`, is there to be refused. In the entry API the copies of a key
are the request and its repetitions, enough for a race, a lost answer with its
resend, and a replay; keys do not meet, so one is enough where nothing relates
them, and two are two submissions of one entry. In the supplier ledger new
entries stop at one row, reversals at three: what is of interest there is rows
that reverse, and what becomes of them under `fix_returns`. Workbooks have four
columns and a search limit of three, so a search reaches into the next
supplier's columns and past the last; the limit of the code is twelve. Of the
CSV files, which are some hundreds, three may be uploaded twice or at once, one
of each outcome. Two users and two tenants give two admins of one tenant who
demote each other, and a stale claim for another tenant. Two ticks of silence
and three of time let an alert be suppressed and a later one pass. Two new rows
in a backup are a parent and a child inserted between two queries; two days
(numbered 0 and 1) and a retention of one are the first at which a file grows
old. The six files of the migration tool are one of each kind: before, in and
after the baseline, repeatable or not, the one that makes the tenants and the
one that commits. Two runs overlap, and one failure is enough for each way of
being misled: a baseline cut off, a read that breaks, a check that fails.
Workers, labels, keys, copies, entries, uploads and suppliers are symmetric
where the run declares it: no definition tells one from another. The runs with
liveness properties use no symmetry.

Fairness. For `EverySubmissionAnswered`: the server goes on with each request it
has, by success or by failure (a handler returns; the pool and PostgreSQL answer
or fail); the browser hands each answer to the code that awaits it; and when
nothing of a key is under way any more, `fetch` fails. Nothing is assumed of the
network, which may lose every message, nor of `ConnectionLost` while something
is under way, for `apiFetch` sets no timeout. For `DailyRunEnds`: a run goes on,
since its queries and HTTP calls have a deadline of ten minutes in all
(`scheduler.go`), and a timer that has gone off is served by its goroutine. For
`EventuallyMigrated`: a run that is not cut off goes on, and the tool is started
again and again (strongly fair: it can be started whenever no run of that slot
is in progress); one failure happens at most, and whatever it leaves behind must
be got over, or be one of the two causes the property names.

## What is proved

For any finite set of workers, any labels and integer amounts, and any bounds,
TLAPS checks of `CashLedger` (assumptions: `AmountsAssumption`,
`NoPeriodAssumption`, `BoundsAssumption`, `WorkersAssumption`), under `Spec` or
`HistorySpec`, that is, for every interleaving:

* `TypeCorrect` and `HistoryTypeCorrect`. That starting balances stay integers
  needs that a sum of integers is one (`SumInt`, below).
* `MirrorsAlways`: `Spec => []ReversalsMirror`. The invariant must also say what
  a request in progress carries (`CarriedMirrors`): its row mirrors the row it
  names and, once checked, that row is no reversal. Rows never change, so what
  was read stays true.
* `ReversedAlwaysClosed`: a request joins those about to reverse a row only by
  the check, which a reversed row fails; when one of them commits, the row it
  appends is one reversal more and one request less.
* `SummaryAlwaysAgrees`: the rows a summary leaves out are the reversals of the
  period and what they reverse. The first reversals pair off with the rows they
  reverse, and since a reversal mirrors its row each pair adds up to nothing
  (`SumPairs`); what is left are the surplus reversals.
* `OpenedOnceAlways`: from type correctness and UNIQUE (tenant_id, label).
* `LockedPeriodFrozenAlways`: a row joins those to be committed only by the
  INSERT, whose trigger refuses a locked period; a commit takes it from one
  side of the count to the other.
* `BalanceAlwaysCarried`. `CarriedInv` adds that a rollover in progress carries
  the balance of its period over the rows it has summed (`CarryNoted`), that
  periods were opened in the past, that every row is of a period that exists
  (`RowsOwned`), and that what was summed is still there (`OriginsPast`). Rows
  committed later do not touch the sum over the first ones.
* `CashAlwaysAccounted`. `ChainInv` adds that a chain that has not forked has
  one last period (`LastUnique`) and a first one (`HasRoot`). A row falls into
  the last period or comes late; a period just opened carries on what was summed,
  and what had come since is late from then on.
* `Refines`: `SpecSerialized => RefinesAtomicLedger`, the temporal formula
  itself. Under `SerialInv` (what a request has read is still so, no row is
  reversed twice, and there is a latest period) the commit of a row is the
  `CreateTransaction` or `ReverseTransaction` of `AtomicLedger`, `WriteOpened` is
  its `OpenNextPeriod`, a lock or unlock is the same there, and every other
  statement changes nothing that `AtomicLedger` sees.

For any sets of entries and keys, and any finite set of copies, TLAPS checks of
`EntryApi` (assumptions: `NoEntryAssumption`, `CopiesAssumption`):

* `TypeCorrect`: `Spec => []TypeOK`.
* `AnswersRealAlways`: `Spec => []AnswersReal`. Rows are only appended and keep
  their keys, so a number that named a row of a key goes on doing so.
* `DuplicatesAlwaysAccounted`: `HistorySpec => []DuplicatesAccounted`. The rows of
  a key and its deliveries in the handler, which may yet make rows, are together
  at most one more than the slips; and while the next delivery will miss, the
  rows are no more than the slips (`Accounted`): for it is the first, or a slip
  has made the key unknown again, or it overtakes another, which is one. The proof
  sorts the steps by what they do to a key (`Same`, `First`, `Commits`, `Slips`).

For any sets of suppliers, labels and amounts, any finite set of workers and any
bounds TLAPS checks of `SupplierLedger` (assumptions:
`SupplierAmountsAssumption`, `SupplierBoundsAssumption`,
`SupplierWorkersAssumption`, `ForeignAssumption`), all under `Spec`:

* `TypeCorrect`.
* `ReversalsAlwaysCancel`. `CancelInv` adds that
  what a request carries would cancel the row it names if it were inserted now
  (`CarriedCancels`): `fix_returns` may relabel that row between the read and
  the INSERT, but never changes its effect on the debt. The rows of an import
  reverse nothing (`BatchPlain`).
* `ReversedAlwaysClosed`, as in the cash ledger.
* `LockedAlwaysDrains`: a request owes a period the rows it may still insert
  there (`Owed`); it comes to owe some only if it finds the period unlocked, and
  what it inserts it owes no longer. The rows of an import are all of its period
  (`BatchInPeriod`).
* `SummaryAlwaysMatchesList`. Every row is of a supplier already registered, for
  an import registers those of its batch first (`KnownInv`), or of another
  tenant's; so each other row of a period is counted for one supplier of the
  list. The net of the summary, which adds and subtracts four sums, is the sum
  of the effects of its rows.
* `FixReturnsAlwaysKeepsDebts`: a relabelled row keeps its effect.
* `DebtAlwaysIgnoresCancelled`: as in the cash ledger, the first reversals pair
  off with their rows, whose effects cancel by `CancelInv`.

Of `ExcelImport`, for workbooks of any number of sheets and sheets of any size
(`BooksAssumption` says of a workbook that its sheets are sequences of rows,
a row a sequence of cells):

* `RightSheet`: `ExcelSpec => []RightYearPreferred`. It is the order of the
  passes that matters: the first that finds a sheet asks for month and year.
* `NoColumnTwice`: `ExcelSpec => []BlocksDisjoint`. `DetectInv` says of the loop
  over the columns, whose body moves its own counter, that the blocks found are
  exactly those of the suppliers passed, and that no column from the counter on
  is an amount column of any of them.
* `TidySheetsAreRead`: `ExcelSpec => []EveryAmountRead`. `ReadInv` says the same
  of the loop over the rows: what has been read and reported is what the rows
  passed hold. In a tidy sheet the block of a supplier has exactly its columns.

Of `CsvImport`, for any files that are sequences of rows of cells
(`FilesAssumption`) and any uploads:

* `StoredAlwaysPrefix`: `CsvSpec => []StoredIsPrefix`. `CsvInv` says that an
  upload counts the rows it has stored, and that it stores only after the whole
  file was accepted. A row's place among those of its upload is a number of
  rows before it, which later rows do not change. The theorem compares rows
  with the list of transactions read from the file, whatever that list is; what
  is in it, the other two are about.
* `LayoutAlwaysIrrelevant`: `CsvSpec => []LayoutIrrelevant`. A title is no header,
  so the first header stays the first; and a row read through swapped columns
  gives the same cell for each kind (`SameCells`), if none is taken by its place.
* `BalanceAlwaysRead`: `CsvSpec => []BalanceRead`, row by row (`RowBalance`) and
  then summed (`SumDifference`).

Of `Access`, for any tenants, users and requests (`AccessAssumption`):

* `TypeCorrect`: `Spec => []TypeOK`.
* `OnlyAdminsChange` and `AdminAlwaysRemains`: under `HistorySpec`. `AccessInv`
  says of each request that is changing members and was not overtaken that
  whoever makes it is an admin still, and that there is another admin if the
  request has counted and is about to take the role from its own maker
  (`Entitled`). For a request against another member no count is needed: its
  maker remains. The middleware and the sign-up only ever raise a user to an
  admin (`Raised`), so they disturb neither.

Of `ApiProcess`, for any requests, keys, errors and times (`ApiAssumption`):

* `TypeCorrect`: `Spec => []TypeOK`.
* `SessionsAlwaysGoOn`: `Spec => []SessionsGoOn`. A key that a request waits for
  and that the provider still serves is in the map, and in every set on its way
  to the map (`KeyStays`): once the hour is over, the sets still on their way
  hold every key of the map that is still served (`LateSetsNewer`), and a fetch
  that begins then returns what is served.
* `AlertsAlwaysSpaced` and `FailuresAlwaysReported`: the time kept for a key is
  that of its latest alert, and no alert is later (`LastIsLatest`).

Of `BackupJob`, for any number of rows, days and a positive retention
(`SnapshotAssumption`, `BackupAssumption`):

* `TypeCorrect`: `Spec => []TypeOK`.
* `SuccessAlwaysAccounted`: `Spec => []SuccessAccounted`. Rows refer to rows of
  tables dumped before theirs, or of their own with a smaller id (`BooksInv`). A
  dump that has lost no rows holds, of the tables queried so far, every row that
  was there when it began, and no row that is not in the database
  (`DumpFollows`). If it holds no return and no younger row it is therefore
  accepted row by row; and if it is accepted, it restores all of these.
* `FolderNeverEmptied`: old files are looked for only when the file of the day
  is there (`NewFileFirst`), and the retention is positive.

Of `Migrate`, for any number of files, runs and failures, whichever files may be
repeated and however the database came to be (`MigrateAssumption`: a file with a
COMMIT of its own may be repeated; the code has one, 14, and it may), under
`HistorySpec`:

* `TypeCorrect`, `RecordsAreTrue`, `FilesAppliedOnce`, `FilesInOrder` and
  `SuccessMeansComplete`. `MigrateInv` says that what a run takes for recorded
  is recorded, and that a run at the baseline of a fresh database has overlooked
  records (`RunKnows`); that a file is applied but not recorded only where a
  combined schema holds it, or if it commits by itself (`AppliedRecorded`); and
  that the files before one that the tool has applied or recorded are recorded
  (`RecordedInOrder`). That the first pending file exists is the least element
  of a set of naturals, from the library's theorem on well-founded orders. A
  file that is applied while another run executes it waits, and one that is
  recorded meanwhile is rolled back, so the tool applies it once.

Sums. The library's `SumFunction` folds a recursive function over a set, and
its induction theorems take an operator as a parameter, which the provers
cannot instantiate. `SumLemmas` therefore reasons with sets in the place of
predicates: a set of naturals that holds 0 and with each number the next is
all of `Nat` (`Counting`, from a least counterexample and the library's theorem
on well-founded orders); a collection of subsets that holds the empty set and
with each subset any subset with one element more holds every finite one
(`Growing`). From the first follows that the recursive function exists and that
the order in which a fold takes the elements does not matter (`SumWithout`,
`SumAdd`); from the second, that the sum over a union of disjoint sets is the
sum of the sums (`PartUnion`), and what becomes of opposites, of differences
and of rows that pair off.

Model-checked only are the liveness properties `EverySubmissionAnswered`,
`DailyRunEnds` and `EventuallyMigrated`, since liveness under fairness and
ENABLED are out of the prover's reach. Every other property of a run is a
theorem. The requests of the ledgers do not wait for one
another, so they have no liveness property.

## Where code and documents disagree

Two disagreements are runs of their own, with TLC's counterexample:

* `reversed_twice`: scenario 3.4 of `docs/TEST_SCENARIOS_AND_QA.md` (line 151)
  has a second reversal refused. `transaction_repo.go:183` looks for a reversal
  and inserts one in two statements, without a lock or a unique index; two
  requests at once both pass. The supplier ledger has the same check
  (`supplier_repo.go:240`) and nothing behind it either, against
  `docs/SECURITY_AUDIT_REPORT.md:46`.
* `recorded_twice`: scenarios 3.2 and Y.5 (lines 131 and 372) have an entry
  recorded once, whatever is pressed and however the line breaks.
  `QuickEntryRow.tsx:75` submits at every Enter, waiting or not, and every
  submission draws a fresh key; nor does the middleware hold when two deliveries
  of one key race, when its save fails, or after a cleanup (`DuplicatesAccounted`),
  which `docs/SECURITY_AUDIT_REPORT.md:39` counts as tested.

The others show in the causes that properties have to name:

* `migrations/12:34` calls it a rule that one period is open. Two rollovers at
  once leave two, and so does unlocking a closed period; rows then committed
  into the older one, or committed after the sum and before the lock, are
  missing from the balance carried forward (`Late`).
* A row passes the trigger and commits after its period was locked; a supplier
  row or a whole import may follow a lock, for there is no trigger.
* `domain/errors.go:20` and the checks in `tenant_service.go` (75, 111) keep a
  last admin. Two admins who demote each other at once leave none, and so does
  "adding" the last admin with a lower role, or a demotion while the members
  cannot be read. A membership query that fails makes a member of the primary
  tenant an admin of it.
* `docs/BUG_AND_FIX.md:68` has the dump restore without errors, and
  `docs/TELEGRAM_AND_DRIVE_BACKUP_GUIDE.md:94` calls it an atomic snapshot. A
  returned supplier entry is refused by the dump's own DDL (`exporter.go:109`),
  a row younger than the run may refer to one the dump has missed, and the dump
  is one transaction, so nothing is restored. A table whose queries fail is
  passed over, rows that end early are not noticed, and the errors of closing
  the file are discarded (`exporter.go:350`): all are reported as a success.
* Scenario Y.4 (`docs/TEST_SCENARIOS_AND_QA.md:363`) has the second run of the
  migration tool skip what is applied and never fail. `rows.Err` is not asked
  (`main.go:170`) and the error of the look for `tenants` is dropped
  (`main.go:199`): a run may apply the files of a combined schema again, which
  fails; a baseline that is cut off leaves the next run files it takes for
  pending; and a database restored from a backup, or one whose records were
  overlooked, gets a baseline of files that were never applied.
* A supplier entry may name a supplier of another tenant
  (`supplier_service.go:53`, `migrations/15:32`): the summary counts it and the
  list does not.
* Creating a supplier row and both imports pass no idempotency middleware; a CSV
  upload that fails in the middle leaves its first rows, and a second upload of
  the file inserts them again; an Excel import that fails leaves the suppliers
  it has registered.
* `cmd/migrate -status` shows the status, but writes the baseline before it does
  (`main.go:69`). The comment there speaks of files 00-13, the code compares
  with file 14.
* `migrations/17:11-12` has the backend read the role from the hook's claims;
  `extractJWTClaim` takes a role at the top level of the token first.
* `period_service.go` lets an admin or a `muhasebeci` lock a period, the route
  only an admin.
* A report of a successful backup names the cloud as its target also when
  document and upload have failed (`scheduler.go:109`).
* `ErrUnauthorized` is answered with 403, not 401.

Readings of a sheet or file that surprise, all in the models: where a supplier
has two columns of a kind, the words for a total are looked for in the last
one only, so a row with TOPLAM in the other is read as an entry, which is why
`Tidy` says where totals are named; for 2020 the
short year "20" is found in the name of a sheet of any year of the century;
ÖDEME, GİRİŞ or BORÇ in the first row become suppliers; a third row with the
word FATURA, ALINAN or GEÇİLEN is taken for a header; BORÇ BAKİYE counts as a
purchase column. In a CSV row with an amount in both columns the outgoing one is
lost; a lone "-" rejects the file; `1.250` is read as 1.25.

## Not modelled

* `handler/export_*.go`: they format rows they have read.
* Registration, password reset and security questions (`auth_service.go`,
  `user_security`): single statements without a rule that relates them.
* The development mode of the auth middleware, and what verifies a signature.
* `formatSQLValue` of the exporter, which writes a date before 1970 as another
  day (`exporter.go:172`): no property speaks of the values in a restored row.
  Dates and descriptions of the imports; CSV decoding and delimiters.
* The pages of the frontend other than the two forms and `apiFetch`.
* `repository/mock_repo.go` holds doubles for tests; the server does not start
  without a database (`cmd/api/main.go:59`). The tools under `cmd/` that load,
  stress, clone or inspect a database are one-off scripts.
* Row-level security (`migrations/08`): which rows a session sees. The models
  are of one tenant, except `Access`.

## Plan

1. Done: the cash ledger with its periods, its atomic specification and
   theorems; entries over HTTP and theirs.
2. Done: suppliers, imports, members and access, the API process, backups and
   migrations, each checked.
3. Done: theorems about suppliers, members, the API process, backups and
   migrations.
4. Done: the refinement of `AtomicLedger`; the sums of both ledgers; the two
   imports.
5. Left: the bodies of `Snapshot` and `Migrate` could be proved to implement
   abstract specifications of their own, as the cash ledger does: a backup as
   one atomic copy, a run of the tool as one step.
6. Left: `formatSQLValue` and the row-level security of `migrations/08`, as pure
   functions checked against the values and sessions that occur.
