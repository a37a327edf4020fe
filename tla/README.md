# ArCa API: a verification development

The repository is the Go backend of ArCa, a treasury application: it keeps a
company's sales and purchase invoices, receipts and third parties in step with
its accounting system (Siigo), lets a few users add movements and projections
by hand, and answers read-only views over both. This directory holds TLA+
models of the parts that change state, TLC configurations that check them on
small instances, and proofs checked by TLAPS for every instance.

Line numbers refer to files under `src/`; `siigo.go` is
`internal/handler/siigo.go`, `client.go` is `internal/siigo/client.go`,
`store.go` is `internal/repository/postgres/store.go`.

## 1. The system

| Component | State | Operations | Speaks to |
| --- | --- | --- | --- |
| Synchronisation run (`siigo.go`) | one `result`, a semaphore, per-pass and per-page errors; lives as long as the request | `Sync`, `SyncCron`, `SyncCustomers`, `runSync`, five passes, `withRetry`, sweep | Siigo client, store |
| Customers table | `customers` rows with `active`, `synced_at` | `UpsertCustomer`, `DeactivateCustomersNotSyncedSince` | every run |
| Documents | `invoices`, `purchases`: balance, status, `secondary_due_date` | `UpsertInvoice`, `UpsertPurchase`, the agreed-date edit, `GetOldestPendingOrPartialDate` | every run, users |
| Manual movements (`transactions.go`) | `transactions` rows | `Create`, `Update`, `Delete`, `ImportTransaction`, `NextManualReference` | users, every run |
| Siigo client and session (`client.go`, `siigo.go`) | token, expiry, lock per client; `h.client`; the `siigo_configs` row | `Connect`, `AutoConnect`, `ensureClient`, `getToken`, `StartAutoRefresh` | every run, the administrator |
| Installments and expected dates (`domain/models.go`, `duedates.go`) | none | `PendingInstallments`, `pendingOn`, `EffectiveDueDate` | projections, cash flow, notifications |
| Projections (`projections.go`), cash flow (`cashflow.go`) | `is_projection` rows, custom periods | `GetSummary`, `Create`, `Simulate`, periods | documents, movements |
| Users and sign-in (`users.go`, `auth.go`, `middleware/auth.go`, `domains.go`) | `users`, allowed domains, tokens in the hands of clients | sign-in by password or Microsoft, creation, change, deactivation, `RequireRole` | every route |
| Small tables and caches (`dashboard.go`, `settings.go`, `exchange.go`) | bank balance, categories, settings, activity log; exchange rates in memory | one statement each, or check-then-insert, or fetch-then-keep | views |
| Views (dashboard, reports, notifications, search, customers) | none | read-only sums over several statements | store |
| Migrations (`db.go`) | `schema_migrations` | `RunMigrations` at every start | database |
| Commands (`cmd/createuser`, `cmd/resetdb`) | | one upsert; a script | database |
| Stores | the tables; an in-memory twin for tests | | |
| Daily trigger (`.github/workflows/siigo-sync.yml`) | a log file | one POST, up to five retries, each cut at 180 s | `SyncCron` |

`PROJECT.json` lists every component with its status.

**What is hard here.** Nothing excludes two synchronisations at once: the daily
trigger gives up after 180 seconds and asks again while the first request goes
on, and two buttons start further ones. Inside a run, a goroutine per page
writes under one shared semaphore, and retries sleep. Siigo changes while it is
being read: page numbers shift, a credit note arrives between the reading of
the notes and of the invoices. User requests read a row in one statement and
act on it in another. The host stops an idle instance at any time, so whatever
is not in the database is lost. The token is shared by all goroutines and
renewed by whoever finds it old, as well as by a background goroutine.

**What makes each component correct.**

- *Run*: no page lost, the cap on concurrent calls, failures neither swallowed
  nor fatal when they should not be, nothing written after the answer, an
  answer in the end.
- *Customers*: a deactivation has a cause; an undisturbed clean run leaves the
  table as Siigo has it; counts are right.
- *Documents*: no money written off by mistake; an annulment is seen or the run
  reports an error; a reconcile reaches everything open. All three rest on lists
  that stand still while they are read, and the code loses them when one moves:
  the properties say that it loses them for no other reason.
- *Movements*: a receipt the sync brought is not touched by users; a number is on
  two rows only where creations overlapped or a stray reference led the sequence.
- *Session*: one renewal per lapse; a token outlives the call it is sent with;
  the client in use belongs to the stored account.
- *Installments*: what is placed sums to what is owed, and payments settle the
  earliest installments.
- *Projections and cash flow*: the estimate agrees with the chart and the two
  views with each other; writes made meanwhile put an answer off by no more
  than their own money.
- *Access*: what an administrator decides about an account stands; nobody gets
  an account from a domain that was never listed; a token lets in only who had
  its role less than a day ago.
- *Reports, dashboard, cash flow*: the months of a chart are whole and follow
  one another; the parts add up to the whole; two columns neither share nor
  lose a day, but for the ones the code's ranges do share.
- *Server*: the schema grows in order whatever stops, and every instance comes
  up in the end; the cached rates, the categories and the bank balance survive
  concurrent requests, instances and days.

## 2. The modules

| Module | Models | Where |
| --- | --- | --- |
| `SyncContract` | what a run promises, without goroutines | abstract |
| `SyncRun` | the control of a run | `siigo.go` 254-970 |
| `SyncRunRefinement` | the mapping from `SyncRun` to `SyncContract` | |
| `CustomerSync` | the customers table under overlapping runs | `siigo.go` 804-970, `store.go` 1192-1230 |
| `DocumentSync` | credit notes, invoices and purchases, page by page, under overlapping runs | `siigo.go` 231-573, 761-796, 1163-1183, `store.go` 794-1012 |
| `ManualTransactions` | the transactions table between users and sync | `transactions.go` 133-237, `store.go` 69-160 |
| `SiigoSession` | clients, tokens, the stored account | `client.go`, `siigo.go` 41-228 |
| `Calendar` | on which days what a document owes is expected, in closed form | `models.go` 74-115, `duedates.go` 184-192 |
| `Installments` | the loop that computes it, an iteration per step | the same lines |
| `Projections` | the estimate, the chart, the alerts and the cash flow, read while the tables change | `projections.go` 34-331, `cashflow.go` 45-136, `store.go` 156-282 |
| `Access` | users, sign-ins, tokens, administration, allowed domains, `createuser` | `auth.go`, `users.go`, `domains.go`, `middleware/auth.go`, `store.go` 380-505, `cmd/createuser` |
| `Reports` | the three reports, the dashboard and the cash flow as windows over completed rows | `reports.go`, `dashboard.go` 22-52, `cashflow.go` 24-100, `store.go` 165-376 |
| `Server` | starts with their migrations, categories, exchange rates, bank balance | `db.go`, `cmd/server/main.go`, `settings.go` 62-99, `exchange.go`, `store.go` 557-563, 811-851 |
| `SiigoProofs`, `StoreProofs` | theorems about `SyncRun` and `SiigoSession`, and about `CustomerSync` and `ManualTransactions` | |
| the other `*Proofs` | theorems about the module they are named for | |
| `MC*` | constants for TLC | |

A definition commented *Variant* is not part of a specification. It is the
definition after it with a bug the code could plausibly have; each property is
known to fail when one of them takes its place, so no property holds by the
shape of the model.

### SyncRun

One request. `phase` is where its goroutine is; `pass[p]` where the goroutine
of a document type is; `task[p][k]` where the goroutine of page `k` is, through
waiting for the semaphore (`queued`), the call, the sleep between attempts, the
store, and its three ends (`saved`, `recorded` in `result.Errors`, `dberr`).
`sem` counts tokens. `LaunchPasses`, `AfterFirstPage` and `JoinPages` are the
`go` statements and the `wg.Wait`s; `Join`, `Sweep`, `Anchor` and `Log` are the
tail of `runSync`; `StartCustomersOnly` enters through `SyncCustomers`, which
has one pass and neither anchor nor wait for the others. What a page contains
is abstracted to whether it could be stored.

`SyncContract` knows only a verdict and the fate of each page. The mapping
sends a page to `stored`, `reported` or `broken` by its task, and a run to
`closing` once its passes are joined without a store error.

### CustomerSync

Third parties are numbers in Siigo's order, so page `k` is a slice of whatever
Siigo lists at the moment of the call. Each record is upserted in a step of its
own, stamped with the database's clock, which is `Skew` ahead of the server's.
`touched`, `imported`, `steady` and `quiet` are history: what a run stored and
counted, what was listed ever since it started, whether it was alone.

### DocumentSync

Money is in units out of `Total`, a date is a day. Siigo issues documents,
deletes purchases, takes payments, reopens and credits while runs of the three
modes choose a window, read the notes and then the documents. Every list is read
as the code reads it: page 1 tells how many pages there are (`PageCount`), and
each later call gets a position (`Slice`) in what the list holds by then.
`ReadNotes` is one call of `creditedByInvoice`, which adds up what it gets;
`LoseNotes` is its failure, which ends the loop with what was added so far.
`FetchPage`, `LosePage`, `SaveRecord` (one upsert) and `FailToSave` are the steps
of a page's goroutine, `FanOut` and `Joined` the `go` statements and the join.
`StatusOf` is `invoiceStatusWithCredits`, with its cent of `Tolerance`.

`moved[r]` is history: the lists that changed while run `r` was between their
first page and their last. A document moves the list of its kind when it is
issued or deleted, a note the list of notes. Payments move nothing.

### ManualTransactions

`request[c]` is what a request has read and not yet acted upon: a number
(`ReadNumber`, then `StoreNumbered`), or a row (`Load`, then `WriteUpdate` or
`Remove`). Bodies carry any reference of `Typed` and any external id: `Create`
decodes both and stores them, and only the UNIQUE constraint (`Fresh`) refuses an
id that some row has. `LastNumber` orders references as the database does and
scans a number out of the largest, so a reference typed by a client takes part;
one that is not padded sorts last and leads from then on (`StrayAbout`).
`rivals`, `stray` and `given` are history: the rows written since a number was
read, whether a stray was there then, and what the last import of a receipt
carried, from the import that inserted its row on.

### SiigoSession

`slot` is `h.client`, `config` the stored row. A caller goes through
`UseClient` or `ReadConfig`/`Rebuild`/`Install` (the two branches of
`ensureClient`), then `Look`, `LookAgain`, `Renew`, `Send` (`getToken`'s two
checks, `refreshToken` under the lock, the call). `getToken` returns a copy:
`taken` holds when it was made and when that token ends, and time passes between
the check and the end of the call, for at most `CallTime`. `Fire` and `Refresh` are the
refresher. `Connect` and `AutoConnect` put the client in the handler and then
save the account. `Restart` keeps only `config`.

### Calendar, Installments and Projections

`Calendar` defines `ExpectedOn(d, day)` without a loop: lay the installments
end to end, cover the beginning with what was paid, and what is owed is the
stretch after it. `Installments` is `pendingOn` and the loop of
`PendingInstallments` as they are written: `paid`, `remaining` and `out` are the
function's variables, `k` the range's. Its run shows that the loop computes
`ExpectedOn`, so `Projections` can use the closed form for both views.

`Projections` has the tables, their writers (`SyncDocument`, `Agree`,
`WriteRow`, each one statement) and two requests, one for each view, that go
through the five statements in the code's order. `got[v]` holds what was read;
`Answer` makes the last read and computes `reply[v]`, `Projected` adding by
days away and `CashFlow` by date. `shaken` and `version` are history: the money
in what was written while a view read, and which version of the tables it saw.
`Estimate` says independently what the answer should have been. A movement paid
between two statements is counted twice or not at all; that is what the code
does, and `OffByWhatWasWritten` bounds it.

`Alerts` is the list that the code builds in four further loops.

`Listed` of `Installments` is the query of `GetPeriodData`: which documents
belong to the days of a window, chosen by their columns.

### Access

Addresses name rows, since `users.email` is UNIQUE. A request is a slot that
goes from statement to statement (`at`); between two of them anything else may
happen, and `Fail` may end it. `Login`, or `MicrosoftLogin`, `CheckDomain`,
`FindByOid`, `FindByEmail`, then `Link`, or `Insert` and `Furnish`, then `Issue`
are the two sign-ins (`parseMSIDToken` reads the id token without verifying its
signature, `auth.go:159-178`, so `Stated` lets a request state any person and
address that `Mail` relates, in the instance all of them; the theorems hold for
any `Mail`); `Create`, `Update`/`Store`/`SetPassword`, `Delete` and
`ManageDomains` the administration; `UpsertUser` the command. A request that
reads a row keeps its copy (`loaded`, `live`), and `WriteBack` writes all of
it. `tokens` are what clients hold: signed and never stored, so nothing takes
them back. `decided` and `closed` say what was decided about an account,
`stale` and `disturbed` which columns a copy read before the decision may have
been written over.

### Reports

Five views over one table of rows with a date, a sign and an amount. A view
asks (`Ask`), reads one statement after another (`ReadNext`) and answers; a row
may change status, and midnight pass, in between. `got` keeps what each
statement saw; the operators after it are the windows and sums of the code,
with dates as pairs of a month and a day and `AddMonths` as `time.AddDate`,
overflow included. `moved` is history: the rows written while the view read.

### Server

Instances of an old and a new build start, stop and serve over one database.
`Start` reads the versions, `Apply` executes the next file, `Record` inserts its
version or fails on the primary key, `Serve` ends the start. Requests are
served by an instance: `CheckCategory` then `InsertCategory`, `StartFetch`,
`Fetch` or `FailFetch`, then `Keep`. `SaveBalance` writes the row of id 1 and
`Shown` is what `GetBankBalance` answers, among rows that may be older than
the id's being pinned.

## 3. What the runs check

| Run | Instance | What it shows |
| --- | --- | --- |
| `sync_run` | 2 passes (one of them customers), 3 pages, 2 tokens, 2 attempts, with fairness | cap, no page lost, sweep only after a complete pass, a store error fails the run, nothing written after the join; `SyncRun` implements `SyncContract`; every request is answered; no deadlock |
| `customer_sync` | 2 runs, 4 third parties of which one blank, pages of 2, 2 changes in Siigo | a deactivation has a cause; counts; an undisturbed clean run mirrors Siigo |
| `document_sync` | 2 runs, an invoice and 2 purchases of 3 units, 4 notes, pages of 1, a tolerance of 1 unit, 3 beginnings, 2 days, 1 event | unless the list read moved: no false annulment, annulments seen or reported, reconcile reaches what is open; and an undisturbed clean run mirrors Siigo |
| `manual_transactions` | 2 clients, 3 rows, 2 numbers, references padded or not, 1 receipt and its external id, 2 contents | receipts the sync brought stay its own; a shared number needs an overlap or a stray |
| `siigo_session` | 2 callers, 2 accounts, 2 clients, 3 ticks, calls of 1 tick, 1 restart | renewals, tokens of calls under way and the account of the client in use |
| `installments` | amounts up to 3 cents, balances -1 to 3, 2 days, up to 3 installments | all that is owed is placed, earliest first, on the days `Calendar` says, and for each window of days on which something is placed the query lists the document |
| `projections` | an invoice in 2 installments, a late purchase, a movement, 1 write, horizons of 2 and 9 days | chart against estimate, projections against cash flow, alerts against income and expenses, and how far a write between two reads can put an answer off |
| `access` | 3 addresses, 2 persons who may state any of them, 1 domain, 4 requests, 2 at a time, 2 ticks | decisions stand; accounts are vouched for; tokens lapse |
| `reports` | 7 rows at the edges of the windows, 5 views, dates in the first week, the middle and the last day of March, 1 write, 1 midnight | months are whole and follow one another, parts add up, weeks count what is ahead, columns meet |
| `server` | 2 instances, 2 files, 2 requests, 3 days, 1 stop, 1 save, 1 old row, with fairness | the schema grows in order, every instance serves in the end, twins need an overlap, rates go forward, the balance is the last one saved |

Two more runs end in a violation on purpose. Each checks a sentence of the
repository against the code, and the trace shows where they part:

| Run | Sentence | What the code does |
| --- | --- | --- |
| `customer_shift` | `siigo.go:954` the sweep deactivates "a third party deleted in Siigo, or one whose identification was corrected there" | a deletion between two page reads moves a listed record onto a page already read; it is swept |
| `notes_shift` | `siigo.go:761` `creditedByInvoice` returns "the total credited against it by credit notes", and `siigo.go:1163` "an invoice whose credit notes cover its total is void" | a note issued between two page reads pushes the next one onto a page still to be read, where it is added again; an invoice credited by half is stored as Anulado, without an error |

Smaller disagreements met while modelling, which no run is spent on:

- `README.md:138` says of ADMINISTRADOR "Full access including user management
  and domain whitelist"; `isAdmin` (`domains.go:84`) asks for a role named
  "admin", which the CHECK on `users.role` excludes: every administrator is
  answered 403. `ManageDomains` has that guard.
- `siigo.go:296` speaks of Siigo failures as retried; `creditedByInvoice` (774)
  calls once and gives up. The failure is reported.
- The pages of every list are counted once and numbered anew at each call
  (`siigo.go` 403, 786, 877): what is issued or deleted meanwhile pushes a
  document past the pages read, or a credit note past the last page counted, and
  the run ends without an error. `customer_shift` and `notes_shift` show two
  outcomes; `moved` marks the others.
- A purchase that was deleted in Siigo stays in its table as it was, open perhaps:
  only third parties are swept.
- `models.go:560` says of a reconcile "re-scan from earliest known record"; it
  starts at the oldest *open* row. `ReconcileReachesOpenRows` states what holds.
- `store.go:88` calls the lexically largest reference the numerically largest;
  clients may store one that is not padded (`transactions.go` 133-155), which
  sorts last, and every later record then gets the same number.
  `SharedNumberNeedsOverlap` makes that exception.
- `transactions.go` refuses to change or delete Siigo's movements (403), but
  `Create` stores an `externalId` from the body: a user who names a receipt's
  before it is imported owns its row, and the imports that follow fill it without
  making it Siigo's. `ReceiptsBelongToSync` speaks of receipts whose row an
  import inserted.
- The sweep compares two clocks. With the database's behind (`Skew = -1`) TLC
  finds both `DeactivationHasCause` and `QuietRunMirrorsSiigo` violated: rows the
  run stored are swept, against `siigo.go:954` "rows the run never touched".
- `auth.go:123-125` links the Microsoft id at sign-in "best-effort";
  `UpdateUser` (`store.go` 457) does not write that column, so no account is
  ever linked that way, and the row read before is written back.
- `reports.go:186` promises the last six months; on the 29th to the 31st
  `AddDate` may run over a shorter month, which is then missing while its
  successor is there twice. `MonthsAreWhole` makes that exception.
- `createuser` on a known address reactivates the account and keeps its role.
- `users.go:85` keeps a self-service update from changing a role; the update
  still writes the role it read back, over one given meanwhile.

### Bounds, and why they are enough

- Two runs, two clients, two callers: every hazard listed is between two
  actors, and a third would only repeat the part of one of them. The proofs
  cover any number.
- Pages: three in `sync_run`, so that a fan-out has two goroutines competing
  for tokens; two in the others, the least with a boundary between pages.
- `MaxConcurrent` is 2 instead of 8 (`siigoMaxConcurrent`), so that goroutines really wait.
- `Attempts` is 2 instead of 3: one failure followed by a success, and
  exhaustion, both occur.
- `Total = 3` with a tolerance of one unit, notes of one unit: an invoice may be
  unpaid, partial, paid, credited short of, within and beyond the tolerance. Two
  halves and two notes of other documents suffice for a note to be read twice or
  pushed past the last page, one purchase beside another for a document to be.
  One event in Siigo is enough for each. A run may begin before or after any of
  them, on any of the three beginnings.
- Two days and a window of 0: a document that has left the incremental window
  and one that is in it.
- Ticks: a token lasts 3, callers renew 1 before its end, the refresher 2
  before, and sleeps 2 after a failure; the order of the real durations (24 h,
  5 min, 10 min, 1 h, and 15 s for a call) is not kept between `Ahead` and `Retry`, but every order
  of their expiries that matters to a token occurs.
- Three installments: one covered, one cut, one not reached. Balances may be
  negative or above the total, and schedules may sum to anything.
- A "month" of two days and a horizon of nine: money may be late, on the last
  day or beyond it, and with nine days the chart skips days between its eight
  points. `MaxReading` is 1: views write nothing, so two of them at once show
  nothing that one does not.
- `access`: an administrator, an account a person has under two addresses, and
  an address that has none; four requests are a sign-in and what overtakes it.
  A token lasts one tick of two, so that it lapses.
- `reports`: rows on the first day of a month, a quarter, a year and of the six
  months, in the month before, a year back, and ahead in the month asked about;
  three days of March, one in its first week, one in the middle and the 31st.
- `server`: a build that has a file the other has not, two files so that their
  order matters, one stop at any statement.
- `MaxChanges`, `MaxEvents`, `MaxRequests`, `LastTick`, `MaxStops`, `MaxSaves`, `MaxNights`, `LastDay`, `MaxRestarts`, `MaxRows`, `MaxNumber`:
  bounds of the instance, each a guard of one action.

Deadlock is checked in `sync_run`, where stopping before the answer would be a
fault. The other instances simply run out of bounded events.

### Fairness

`RequestAnswered`: weak fairness of the request's goroutine, of each pass and of
each page. Go runs every runnable goroutine, every HTTP call ends because the
client has a 15-second timeout (`client.go:51`), every sleep of `withRetry` is
finite. Statements of the store run under `context.Background()` without a
timeout: that the database answers, with a result or an error, is assumed, and a
statement that hangs would keep the request for good. Nothing is assumed of who
gets the semaphore next; the property holds
without, because attempts are counted.

`StartsServe`: weak fairness of an instance's start, of which the first step is
taken by the host: it starts a service again that has ended, as `render.yaml`
leaves it to do. Stops are bounded, and an instance ended by the primary key is
one of those that start again. Nothing is assumed of requests, fetches or days.

## 4. What is proved

For every value of the constants that satisfies the named assumptions, every
safety invariant and every action property that a passing run checks is a
theorem, and so is the refinement of `SyncContract`:

| Module | Theorem | Argument |
| --- | --- | --- |
| `SiigoProofs` (`SyncRun`) | `TypeCorrect`, `RunInvariantHolds`, `NoPageLostHolds`, `SweepSound`, `StoreErrorSound`, `NoWriteAfterJoinHolds`, `ConcurrencyCapHolds` | `RunInvariant` says where the pages are given where the pass is, where the passes are given where the request is, and that errors, attempts and counters agree with both; the properties follow from it. The cap has its own induction: tokens equal the number of calls |
| | `Refinement` | every step is a step of `SyncContract` or a stutter: fates change only by `Save`, `RecordError` and a reply that lists more pages |
| `SiigoProofs` (`SiigoSession`) | `ConnectionTypesHold`, `LockHeldToRenewHolds`, `TokenOutlivesCallHolds` | who holds a lock is known from where it is in its call; a copied token was fit when it was taken (`CallsAreFit`), a call is out for at most `CallTime`, and `CallTime <= Margin`, so it ends before its token does |
| | `OneRenewalPerLapseHolds` | `RenewalsAreDue`: under the lock, what `LookAgain` found old stays old, since only the holder writes it |
| | `SessionSound` | `ChangesKeepOrder`: while one change runs alone, the client in the handler is its own or the stored account's |
| `StoreProofs` (`CustomerSync`) | `TypeCorrect`, `ImportedOnceHolds` | directly inductive |
| | `StampsHold`, `DeactivationSound` | no property of the table alone is inductive: what is needed is that whatever a run stored is stamped no earlier than its start (`StampsFollowStart`). Both theorems have `Skew \in Nat` as a hypothesis: the database's clock is not behind |
| | `QuietRunMirrorsSiigoHolds` (for `Skew = 0`), `QuietRunKeepsActive` (for `Skew \in Nat`) | `CustomerInvariant`: no run passes next to a quiet one; each record a quiet run fetched is Siigo's, and is stored, blank or still to come; a row it has not stored is stamped before its start plus the skew. `PagesCover`: whatever Siigo lists is on a page that page 1 announces, for any page size (three lemmas on division) |
| `StoreProofs` (`ManualTransactions`) | `ManualTypesHold`, `ReceiptsSafe` | `RequestsApart`: ids are never given twice, a row an import inserted is the only one with its external id (UNIQUE), and a request that passed the source check holds the id of another row |
| | `NumberingSound` | `NumbersAhead`: a number read with no stray about is above every number of a row not in `rivals`; whatever the clients type |
| `DocumentSyncProofs` | `TypeCorrect` | directly inductive |
| | `InvariantHolds`, `NoFalseAnnulmentHolds`, `AnnulmentSound`, `ReconcileSound` | `DocumentInvariant`: while the list of notes stands still, what a run has added up is what the first pages of it hold (`Prefix`), so each note once; while a list of documents does, the pages are the ones counted, and each record of a fetched page is stored or still to come; a reconcile's window contains what was open. That the pages partition a list, for any list and page size, is arithmetic of ranks |
| | `QuietRunMirrorsSiigoHolds` | `QuietRunIsAlone`, `QuietRunReads`: next to an active quiet run no other is under way and no list moves, so what it read is what Siigo has and what it saved is still there |
| `InstallmentsProofs` | `TypeCorrect`, `OwedIsPlacedHolds`, `PaidSettlesEarliestHolds` | `LoopInvariant`: what is left of the paid amount is what the installments seen do not reach, and what was placed is the overlap of those seen with the stretch that is owed; one lemma on integers (`StretchStep`) says how the overlap grows with an installment |
| | `MatchesCalendarHolds` | `CalendarInvariant`: after `k` installments, what `out` holds for a day is what the closed form gives for the first `k`; the residue is the rest of the stretch (`NothingLeftBehind`) |
| | `PeriodHoldsPaymentsHolds` | `DaysInvariant`: each day in `out` is the document's effective day or, where none is agreed, a day of its schedule: what the query compares |
| `ProjectionsProofs` | `ProjectionTypesHold`, `OffByWhatWasWrittenHolds` | `ReadingInv`: what a view has read is sound, one statement after another (`ReadsSound`), and what it would answer from its readings so far and the tables for the rest differs from the tables' own forecast by no more than `shaken` (`ReadsClose`). A write moves both by the money it moves; a read replaces a part of the tables by itself |
| | `ChartEndsAtEstimateHolds` | the chart's last checkpoint is the horizon, and the flows within it are all of them |
| | `ViewsAgreeHolds` | with it, `ReadsDated`: two views of one version of the tables and one day hold the same readings; a flow of the month counts by date as it does by days away |
| | `AlertsAddUpHolds` | the lines the four loops add, summed by where they come from (`AlertLines`, `RowLinesAddUp`, `DocLinesAddUp`) |
| `ReportsProofs` | `ReportTypesHold`, `MonthsAreWholeHolds`, `PartsAddUpHolds`, `WeeksCountAheadHolds`, `ColumnsMeetHolds` | `ReadSoFar`: two statements of a view differ only in rows that moved while it read. The rest is about dates as pairs, of any year: which months and days a window holds, and that the windows of the parts make up that of the whole |
| `AccessProofs` | `TypeCorrect`, `AccountsAreVouchedHolds` | `SignInsAreVouched`: a sign-in past the check is of an address that has a row, which stays, or of a domain once listed; the UNIQUE address does the rest |
| | `DecisionsStandHolds` | `CopiesFollowDecisions`: the copy a request will write agrees with what was decided, but for the columns marked since; who asks for a role is an administrator |
| | `TokensLapseHolds` | `TokensFollowAccounts`: a request on its way to a token has an account active with that role in this tick |
| `ServerProofs` | `TypeCorrect`, `SchemaInOrderHolds` | `StartsFollowSchema`: what an instance believes applied is recorded, what is recorded is applied, without gaps |
| | `TwinsNeedOverlapHolds`, `RatesGoForwardHolds`, `BalanceIsLastSavedHolds` | `ChecksHoldUnlessRaced`, `FetchesGoForward`, `RowsFollowSaves`: what a request in progress knows, unless another of its kind overtook it |

Two specifications that share a proof module have names of their own:
`ConnectionSpec` is that of `SiigoSession`, `ManualSpec` that of
`ManualTransactions`; `LoopSpec` is that of `Installments`, which `Projections`
extends. TLC has checked the inductive invariants on the instances of section 3.

The assumptions are the named `ASSUME`s of the modules: finite sets, positive
caps, values that do not collide with "nothing", a list of third parties that
the pages can hold, and a call that takes no longer than the margin before a
token's end at which callers renew (15 s and 5 min). Of the two clocks nothing is
assumed; the theorems that need them in order say so as a hypothesis. Totals and installments are not negative, which Siigo
guarantees; balances and the amounts of movements may be of any sign, since
nothing in the code checks one.

`QuietRunMirrorsSiigoHolds` of the customers assumes that the two clocks agree.
That is needed: with `Skew = 1` TLC finds a row that an earlier run stamped
just before the quiet run started, whose third party was then deleted in Siigo;
its stamp is later than `startedAt`, and the sweep spares it. A later run sweeps
it. `QuietRunKeepsActive` holds for any skew that is not negative; a negative one
breaks it.

**Sums.** The views add over sets of documents, rows and days of any size.
The induction theorems of the library cannot be instantiated here, but an
induction whose predicate is a *set* can: `NatSetInduction` rests on a finite
set having no injection into itself that is not onto, `SubsetInduction` follows from it for the subsets of a finite
set, and from the two come the existence of sums (`SumsExist`) and their laws
(`SumUnion`, `SumPlus`, `SumImage`, `SumByParts`, ...), in `InstallmentsProofs`.
What a recursive function gives for a sequence is handled the same way.

Only model-checked: the two liveness properties, `RequestAnswered` and
`StartsServe`. Liveness under fairness and `ENABLED` are out of the prover's
reach. The two runs that end in a violation state what the code does not keep.

## 5. What the models leave out

- Formatting, log lines, the activity log (but for its place in a run), CSV.
- In `DocumentSync`, installments and third parties carried by a document are
  written and read as one value; no property there depends on them.
- Money is whole cents: a residual of half a cent or less, which the loop drops
  (`models.go:111`), is none.
- `Projections` takes the server to be in UTC (the host sets no time zone).
  A row that does not exist is one with status Anulado, since no statement of
  the views reads either. The names in the alerts come from one more read,
  whose failure leaves them blank. `Simulate` is arithmetic on its request
  (it leaves pending movements out, unlike `GetSummary`); custom periods are
  rows under a UNIQUE name that nothing else reads.
- Siigo's page numbering is assumed to be a slice of the list at the time of
  the call.
- Where in its lists Siigo puts a new record is not known from the code, which
  asks for no order: `DocumentSync` and `CustomerSync` let it appear anywhere.
- The agreed payment date is in `Projections`; the upserts of `DocumentSync` do
  not name its column.
- References of one prefix only: the query of `NextManualReference` never sees
  the other. A typed number without padding has one digit.
- `SiigoSession` does not order two overlapping changes of the session (the
  code does not either): `SessionIsOfStoredAccount` speaks of changes made
  alone and saved.
- `Access` has no settings rows (`GetSettings` answers with defaults) and no
  password check beyond whether there is a hash. Ticks are long: no request
  lasts from one to the next.
- `Reports` knows completed rows with a date; the categories of a slice are one
  category, and names, percentages and CSV are left out. `netPositiveRate`
  counts a period without rows as a positive one.
- `Server`: an instance serves at once what it answers; the rates are the day
  they are of. Dashboard alerts compare `t.Date` with today where
  `models.go:117` speaks of the effective due date; they are not modelled.
- The in-memory store, which only the tests use: the server uses PostgreSQL,
  which the models follow.
- In `ManualTransactions`, status and dates of a movement; the lists and their
  totals.
- Notifications, search, the customers' lists and the resolution of third
  parties: one read each and pure lookups, whose answers hold no state.
- Encryption helpers (not called by the store), JSON helpers, logging, Siigo's
  JSON shapes.

## 6. Plan

Done: the modules above, their runs, and the proofs of every safety property
the passing runs check.

What could follow:

1. A reading of the credit notes that tells them apart by id, as a refinement of
   what `creditedByInvoice` promises, if the code comes to do that.
2. `GetAlerts` of the dashboard and the notifications, against `ExpectedOn`.
3. `Server` with settings and custom periods, if they come to depend on one
   another.
4. A bound on what `customer_shift` shows: that a record missed by one run is
   active again after the next quiet one.

## 7. Running it

    tlc -workers 2 -config MCSyncRun.cfg MCSyncRun
    tlapm SiigoProofs.tla

Each `.cfg` names its properties; `PROJECT.json` says which module goes with
which configuration, which definitions stand for which lines, and which variant
breaks which property.
