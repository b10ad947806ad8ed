# Verification of the invoice tender application

TLA+ models of `src/backend` (FastAPI, one PostgreSQL database, an S3 store, a paid model
provider) and of `src/frontend` (React, react-query). People upload PDF
invoices to a project; background tasks have them parsed; people correct and confirm the
result; prices are compared with reference prices, and a compensation is computed.

Contents: [parts](#the-parts-of-the-system) · [modules](#modules-and-the-code) ·
[runs](#runs-and-bounds) · [fairness](#fairness) · [proofs](#what-is-proved) ·
[findings](#findings) · [known limits](#limits-of-the-code-that-the-models-show) ·
[not modelled](#what-is-not-modelled) · [plan](#plan)

Run in this directory: `tlc -config <run>.cfg <module>` (the pairs are in `PROJECT.json`) and
`tlapm <module>.tla` for the modules whose names end in `Proofs`.

## The parts of the system

The backend is one process. Asynchronous handlers and background tasks share its event loop
and call the database *synchronously*, so the loop stands still during each call; synchronous
handlers run on worker threads. PostgreSQL runs at READ COMMITTED without lock timeouts, and
sessions are configured without autoflush. These facts shape most of the models.

| Part | State | Operations | Talks to | Hard behaviour | Correct when |
|---|---|---|---|---|---|
| Background processing (`processing.py`, `routers/invoices.py`, `crud/documents.py`) | rows of documents and invoices, slots of the semaphore, tasks | upload, reparse, deskew-reparse, guard, phase A/B, error write, edits, deletions, sweep | provider, S3, database | interleaving of loop, threads and server; crash; lost COMMIT; cancellation | one attempt at a time, confirmed invoices survive, every paid call is charged once, every attempt ends |
| Model provider and phase A (`llm*.py`, `pdf_*.py`) | none | detect, parse, rasterize | processing | which failure of which call carries which cost | a path never loses or doubles a cost |
| PDF storage (`s3.py`) | an object and its `.orig` backup per key | upload, correction, deletion | processing, routes | no transaction spans row and object; late puts | the original is never lost, a row has its object |
| Suppliers (`crud/suppliers.py`) | suppliers; copies of name and INN in each invoice | find-or-create, rename, merge, delete, link | phase B, edits of invoices | concurrent transactions over denormalised copies | copies agree with the supplier; one supplier per key |
| Organisations and users (`crud/admin.py`, `routers/orgs.py`) | users: role, activity | create, patch from platform or organisation | sessions | decisions on rows read without a lock | the last active superadmin stays |
| Sessions (`routers/auth.py`, `lib/api.ts`) | refresh tokens, cookie jar, shared refresh of a tab | login, refresh, logout, repeat after 401 | everything | rotation races, lost and reordered answers | a token is exchanged once; nobody is logged out early |
| Calculations (`crud/calculations.py`, `finance.py`, `crud/compensation_corridors.py`) | none of its own | allocation, months, corridors, compensation | dashboard, export, supplier card | denominators, overlapping periods, rounding; three copies of one algorithm | shared cost is conserved; the copies agree |
| Dashboard and export (`routers/dashboard.py`, `routers/export.py`) | none | summary, summary by month, workbook | calculations | a summary is many queries | parts add up to the total |
| Units, material classes, prices, projects | one row per request | CRUD | calculations | find-or-create of a class | validation keeps prices in the dimension of their type |
| Settings (`routers/settings.py`, `Settings.tsx`) | one row | read, partial update | pages | differences computed from a cached copy | a save sends what was typed |
| Frontend data layer (`services/*.ts`) | query cache, last status | polling, transition detector, mutations and what they invalidate, seeded entries | routes, pages | answers out of order, fetches cancelled or started too early, missed transitions, forgotten keys | users see their own changes; the tab ends with the figures after the processing |
| Pages and components (`App.tsx`, `pages/`, `components/`) | forms, selections, dialogs, tabs, lists of uploads | clicks, keystrokes, requests and their answers | data layer | what was typed or selected meets an answer about an older state | no text is lost, no row is deleted unseen, nothing is created twice |
| Charts (`DeviationChart`, `MonthlyTab`, handbook) | none | sums over answers | dashboard | a second implementation of server figures | they agree with the server |
| Command line, migrations, logging, configuration guards | | | | run once or pure | not modelled |

How they interact: an upload puts an object and creates a row (storage), the guard takes the
row and a task processes it (processing, provider, storage), phase B links suppliers and
replaces invoices in one transaction, the summary reads the invoices (calculations), and a
browser tab polls the status until it is at rest (data layer), every request of it carrying
the session (sessions). The pages meet each other only in the query cache and on the server:
each keeps forms and selections of its own over cached answers that change beneath it.

The hazards of each part are listed at their lines in `PROJECT.json`, with the properties
that would notice them.

## Modules and the code

| Module | Models | Composed with |
|---|---|---|
| `DocumentLifecycle` | what processing promises: the abstract specification | |
| `DocumentProcessing` | `processing.py`, `routers/invoices.py`, `crud/documents.py`, sweep of `main.py`, deletion of a project | |
| `DocumentProcessingProps` | its properties | `INSTANCE DocumentLifecycle` |
| `DocumentProcessingInvariant` | the inductive invariants | extends the above |
| `DocumentProcessingProofs` | proofs: the machine itself (one attempt, no double charge); what comes of it (no deadlock, nobody forgotten, every cost charged, the lifecycle implemented) | extends the above |
| `PdfStorage`, `PdfStorageProofs` | objects, backups and rows through upload, correction and deletion | |
| `SupplierRegistry`, `SupplierRegistryProofs` | every writer of suppliers and of the links of invoices | |
| `OrgAdmin`, `OrgAdminProofs` | users of one organisation | |
| `AuthSessions`, `AuthSessionsProofs` | server, network, cookie jar and tabs | |
| `Figures` | the pure algorithms: allocation, months, deviation, corridor, compensation, rows of the report | |
| `Charts` | what pages compute from the figures again: chart of deviations, months, example of the handbook | extends `Figures` |
| `ProjectFigures`, `ProjectFiguresProofs` | the data behind them, the requests that change it, and a summary query by query | extends `Charts` |
| `StatusPolling`, `StatusPollingProofs` | polling and transition detector of a tab | |
| `QueryCache` | every query key, what its answer is computed from, every mutation and the keys it invalidates | |
| `InvoiceReview` | `Review.tsx`: edits over a cached invoice, six kinds of requests | |
| `InvoiceList` | `InvoiceTable.tsx`: filters, pages, selection, deletion of one or many | |
| `ProjectScreen` | direction, tab and view of `ProjectPage.tsx`, in URL and state | |
| `ExclusionToggles` | the supplier boxes of a project | |
| `Uploads` | `UploadSheet`, `UploadJobRow`: loops of uploads into one list | |
| `Dialogs` | nineteen dialogs that create, edit or delete a row | |
| `AccountScreens` | password resets, new organisation, list of users, settings | |
| `App`, `AppProofs` | routes and guards; the screens, the cache and the users, one part at a time | `INSTANCE`s of the seven screens and `OrgAdmin`, extends `QueryCache`; the proofs are about every screen and the cache, and instantiate `OrgAdminProofs` for the users |
| `MC*` | constants and symmetry for TLC | |

Names follow the source where TLA+ allows it. A definition named `X_Something` beside a
definition `X` is a plausible bug of `X`: the runs use it to confirm that the property would
notice. It is no part of any specification.

### DocumentProcessing

| Code | Model |
|---|---|
| `documents.status`, `parse_count`; invoices; `verified` | `status`, `charged`; `invs`; `verified` |
| row lock of a document | `lock[d]`: free, a request, the loop, or the server that finishes a COMMIT whose client is gone (`doubt[d]`) |
| what the event loop runs between two awaits | `loop`, with steps `guard`, `release`, `lock`, `swap`, `errWrite` |
| a background task at an await | `task[t].pc`: `queued` (semaphore), `fetch`, `detect`, `raster`, `store`, `llm` |
| the accounting dictionary of `process_document` | `task[t].seen`; what was really paid is `task[t].paid` |
| a synchronous handler | `req[r]`; `refused` until the loop has closed its session (`get_db`) |

The guard is `GuardTakes`, `GuardRefuses`, `GuardFails`; the task is `TakeSlot` to
`LlmParsed` and its failures; phase B is `LockRow*` and `Swap*`; the conditional error write
and its retries are `ErrWrite*`; requests lock the row (`LockDoc`), are refused (`Refuse`,
later `CloseSession`) or commit (`Commit*`). The deletion of a project is a cascade of
statements: `DropInvoices` takes the invoices, `DropDoc` one document after another in the order of ids,
`CommitDrop` the project; `DropFails` is a row that appeared meanwhile. `WaitsFor` says which
transaction waits for a row of another, rows of invoices included; a statement whose predicate does
not match the committed row does not wait. `DeadlockVictim` is the one PostgreSQL aborts to break a
circle (`Deadlocked`); if it is the loop, its database call fails. `Crash` may leave the COMMIT of the dead process
to the server; `Restart` is the sweep. `owed` is a history variable: calls the latest attempt
paid for and nobody has charged yet.

A database call that fails is the mishap `db`: before its COMMIT nothing happens; at its
COMMIT the outcome may be unknown (`SwapInDoubt`, `ErrWriteLost`) and is settled later by
`ServerCommits` or `ServerRollsBack`, in any order with the other steps.

### DocumentLifecycle

The same five variables `status`, `invs`, `verified`, `charged`, `owed`, without loop, locks,
sessions and retries: an attempt ends in *one* step that moves the status, replaces all
invoices or none and charges at most what is owed. The refinement mapping is the identity on
these variables. `DropProject` of the lifecycle allows what the code allows at its COMMIT: a project
may be deleted while its documents are being processed.

### PdfStorage

Each key is drawn once. `stored[k]` and `orig[k]` are the object and its backup, as the
version they hold: the uploaded bytes, a correction of them, or nothing. `work[k]` is
`_run_deskew` or `process_document` at one of its S3 calls, with the bytes it holds; a
failing `put` may land later (`late`, `LateLand`), also after the process died.
`source[k]` is a history variable: the version the invoices were parsed from. That one attempt
processes a document at a time is taken from `DocumentProcessing` (`OneAttempt`). `DropProject` removes
the rows and leaves the objects, as the code does; an upload under way is then refused by the
reference to the project (`Refused`), and an attempt under way finds no row (`RowGone`). `torn` and
`dropped` name the documents whose deletion was interrupted and those that went with the project.

### SupplierRegistry

A transaction is a sequence of SQL statements. `supplier` and `invoice` hold what is
committed, `wSup` and `wInv` what each open transaction has written and, thereby, locked. A
statement that meets a lock waits and evaluates its predicate again on the newest version
(READ COMMITTED). The attributes the object mapper flushes are those that differ from what it
loaded: this is where a stale copy survives. Phase B is one transaction at a time, as on the
event loop; `update_invoice` holds the lock of its document.

### OrgAdmin

`tx[c].seen` is the row as the request loaded it; whether `_count_other_active_superadmins_locked`
runs is decided from it, and so are the attributes written. `Select` is the snapshot
of `SELECT ... FOR UPDATE`, `LockNext` takes the rows in the order of ids. A request may make a
superadmin at any time, between the reading and the writing of another included.

### AuthSessions

A request passes through interceptor, network, server and delivery; each is a step, and so
are losses. Tabs share the jar; `refreshing[tab]` is the module variable of `lib/api.ts`. The
refresh row lock and the two statements of a rotation are separate steps.

### Figures and ProjectFigures

Money is in integer kopecks; inputs are chosen so that the divisions of the allocation are
exact (`Exact`, an assumption TLC evaluates), because the code computes with `Decimal` (28 digits)
and rounds at the end. The roundings to kopecks *are* modelled where the code rounds: the
compensation per unit, its product with the quantity, and the deviation, each half away from zero.
Quantities are in 1/`QtyScale` of a unit and reference prices in 1/`PriceScale` of a kopeck, so that
half units and thousandths of a rouble occur. `Figures` keeps the three copies of the allocation apart, as in the code:
`crud/calculations.py`, the Excel report, and the supplier card. `ProjectFigures` adds the
requests that change lines, prices, corridors and exclusions, and the summary: one step per
query, with the commits of other requests between any two (`Write`; `summary.moved` counts them).

### StatusPolling

`cache`, `fetch` and `last` are the query cache, the fetch of each query and `lastStatus` of
the detector. What react-query does with a fetch, an invalidation or a seeded value is
external and modelled as far as the hooks use it. `doc.ends` counts how often processing
ended, so that data can be compared by age; `due`, `told` and `overtaken` are history.
`OthersReparse` is a reparse by another user or tab, which this tab learns of from an answer only.
`Bounds` is a set of combinations of reparses, failures and changes of page, so that one run explores
several; the theorems hold for every such set.
A fetch may fail with or without data to fall back on.

### QueryCache

A key is a sequence and an invalidation names a prefix, as in `queryKeys.ts`. A `Row` says
which tables the answer to a key is computed from (`Reads`); a `Hook` says which tables a mutation
writes and which keys its `onSuccess` names (`Invalidates`), one line for each hook of
`services/*.ts`. The server is a log of mutations; an answer is the length of the log when it was read. One
query is followed at a time, or two where one is the first data of another (`initialData` of
`useDashboardCalculations`). Keys that behave alike are followed by one of them (`Followed`).

### The screens

Each screen is one variable, a record that does not exist (`Gone`, `Closed`, ...) until the
page is opened. A request is a record that is sent, carried out on the server (or not), and
answered, in separate steps; the state of the server that matters to the screen is a field of
the record. What other users and background tasks do is an external step. Texts are numbers
of keystrokes, so that a property can ask where a text went.

* `InvoiceReview`: `over` are the overrides of the form, a copy of the whole invoice, over
  the cached `data`; the buttons are guarded as the page guards them, so that saving,
  confirming and reparsing overlap as far as it lets them. The page may open on a stale copy of the
cache, which is fetched again while the user types. A parse gives the invoice a new id;
  `drawn` is the last one, so that no id comes again.
* `InvoiceList`: `EffectiveSelectedIds` trims the selection, `ClampedPage` the page number. `marked`
  and `agreed` are history: the boxes the user has ticked, and those of them that passed the
  filters when a bulk deletion was confirmed. Others delete, confirm and reparse invoices meanwhile; a
  parse gives them new ids.
* `ProjectScreen`: React renders again until the state adjusted while rendering is stable;
  `Rendered` is that fixed point and part of every step.
* `Dialogs`: one machine; a record per dialog says what its component does with text, button
  and answer (`closes`, `guarded`, `mounts`, ...). Dialogs with equal records are followed once.
* `AccountScreens`: four small screens; passwords are numbers of generations, and a search for
  nothing is `"all"`. `stale` marks settings whose copy was typed into between the answer of an
  own save and the fetch that brings what was saved: until then the copy shows older values.

`App` follows one part of a page at a time. The parts share no variable: two parts of a page
meet in the query cache, whose invalidations `QueryCache` checks for all mutations, and on the
server, where the screens include the changes others make. `Route` is the table of routes
with both guards; a part runs only where a visitor can reach its page.

### Charts

Operators over the rows of `Figures`: `AggregateCalcs`, the bars and the banner of
`DeviationChart`, `MonthlySummary` of the server with `BuildFullSequence` and the totals of
`MonthlyTab`, and `Allocate` of the handbook. Months are counted from the start of the data.

## Runs and bounds

Passing runs:

| Run | Question | Bounds, and why they are enough |
|---|---|---|
| `processing` | Is there one attempt at a time, is no document forgotten, is no call charged twice, is every commit a step of the lifecycle? | 1 document: attempts of different documents share only the slot. 2 tasks and 2 attempts so that a second can overtake the first; 2 requests of every kind but bulk, deletion of the project included, to meet each other and the task; 3 invoices so that a swap replaces and one remains fresh; 2 failures so that a lost COMMIT is followed by a failing retry or a late landing; 1 crash. All mishaps but `late_commit`. |
| `processing_money` | Is each paid call charged exactly once, and which requests can wait for each other? | 3 attempts over 2 documents (accounting of an attempt must not leak into the next but one), 2 invoices, 2 requests (confirm, bulk, deletion of the project: a circle of two needs two rows), crash, cancellation, late commits, and no failure but those. `ChargedExactlyOnce` is asked without failure or crash. |
| `processing_liveness` | Does every attempt end? | 2 documents with 1 slot, so that attempts queue; 1 request, a bulk deletion over both documents or the deletion of the project; 1 database failure, 1 crash, cancellations. No symmetry. |
| `storage` | Are bytes, rows and objects kept together? | 3 uploads of one file (2 race, the third meets what they left), 2 different corrections, 3 further attempts, 2 failing calls (backup and overwrite), 1 crash, the deletion of the project at any time. |
| `suppliers` | Do copies, links and keys agree? | Three instances chosen at the start: every handler alone with 3 suppliers, 2 invoices, 2 INNs; two racing transactions of find/create/link/rename; two transactions of everything but merge. |
| `figures` | Do allocation, report, supplier card and charts agree, do the roundings stay within bounds, and does a summary add up while others write? | Five data sets, each exhausted subset by subset: invoices mixed in every way; overlapping prices and both levels of corridors over two months; half units and prices in fifths of a kopeck, where a deviation of less than half a kopeck is rounded away; and two for summaries (lines of every kind; compensation in two directions beside a class of type "other"), with 1 change between any two queries: the parts of a second change are changes of a summary that starts later. |
| `sessions` | Is a token exchanged once, is nobody stranded? | 3 calls over 2 tabs: two that share a refresh and one that meets it (login or logout). The tokens needed follow from the calls. |
| `polling` | Does a tab hear of every end of processing and stop, whoever started it? | Three instances (`MCBounds`), all interleavings of 3 queries: 1 reparse by the tab, 1 failing fetch, 1 change of page; 1 reparse each by the tab and by another user (the answer of the own click meets the transitions of two processings); 1 reparse by another user, 2 changes of page (away and back). |
| `frontend` | On every page: is text kept, is nothing created twice, deleted unseen or shown for something else; do users see their own changes; is the last active superadmin lost to nothing but a promotion? | Per part. Review: 2 edits, 2 requests, 1 change by others, opened on a fresh or a stale copy. Table: 4 invoices of 2 documents, the last of which only a parse brings, 4 clicks (select, filter, open, confirm), 1 change by others. Project: 4 clicks, 2 answers. Boxes: 2 suppliers, 5 clicks (a form for one and a box for the other). Dialogs: 2 rows, 7 clicks (open, type, submit, close, open another, type, submit). Uploads: 2 drops of 2 files, one dropped twice. Accounts: 4 clicks. Cache: 2 mutations, 2 openings, 1 failure. Users: 2 users and 2 requests, each the other's only colleague. |

`CHECK_DEADLOCK FALSE` in the processing, storage and frontend runs: uploads, attempts,
requests and clicks are used up by the bounds, and then the system rightly stops. The other runs check deadlock.
Symmetry is used for identities the code does not compare, and in no run with liveness.

What the properties say beyond the obvious:

* `OneAttempt` also says that a suspended attempt finds its row in `processing`: neither the
  pending window of an upload nor a late COMMIT lets another in.
* `NoZombie` and `EveryAttemptEnds` are two views of "no row stays busy": the first as a
  state (somebody is responsible), the second in time. Both exempt a row whose attempt ended in a database
  failure: the code leaves it to the next restart.
* `ErrorCarriesCost` relates what an error exit carries to what was paid; `NeverOvercharged`
  and `ChargedExactlyOnce` what reaches the row.
* `NoLockCycle` asks of every two requests that they wait for each other only if exactly one of them
  deletes the project; that pair does (see the [limits](#limits-of-the-code-that-the-models-show)).
* `KeepsSupplier`, `LostOnlyToPromotion`, `LoginOnlyWhenOver`, `TypedTextKept`,
  `ConfirmedIsOwn` and `DeletesOnlySeen` are action properties: what a step may never do.
* `LostOnlyToPromotion` is what is true of the rule "the last active superadmin stays": the step
  that breaks it is the write of a request that had loaded the row before another one made it a
  superadmin. `SelfServiceKeepsSuperadmin` is what the code promises of the organisation's own
  requests, by the rule (`crud/admin.py:9`) and by the matrix of rights (`routers/orgs.py:5-9`); it is
  refuted.
* `LoginOnlyWhenOver` leaves a tab the right to go to `/login` when its user has logged out,
  even before the answer of the logout is delivered: with four calls a login may come in between,
  and then a refresh still under way with the old header is answered 403 while the new session
  lives. The page leaves, as its user had asked.
* `Coherent` asks for name and INN with one transaction at a time, and for the INN alone with
  two: renames do leave old names behind under concurrency (see the limits), but not a foreign
  INN.
* `OriginalKept` and `ParsedIsStored` are about bytes, `RowHasObject` and `NoOrphan` about the
  pair of row and object, under failures, crashes and puts that land late. `RowHasObject` exempts
  documents whose deletion was interrupted between object and row (`torn`), `NoOrphan` the objects of
  documents that went with their project (`dropped`): both are limits of the code.
* `CopiesAgree` compares the independent implementations of one computation on every
  enumerated data set: report, supplier card, chart, months and handbook against the
  calculation; `AllocationConserves` compares the calculation with what was charged, and
  `DirectionReportsConserve` the reports of the single directions taken together: a filter that
  reached the denominators would break it.
* `CompensationWithinDeviation` counts with what three roundings can add: half a kopeck per unit and
  a kopeck. A compensation never stands against its deviation, but it may stand beside one that was
  rounded to 0.
* `SummaryAddsUp` is about the total and about the compensation of a summary: both are what
  its directions show. The compensation is so whatever others commit between the queries, the total
  unless they do (`moved`).
* `TypedTextKept` is asked of the review and of every dialog, `CreatedOnce` of every form that
  creates, `StoredAsTyped` of forms, settings and boxes, `AnswersShownRight` of uploads and
  passwords: one promise, all screens that make it. `TypedTextKept` exempts by name what the code
  does lose: text typed while an answer is due, edits of an invoice that a reparse has replaced, and
  the text of a dialog that closes on the click that sends it, when the request is refused.
* `ConfirmedIsOwn` compares what becomes confirmed with what was on the screen at the click,
  across reparses by others and copies that were stale when the page opened. What another user
  has *saved* since is exempt (`Other`): no version is compared.
* `DeletesOnlySeen` asks for both, the tick and the filter, as they were at the confirmation.
* `SeesOwnChanges` leaves out the keys a hook does not name (`Overlooked`, listed below); it
  says that what *is* invalidated becomes visible, and is never left to rest outdated,
  however fetches, answers and changes of page interleave.
* `TransitionSeen` and `FiguresCatchUp` are asked of a tab at rest that heard answers in
  order (`Informed`); `PollingStops` always. `FiguresCatchUp` exempts a detector that waits for the end
  of a processing another user began: a page since left saw it begin, and the page shown now rests on
  older data that counts as fresh.

Violated runs: see [findings](#findings).

## Fairness

`DocumentProcessing!FairSpec`:

* `SF(Section)`: the code between two awaits runs on by itself. When it waits for a row lock, the step
  is disabled until PostgreSQL, which queues whoever waits, grants the lock.
* `SF(TaskStep(t))`: ready queue and semaphore of asyncio are first-in first-out, so a task
  whose turn comes again and again gets it; S3, rasterizer and model calls have timeouts. Weak
  fairness would not do: another section may occupy the loop in between.
* `SF(RequestStep(r))`: a worker thread waiting for a row lock is queued by PostgreSQL.
* `WF` of `ServerCommits \/ ServerRollsBack`: the server settles an in-doubt COMMIT.
* `WF(Restart)`: a supervisor restarts the process.

Nothing makes people upload or click, and nothing makes a failure or a crash happen.

`StatusPolling`: weak fairness of timers, of answers, and of the end of processing (which is
`EveryAttemptEnds`). Nobody has to click or navigate.

The other modules claim no liveness: whether a user clicks again is not the code's business,
and a request that hangs is ended by the browser. `NobodyWaitsForever` is the safety form: when nothing is
on its way any more, no call is left waiting; as every call takes finitely many steps and no
state is a deadlock, this is termination.

## What is proved

For all values of the constants that satisfy `ConstantsAssumption` of the module
(`ValuesAssumption` of `App`, `FiguresAssumption` of the figures): special values are distinct from
identities, bounds are naturals, and sets are finite only where the model counts them or sums over
them (`Clients` of the suppliers, `Calls` of the sessions, invoices, directions and lines of the
figures). So the bounds of the runs are gone: any number of requests, clicks, keystrokes, drops,
failures, crashes, documents, tasks, tabs and users. What stays small in the screens is what the
model itself names: two fields of an invoice, four invoices of two documents, two
construction directions, two files per drop, two rows per dialog. The last column says what else a
theorem assumes; each reason is given below.

| Theorem | Property | Assumes |
|---|---|---|
| `TypeCorrect`, `SingleAttempt`, `ChargedAtMostOnce` | `TypeOK`, `OneAttempt`, `NeverOvercharged` | |
| `RequestsNeverDeadlock` | `NoLockCycle` | |
| `NobodyForgotten` | `NoZombie` | no `late_commit` |
| `EveryExitCarriesCost` | `ErrorCarriesCost` | no `db`, `odd_usage`, `cancel_raster` |
| `EveryCallCharged` | `ChargedExactlyOnce` | no `odd_usage`, `cancel_raster` |
| `CodeKeepsPromise` | `ImplementsLifecycle` (refinement) | |
| `CodeKeepsConfirmed`, `CodeKeepsBusy` | `Life!ConfirmedSurvives`, `Life!BusyKept` | |
| `ConfirmedKept`, `BusyDocumentKept` | the same of `DocumentLifecycle` | |
| `OriginalNeverLost`, `RowKeepsObject`, `InvoicesComeFromStored`, `NothingLeftBehind` | `OriginalKept`, `RowHasObject`, `ParsedIsStored`, `NoOrphan` | |
| `OneSupplierPerKey`, `CopiesStayTrue`, `SuppliersStay` | `RaceSafe`, `Coherent`, `KeepsSupplier` | |
| `ExchangedOnce`, `WaitsForARefresh`, `JarEndsLive`, `LeavesWhenOver` | `RotatedOnce`, `NobodyWaitsForever`, `JarHoldsLiveToken`, `LoginOnlyWhenOver` | |
| `SuperadminKept`; `AppKeepsSuperadmin` | `LostOnlyToPromotion`, of the users alone and of the whole application | |
| `TransitionIsSeen`, `FiguresFollow` | `TransitionSeen`, `FiguresCatchUp` | |
| `TextsAreKept`, `ConfirmationsAreOwn` | `TypedTextKept`, `ConfirmedIsOwn` | |
| `FormsStoreWhatWasTyped`, `RowsCreatedOnce` | `StoredAsTyped`, `CreatedOnce` | |
| `AnswersReachTheirOwn` | `AnswersShownRight` | |
| `ShowsTheChosen` | `ShowsWhatWasChosen` | |
| `DeletionsSeen`, `PagesHaveRows` | `DeletesOnlySeen`, `PageHasRows` | |
| `ChangesAreSeen` | `SeesOwnChanges` | |
| `CostIsShared`, `ReportsConserve`, `CompensationIsBounded` | `AllocationConserves`, `DirectionReportsConserve`, `CompensationWithinDeviation` | `InputsAssumption` |
| `SummaryIsConsistent`, `CopiesAreOne` | `SummaryAddsUp`, `CopiesAgree` | `InputsAssumption` |

**DocumentProcessing, the machine** (`DocumentProcessingProofs`). `Invariance`:
`Spec => []Inv`. `Inv` (in `DocumentProcessingInvariant`) is

* `TypeOK`;
* `LoopInv`, `TaskInv`: a task is "on the loop" exactly while a section runs for it, on the
  same document, and only while the process is up;
* `LockInv`: the server owns a row exactly while a COMMIT of it is in doubt;
* `AttemptInv`: one task per document, and while it waits its row is in `processing` with
  nothing in doubt. This is what makes `OneAttempt` inductive: it excludes that a late
  COMMIT puts the row where the guard would take it again;
* `PaidInv`, `CarryInv`: what task, section and in-doubt COMMIT can still charge is covered by
  `owed`. `NeverOvercharged` alone is not inductive: a step may charge what an earlier step
  committed to carrying;
* `NeverOvercharged`.

Each of Init, the ~50 actions and the stuttering step is one step of the proof.

**DocumentProcessing, what comes of it** (second half of the module). Six more invariants
stand on `Inv`.

* `OrderInv`: a request holds only rows of documents below those it has still to lock. Two requests
  that wait for each other's documents would each hold a row below the other's. This is the argument
  of `routers/invoices.py:501`. `DropInv` adds who may hold an invoice row while it waits: only a
  deletion of the project, which starts with them. Together: `RequestsNeverDeadlock`. It ends at the
  deletion of a project against another request, a limit of the code, and at the event loop, a finding.
* `SettlerInv`: a row at work has a section, a task or a sweep to come. A guard's COMMIT that the
  server finishes *after* the next process has swept takes a row at rest to `processing` with
  nobody to settle it, so `NobodyForgotten` excludes `late_commit`, as the run `processing` does.
* `AccountingInv`: what is carried to a settlement is what was paid. It excludes the two
  mishaps that lose a cost by themselves (see [limits](#limits-of-the-code-that-the-models-show))
  and, for `EveryExitCarriesCost`, the database failure that loses it before phase B's `try`,
  as the finding `phase_b_failure_loses_cost` shows. `BalanceInv` then gives `EveryCallCharged`.
* `OwnerInv`: every invoice belongs to one document or is still to be drawn; an in-doubt COMMIT
  fits the row it has locked; phase B owns the row it swaps; a request has locked, or has still
  to lock, every document of the invoices it was asked about. With it every action is a step of
  `DocumentLifecycle` or a stutter (`CodeKeepsPromise`; the mapping is the identity on the
  five shared variables): in particular phase B and bulk deletions change the invoices of no
  other document, and a confirmed invoice cannot appear between the check and the COMMIT.
  `ConfirmedSurvives` and `BusyKept`, proved of the lifecycle at the end of the module, then hold
  of the code's model.

**PdfStorage.** `StorageInvariance` adds to `OriginalKept` that a backup is the original or
nothing, that a put in flight or late to a key is a correction only if the backup is already
there, and that an attempt which believes there is no backup holds the original. This is the
argument of `processing.py:295-299`: a failing download must not be taken for a missing backup.
`RowsInvariance` adds who may be at work on a document (`PlaceInv`: its upload is over, an
attempt has made it busy, a deletion found it at rest), what that worker has read (`BytesInv`)
and, as long as nothing has failed, that no put is late and an object is gone before its row
(`QuietInv`).

**SupplierRegistry.** `Coherent` and `RaceSafe` are about several transactions that each see
their own version of the tables, so that the invariant `Inv` relates what is committed, what
each has written, and what each found and decided from. It has five parts:

* `Core`: at each point of a handler, what it has found; who has written a row owns it, and no
  two have written the same one;
* `KeysApart`: no two rows, committed or pending, have the same key: what the unique indexes
  (INN; name without INN) enforce on whoever inserts or renames;
* `InnsAgree`: where no INN is edited and nothing merged, each link, committed or pending, names
  a supplier that is there and has the INN copied beside it;
* `FoundAgain`: where suppliers are only linked, whoever lost the race for a key finds the row of
  the winner when it looks again, so that `get_or_create_supplier` does not fail;
* `OneAtATime`: with one transaction at a time, the invoices it sees match the rows it is about
  to leave, statement by statement: between the rename and its cascade they match the row as
  it was.

**AuthSessions.** Three invariants stand on each other.

* `Core`: which request of a call is under way, which refresh a tab knows of, who holds the row
  of a token. `RotatedOnce` and `NobodyWaitsForever` follow. It also counts: tokens handed out
  never exceed the calls answered by a login or a refresh, and the first; so the tokens of the
  model (one more than calls) never run out, and the bound hides nothing.
* `Sessions`: the token of an answer on its way is known to nobody else, and the token in the
  jar is live or about to be replaced. `JarHoldsLiveToken` follows.
* `Alone`: a tab that makes all the calls, while nothing is lost, has its refresh granted, and
  the calls repeated after it are not refused again. `LoginOnlyWhenOver` follows. The attempt to
  prove it without the exception for a user who has logged out failed, and TLC found the
  counterexample with four calls; see [above](#runs-and-bounds).

Before the proofs TLC checked these invariants on two instances (four calls in one tab, two
calls in two tabs).

**OrgAdmin and App.** The count that protects the last superadmin is made only if the row *as
loaded* was an active superadmin. A row that was, is counted; and a request that takes a superadmin
away after counting holds, from its count to its COMMIT, the lock of another one, whom nobody can
take away meanwhile. What remains is a row that was no superadmin when it was loaded and is one when
it is written: exactly the exception `LostOnlyToPromotion` names, and the one
`superadmin_lost_to_promotion` shows. In `App` the users go on independently of what screen is open
(lemma `UsersApart`), so the theorem carries over.

**StatusPolling.** What the two properties say of a tab at rest follows from what is due at every
moment before: `Inv` follows each fact on its way from the server over a fetch into the cache, then
to the detector, then to the figures. Besides types it is `Base`, which holds always (nothing
cached or on its way tells of a processing still to come, `Past`; without other users, an own click is
answered in time, `Answered`), and two parts that hold as long as no answer was overtaken:

* `Order`, whoever parses: the detector waits for an end that is not yet told (`Waits`), and after an
  end was told the status and the figures follow it, or are outdated (`Heard`, `Dash`);
* `Own`, while nobody else parses: a resting cache shows the document as it is (`Shown`), an answer on
  its way that tells of an end is current or already outdated by what is cached (`OnWay`), and
  the detector does not wait for an end that is already shown (`Seen`). With other users this
  fails, which is why `FiguresCatchUp` has its exemption.

**ProjectFigures.** The figures are folds over finite sets of rows. The induction theorems of the
library take an operator as parameter, which no installed prover can instantiate, so
induction is done by hand: among the subsets of a finite set that violate a claim there would be a
smallest one (`Smallest`, from the well-foundedness of the naturals), and removing one element
gives a smaller. `Sigma` is a sum with its summands as a function; the laws of sums (taking
an element out, adding, scaling, grouping, swapping two sums, summing over an image) are proved
of it once, and each fold of the model is shown to be a `Sigma`. On top of that:

* `DataSound`, the invariant of the data: lines are what was entered, perhaps with their class taken
  off; prices have distinct ids and are never of the type "other"; corridors are rules;
* `CostIsShared`: the portions of a pool, times the whole basis, are the pool times the basis of the
  classes, and these bases add up to the whole (`PortionsMakeUp`); then the sums over classes
  and over invoices are swapped (`Conservation`). That no portion is rounded is the assumption
  `Exact` of the model about what is entered; of the lines that requests and reparses leave it is
  proved (`PartSound`);
* `ReportsConserve`: the rows of a month fall into the reports of their types, and each keeps the
  shared cost it has in the whole;
* `CompensationIsBounded`: three roundings one upon the other, for any integers: the rounded price per
  unit is bounded (`PerUnitBounded`), and rounding is monotone and keeps signs;
* `SummaryIsConsistent`: `SummarySound` says of each query what the ones before it have left, of the
  total only while nothing has moved; rows are told apart by class and month, so no summand is lost
  in the set they form;
* `CopiesAreOne`: five lemmas, one for each copy. The report groups the lines of a class by invoice
  (`ReportIsRight`), chart and months add up group by group (`ChartIsRight`, `MonthsAreRight`), the
  card sees the rows of the one month there is (`CardIsRight`), and the example of the handbook
  divides two pools at once (`ExamplesAreRight`).

**App.** The parts share no variable, so each has an invariant of its own, with the
types of its record in it, and `Spec => []` of it is a temporal step on top. TLC had
checked all of them on states of the run `frontend` before (the cache's on 63 million states). What
each invariant adds to the property is what had to be found:

* boxes (`Boxed`): as long as no answer is outstanding, what is shown is what the server has, or
  is being fetched;
* project (`PageSound`): rendering adjusts state until it is stable, so that the proof is about the
  fixed point: `PageFits` holds of what a click hands to the rendering, `ShowsTab` of every
  result of it;
* table of invoices (`ListSound`): what is selected was ticked, and the rows of a bulk deletion under
  way were ticked and passed the filters when it was confirmed (`SeenFirst`). That no page is empty (`ListPlaces`) is a fact about places in
  a sorted list: `Sorted` gives each filtered row one place, and the clamped page holds some;
* account (`AccountSound`), one conjunct per screen: of two resets of one user only the last is
  due (`OneDue`); what a form of an organisation has sent is what it shows (`OrgSound`); a list turns
  its page only over answers to the search it shows; settings are compared field by field
  (`UntypedOld`, `FetchedBack`, `SentStays`, `CopyCurrent`);
* dialogs (`FormSound`): texts are numbered, and one a form has sent comes back in no other form
  (`Numbered`, `MadeOnce`); the request of a form is about the row the form was opened for
  (`OwnRow`); what the fields hold was sent or is still there (`KeptTexts`). The proof follows one
  record `Behaves` for every dialog, so that the nineteen records are looked at once;
* review (`ReviewSound`): an id stands for one parse (`IdsFit`), a text is known to the fields, a
  request or the server (`TextsKnown`, `EditsCovered`), and what a confirmation names is what
  the user saw of this id (`SeenIsOwn`);
* uploads (`SheetSound`): a job in the list belongs to the file it was made of through every
  answer (`OwnFile`), one request of a loop is under way (`OneUnderway`), and a document is
  parsed by one of its jobs (`FirstIsNew`, `ParsedOnce`);
* cache (`CacheSound`): after an answered mutation every key that is owed a new answer (`Owed`: a
  hook names it, or a seed comes of a key a hook names) is `Fresh`: what is shown was read after
  the mutation, or is outdated and unseen, or is being read. `KeyPrefixes` and `HooksReach`
  compute from the table of hooks and keys what each invalidation reaches; here the proof is a
  check of the table itself.

Attempts at these proofs corrected the model before they succeeded: settings typed into between the
answer of a save and its fetch are compared with older values (`stale`; TLC's bound had been too
small to show it); an id of an invoice must not come again after a reparse (`drawn`); a
calculation seeded from a summary that is still being fetched again may be late (`late`); and
places in the table had been given by a function that says nothing of rows that are equal.

**Only model-checked**:

* `EveryAttemptEnds` and `PollingStops`: liveness under fairness, which this prover cannot prove;
* the three violated runs, whose counterexamples are TLC's.

Every safety property of a passing run is a theorem.

`TypeOK` is an invariant of the processing run and a theorem (as `StorageTypeCorrect` and
`TypesKept` are); the other modules have no type invariant of their own, as their properties would
not evaluate on badly typed states, and in the proofs it is part of the inductive invariant.

TLC runs late commits across a restart (`late_commit`) for money only. The theorems without an
assumption cover them: the step itself is one the lifecycle allows (`Acquire`). But a row at rest
may then become `processing` after the sweep and stay so; the code relies on the server
noticing the broken connection before the next start.

## Findings

Each is a run that TLC ends with a counterexample.

1. `loop_waits_for_refused_request`: a synchronous handler locks a document and answers 404,
   409 or 422; its transaction stays open until the event loop closes the session
   (`database.py:26-31`). If the loop is already waiting for that row (guard, phase B or error
   write), neither ever goes on. `routers/invoices.py:501-502` says a common order of locks
   excludes deadlock; the loop is not a lock in that order.
2. `phase_b_failure_loses_cost`: the first two statements of phase B run before its `try`, so
   a database error there reaches the generic handler, which does not know the cost of the
   parse call (`processing.py:135`, against `processing.py:126`).
3. `superadmin_lost_to_promotion`: a superadmin of the organisation deactivates a user; after the
   request has loaded the row, the platform makes that user a superadmin and deactivates the other
   one. Rights and count are decided from the row as loaded (`routers/orgs.py:118`,
   `crud/admin.py:291`), so self-service takes the last active superadmin away: against
   `crud/admin.py:9`, and against the matrix of `routers/orgs.py:5-9`, which leaves superadmins to
   the platform. Nothing but such a promotion loses the last one (`frontend`, `SuperadminKept`).

## Limits of the code that the models show

Reachable in the models, accepted or undocumented in the code, and excluded from the
properties by name:

* a malformed `usage` of the provider, or a cancellation inside the rasterizer, loses a paid
  cost (`pdf_parser.py:216`, `pdf_orientation.py:184`): `ErrorCarriesCost` and
  `ChargedExactlyOnce` are checked and proved without these mishaps; `NeverOvercharged` is proved
  with them, and the run `processing` has them all;
* a project may be deleted while its documents are processed (`crud/projects.py:42`), and its
  deletion leaves the objects of all its documents in S3, with nothing failing;
* that deletion takes the invoices before it locks their documents; every other request, and phase B,
  does it the other way round. PostgreSQL aborts one of two that meet: an unexplained error 500, or
  a failed phase B and its paid result. The common order of locks of `routers/invoices.py:501-502`
  holds among the other requests (`RequestsNeverDeadlock`);
* an edit that renames a supplier writes the new name into invoices of other documents without
  locking those documents (`routers/invoices.py:369`; so does `crud/suppliers.py:47`): two such edits
  can wait for each other's invoices. `SupplierRegistry` has these writes and lets the server abort
  either (`Abort`); `NoLockCycle` is about documents and the invoices written under their locks;
* after a database failure of the error write a row stays busy until the next restart;
* two transactions: a rename, a merge or a deletion of a supplier may leave an old name in an
  invoice, or take the supplier off one (`crud/suppliers.py:47,62,135`,
  `routers/suppliers.py:150`);
* the Excel report counts shared cost in both rows of a class that has two dimensions in one
  invoice (`crud/calculations.py:599`); the supplier card compares prices across dimensions
  (`suppliers.py:428`);
* the total of a summary taken while data change may not be what its parts are
  (`routers/dashboard.py:191`);
* a compensation of a kopeck may stand beside a deviation of 0, as each is rounded by itself
  (`crud/calculations.py:332,343`);
* the successor of a token that is rotated during a logout stays valid (`routers/auth.py:183`);
  the shared refresh is per tab, so two tabs may race and one leaves for `/login`;
* a processing that ends before the first poll, or a slow fetch of the figures, leaves figures
  that are older than the status until the next navigation (`terminalTransition.ts:53,63`);
  a failing refetch of the list after a reparse stops the polling (`queries.ts:203`); a processing
  that another user began is known to the query that saw it and to no other, so that the next page
  may show the state before it for a minute;
* a deletion interrupted between object and row leaves a document without PDF
  (`routers/invoices.py:557`); backups are never deleted.

On the pages:

* keys a mutation changes and its hook does not name stay as they are until they go stale
  (a minute) or the page is opened again: `Overlooked` in `QueryCache` lists them, among them
  lists of documents and suppliers after an edited invoice, and supplier cards after a price;
  a first load under way is not restarted by an invalidation; calculations seeded from an
  invalidated summary count as fresh (`queries.ts:332-352`);
* review: text typed while the answer of a save is due is dropped with it (`Review.tsx:435`);
  after a save the form shows the old cached text until the fetch, and an edit on top of that
  reverts the save; edits by others are overwritten, and what another user saved since the page
  was read is confirmed unseen (`verify_invoice` compares no version); «Переразобрать» does not ask
  about unsaved edits, and a reparse by another user drops them with the invoice;
* table of invoices: the answer of a deletion closes a dialog that was opened for another row
  meanwhile, or clears a new selection;
* the link of a duplicate does nothing in a project without directions whose URL already names
  the errors; a failed summary leads to an error page and not to the tabs
  (`UploadJobRow.tsx:81` expects the tabs);
* the form «Исключить» is not disabled while a box has a request on its way, so that two
  requests may race (`ProjectPage.tsx:1481` says they cannot);
* the dialog of a price for one row is closed by the answer about another; two saves of one
  organisation may overlap, as its form is a new component each time it opens; corridors and
  roles have no guard against a request under way, and their dialogs close on the click: when the
  request is refused, what was typed is lost (`CorridorsTab.tsx:65-92`);
* after a lost answer, a form sent again creates a second row; if the second request of a new
  organisation fails, the organisation stays and sending the form again makes another
  (`AdminOrgCreate.tsx:39`); a password generated anew while the request is under way is dead;
  overlapping resets of two users may show a dead password;
* settings: the copy under edit hides what others save, and the differences sent may include
  fields nobody typed (`Settings.tsx:224` says otherwise); a model typed with blanks around it
  stays unsaved for ever, as the server strips them; the list of users may show an empty page
  when it is turned before the delayed search (`AdminUsers.tsx:31`);
* the INN of the target of a merge is not looked at again (`SupplierPage.tsx:129`);
* chart of deviations: a class priced in another unit counts as covered with a deviation of 0
  (`DeviationChart.tsx:245` against `calculations.py:326`), so that it shows a bar of 0 % where
  the summary has no figure; `ChartAgrees` is asked without such rows.

## What is not modelled

Command line and maintenance scripts (run on a stopped application), schema migrations (their
constraints are part of the models), logging and password hashing, configuration guards (pure
checks at start). Of the pages: layout, texts, formats, primitives of `components/ui`, and
pages that only show an answer (`SupplierPage` but for its dialogs, the dashboard of projects,
the handbook but for its example); `ReferencePrices.tsx` is not routed. In `Dialogs` one kind
of request of a dialog is followed at a time.

Inside modelled parts: the content of model answers, image sizes and compression; statistics
and fuzzy duplicates of suppliers; attributes of organisations; the normalisation of class
names and units; sums without VAT, the volumes and the list of invoices of a summary, the
summary by month without a direction (it adds quantities of all units), the cut of the chart
to its five largest bars, and the layout of the workbook. The find-or-create of a class of
materials (`crud/materials.py:78-119`) is only described in the hazards: phase B runs on the
event loop and meets no second phase B, so that it races with `POST /material-classes` alone,
and the unique index decides. The status of each part is in `PROJECT.json`.

## Plan

Order of writing: processing and its lifecycle first, as it moves money and data nobody else
can restore; then storage, suppliers, users, sessions, figures and polling; then the query
cache, the screens and their composition, and the charts. The proofs followed in the same order.

What would come next:

1. parsing: normalisation of units, class names and lines of a model answer (`pdf_parser.py`,
   `crud/units.py`, `crud/materials.py`) as operators checked against a reference definition;
2. two parts of a page at a time over one cache (the review beside the table of invoices);
3. composition of storage and processing, replacing the assumption of one attempt.
