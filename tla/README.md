# Verification of comms-crm-core

comms-crm-core is a sales CRM for telecom resellers: a NestJS API (`apps/api`),
a TanStack web client (`apps/web`), a shared validation package and the scripts
that deploy one instance per client. This directory holds TLA+ models of the
parts whose correctness depends on the order of things, the TLC instances that
check them, and theorems checked by TLAPS.

The API is one Node process per client in front of one Postgres database
(DEPLOY.md:126 relies on that). There are no threads, but every handler awaits
its database calls one by one, so between any two of them other requests, timers
and callbacks run. Only what the code puts into a `$transaction`, a promise
queue, an in-memory lock or `navigator.locks` is atomic. In the browser several
tabs share one storage, and every page works with copies of what the server
holds. That is where the models look.

## 1. Inventory

Each component with the state it keeps, what it does to it, what is hard about
it, and what makes it correct.

**Sales** (`sales/`). State: rows of `Sale`, the audit log, notifications.
Operations: `create`, `update`, `setStatus`, `setSeller`, `setBrscan`,
`setAudit`, `cancel`. Each reads the sale (`detail`), checks it against
permissions and settings, writes it, writes an audit entry (never failing the
request) and notifies (never failing the request). Hard: no handler writes under
the condition it read, so two requests on one sale overtake each other, and so
does an edit of a plan's price range. Correct
when a price that was checked fits the range of its plan, a sale is canceled once, the
history tells what happened, the seller hears about the sale, and only auditors
touch BRScan.

**Customers and addresses** (`customers/`, `sales/sale-address.ts`). State:
customers and their address catalog with one default. Operations: customer create
and update, which replaces the catalog, and `upsertCustomer`, `attachSaleAddress`,
`ensureCatalogAddress` inside the transaction of a sale or an imported line. Hard:
the catalog is read and extended under READ COMMITTED, and only some of the
writers hold the customer's row. Correct when a customer with addresses has one
default.

**Bank data of a sale** (`sales/direct-debit.ts`). A direct debit needs a bank and
an account holder, and another holder a CPF, which some users see masked. Hard: an
edit carries only what changed, on a copy that may be old. Correct when the row is
complete or empty, and holds what the editor saw.

**Authentication** (`auth/`, `users/`, web `lib/auth.ts`, `lib/api.ts`). State:
`Session` rows with the hash of the current refresh token, the refresh token in
`localStorage`, an access token and a `refreshPromise` per tab, the Web Lock.
Operations: login, refresh (which rotates the token), logout, password and status
changes, 401 handling. Hard: tabs share a token that every renewal replaces; the
server waits for argon2 between reading and writing the session. Correct when
nobody is signed out for no reason, and nobody stays in after a password change or
a deactivation.

**Users, roles and permissions** (`users/`, `roles/`, `permissions/`). State: users
with a reference number and a role, roles with permissions. Operations:
create, update, remove, each a check and a write in statements of their own, behind
a guard that reads the actor at every request. Correct when a reference is found
while there is one, no role disappears under a user, and nobody changes his own
rights.

**Demo sandboxes** (`prisma/sandbox-registry.ts`, `prisma/database-admin.ts`,
`demo/`). State: the map of sandboxes, the promise queue, the databases
`sbx_<id>`, `demo_template`, `demo_template_next`, the upload folders.
Operations: boot, login (`create`), requests (`client`), `release`,
`dropExpired` every few minutes, the rebuild of the template each day. Hard:
the map and the queue live in memory, the databases and folders do not; visitors,
sweeps and the rebuild overlap; statements fail. Correct when the limit holds,
what is served is a filled copy, nothing is left behind unaccounted, and every
login is answered.

**Demo data** (`demo/fake-data/`). A generated history of sales, changes,
notifications and one import. Hard: dates drawn in days before a business day that
begins three hours after midnight UTC. Correct when nothing that is told of as past
lies in the future and the records agree with each other.

**Spreadsheet import** (`imports/`). State: `ImportBatch` with statistics,
`ImportRow`, mappings, the import lock. Operations: `runImport`, `reprocess`,
mapping create and remove, the queries for what is unresolved. Hard: a line is
two writes without a transaction around them; names and keys are cached for the
whole run; the process may stop half way. Correct when no line is lost, no sale is
made twice, the statistics are those of the rows, and the lock comes back.

**Parser** (`imports/parser.ts`, `imports/import-csv.ts`, `common/csv.ts`). Reads
the uploaded text and writes the file of pending lines, which comes back corrected.
Correct when a cell comes back as it was read.

**Notifications** (`notifications/`, web `hooks/use-notifications.ts`,
`lib/notification-sound.ts`). State: `Notification` rows; in the browser the unread
count of every tab and the announced count they share. Operations:
`notifySaleChange`, `notifyNewSale`, `runDueCheck` (cron and by hand), mark read,
the poll of the bell. Hard: the due check reads what exists and inserts the rest
later; tabs poll at different moments. Correct when everybody concerned hears of a
due day, once a day, and an increase sounds in one tab.

**Change events and the query cache** (`change-events/`, web
`hooks/use-change-events.ts`, `hooks/use-*.ts`). State: the open streams, the cache
of answers, fetches under way. Operations: publish after an audit entry, connect,
expire, reconnect, invalidate in batches, fetch. Hard: events published while no
stream is open never arrive, and a fetch may bring an answer from before the
change. Correct when a visible page comes to show what the server has and never
goes back.

**Attachments** (`attachments/`). State: `Attachment` rows, files, temporary files.
Operations: upload (quota, row, folder, file, path), download, remove. Hard: row and
file are not written together; the quota is counted before. Correct when every
row has its file, every file its row, and the quota is exceeded only by uploads
admitted together.

**Plans and settings** (`plans/`, `settings/`, web `hooks/use-settings.ts`). State:
plans, the ordered lists of statuses and the like, two single-row settings. Hard:
a list is reordered in the cache of a tab before the server answers. Correct when
every tab ends with the order of the database.

**Postal codes** (`postal-codes/`, web `hooks/use-postal-code-lookup.ts`). A
bounded in-memory cache in front of two providers asked at once; a form that asks
while the user types on. Correct when an answer fills only the address it is for.

**Web pages and forms** (`routes/`, `hooks/use-sale-form.ts`,
`lib/sale-form-schema.ts`, `components/sales/`). State: what is on display, copies
of the user and the sale, the fields of a form. Hard: who may do what is written a
second time in the client, and decided from copies; a sale is created and its files
are sent one by one afterwards. Correct when what is offered is admitted, a form
never mixes two customers, and a sale is made once.

**Reports** (`reports/`). Figures that are each filtered on their own, by the date
of the sale or of the installation. Correct when the parts add up to the whole.

**Audit log** (`audit/`). `record` computes the difference of two snapshots,
inserts the entry and publishes the change; an insert that fails is logged and
lost.

**Validation, logging, deployment**: formats of single fields, plumbing, and
shell scripts run by hand; see section 7.

How they interact: SalesService calls PermissionsService, AuditService and
NotificationsService in sequence; AuditService publishes to ChangeEventsService;
ImportsService writes sales and customers past SalesService; AttachmentsService asks
SalesService whether the actor sees the sale and stores files in the folder
SandboxRegistry deletes; PrismaService picks the database of the sandbox of the
request; UsersService deletes the sessions AuthService rotates; the web client
renews on any 401 and refetches on change events.

`PROJECT.json` lists each component with its status, and under `hazards` what is
hard to test, at its line.

## 2. Modules

| Module | Models | Checked by | Theorems in |
| --- | --- | --- | --- |
| `Sales` | SalesService, with audit and notifications | `MCSales` | `SalesProofs` |
| `SandboxRegistry` | SandboxRegistry, DatabaseAdmin, TemplateBuilder, DemoScheduler, demo login and logout, uploads into a sandbox | `MCSandboxRegistry` | `RegistryProofs` |
| `Sessions` | AuthService, UsersService on sessions, the browser's tabs | `MCSessions` | `SessionsProofs` |
| `Imports` | ImportsService, ImportLock, mappings | `MCImports` | `ImportsProofs` |
| `Ledger` | abstract: a line is settled once and for good, and a key keeps its sale | instantiated by `Imports` | |
| `LivePages` | the query cache, change events and their stream | `MCLivePages` | `ServerProofs` |
| `Mirror` | abstract: a page shows a moment of the tables, and no older one than before, but for a list put back | instantiated by `LivePages` | |
| `Pages` | what every page fetches and offers, what the API requires | `MCWeb` | `WebProofs` |
| `SaleForm` | the form of a new sale, POST /sales on customer and address | `MCWeb` | `WebProofs` |
| `SaleEdit` | the form of an edit, PATCH /sales/:id on texts, dates and bank data | `MCWeb`, itself | `WebProofs` |
| `AddressLookup` | the postal code of a form, PostalCodesService | `MCWeb` | `WebProofs` |
| `Bell` | unread count and sound in several tabs | `MCWeb` | `WebProofs` |
| `ValueLists` | the order of a settings list, in the database and in the tabs | `MCWeb` | `WebProofs` |
| `DueCheck` | runDueCheck by cron and by hand | `MCServer` | `ServerProofs` |
| `Customers` | CustomersService, and the customer part of sales and imports | `MCServer` | `ServerProofs` |
| `Administration` | UsersService, RolesService, the permissions guard | `MCServer` | `ServerProofs` |
| `Uploads` | AttachmentsService, the upload interceptor | `MCServer` | `ServerProofs` |
| `DemoData` | buildDemoDataset | `MCServer` | `DataProofs` |
| `PendingCsv` | parseCsv, pendingCsv, the guard against formulas | `MCServer` | `DataProofs` |
| `Revenue` | ReportsService.revenue, aggregateRevenue, the two pages that ask | `MCServer` | `DataProofs` |

`MC...` modules give the constants values for TLC; `...Proofs` modules hold the
theorems, and `Lemmas` the facts about numbers, sums and sequences that several of them
use. Every run and every mapped definition is listed in `PROJECT.json`.

`MCWeb` and `MCServer` each check several small models in one run. The models
share no variable, so the variable `part` chooses the one that moves, and the
others rest in one fixed initial state. The states of such a run are those of its
parts one after the other, and an invariant of a part is checked in all of the
part's states, from all of its initial states.

### Sales

One request is a state machine `pc[r]`: `new`, `read` (it holds the row of
`detail`), `checked`, `stored` or `written` (`stored` where the code reads the
sale again before the audit entry), `audited`, `done`; or
`refused` where the code throws, or `lost` in a restart. `before`, `base` and
`after` are the handler's local variables of these names: the row it decided on,
the row the audit compares with, and the row its write returned. `store` is the
table, `log` the audit log, `told` the notifications of a sale. A row has the
fields some check or claim reads: status, seller, plan, amount, brscan, auditNote
and the three cancel columns as one. The DTO fields may be left out (`Keep`), as
in a PATCH.

`ToggleActive` and `ToggleEligible` let an administrator (de)activate plans,
statuses and sellers between any two steps. A plan's range is state (`minPrice`,
`basePrice`): `ReadPlan` and `WritePlan` are the two halves of a PATCH of it, which
checks the range that would result from the row it read and writes only the ends it was
given. `Restart` stops every request and every such PATCH;
an audit insert or a notification may fail, which the code swallows.

The history variables `replaced` and `raced` remember the row each write really
replaced and whether it was the one the request had read; `doubtful` and `outdated`
are the sales and the requests under way whose price nobody checked against the range
their plan has now. They are what the properties are stated with: the code promises
nothing to requests that overtake each other, and the runs show that nothing else can
go wrong.

### SandboxRegistry

`sandboxes` is the map, a function whose domain are the ids in it; `queue` the
promise chain of `exclusive`; `content[d]` what a database holds; `folders` the
directories of uploads; `at[a]` the next step of an actor: a visitor, a sweep of
`dropExpired`, or the daily rebuild. The rebuild is six statements (drop, clone,
fill, disconnect, drop, rename), a release four (leave the map, disconnect, drop
the database, remove the folder), and in any of them a statement may fail or the
process restart. Idle time and age are counted in ticks up to `IDLE + 1` and
`LIFETIME + 1`, just past the limits the code compares with.

`leaked` is a history variable: what a failed release left behind.

### Sessions

The server's row (`sessions`), the browser's storage (`stored`), Web Lock
(`lock`) and, for each tab, `access`, `promise` (`refreshPromise`) and `renewal`.
A renewal is: take the lock, read the token, send it; the server reads and
verifies, then rotates; the answer is stored, or refused, or lost. A request
whose tab was reloaded still rotates for nobody (`rotating`). A token is a
session and the second it was issued in, so two tokens of the same second are
the same token, as in the code. `HasLocks` is FALSE for browsers without
`navigator.locks`.

### Imports and Ledger

`rows` is the table, a set of records; `sales` the sequence of sales written,
each with the line it was last written from; `running` the lock. A request opens
(creates the batch with statistics `{}`, or reads the batch and its pending
rows), loads its caches, goes through its lines and closes. `Apply` is the
transaction that writes the sale and the key's bucket in memory, `Record` the
later write of the row; the line is `Skip`ped when its hash was seen, `Hold` writes
it as pending when a name is unknown or its key has several sales. Every
statement may fail: inside a line the catch writes a pending row, outside it the
request fails and the finally gives the lock back. `lost`, `damaged` and `cut`
remember sales without a row, batches whose counts a fault spoilt, and batches
whose import never wrote its statistics.

A line is a model value with a dedupe key (`KeyOf`) and the names it needs
(`Needs`), where a mandatory field it lacks is a name nobody can add.

`Ledger` is the promise about all runs together, without locks, caches and faults: the
lines of the sheets wait or are settled, a key has no sale yet or one for good, and a
sale is written from lines of its key alone. `ImplementsLedger` is `Ledger!Spec`,
with the pending rows as `waiting`, all other rows as `settled` and `SalesOf` as `sold`.
A sale whose row was never recorded is a `Write` that no `Sell` follows, which is
why the key may then be given another one.

### LivePages and Mirror

A table is the number of times it has changed, an answer the numbers of the tables
it was made from (`Reads`, by the hooks' endpoints). `data`, `stale` and `flights`
are what TanStack Query keeps for each query: the answer, whether it was invalidated,
and the fetch under way, which the server has read (an answer) or not (`NULL`).
An operation commits, then writes its audit entries and announces them (`Publish`);
an event is on the `wire`, then in `pending`, then flushed. The stream is closed,
connecting, open, expired by its token or broken, and only the visible tab has one.

`unheard` is a history variable: the tables a query may lag behind without anybody
telling it. It is filled by a change before the first connection (only a reconnection
invalidates), a fetch without earlier answer that an invalidation does not start
anew, a failed fetch, and by the table `Unannounced`: what a query reads though no
event of that entity invalidates it. That table is not a choice of the model, it is
what `lib/change-events.ts` leaves out; for instance a change of a customer does not
refresh the list of sales that shows the customer's name, although
change-events.spec.ts:43 promises for users, plans and domain values that a change
"refreshes sale screens when a name they show changes", and `reprocess` writes no
audit entry of its batch, so the other tabs keep the old statistics.

One hook writes the cache itself: `useReorderDomainValues` (`Drag`, `GiveBack`). A drag
gives up the fetch under way, shows the rows it has in the new order and remembers the
list it had (`previous`); the server stores the order (`CommitDrag`) or the request
fails (`BreakDrag`, `Restart`), and a drag that failed puts its list back, however much
newer the one on display has become by then, and asks for both lists again
(`ReorderHook`). What order a list is shown in, and how several drags settle, is
`ValueLists`; LivePages has which moment of the tables its rows are of.

`Mirror` is the promise: a page shows the tables as they were together at one moment,
and never an older one, with the exception the code makes: a list the user puts in order
(`ByHand`, the query "domain-values") may go back to what it showed when a drag began
(`Arrange`, `GoBack`, `Forget`). `NeverOlder` is `Mirror!Spec` with `shown <- data` and
`kept <- KeptLists`, the lists of the drags that have not settled. Without `GoBack` the run
finds a counterexample: a drag, a change by somebody else that is fetched, then the
refusal. Signing out empties the cache (`queryClient.clear()`, routes/_app.tsx:57) and
ends the behaviour.

### Pages, SaleForm, SaleEdit

`Pages` has one operator per page: the requests it fetches with, those it makes of
everybody included, and those it offers, from the client's copy of the permissions
(`known`) and of the sale (`seen`); and one for what the API requires of each request,
from the database (`granted`, `sale`). Permissions and sale change at any time.
`Unasked` lists what a page asks or offers without looking at the permissions: the
dashboard fetches the revenue, other pages the users, customers and roles they filter by
or list. Such a request is excepted (`DeadEnds`) of a user who lacks a right it needs,
and of nobody else; these refusals are part of the code (section 6).

`SaleForm` abstracts personal data to the person it describes: a field holds the data
of p, and the property `NoMixUp` is about fields of two persons in one sale. The rows
of a catalog are known by the number of their last replacement, because an update of a
customer deletes and creates them all. Answers of POST /sales may be lost; the button
stays enabled while the page of the new sale loads (`lateClicks`).

`SaleEdit` has one field of each kind that form and server treat differently: a text
that a blank does not clear, a date that it does, the bank data, and the CPF that some
editors see masked. Others write between the copy, the check and the write, and the
editor goes on typing while the request is under way, because only the button waits
(sale-form.tsx:170). `submitted` remembers what the form showed when it was sent; the
request is made of that (use-sale-form.ts:273-281). After an error the form stays as it is
by then; after a success its page is left, and what was typed meanwhile is gone. Leaving
the page before the answer is not modelled: the request goes on as if nobody had left.

### AddressLookup, Bell, ValueLists

`AddressLookup`: `mounted` numbers the form fields on display, so that an answer for
fields that have gone finds nobody; `lookups` are the requests under way with what each
provider has said; `cache` is the service's map in insertion order.

`Bell`: `unread` is the count of the server; a poll carries the moment it was counted
at. `announced` is shared by the tabs through `localStorage`, `previous[t]` is the tab's
own. `late` counts answers acted on after another tab acted on a newer one.

`ValueLists`: `drags` are the mutations of `useReorderDomainValues`, each with the
list it would restore; `fetch` the request for the list, `heard` the event that is
still to be flushed.

### DueCheck, Customers, Administration, Uploads

In all four a request is a read and a later write, and a history variable names what
was overtaken: days on which runs overlapped or went past midnight (`overlapped`),
catalogs written under a transaction that held no lock (`unguarded`), requests during
which another one finished a write (`raced`), uploads admitted together (`crowd`).
`DueCheck` counts the sales of a target and groups them by seller in one step, and no
sale is added during a run.
`Customers` takes READ COMMITTED as: a statement sees what is committed; a transaction
that updates the customer holds its row until it ends, one whose user may not change
the customer only reads it.
`Uploads` has every statement of upload and removal as a step that may fail, and a
crash that stops them all.

### DemoData, PendingCsv, Revenue

Pure computations, stated as such and checked over all bounded inputs. `DemoData`
replaces the random generator by a choice, and a draw from an interval by a choice of
one of its ends. `PendingCsv` goes through texts character by character, because quotes,
separators and guards are characters: the special ones each have a name, and whether
one is a digit is the only thing asked of the others. The file that comes back is
either read or, if it ended within quotes, `"unreadable"`. `Revenue` builds the figures of the two pages from
every small set of sales, canceled or not, installed or not, in five months.

## 3. Runs

Every run finishes in less than four minutes with two workers. The two "violation" runs show a
disagreement between the code and what a comment or a test says; each is
quoted in `PROJECT.json` under `findings`.

| Run | Checks | Instance |
| --- | --- | --- |
| `sales_races` | HistoryExact, CanceledOnce, SellerHears, BrscanByAuditors | 3 requests on one sale, 2 overlapping plans, amounts below, in and above both |
| `sales_settings` | PriceInRange | 2 requests (creates, updates of plan and amount, cancel, change of seller), sales in and out of their range, 3 edits of price ranges, 2 changes of settings, 1 fault |
| `registry_safe` | WithinLimit, RefusedOnlyByFault, ServedIsFilled, StorageAccounted | 2 visitors, one of whom uploads, 1 sweep, the rebuild, limit 1, 1 fault |
| `registry_live` | LoginAnswered, TemplateReturns, SandboxesEnd | 1 visitor, 1 sweep, 1 fault |
| `sessions_safe` | RefusedForAReason, OldPasswordGone | 2 tabs, 2 sessions, tokens of the same or a later second, 1 change, 1 fault |
| `sessions_live` | RenewalEnds, DeactivatedIsOut | 2 tabs, 1 session, 1 change, 1 fault, tokens of a session not told apart |
| `sessions_stuck_promise` | violation of RenewalReadsLatest | 1 tab |
| `imports_runs` | StatsExact, RowPerLine, SalesOnce, LockFreed | 2 imports, 1 reprocessing, several files, 2 faults, 1 mapping |
| `live_pages` | PagesCatchUp, NeverOlder | each query alone, and a sale with its history; 1 operation of 15 and a drag, 1 fault, 2 moves |
| `web_pages` | OfferedIsAdmitted; NoMixUp, SoldOnce; RowConsistent, SavedAsShown; FilledForItsCep; SoundsOnce; ListSettles | all permissions, all but one, one alone; 2 persons, 1 edit, 1 lost answer, 2 sales; 1 edit by others, 1 input while a request is under way; 2 postal codes, a cache of 1, 2 lookups; 2 tabs, 2 arrivals, 2 reads; 2 values, 2 tabs, 2 drags |
| `server_parts` | ToldOnce, RunCovers; OneDefault; ReferenceFound, RoleKept, OwnRightsByOthers; UploadsAccounted; DemoHistory; ComesBack; ReportAddsUp | 5 days over the end of a month, 2 runs; 2 documents, 2 addresses, 3 requests of which 2 overlap; 2 users, 2 roles, 3 references; 3 uploads, 2 removals, a quota of 1; 2 sales of 7 ages built at 3 hours; texts of 4 characters in 2 columns, of which the first decides whether a line has a sale; 2 sales in 5 months |
| `sale_edit_mask` | violation of FallsBackToStored | the instance of `web_pages` |

The type invariants of the larger modules are theorems (section 4) and are not checked
again by the runs.

**Why the bounds are enough.** A request of Sales touches one sale, and what a
race does to it needs one writer between a read and a write; the third request
of a run is there to be overtaken while it overtakes. A second sale adds
nothing, because no check reads another sale. `sales_races` uses that the
requests are alike (`SYMMETRY`): its invariants and the one action property
speak of all requests in the same way, and nothing temporal is checked there;
the same holds of `registry_safe` and `sessions_safe`. The queue of SandboxRegistry is fair
and its tasks are independent, so two visitors, a sweep and the rebuild give
every pair of tasks in every order; a limit of 1 is reached at once, and the
second visitor meets it. Two
tabs give every interleaving of two renewals, and two rotations tell the
current token and the replaced one; `sessions_live` does not tell them apart, since
whether a renewal ends does not depend on what it was refused for, and ended sessions,
a deactivated user and an expiry refuse enough of them. In Imports the files hold a repeated
line, two versions of a sale in both orders, a blocked line and a blank one, so
every branch of a line is taken in the first and in a later run. `MaxFaults`,
`MaxChanges` and `MaxSettings` bound how often the environment interferes; one
fault at any place shows what that place recovers from, and two in
`imports_runs` let a recovery fail as well. The queries of LivePages do not
interact but through the shared stream, so each alone, with every operation, meets
everything that can happen to it; a sale and its history together show that one of two
invalidations is not taken for the other. Two persons, tabs, postal codes, users or
drags are the least that can be mixed up, and a second one is there in every part; three
uploads meet a quota of one twice. The calendar has a month that ends, so that one due
day comes up twice within a run's horizon. Texts of four characters hold a quoted
quote, and a guard before a formula inside a second cell. The bounds that the
theorems of section 4 do without are the ones a reader need not argue about.

**Deadlock** is checked except where the system may stop: a finite set of
requests has been answered (the Sales runs, `live_pages`, `web_pages` and
`server_parts`), or the finite supply of session
ids and tokens is used up (`sessions_live`). In Imports the action `Finished`
says that all requests have been answered.

**Fairness.** Weak fairness of the steps a handler, timer or queue takes by
itself once it has begun: the event loop runs every callback, and a statement
answers or fails. No fairness for what people do (log in, upload, log out, send
a file, open a page) nor for faults. In SandboxRegistry time passes, the sweep and the daily
rebuild start again and again because `setInterval` and cron do. In Sessions
`Acquire` is strongly fair: `navigator.locks` grants a lock in the order of the
requests, so a tab that keeps asking while others take turns gets it. Access
tokens expire (weak fairness of `Expire`), because time passes. In LivePages the
server reads and answers, a drag is stored and a failed one put back, a stream that was
asked for opens, a broken one is asked for again, and `setTimeout` flushes. The suites `MCWeb` and `MCServer` check safety only.

**Abstract specification.** `live_pages` checks that the cache, the stream and the
refetches implement `Mirror`; `NeverOlderHolds` proves it. `LedgerImplemented` proves that
the import, with its lock, caches, faults and crashes, implements `Ledger`.

## 4. Theorems

Every safety property that the runs check is also a theorem, for every value of the
constants. The constants are subject to the
`ASSUME` of their module alone (`SalesAssumption`, `ImportsAssumption`,
`RegistryAssumption` and so on): inputs are well-formed, limits are natural numbers,
and the special values (`NULL`, `NoSale`, `Blank`, ...) are none of the real ones.
TLC evaluates each of them in the runs. The bounds on faults, edits and requests,
which make the instances finite, are constants too: the theorems hold for each
value of them.

None of the properties is inductive. Each proof names an invariant that is, has a
step per action, and where many actions have few effects it classifies them first.

**Sales** (`SalesProofs`). `TypeCorrect`, `PriceSafety`, `CancelSafety`,
`BrscanSafety`, `HistorySafety`, `SellerSafety`. One invariant, `IInv`, carries them:

- `TypeOK`, which is not enough: it does not say that a request past its first
  read has a row in `before`, nor that the row's sale still exists;
- `FreshIds`: a create draws an id no other request and no row uses;
- `RowsHeld`: who has passed a read holds the row, and no step deletes a sale;
- `PriceChecked`: a request that passed its checks and sets plan or amount was
  checked with an amount in the range of the resulting plan, and still is unless that
  range was edited since.

`Invariance` proves it, one lemma per conjunct. What a write leaves is what was checked
unless the half of the price it leaves alone is another one by now (`StalePrice`), and
an edit of a range touches the sales of its plan alone, which together give
`PriceSafety`. The plans' ranges are subject to no assumption. The other theorems each add one conjunct, inductive relative to
`IInv`: `CancelInv` (a sale canceled stays canceled, a cancel past its check has read
a sale that was not), `BrscanInv` (who may touch brscan was settled by the first
read), `HistoryInv` (the entry about to be written compares the replaced row with the
written one), `SellerInv` (whoever is seller was appointed by a request that notified
them, owes it or lost it).

**Imports** (`ImportsProofs`). `TypeCorrect`, `NoLineLost`, `NoDuplicates`,
`StatisticsExact`, `LedgerImplemented`. `IInv` adds what the code relies on and writes down nowhere:

- `LockHeld`: at most one run is under way, so what a run read stays true until it
  writes it itself;
- `BatchesOpen`: the lines a run still has to do have no row, or a pending one;
- `RowsTrue`: one row per line, with that line and a sale that was written;
- `CacheTrue`: the buckets in memory hold every recorded sale and one per key,
  which is why a second sale is never created for a key that has a recorded one.
  Within a run the bucket also holds a sale whose row could not be written,
  because `Apply` fills it and not `Record`; the next run has forgotten it;
- `HandTrue`, `OneEach`: between `Apply` and `Record` the sale in hand is the one of
  the bucket, and the rows of a key name one sale;
- `SalesAccounted`, `LinesAccounted`: a sale is recorded, in hand or lost; a line
  has a row, is still to do, or belongs to an import that was cut short.

`StepKinds` says what a step does to rows and sales: a run starts, skips a blank line,
fails, writes a sale, writes a row, stops, or does nothing to either. The statistics
rest on `IInv` and on `StatsInv`: none of the rows an import still has to write is there
(`FirstPass`), so what it has counted are the rows it wrote and the blank lines it came
past (`CountsTrue`, `BlanksCounted`, by cardinality lemmas about a row added); a
reprocessing counts the rows themselves and keeps the number of blank lines
(`StatsTrue`).

`LedgerImplemented` maps each kind of step: a sale written is a `Write` (a new one only
for a key without a recorded sale, by `CacheTrue`), a row written is a `Wait`, `Pass` or
`Sell` of its line, which no settled row has (`BatchesOpen`: the lines of a run have no
row or a pending one, because the lock keeps other runs away), and every other step
stutters. No run lists `ImplementsLedger`: the theorem covers it.

**SandboxRegistry** (`RegistryProofs`). `RegistryTypeCorrect`, `WithinLimitHolds`,
`ServedIsFilledHolds`, `RefusedOnlyByFaultHolds`, `StorageAccountedHolds`, all from
`RegistryInv`: each actor does steps of its own kind (`OwnSteps`); while the server
boots nobody is served (`Booting`); who creates a sandbox is at the head of the queue,
so the place it counted stays free and nobody knows its id (`Cloning`); a sandbox leaves
the map before its database goes (`Releasing`); and a template in place is a filled one,
which without a fault is missing only between the drop and the rename of a rebuild, when
nobody else has the turn (`Rebuilding`).

**Sessions** (`SessionsProofs`). `SessionsTypeCorrect`, `RefusedForAReasonHolds`,
`OldPasswordGoneHolds`. A renewal under way has its promise and a token (`UnderWay`); with
`navigator.locks` there is one at a time (`OneRenews`); and until something ends the
session the token it sends is the latest (`Undisturbed`). `RefusedForAReason` needs
`HasLocks`; without locks one tab may send the token that another has just replaced.

**LivePages** (`ServerProofs`). `NeverOlderHolds`: `LivePages` implements `Mirror`.
`MirrorInv` says that a query has one fetch at most, and that an answer on its way is of a
moment the tables have reached and no older than what the page shows; `DragInv` says the
same of the list that a drag would put back, which is why the page can go on from there
without meeting an answer older than it. Every step is then a change of a table, a showing of
a moment that is no older, a drag that begins, is put back or is forgotten, or a stutter
of `Mirror`.

**DueCheck** (`ServerProofs`). `ToldOnceHolds`, `RunCoversHolds`. On a day without
overlap there is one run at a time, of that day (`Alone`), so what it read is all there
is and it inserts nothing of it (`ReadTrue`); whoever a target it counted concerns is
among what it read or what it is going to insert (`CountedCovered`).

**The smaller services** (`ServerProofs`).

- `ReferenceFoundHolds`, `RoleKeptHolds`, `OwnRightsByOthersHolds` (`AdminInv`): a number
  above the greatest reference is free (the greatest exists by well-founded induction
  on the natural numbers), and a request that no other write has overtaken still finds
  what it checked (`StillChecked`).
- `OneDefaultHolds` (`CustomersInv`): one transaction at a time holds a customer's row
  (`OneHolder`), what it read of the catalog stands (`ReadStands`), and what it leaves has
  one default (`SingleDefault`; lemmas about `withSingleDefault` and
  `ensureCatalogAddress` for every list of addresses).
- `UploadsAccountedHolds` (`UploadsInv`): a row comes once, and its path
  after its file (`RowsOnce`), and rows plus admitted uploads exceed the quota by the
  crowd at most (`PlacesBounded`).

**What is computed from the data** (`DataProofs`). The prover cannot instantiate the
library's induction theorems, so `Lemmas` states induction with sets: a set of numbers
that has 0 and goes on from each number has them all (`EachNumber`, from the least
number of a set), and a family of sets that has the empty one and goes on as an element
joins has every finite set (`EachPart`). From these follow what a sum and a
concatenation are, though the community modules define both by recursion: `SumIs`,
`SumByKey` (the sums over the parts that a key divides a set into make up the sum) and
`FlattenIs` (where each part stands in the concatenation).

- `ReportAddsUpHolds` (`RevenueInv`): for any finite book of sales, any integer months and
  amounts. The plans divide the counted sales of the month by plan, and the six months
  divide those of the window by month (`PlansAddUp`, `MonthsAddUp`).
- `ComesBackHolds` (`CsvInv`): for any text, any number of columns and any messages. What
  the reader stores is trimmed and not a guarded formula (`CellIsClean`), and of such
  cells it is the inverse of the guard (`GuardInverse`). A written cell is read back
  character by character (`UnquotedRead`, `QuotedRead`, `CellRead`), then the cells of a
  line (`LineRead`) and the lines of a file (`FileRead`). The bounds of the run, texts of
  4 characters, are gone.
- `DemoHistoryHolds` (`DemoInv`): for any ages, hours and lengths. Of the generator it
  uses no more than that a draw lies in its interval, so the theorem also covers what the
  instance leaves out when it draws the ends only.

**The pages and forms** (`WebProofs`).

- `OfferedIsAdmittedHolds`: any sets of permissions. The invariant is only that a page is
  on display; the rest is a comparison of what each page fetches and offers with what guard
  and service require, request by request. A request that a page makes of everybody is
  excepted only for users who lack the right, so the theorem says that nobody who has
  it is refused.
- `NoMixUpHolds`, `SoldOnceHolds` (`FormInv`, `OnceInv`): the fields are those of the
  customer on display (`FormTrue`), the payload is of the person it names
  (`RequestTrue`), and the sales made are no more than the answers the form lost, the
  late clicks, and one it knows of or is about to (`Made`).
- `RowConsistentHolds`, `SavedAsShownHolds` (`EditInv`): the request is of the form as
  it was when it was sent (`SentTrue`), and so is what the server decided on the row it
  read (`CheckedTrue`), for any number of inputs and edits by others meanwhile.
- `FilledForItsCepHolds`, `CacheBoundedHolds` (`Latest`, `CacheBounded`).
- `SoundsOnceHolds` (`BellInv`): sounds, with the one that is owed when what was
  announced is less than the newest count (`Owed`), are bounded by arrivals and late
  answers.
- `ListSettlesHolds` (`ListInv`): a tab that has heard of every change is getting the list
  as it is, and shows it when nothing is under way.

**Model-checked only.** Liveness (`LoginAnswered`, `TemplateReturns`, `SandboxesEnd`,
`RenewalEnds`, `DeactivatedIsOut`, `LockFreed`, `PagesCatchUp`), because the prover
treats neither fairness nor ENABLED.

## 5. Findings

1. `tryRefresh` (auth.ts:88) returns before its `try ... finally` when no token is stored,
   so `refreshPromise` stays settled to false and the page never renews again, although
   each renewal should read the latest token (auth.ts:26). A wrong password is enough,
   because `baseRequest` renews on any 401 (`sessions_stuck_promise`). `RenewalEnds` shows
   that this is the only way to it: a renewal that found a token resets its promise.
2. `update` (sales.service.ts:205) takes the stored CPF of an account holder from
   `detail`, which masks it for some users: their edit of anything else in the bank data is refused
   as an invalid CPF, where direct-debit.spec.ts:70 falls back to the stored one
   (`sale_edit_mask`).

## 6. What the properties except, and gaps the models show

A property that excepts a case names it, and a reader should know the case. All of the
following the code really does.

Sales:

- Two overlapping cancels both succeed (sales.service.ts:385), where the spec (:751)
  refuses a second one; `CanceledOnce` is about cancels one after the other.
- Overlapping changes of plan and amount are each checked against the other's old value,
  an edit of a plan's range overtakes requests between check and write, and sales
  priced before it keep their prices. `PriceInRange` excepts the sales this happened to
  (`doubtful`) until a request prices them again.
- Two overlapping edits of one plan, of its minPrice and of its basePrice, are each
  checked against the other's old value and can leave minPrice above basePrice
  (plans.service.ts:59-61); `sales_settings` has such a pair.
- A status set back to the value a request had read leaves an entry without a
  change; `auditNote` is written by `update` and audited by nobody (sale-history.ts:120).
- `setStatus` works on a canceled sale (sales.service.ts:321): the status then says one
  thing and `canceledAt` another.

Customers:

- An update replaces all addresses, so one that a sale added after the form was opened
  is gone.
- A sale by a user who may not change the customer holds no lock: two of them can
  each add a default address (`unguarded`).

Sessions:

- Two overlapping renewals with one token are both accepted (auth.service.ts:99), where
  auth-sessions.spec.ts:77 has the second refused.
- After a lost answer the browser has a dead token; `RefusedForAReason` excuses it.

Users and roles:

- When 9998 is taken, automatic references are refused although lower ones are free.
- `role.active` decides only who may be named in a sale (sale-people.ts:26,32): no
  permission check looks at it, and users of a deactivated role keep theirs.

Sandboxes and uploads:

- A release that fails is not tried again before the next start
  (sandbox-registry.ts:86), though auth.controller.ts:40 says the cleanup catches it.
- `dropExpired` works through a list made before it waited (:80): a sandbox that was used
  again meanwhile is released.
- An upload overtaken by the release of its sandbox creates the folder again.
- A row with an empty path stays when the move and its compensation fail; a file stays
  when the process ends, the row's update fails, or a removal read the empty path.

Imports:

- A sale whose row could not be written is created again by the next import of its line.
- Reprocessing an old batch writes its pending line over what a newer import gave the
  sale (imports.service.ts:438).
- A date without a year is read against today or another date of the line
  (parser.ts:183); `Imports` takes the dates as read.

Client:

- What `Unannounced` lists is refetched by no event: a page shows the old value until
  something else refreshes it. A change between a page's first fetch and its first
  connection to the stream is never announced to it.
- `DeadEnds`: pages that ask, or lead to a form, for what the user is refused. With
  permissions that are up to date, the dashboard fetches the revenue (routes/_app/index.tsx:51,
  `reports.view`), the pages of sales (vendas/index.tsx:43-44), customers
  (clientes/index.tsx:53-55) and revenue (receitas.tsx:51) the users and the first two the
  customers, that of users the users and the roles (usuarios.tsx:55-56), and that of roles
  the roles and the catalog of permissions (cargos.tsx:50-51), whether or not the user has
  the rights; the page of a customer leads to the form of a sale.
- What is typed into the form of a sale after it was sent is not saved, and is gone with
  the form when the answer comes.
- The form of a sale whose answer was lost offers to register the sale again, and the API
  has no key to tell. A catalog replaced while the form is open makes the sale refused
  with ADDRESS_NOT_FOUND.
- A lookup fills an address that was emptied while its fields stay mounted.
- One notification read and one new between two polls leave the count as it was: no
  sound. A tab opened just then may take the increase for its first count, and the
  others stay silent.
- Drags are not disabled while one is saved; two reorders at once take their rows in
  different orders, and two values created at once get the same place.

Reports and demo data:

- The seller filter of the revenue page reaches neither of its requests; two cards show
  the figure of the whole window beside the change of a month; the dashboard's monthly
  total counts canceled sales, and the first hundred only; the download includes
  canceled sales.
- Due notifications of the demo data are made by other dates than `runDueCheck` would use.

## 7. Not modelled

Contents of texts, formats, exports, layout, paging, single-field validation, logging
and error pages: nothing in them depends on an order, and unit tests reach them. The
deployment scripts: they run by hand, one at a time, and a model of them would be one of
git and docker compose.

In SandboxRegistry: a statement that Postgres finishes after its process has died, and
the cron job during boot. In Imports: a statement that succeeded and whose answer was
lost, and edits of imported sales. In Sessions: the clocks of browser and server (an
access token may expire at any time), and several users, who share no session. In
LivePages: a stream that neither ends nor delivers. In DueCheck: sales added between the
count and the grouping of one target. In Administration: the uniqueness of e-mail and
CPF, which the database keeps.

Components whose status is `partly` or `not_modelled` say in `PROJECT.json` what is
left out.
