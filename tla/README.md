# CloudCost: a TLA+ verification of the cost pipeline

CloudCost collects the billing of several cloud providers, stores it in PostgreSQL, aggregates
it for dashboards and turns it into monthly bills. This directory holds TLA+ models of the parts
where several requests or processes write the same rows, or where several queries should say the
same; the TLC runs that check them; and TLAPS proofs of every safety property that the passing runs check,
for all values of the constants. `PROJECT.json` maps every definition to the lines it models.

## 1. The system

A FastAPI server (one uvicorn process per container), Celery workers (prefork, `-c 4`), Celery
beat, PostgreSQL and Redis. The API puts sync messages on the queue; beat starts the rolling sync
(02:00), alerts (03:00), the collection of raw Taiji logs (04:00), bills (monthly), exchange
rates, the sweeper (hourly) and partition maintenance. All of them meet in the database; there are
no locks but those of PostgreSQL at READ COMMITTED, and no task excludes another.

| Component | State | Operations | Hard because | What makes it correct |
|---|---|---|---|---|
| Sync lifecycle (`tasks/sync_tasks.py`, `services/sync_service.py`) | `sync_logs`, `data_sources.sync_status` | an attempt's calls, retry, sweep | overlap on one source, kills between any two transactions, failing handlers, early ack | no row fails under a live attempt; a sweep resets no source whose attempt it could see; nothing stays running; success is earned |
| Billing store (`sync_service.py`) | `billing_summary`, `billing_daily_summary` | upsert, replace, refresh | statement-level snapshots, every task refreshes all sources, swallowed failures | the summary adds up the billing unless somebody owes a refresh; rolling syncs lose nothing |
| Dual currency (`currency_service.py`, `api/exchange_rates.py`) | `exchange_rates`, the frozen `cost_usd`, `cost_cny` | daily fetch, annotate, backfill | gaps in the rates, the window of a batch, rates that come late | the rate of the day or the nearest earlier one, in the currency of the column |
| Partition maintenance (`tasks/partition_maintenance.py`) | partitions of `billing_summary` | ensure, list strays, move them | DDL that fails half-way or is refused for good | maintenance is never blocked; strays reach the partition of their month |
| Taiji push ingestion (`api/metering.py`, `sync_service.py`) | `billing_raw_taiji`, `billing_summary`, `token_usage`, `projects` | push, collection of old logs | five transactions per push, client retries, two processes, raw logs that expire | settled days add up the raw logs; what was acknowledged is billed while raw logs are kept |
| Monthly bills (`api/bills.py`, `bill_service.py`) | `monthly_bills` | generate, regenerate, adjust, confirm, pay, delete | load, check and write without a lock; operators against each other and the job | status moves forward, totals include the adjustment, locked bills are kept, unless a request writes what it has not read |
| Service accounts, projects (`api/service_accounts.py`, `api/projects.py`) | `projects`, `entities` | status changes, recycling, bulk moves, the sales sync, discovery | two status machines on one table, stale checks | entity belongs to the supply source; recycled accounts stay so |
| Suppliers, supply sources, entities, cloud accounts, data sources, categories | their tables and foreign keys | every create, update, delete | count, then delete; `ON DELETE` and ORM cascades | no deletion cuts off a row that it counted as none |
| Azure consent (`api/azure_consent.py`) | `azure_consent_invites`, `cloud_accounts` | invite, callback, revoke, register, verify | look, then insert, without a unique index | one account per tenant, one service account per subscription |
| Taiji imports by hand (`api/service_accounts.py`) | a shared cloud account and data source, service accounts, billing | discovery from a snapshot, upload of a day | the same | one shared account; no billing without a service account |
| Azure deployment (`azure_deploy_service.py`) | a task document in Redis with a TTL | execute, retry, the coroutines | concurrent copies of one document, restarts | the document is true at every save, jobs end |
| Alerts (`alert_service.py`, `api/alerts.py`) | `alert_rules`, `alert_history`, `notifications` | daily check, rules, notifications | one session over all rules, deletion meanwhile; two sets of queries, currencies and filters for one question | an alert is what the status page shows; no alert without its notification |
| Sessions and keys (`auth/`, `api/api_keys.py`) | `auth_refresh_sessions`, `users`, `api_keys`, module switches | login, refresh, logout, switch a user, issue and revoke keys | check, then revoke; lost answers | one live session per login |
| Dashboard, metering, billing queries | a cache in Redis | nine aggregations, figures, details, exports | a cache shared between callers of different scope; joins that trim differently; amounts of several currencies; exports read page by page while rows change | the same figures wherever they are asked for; exports miss nothing |

How they interact: the sync lifecycle calls the billing store inside its `load` step; the Taiji
push writes the same billing tables without a sync log and refreshes the summary the same way; the
bills, alerts and dashboards read `billing_summary` and its summary; account discovery and
auto-creation of projects follow a sync; partitions hold `billing_summary`; every request is made
by a principal of `auth/` and sees the data sources in its scope.

## 2. Modules

| Module | Models | State and code |
|---|---|---|
| `SyncRun` | abstract: the life of one `sync_logs` row | absent, active, abandoned, success, failed |
| `BillBook` | abstract: what the API promises of a bill, each request at one stroke | status and adjustment of each bill |
| `SyncTask` | `_run_sync_core` with its retries and the sweeper | one action per transaction of the worker, and one per statement of the sweeper and its commit: `sweep` holds what each has found, as of its own snapshot; `pc` is the call it makes next. `log`, `sync_status` are the columns, `age` is `now() - start_time`, `elapsed` Celery's clock, `seen` the value `session.get` loaded |
| `BillingSync` | `upsert_billing_rows`, `refresh_daily_summary` | one action per statement that takes a snapshot; `doomed` is what a DELETE has seen, `computed` what INSERT ... SELECT has read |
| `Store` | `currency_service`, `partition_maintenance` | a row is its partition and its two frozen amounts, an amount the day whose rate it was converted with; a batch is annotated, then merged; a repair lists, then moves |
| `TaijiIngest` | `taiji_ingest`, `reaggregate_from_taiji_raw`, `gc_taiji_raw_older_than` | one action per transaction of the push; a row's amount is the set of logs it adds up; `shared` and `crossed` remember on which days two processes have met, `late` the days aggregated anew past the retention |
| `MonthlyBill` | `api/bills.py`, `generate_bills` | a request is load, then save; a generation, the job's or an operator's, is aggregate, read the locks, upsert; `missed` and `raced` remember who has read a bill before another saved it, and written it all the same |
| `Accounts` | `api/service_accounts.py`, `api/projects.py`, the discovery of GCP projects | a request reads rows (`before`), decides (`after`, new rows, assignments) and commits the columns that differ; `alone` remembers whom nobody has overlapped |
| `Directory` | the routers of suppliers, supply sources, entities, cloud accounts, data sources, categories, over one schema | `db` is all tables by id, with keys and foreign keys; a request reads and decides, and its commit applies `ON DELETE`, the ORM's cascades and `ON CONFLICT` to what is there by then |
| `TaijiImport` | extends `Directory` with the two imports of Taiji's snapshots | a snapshot is a set of pairs |
| `Consent` | extends it with `api/azure_consent.py`; the properties of all three | Azure's answers are chosen |
| `AzureDeploy` | `azure_deploy_service.py` behind `api/azure_deploy.py` | a step is what happens between two awaits; `doc` is the document in Redis, `copy` what a job has in hand, `hand` where a coroutine is |
| `Scope` | `auth/scope.py`, `auth/dependencies.py` | operators only: who may see and do what |
| `Alerts` | `alert_service.py`, `alert_targets.py`, `api/alerts.py` | the check is a session with what it has loaded; each of the eight thresholds an operator over the rows, in dollars for the check (`Usd`) and as billed for the page (`AsBilled`); a deletion reads, then deletes |
| `Access` | `auth/router.py`, `auth/middleware.py`, API keys, module switches | a browser's two tokens, the session rows, refreshes in two steps |
| `Reports` | extends `Access` with `dashboard_service.py`, the queries of `api/metering.py`, `api/billing.py` and `api/service_accounts.py`, and `upsert_billing_rows` as they see it | a row has its invoice's amount, its dollars and its yuan, the last two perhaps not filled in; an answer is a function from groups to amounts; the cache keeps answers and, for the property, the rows they were computed from; an export keeps its keyset |
| `Sums` | lemmas: what sums over finite sets are worth | |
| `Tasks_proofs` | theorems about `SyncTask`, `Store` and `Alerts` | |
| `Azure_proofs` | theorems about `Consent` (with `Directory` and `TaijiImport`) and `AzureDeploy` | |
| `Reports_proofs` | theorems about `Reports` and `Access` | |
| `BillingSync_proofs`, `TaijiIngest_proofs`, `MonthlyBill_proofs`, `Accounts_proofs` | theorems about the module they are named after | |
| `MC...` | instances for TLC | |

Any call of a modelled worker may raise, and with `AckLoss` it may raise after its commit took
effect. In `SyncTask` a process may be killed at any time, in `AzureDeploy` the container may
restart; elsewhere an abort stands for it.

Abstractions. Where sums can be compared they are added up (`Alerts`, `Reports`); elsewhere a total
is the set or the pair of what it is computed from, so that a double count, a loss and a stale part
can be told apart. Names, JSON, logging, formatting, percentages and audit rows are left out.
`SyncTask.Load` is the whole of collecting and storing, which `BillingSync` opens up; the two share no
variable, because the store never looks at the log. `update_data_source_sync_status` is two actions,
since SQLAlchemy writes a column only if it differs from what was loaded, and other workers commit
in between. The sweeper is two UPDATEs and a commit, each UPDATE with a snapshot of its own, as READ
COMMITTED gives it: what a task commits between them the second sees, what it commits later none does.
There is one sweep at a time (beat sends one an hour). Blanks around an id are `Trimmed`, for SQL's
`trim` and Python's `strip` alike. Amounts and percentages of alerts are natural numbers; `RisesRounded`
is what rounding to two decimals does to them. In `Reports` a row of dollars and one of yuan are told apart by what they cost in each, the yuan of
an older row are converted at one rate, the summary
follows the rows (when it does not is the business of `BillingSync`), and a request that the cache
answers changes nothing.

## 3. Runs

| Run | Instance | Result |
|---|---|---|
| `SyncTask_overlap` | 2 tasks, 1 source, 2 attempts, limit 1, threshold 1, tasks symmetric | `NoFalseSweep`, `FailedIsFinal`, `SweepSparesSeen`, `SuccessIsEarned` hold |
| `SyncTask_live` | 2 tasks, 1 source, 1 attempt, lost acknowledgements, fairness | `EveryLogCloses`, `NoSourceStuck`, and the refinement `RowsAreRuns` hold |
| `BillingSync` | 2 sources, 1 day; 2 rolling tasks, 1 replacement, 1 refresh | `DriftIsOwed`, `RollingKeeps` hold |
| `Store` | 4 days in 3 of 4 months, 3 currencies, rates for 2 days, fairness | `NeverBlocked`, `FrozenIsRight`, `StraysAreMoved` hold |
| `TaijiIngest` | 2 servers, 3 pushes of any age over 2 days, 3 sends, retention of 1 day, 3 days | `SingleTruth`, `AckedIsBilled` hold |
| `MonthlyBill` | 1 bill, 2 operators at a time, generations by either | `AdjustmentCounts`, `PaidIsKept` and the refinement `BillsAreBooked` hold |
| `MonthlyBill_confirmed` | the same | violates `ConfirmedUntouched` |
| `Accounts` | 2 accounts, 3 supply sources of 2 clouds, 1 entity, 2 codes, 2 requests at a time, 4 commits, 2 lines in a sales sync | `EntityKept`, `DeletedStaysInactive`, `NoRevival`, `SalesExact` hold |
| `Consent` | 4 databases to start from, 2 requests at a time, 2 commits, ids up to 14 | `NothingIsCut`, `OneOfEach` hold |
| `AzureDeploy` | 2 items, 2 jobs, 1 place, 1 throttling, fairness | `ProgressIsTrue`, `JobsEnd` hold |
| `Alerts` | 2 rules over all eight thresholds and three kinds of target, 3 ledgers with yuan and missing dollars, 2 users, 2 days, 2 requests | `AlertsMatchStatus`, `AlertsAreShown` hold |
| `Reports` | 3 callers, 4 possible rows, 10 questions, 2 filters, 3 requests, 1 cached answer, pages of 1 row | `FiguresAgree`, `ExportIsWhole`, `OneSessionPerLogin` hold |

Every passing run but `SyncTask_live` checks the type invariant of its module as well:
`TypeOK`, or `StoreTypeOK`, `AlertsTypeOK`, `DeployTypeOK` where a module of proofs extends several modules.
`FiguresAgree` is four statements that are looked at where they can change: the dashboard agrees with
metering (`DashboardAgrees`), four queries agree on what an account costs (`AccountsAgree`), the list, the
summary and the overview on how many accounts there are (`ListsAgree`), the details with the figures
(`DetailsAgree`).

Bounds and why they are enough to meet the hazards.

- `SyncTask`: two tasks on one source give every overlap of two attempts, and a retry of one beside the
  other; limit and threshold of one tick are the tight case `TimeLimit = SweepAge` (in the code 40 and
  60 minutes). One task can be swept while the other starts between any two statements of the sweep.
  `SyncTask_live` has one attempt because a retry only adds rows.
- `BillingSync`: four tasks let two refreshes cross while a third replaces; two amounts tell a stale total
  from a current one, and which task inserted a row tells rows apart.
- `Store`: the first month is older than the partitions; it has two days, so that a batch may have a rate
  of its later day only, the case in which the constant stands in. One month begins without
  maintenance, as many as are planned ahead.
- `TaijiIngest`: one push spans the two days, one repeats a log, two may cross on either day with a third
  left to set it right; the collection overtakes the first day, and each push may come before it or after.
- `MonthlyBill`: two bases and two adjustments, so that a stale base and a stale adjustment both show. An
  operator's `POST /generate` takes the steps of the job, so two operators are also an operator and the
  job; a third would only overtake a request that is overtaken anyway. A regeneration flushes its deletes
  with the first query of the generation: from then on the rows are locked until it ends (`Held`).
- `Accounts`: four commits are two accounts, a code for one of them and a full sync that names the other;
  or a creation, a deletion and whatever follows. One external id suffices, as accounts only meet where
  they share it. Of two codes a full sync that names one must leave the other alone, and two lines are
  enough for two accounts of one code or two codes of one account.
- `Consent`: two commits are a request and one that overlaps or follows it; the four databases (in use,
  just onboarded, a gateway with and without imports) put every request of the routers within two steps;
  the longest import draws six ids, and one store has an account with an entity of another supply source.
- `AzureDeploy`: one place in the semaphore lets a coroutine wait for another; the second job is a retry
  that may come before, while or after the first is at work.
- `Alerts`: the last day of a month and the first of the next are where the month, the year and the
  commitment turn; two sites use the same external id and one project has no data source, which are the
  cases the target filters differ in, one project has a blank around its id, and rules are about a project,
  a group and a provider; one row is in yuan, one has no dollars yet, and one rise is just below what the page
  rounds up; two requests are a rule changed or deleted under a running check.
- `Reports`: three requests are a login, a question and a sync, or two overlapping refreshes and one more;
  an administrator, a user of one provider and a key for one account see three different parts of the
  rows; two accounts match one row, so that a join multiplies it; one row
  and one account are written with a blank; an invoice is in dollars, in yuan, or of before the two columns; two months of two days put a row on each
  side of every boundary of a date range; an export of one row a page has a boundary at every row.

Symmetry is used in the `SyncTask` runs on safety, `TaijiIngest`, `MonthlyBill`, `Accounts` and `Consent`, where no liveness is
checked. `CHECK_DEADLOCK FALSE` stands where a run ends because all tasks are over, or its requests,
commits or days are used up.

What the repository says and the code does not do. `MonthlyBill_confirmed` is a run of such a disagreement:
`docs/API.md:156-160` and `bill_service.py:22` say that a confirmed or paid bill is not touched, but every
handler checks a row it has loaded and writes by id. TLC finds a draft that one operator deletes after another
has confirmed it; a regeneration deletes one confirmed since it selected the drafts, a generation overwrites
one confirmed since it read its list, an adjustment is saved to a bill paid since it was loaded.

Four more are written as conditions of the properties that hold. TLC finds each when its condition is dropped:

- a sweep resets a source that an attempt is loading, if the attempt inserted its row after the sweep looked
  ("零误杀", `sync_service.py:102`): `SweepSparesSeen` is about the attempts a sweep could see;
- a late push takes away acknowledged billing of a day whose raw logs have been collected ("即使乱序推送也不会出错",
  `docs/taiji-ingest-api.md:179`; history may be pushed, `:189`): `AckedIsBilled` leaves out the days in `late`;
- the alert page adds up amounts as billed where the check adds up dollars ("绝不混币", `alert_service.py:31`), and
  looks for a project where the check looks for a provider (`models/alert.py:18`): `Comparable`;
- metering adds up amounts as billed where the dashboard adds up dollars (`currency_service.py:5`): `Alike`.

The three properties of `MonthlyBill` are likewise about bills that no request has overwritten without having
read another's save.

Promises that hold for a request that nobody overlaps. `Accounts`, `Consent` (`alone`), `TaijiIngest`
(`crossed`), `AzureDeploy` (`orderly`) and `Access` (a login's `overlapped` refreshes) remember who has been
overlapped, and the properties promise for the others, from whatever state the overlapped ones have left.
Without the condition they fail, as TLC shows when it is dropped:

- an account moved while it is given an entity keeps an entity of the old source; a status change that
  read the account before its deletion revives it as active; a discovery creates an account whose id an
  operator has just entered; two crossing full syncs leave a code with the accounts of both. A request of
  the older router may set any entity, which `EntityKept` leaves out;
- two callbacks of one tenant create two accounts, two imports of one supply source two shared ones; a
  deletion that counted nothing takes away what has been bound since;
- two processes at one day leave it with the aggregate of the one that read first, until the next push to
  that day (one uvicorn process per container never does this; two containers, as when one
  replaces the other, may);
- a retry while the first execution is at work leaves a task that reads completed with items pending;
- two refreshes of one token may both get a session.

`MonthlyBill` does likewise for each bill: `raced` has those that a request has written after another
saved what it had read, and of them nothing is promised any more, for two operators who loaded one bill
overwrite each other. A request that finds its bill unchanged keeps all promises, whoever works beside it.

`AlertsMatchStatus` compares the checker with the status page only where both are meant to say the same
(`Comparable`): the page counts a row once for each reference that matches it and whole months, the
checker each row once and the month so far; the page adds up amounts as they were billed, does not look at
`target_type`, and rounds a rise before it compares it. Rules are compared where these make no difference:
about projects, over rows whose dollars are what was billed, and but for a rise that is rounded up.

`DashboardAgrees` compares each figure with metering where its own rows are `Alike`: in dollars, or, asked in
yuan, of frozen yuan at the one rate. `AccountsAgree` needs no such condition, since all four queries add up
the invoice's amount; it says which rows each selects. The queries of the accounts trim both sides of the
join, metering the account's only, so metering counts exactly those of an account's rows whose project has no
blank around it; the dashboard trims neither (`Matches`, `MeteredMatches`, `AccountMatches`).

Fairness. `SyncTask_live` assumes weak fairness of the clock, of the beginning of a sweep (beat, hourly) and of
Celery's hard limit, and strong fairness of the sweep's second statement and of its commit: sweeps that are
begun again and again do not fail each time; nothing is assumed of a worker, which may hang or be
killed anywhere: it is the sweeper that the properties depend on. `AzureDeploy` assumes that the event loop
runs every request and job that can go on, and that Azure's pollers come to an end (the SDK bounds them).
`Store` assumes that beat's maintenance and the message it leaves are run (weak fairness) and that a repair
that is begun again and again does not fail each time (strong fairness of `FixMove`). The other runs
check safety.

## 4. Proofs

### Sync lifecycle

`Tasks_proofs` proves of `SyncTask`, for any sets of sources and tasks, any number of attempts and any limits:

- `TypeCorrect`: the variables keep their types;
- `RowsAreDisciplined`: `RowDiscipline`, the inductive invariant;
- `SweeperIsSafe`, `FailuresAreFinal`, `SweeperSparesSeen`: the promises about the sweeper;
- `SuccessIsBacked`: a source that reads success has a successful row, without lost acknowledgements;
- `Refinement`: `SyncTask` implements `SyncRun`.

`NoFalseSweep` alone is not inductive: it says nothing of how old the row of an attempt may be. `RowDiscipline`
adds that the row was inserted by this attempt and is no older than it (`age <= elapsed`) and that
the rows of later attempts are not there. An attempt never outlives `TimeLimit`, so with
`SweepAfterLimit == TimeLimit <= SweepAge` no row that an attempt holds is an orphan
(`OrphansAreNotKept`). Between the statements of a sweep and its commit two facts carry it over:
what it has locked stays an orphan, since nobody who could write the row is alive (`LocksAreOrphans`), and
what it is to reset has none of the rows it saw running (`Reset`). The attempts whose row is inserted after
its second statement are the ones it may harm. Actions of one task leave the rows of the others alone (`StepIsLocal`,
`UntouchedKeeps`), which leaves one case per action for the task that moves, the clock and the
sweep. `SuccessIsBacked` strengthens its property to "some task of the source is done".

### Accounts, master data and Azure

`Accounts_proofs` proves, for any number of accounts, sources, entities, codes and requests,
`TypeCorrect`, `EntitiesAreKept`, `DeletedAreInactive`, `DeletedAreNotRevived` and `SalesAreExact`, the
four properties of the run. None follows from the tables alone: the invariant `IInv` says of every request what it
has decided (`Promise`). A rewritten row was there and keeps its entity and its retirement if the row
read had them (`Sound`); what it read is still there, what discovery creates is still unknown (`Unknown`) and
the differences of a full sync still lead to what it wants (`Exact`) as long as nobody has committed. Each
handler shows this once, when it reads (`ReadKeeps` and a lemma per handler); a commit ends what the others
have in hand; `AloneCommit` then says that a commit nobody overlapped leaves exactly the rows decided.

`Azure_proofs` proves of `Consent`, over the tables of `Directory` with the imports and the onboarding, from any sound
tables and for any number of requests of all the routers, `DirectoryTypes`, `DeletionsCutNothing`
(`NothingIsCut`) and `NoTwins` (`OneOfEach`). Its `IInv` has five parts:

- `Typed`: rows are rows, and no foreign key dangles, whichever of `ON DELETE` and the ORM's cascades a commit
  brings about;
- `Numbered`: each request has drawn one block of ids, its own, and no row has an id still to be drawn. Without
  it an insertion could overwrite a row, and a count of what points at an id could be about another row;
- `Fitting`: the status of a row is one of its table's, and no update moves a row to another table;
- `Spares`: what a request has found it may delete, it still may while nobody has committed since
  (`Harmless`: no account, data source, bill, billing or invite is among what would go or be cut off);
- `Looked`: what a request nobody has overlapped has read is still there, and what it is to insert was
  looked for and not found.

Each handler shows once, when it reads, that what it decides satisfies the last two; a commit then carries
them out, and takes all others off `alone`. `NothingIsCut` leaves out (`Homed`) an account whose entity is of
another supply source than its own: `PUT /projects` sets any entity (`projects.py:159`), and a deletion of
that source or its supplier counts accounts by their own supply source only (`suppliers.py:205-233`), so it
takes the entity off such an account. The proof needs that condition, and TLC finds the step without it.

`Azure_proofs` proves of `AzureDeploy` the theorems `DeployTypes` and `ProgressIsAlwaysTrue`: `ProgressIsTrue` for any items,
requests, places in the semaphore and retries. Two invariants carry it. `Truth` says that the document and
every copy a job will write are `Good`: their counters are the numbers of their items and what reads
succeeded exists; it holds whatever overlaps, because a copy counts its own items, and a coroutine's place
tells how its item is marked (`Marks`). `Order` says what is true as long as no job was lost and none was
started beside another: there is one job at a time, no item is half way without a coroutine that has it in
hand, so a document that reads completed is at its end and one that reads running is somebody's.

### Billing, ingestion, rates and bills

`BillingSync_proofs` proves, for any sources, days, tasks and amounts, `BillingTypes`, `DriftIsAlwaysOwed` and
`RollingNeverLoses`. `DriftIsOwed` is not inductive: while several refreshes of one day cross, a sync that
still owes its refresh may have read the billing before it changed, and be of no use. `IInv` therefore calls a
refresh `Stale` when what it has read no longer adds up the billing, and says (`Right`) that a group nobody
is to put right is right already, *and that no stale refresh has it in the list of what it deletes*: its
insert then meets the unique constraint. That rests on knowing who wrote each total (`Signed`: a total is by
a task that is through) and what each statement has seen (`InHand`).

`TaijiIngest_proofs` proves `IngestTypes`, `RawIsTheTruth` and `AnsweredIsBilled`, for any number of servers,
pushes, sends and days, and logs of any age.
The five transactions of a push make five stages of a day: `Far` says what is true of it after each, for a
server that has had the day to itself since it began (`Alone`); `Meeting` says that two servers on one day
know of each other, so there is at most one such server, and nobody else's commit disturbs its stage.
`DayHolds` joins the stages to the settled day, where the collection of the raw logs changes what can be
said: within the retention the rows are what the raw logs add up to, beyond it they still contain what was
answered, unless the day is `late`: a push has read back what was left of its raw logs after the collection,
and rewritten the day from that. Which days a server rewrites are within the retention or late
(`InHand`); a server that has still to read makes late what it finds past the retention.

`MonthlyBill_proofs` proves `BillTypes`, `TotalsCountAdjustments`, `PaidBillsAreKept` and `BillsAreKeptInBook` for any
number of operators and jobs: `MonthlyBill` implements `BillBook`, so whatever requests cross, a status check
is still right when its request writes, unless another has saved the bill in between; and only from then
on is the bill `disputed`, of which `BillBook` promises nothing. The invariant ties what a request has in hand
to the row, for bills that it has not `missed`: the row that an operator edits is still the one he loaded, up
to its amounts (`Same`), what a regeneration deletes is still a draft (`Drafts`), the list of locked bills of
a generation is still complete (`Listed`). Every step of every request shows that a change it makes to a bill
it has not missed is one of the book, and is noticed by all others who have read that bill (`EditNoticed`).
What remains is where `PaidIsKept` and the violated run of section 3 lie.

`Tasks_proofs` proves of `Store` the theorem `StoreTypes`, and `MaintenanceIsNeverBlocked`: `NeverBlocked` for any calendar, rates, batches and
repairs. The invariant is that every month has its partition up to the last one that the last successful
maintenance has prepared (`Prepared`), that nothing lies in the default partition but what is older than
the partitions (`Homes`), and that rows are for days that have begun (`Collected`). With `MaintenanceKeepsUp`
a month that has begun has its partition (`Begun`), so a new row never goes astray. `AmountsAreRight` proves
`FrozenIsRight` for any rates and any order of batches and backfills: the map of a batch holds the rates between
its first and its last day and a fallback where it is empty, and looking a day up in it comes to the
rate of the nearest earlier day (a greatest day, whose existence and uniqueness rest on the well-founded
order of the naturals: `Least`, `MaxIs`, `LatestOnly`) unless the map has only later ones; `Sound` adds what the backfill relies on, that a row whose second amount
is missing has its first one unconverted, so that one day accounts for both.

### Sums

A sum over a finite set is the library's fold, which adds one element after the other through a function that
CHOOSE picks among all that satisfy the recursion. An induction over the set cannot be instantiated here, but
the well-founded order of the finite subsets can be cited as a fact: of the subsets for which a statement
about a sum fails there would be a smallest one (`Smallest`), and it is not empty; without one of its elements
the statement holds, so it holds with it. That is how `Sums` shows that the function exists and is unique
(`AddsOnce`, `AddsSome`, `SumIs`), that it does not matter what is added last (`SumTake`), and that a sum is
the sum over any parts (`SumUnion`, `SumParts`), over groups (`SumGroups`), over equal or scaled terms.

### Alerts

`Tasks_proofs` proves of `Alerts`, for any rules, projects, users, days and amounts, `AlertsTypes`,
`AlertsAlwaysShown` (`AlertsAreShown`) and `AlertsAreOfTheStatus` (`AlertsMatchStatus`), in whatever currencies the rows are. `AlertsInv` carries the
first two: the session has one alert at most that it has not told of (`CheckTyped`), no alert is of a day to
come or of a rule that the check has still to look at (`Dated`), and the alerts that a deletion has read are all
of its one rule (`Detaching`).
The third compares two sets of queries. `Settled` says that while nothing has changed since the check began,
the rules it is through with have alerted exactly if they fire. The rest is arithmetic: the status page adds up one
total for each reference of a rule, the checker the rows that any of them matches (`CostsAreTotal`, from
`SumParts`, since no row matches two); and without billing of days to come a month is the month so far
(`NothingToCome`). Of a comparable rule the dollars are the amounts billed, so the two sums are one, and
what its check selects by `target_type` is what its references select; a rise that reaches the limit
reaches it rounded, and the other way is the condition. `FiresIsTriggered` then goes through the eight kinds of threshold.

### Sessions, figures and exports

`Reports_proofs` proves, for any users, tabs, keys, requests, items, questions and filters:

- `SessionsHandedOn` (`OneSessionPerLogin`): at any time a login whose refreshes never overlapped has one live
  row at most and one refresh at work at most, which will replace that row; nothing is left of a login that
  was ended (`OneRow`). Lost answers and failed commits are among the steps;
- `ReportsTypes`: of `Reports` and of `Access`;
- `ExportsAreWhole` (`ExportIsWhole`): `ExportInv` says that nothing sent sorts after the last row sent, that a
  row that was there at the start and is not sent yet lies beyond it, and that an item that was sent and replaced
  has a higher id now, so the keyset, which goes down the ids, does not come to it again. A page is the least part
  of the rows in order (`Laid`, `Sorted`), with a line for each account that matches;
- `EveryFigureAgrees`: `AccountsAgree`, `ListsAgree`, `DetailsAgree` and `DashboardAgrees` in every state, which is
  more than the run looks at; `FiguresAlwaysAgree` is the invariant of the run.

For the last one, `CacheInv` says that what the cache holds under a key is what the query of that key computes,
for the scope of that key, from some billing: whoever asked, and whatever was billed since. So it remains to
compare queries over one billing, one lemma for each. A grouped query is a function from
groups to sums (`ByIs`), with the rows it leaves out for lack of a group; its own sum is that of the rows it
has (`ByAll`, from `SumGroups`); a query that joins the accounts counts a row once for each match (`JoinedIs`),
and agrees where no row has two. Amounts in yuan are converted row by row on one side and as a whole on the other
(`YuanAre`, from `SumScaled`). Each lemma assumes of the rows of its figure, and of no others, that they are
`Alike`; then what the dashboard adds up of a row is what metering adds up. A sheet is a sequence without repetition of the rows of an account (`SheetIs`);
the lists count by status, and the statuses make up all (`ListsFollow`); and who turns the pages of the
details has all lines, each row as often as accounts match it (`PagesAre`, `CountedIs`).

The attempt to prove it found two definitions of the model that TLC had evaluated as they were meant, but that did
not say so: `Computed` was a `CASE` with two guards that overlap for a caller without a scope, and a sheet was
sorted by an order that is no order on rows of one day, of which there is no sorted sequence. It also
made three comparisons equalities that had only been bounds (`by_category`, `by_region`, `unassigned`).

### Assumptions and limits

Assumptions. TLC evaluates those of the modules on every run that extends them.

- `SweepAfterLimit` is what the code's comment on the threshold claims, for a database session in UTC:
  `start_time` is naive UTC and the sweeper compares it with `now()`.
- `MaintenanceKeepsUp`: no more months begin without maintenance than it plans ahead; beat runs it three times
  a month. `StoreOK`: the calendar is in order and finite, and the rows that are there before the frozen
  columns existed are dollars of the first month.
- `IdsSuffice` (`MonthlyBill`): a serial has a key left that nobody knows.
- `DirectoryOK`: the tables to start from have rows under the ids 1 to n, foreign keys that lead to rows of
  the right table and statuses of their tables; an Azure registration chooses from finitely many targets.
  Foreign keys and serials give the code as much; that the ids have no gaps is a matter of naming rows.
- `AccountsOK` (NULL and a new data source are no ids, every entity has one supply source), `DeployOK`
  (finitely many items, at least one place and one attempt) and the `ConstantsOK` say what the constants are.
- `AlertsOK`: days are numbers in the order of the calendar, a rule has finitely many references, and one where
  its kind takes one; amounts are natural numbers, as many as one likes.
- `AccessAssumption`: a token has a role and a key an owner.
- `ReportsAssumption`: finitely many items, accounts and failed sources; a source has an account, an account a
  status; trimming an id twice changes nothing; questions and filters are the records the code reads, with the month it needs (only `top_growth` goes
  without) and accounts there are; costs are integers, and so is a rate, since both stand for decimals.

So every safety property that a passing run checks is proved, and with them the refinements of `SyncRun`
and `BillBook`.
Model-checked only: liveness (`EveryLogCloses`, `NoSourceStuck`, `StraysAreMoved`, `JobsEnd`), since the prover
handles neither fairness nor `ENABLED`. The pages of the details are proved for a page of two rows, the size
the property states; the pages of an export for any size.

## 5. Not modelled, and what is left

Not modelled: the collectors and the Azure management calls (I/O of providers), `sync_health` (a read-only
classification of what `SyncTask` keeps), audit and encryption (an append-only log, a library call), the
application's wiring, migrations and the scripts run by hand. `PROJECT.json` gives the reason for each.
Within modelled components: the Azure imports and the secrets of `api/service_accounts.py`, the assignment
log (it only tells the current state), user grants (stored and listed, read by no other code), the pull mode
of the Taiji collector.

Hazards without a property of their own: the time zone of the database session is the assumption
`SweepAfterLimit`; a replaced range that keeps a row of a crossing sync is reachable in `BillingSync`,
where the comment's claim that the range is what was collected does not hold; and the overlaps listed under
"Promises that hold for a request that nobody overlaps", which break the promise and of which neither the
code nor its documents say that they cannot happen. `PROJECT.json` lists each at its line.

Left for later: an abstract specification of the Taiji push, as one atomic recomputation of its days, which
`TaijiIngest` implements on the days that nobody crosses; `RawIsTheTruth` says what comes of it.
