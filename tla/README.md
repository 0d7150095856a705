# arda-be: a verification project

TLA+ models of the parts of arda-be (a Go monorepo of banking services over
PostgreSQL, NATS JetStream and Camunda 8) whose correctness depends on the order
in which concurrent calls, transactions, crashes and retries happen. TLC checks
small instances; TLAPS proves the main safety properties for every value of the
constants. Paths below are relative to `src/`.

## 1. Inventory

Every service is a stateless replica set over its own PostgreSQL schema.
Services call each other over gRPC/HTTP, hand long-running approvals to Camunda
(workflow-service starts processes and mirrors their user tasks), and announce
what they did through an outbox table that a relay publishes to JetStream.

| component | state | operations | what is hard |
|---|---|---|---|
| finance posting engine (`apps/finance-service/internal/service/posting_service.go`, `repository/posting_repo.go`, `balance_repo.go`) | `fin_journal_entries`, `fin_journal_lines`, `fin_account_balances`, `fin_opening_balances`, `fin_outbox` | ReservePosting, PostTransaction, ReleasePosting, ReverseTransaction, UpsertOpeningBalance | lookups and period checks outside the transaction; retries under an idempotency key; counters kept beside the journal; coverage of drawdowns |
| posting locks and pool (`repository/balance_repo.go`, `libs/go/arda-postgres/pool.go`) | row locks, unique keys, pool connections | EnsureAndLockBalances and the reads beside it | lock order, two connections per transaction |
| balance arithmetic (`service/balance_math.go`) | none | signs, coverage checks, counter updates | signs of D/C/B accounts, several lines on one account |
| outbox relay (`libs/go/arda-events/outbox/outbox.go`) | outbox rows, JetStream's duplicate window | claim, publish, mark, commit, roll back | replicas, lost acknowledgements, crash between publish and commit, poison rows |
| posting cases (`service/posting_case_service.go`) | case drafts | shape validation | off-balance shapes that `resolve` then rejects |
| daily trial balance (`service/trial_balance_daily_service.go`) | `fin_trial_balance_daily` | RebuildDaily | dirty dates found by time stamps taken at transaction start; balances carried from an earlier date |
| document numbers (`service/document_number_service.go`) | counters per book and period | issue, void | gaps, closed periods |
| job scheduler (`apps/platform-service/internal/service/job_scheduler.go`, `repository/scheduled_run_repo.go`) | jobs, runs, in-memory slots | ClaimDue, StartManual, Finalize, ReapAbandoned, Shutdown | several replicas, late answers of reaped runs, slots, retries |
| end of day (`apps/platform-service/internal/service/eod_service.go`, `repository/calendar_repo.go`) | `plt_business_dates`, `plt_eod_runs`, `plt_job_runs`, a session advisory lock | RunSystem, ClaimEOD, CompleteEOD, ReleaseEOD | resume after failure, dependent steps, late requests, a lock on a pooled session |
| workflow work items (`apps/workflow-service/internal/repository/work_item_repository.go`, `worker/user_task_projector.go`, `worker/workflow_reconciler.go`) | `workflow_tasks`, a mirror of the engine's user tasks | seed, project, reconcile, complete, finish, claim, expire | an index that lags, several writers of one row, failed closes |
| decision dispatch (`apps/workflow-service/internal/repository/decision_repository.go`, `service/decision_dispatcher.go`) | `workflow_task_decisions`, the customer's status in crm-service | record, dispatch, mark | retries out of order, unconditional marks of two dispatchers, decisions the engine refuses |
| AI approvals (`apps/ai-service/internal/repository/approval_store.go`) | approvals, tool executions, runs | propose, decide, fetch and execute | expiry, single execution |
| notification inbox (`apps/notification-service/internal/events/consumer.go`, `repository/notification_repository.go`, `cmd/notification-service/main.go`) | `noti_event_inbox`, `noti_notifications`, `noti_inbox`, `noti_user_seq`, `noti_entity_resolutions` | consume, ProcessEventOnce, CreateNotification, ResolveEntity, publishDLQ | redelivery between two commits, overlapping events of one task, cursors of streams |
| notification delivery, IAM sessions, loan submission | leases, session rows, submissions | see `PROJECT.json` | leases and limits |
| auth-gateway, crm, hrm, mdm, capital, deposit, statistical, media, document services | rows | CRUD, routing, reports | mostly single-statement writes and I/O |

What makes each one correct:

- **posting engine**: counters equal the journal at all times; a key counts once;
  a booking has exactly one event; reversals are paired and mirrored; a booked
  entry never changes; nothing is drawn below zero by a checked drawdown; debits
  equal credits per currency.
- **outbox relay**: replicas never share a row; no event is lost; duplicates come
  only from faults; a poison row does not stop the others.
- **posting locks**: no cycle of waiting transactions; every call ends when the pool allows it.
- **trial balance**: no entry is counted twice, and one that is missing is found by the
  next rebuild.
- **scheduler**: at most one live run per job; a late answer changes nothing; every
  run ends and every due job is claimed; slots are not lost; a drained replica is quiet.
- **end of day**: a step runs only after what it depends on; a date is closed once,
  with every mandatory step executed, and at last.
- **work items**: rows that race do not pile up; the live task's row is never lost; the
  inbox comes to show the engine's open task and no other.
- **decisions**: every recorded decision is applied, and the customer ends with the
  status of the last one.
- **notification inbox**: a user is told once; a stream never skips a row; an event is lost
  without a trace only when every delivery fails, its dead letter's publication too; a
  completed task's notifications are resolved.
- **AI approvals**: nobody approves his own proposal; an approval executes once.

`PROJECT.json` lists the hazards found while reading, each at its line.

## 2. Modules

| module | models |
|---|---|
| `BalanceMath` | `balance_math.go` and the line sums: signs, coverage checks, counter updates, mirroring, balance per currency |
| `Journal` | the abstract ledger: entries proposed, accepted, discarded, booked, reversed, with every check made against what the entries themselves moved |
| `PostingLedger` | the posting engine: calls as steps, counters, keys, periods, events |
| `MCPostingLedger` | its instances for TLC |
| `Outbox`, `MCOutbox` | the relay and its instance |
| `JobScheduler`, `MCJobScheduler` | the scheduled jobs of platform-service and their instances |
| `BusinessDays` | the abstract end-of-day: tasks executed after those they depend on, dates left in order |
| `EndOfDay`, `MCEndOfDay` | RunSystem of platform-service and its instance |
| `TrialBalance`, `MCTrialBalance` | RebuildDaily of finance-service against postings that commit late |
| `PostingLocks`, `MCPostingLocks` | what the posting transactions wait for |
| `CaseInbox`, `MCCaseInbox` | the work items of one CUSTOMER_ADJUSTMENT case |
| `CaseDecisions`, `MCCaseDecisions` | the decisions of one CUSTOMER_REGISTRATION case and the customer's status |
| `NotificationInbox`, `MCNotificationInbox` | task events on their way into users' inboxes |
| `FinanceProofs` (of `PostingLedger` and `Outbox`), `PostingLocksProofs`, `TrialBalanceProofs`, `JobSchedulerProofs`, `EndOfDayProofs`, `CaseInboxProofs`, `CaseDecisionsProofs`, `NotificationInboxProofs` | theorems and proofs |

### BalanceMath and the counters

`Account` stands for a balance key (COA version, account, currency, balance
type). `Nature` is the COA nature D, C or B. An amount is a number of minor
units, and a sum of amounts is the cardinality of an explicit set of units
(`Units`): this is what makes "the counter equals the sum over the journal" a
statement about finite sets that TLAPS can prove. `Covers(value, lines)` is
`checkReserve`/`checkPostActual` in the loop that runs them: each outflow line
is checked against the value left by the lines before it. `CoversReversal` is
`checkReversal` on net deltas.

### PostingLedger

`status`, `lines`, `period`, `reversedBy`, `key`, `docType`, `currency` are the
columns of an entry and its lines; `posted` and `reserved` the four counters of
a balance row; `openings` the opening-balance table; `open` the calendar;
`events` counts the outbox rows of an entry. `releasedKey` is a history variable:
the key a VOID entry held (the code sets the column to NULL). `pc`, `req`,
`target` are the calls in flight.

A call is cut where it reads something outside its transaction:

| code | steps |
|---|---|
| `ReservePosting` | `BeginReserve` (lookup, and resolve + comparison for a PENDING holder) -> [`Rebuild`] -> `ReserveResolve` -> `ReserveCommit` |
| `PostTransaction` | `BeginPost` (lookup) -> `PostPending`, or `DirectResolve` -> `DirectCommit` |
| `ReleasePosting` | `Release` |
| `ReverseTransaction` | `BeginReverse` (entry, reversal policy, period) -> `ReverseCommit` |
| any error, cancellation or crash | `Abandon` |

A transaction is one step because it locks the entry and every balance row it
touches (`SELECT ... FOR UPDATE`) before reading them, and holds the locks to
the commit. Two reads inside a transaction are not locked, the openings and the
natures; they are single statements on tables no other posting writes, so the
transaction is equivalent to one placed at the moment of that read, as long as
the counters are locked around it, which they are. The period check of
`postPendingEntry` is a single read of the same kind.

Requests that `resolve` or the posting-date policy rejects for reasons the
ledger's state does not decide (unknown account, bad analytics, dates out of
policy) are simply not sent; what it decides from state (period) or what the
properties need (balance per currency) is in `Resolvable`.

Idempotency keys: `FindEntryByIdempotencyKey` looks for key *and* document type,
the unique index covers the key alone. `KeyHolder` and `KeyTaken` keep the
difference. A blank key is `NoKey`: a direct post gets a fresh generated key
nobody can ask for, a reservation stores NULL.

Periods are opened and closed by nobody in the Go code, so `TogglePeriod` is
external and unrestricted.

### Outbox

A relay transaction is `Claim`, then one `Publish`, `Refused` or `PublishFails`
per row in order, then `Commit` or `Rollback`. `claimed` is the row locks,
`handled` the position in the batch, `marked` the uncommitted `published_at`
updates. JetStream is external: `Store` deduplicates by id within `window`,
`Expire` lets an id leave the window at any time, `Refused` models rows it can
never store. `Write` makes rows visible in any order, because `created_at` is the
start of the writing transaction.

### JobScheduler

`armed`, `due`, `ahead`, `retired`, `lastStatus` are the columns of a job (`ahead`
keeps the order of `next_run_at` among due jobs); `status`, `rows`, `expired` those
of a run; `alerts` counts the failed events written to `plt_outbox` less the
recovered ones. `slots`, `tick`, `manual`, `exec`, `stale` are the memory of a
process, lost in a crash; `held` is the rows its ClaimDue has locked.

| code | steps |
|---|---|
| `Tick` | `TickReserve` (all free slots) -> `LockDue` (SELECT ... SKIP LOCKED) -> `ClaimDue`, `ClaimAnswerLost` or `ClaimError` |
| `RunNow` | `RunNowReserve` (retired check, one slot) -> `StartManual`, `RefuseManual` or `ManualError` |
| the goroutine of a run | `Attempt` ... -> `Finalize`, or `FinalizeError` until it gives up |
| `Reap` | `ReapList` (read without locks) -> `ReapOne` ... or `ReapError` |
| `main` | `Shutdown` -> `Drain` or not -> `Exit`; `Crash`; `Start` seeds the catalog |
| time and retention | `CronPasses`, `Expire`, `Cleanup` |

ClaimDue's transaction is two steps because other transactions wait for the rows
it holds, and other claims skip them; those that lock one row are one step, and
a claim may skip a row such a transaction is about to use (`Contended`). One
request of a job at a time waits on a replica, and run numbers are reused once
`Cleanup` has deleted the row and nobody refers to it.

`deadline_at` is a time: it passes while a run is still attempted only if the
process was suspended (`MaxStalls`), because the budget covers the attempts. That
this is so for every timeout and back-off is theorem `DeadlineCoversExecution`.
The sixty seconds of grace also cover the three finalize calls.

### PostingLocks

What `PostingLedger` takes as one step is here the sequence of what it waits for:
an entry row (`SELECT ... FOR UPDATE`) or an idempotency key (`INSERT`), a read on a
second connection before the balances (the period check of `postPendingEntry`), the
missing balance rows, the lock of every row in key order, a read on a second
connection with the rows locked (natures, openings), the commit. `entryHeld` and
`rowHeld` are the holders, `reading` the second connections, `pool` is
`MaxOpenConns`. `Stalled` is a state in which every call waits; then only the
deadline of a call's context goes on (`Rollback`).

### TrialBalance

`began` is an entry's `posted_at`, which is `now()` and therefore the start of its
transaction; `rebuiltAt` is `rebuilt_at`, the start of the rebuild. A row is
abstracted into how many times each entry is in its closing balance. A call is
`BeginRebuild`, `LockTenant` (the tenant's advisory lock), `FindDirty` (the dirty-date
query and the list of dates from it), one `RebuildDate` per date, `CommitRebuild` or
`RollbackRebuild`; under READ COMMITTED each statement sees what is committed when it
runs, so entries commit in between.

### EndOfDay

`date` and `gate` are the SYSTEM row of `plt_business_dates`, `eodRun` the rows of
`plt_eod_runs`, `checkpoint` those of `plt_job_runs`, `lock` the session advisory locks,
`conn` the dedicated session of a run. `executed` is what the owner services did and
`loose` the requests somebody stopped waiting for, which they may still execute.

| code | steps |
|---|---|
| `RunSystem` to the first step | `Call` -> `Acquire` or `Refuse` -> `AlreadySucceeded` or `NotSucceeded` -> `BeginEOD` -> `VerifyDate` -> `RecordRun` |
| one step of a tenant | `Skip`, `AlreadyDone`, `GiveUp`, or `Choose` -> `StartJobRun` -> `Succeed`, `ReportFailure` or `CallLost` -> `MarkRun` or `MarkFails` |
| the end | `FailEOD`, `CompleteRefused`, `CompleteUnseen` -> `ReleaseEOD` or `ReleaseFails`; `CompleteEOD` |
| errors and failures | `Abort`, `LoseSession`, `CloseIdle`, `Crash`; `ExecuteLate` at the owners |

The deferred `lockConn.Close()` returns the session to the pool and does not unlock:
`Return` keeps `lock`, a session that has it takes it again, another one is refused
until the pool closes the first (`CloseIdle`).

### CaseInbox

`events` counts the records of the engine, `exported` those the index has: task k is
created by record 2k - 1 and completed by record 2k. `rows[s]` is the history of
activations of a step in `workflow_tasks`.

| code | steps |
|---|---|
| `UserTaskProjector.projectOnce` | `ListCases` -> `SearchTasks` -> `ReadLast` -> `Project` (UpsertWorkItem), `ProjectRefused` or `ProjectFails` |
| `WorkflowReconciler.reconcileOnce` | `Reconcile`, one row at a time |
| `completeTask` | `Authorize` -> `Complete`, `CompleteRefused` or `CompleteFails` -> `CompleteWorkItemByJob` or `CloseFails` |
| the terminal job | `FinishCase` or `FinishFails` -> `CompleteJob` |

`UpsertWorkItem` takes the last row of its snapshot with `LIMIT 1 FOR UPDATE`, at READ
COMMITTED, and may wait for its lock. `ReadLast` notes the number of that row (`seen`); in
`Project` the lock is granted, and the row has the contents it has by then, though it need
not be the last one any more (`Stale`). The row is then renewed, when it is the task's
own; else the insert meets the unique index on (case, step, activation) and is refused
(`ProjectRefused`), as is one that PostgreSQL ends because two of them close each other's
rows.

`Reconcile` reads the index and writes in one step. The code reads it once per pass and
writes several rows; since `exported` only grows, and a row it lists was written from a
record the index already had, the later write is one that a step at that time may make,
too.

### CaseDecisions

`tasks` are the user tasks the engine created, `choice` how each was completed, `job`
the worker's job in flight, `decision` the rows of `workflow_task_decisions`, `log` their
order of `recorded_at`, `customer` the status in crm-service. `batch` holds the candidates a
dispatcher has still to handle; `IsOldest` picks them in order of `recorded_at`, as the
query sorts them.

| code | steps |
|---|---|
| `completeTask` | `Authorize` -> `RecordDecision` -> `Complete`, `CompleteRefused` or `CompleteFails` |
| `ValidateHandler` | `ValidateComplete`, or `ValidateDuplicate` -> `ThrowValidationError` |
| `ExecuteHandler` | `UpdateStatus` -> `CompleteJob` -> `FinishCase` or `FinishFails` |
| `dispatchOnce` | `ListDispatchCandidates` -> `Apply` or `ApplyFails` -> `MarkDecision` or `MarkFails`, per decision |

The modules share the engine's user tasks and nothing else: `CaseDecisions` lets a
request come for any task and lets its row be missing, which is more than `CaseInbox`
allows.

`newest` and `overtaken` are history variables: what happened last (a decision that was
recorded, or the update of a worker), and the decisions that were still on their way,
pending or in a dispatcher's batch, when that reached the customer. Every delivery of the
newest decision computes `overtaken` anew, so a retry takes out what was applied in
between. `CustomerFollowsDecisions` is about all behaviours: the customer has the status
of the newest, or of a decision on its way at that time.

### NotificationInbox

`delivered`, `acked`, `deadLetters` are JetStream's view of an event, `processed`,
`notified`, `warned`, `tombstones`, `inbox`, `lastSeq` the committed tables, `marked` and
`drafts` what the two open transactions of a handler have written.

| code | steps |
|---|---|
| `consume` | `Deliver` -> the handler -> `AckSync`, or at the last delivery `DeadLetter` -> `AckSync` |
| `handleDomainNotificationEvent` | `Handle` (ProcessEventOnce up to the marker) -> [`Resolve`] -> [`Notify` -> `CommitNotify`] -> `Commit` -> [`RecordRecipientWarning`] |
| errors, lost answers, stops | `Fail`, `Unanswered`, `Crash`; `DeliverLate` while the handler still works |

An event is delivered again when its ack wait or the delay of its Nak is over; how long
that is does not matter, so `Deliver` may come at any time the event is in nobody's hand.

`CreateNotification` runs on a connection of its own inside the handler of
`ProcessEventOnce`, so its commit comes before the event's. Statements see what is
committed when they run; row locks (`noti_user_seq`, the tombstone) and the event's
advisory lock are the only things they wait for.

## 3. Runs

| run | bounds | shows |
|---|---|---|
| `PostingCore` | 2 clients, 3 entries, 2 accounts, 1 key with 2 contents, a keyless payment and a one-sided request, reversals with and without the key, 1 period that opens and closes, openings on both sides | counters, keys, events, reversal pairs, balance, immutability, coverage, and `JSpec`: the engine implements `Journal` |
| `Outbox` | 2 replicas, 3 rows (one poison), batches of 2, 2 faults | exclusion, no loss, bounded duplicates, progress |
| `PostingLocks` | 4 postings (a reserve and a direct post with one key, a post of a pending entry, a reversal), 3 balance rows in any state of existence, pools of 3, 4 and 5, 1 fault | no cycle of row locks; only an exhausted pool stalls; with a connection to spare every call ends |
| `TrialBalance` | 2 entries, 2 rebuilds at a time, 3 dates, 5 transactions | windows, dirty dates, completeness of a rebuild |
| `JobReplicas` | 1 job, 2 replicas of one slot, 2 numbers for runs, 2 attempts, 1 manual run, 2 faults, 1 stall, an older catalog without the job | one live run, late answers, alerts, single execution, slot conservation, quiet after draining |
| `JobLiveness` | 1 job, 1 replica of two slots, 1 manual run, 2 faults | runs end, due jobs are claimed, through any two faults |
| `EndOfDay` | 2 runs in 2 processes with pools of 2 and 1 sessions, 2 tenants, 3 steps (one outside the catalog: optional, not retryable), 1 date to close, 2 faults | exclusion, no repeat under a dependent, agreement of row and date, the day closes, and `ClosesBusinessDays`: it implements `BusinessDays` |
| `CaseInbox` | 2 requests, 2 projectors, 3 tasks, 1 fault | no more open rows than projectors, the live row is kept, the inbox settles |
| `CaseDecisions` | 1 request at a time, 2 dispatchers, 3 tasks, 1 fault | the customer has the newest status or one that was on its way then, every decision is applied |
| `NotificationInbox` | 3 events (assigned, reassigned, reassigned to nobody), 2 replicas, 3 deliveries, 3 faults | nobody told twice, streams miss nothing, every event settles or is given up |
| `ReleasedKey` | as `PostingCore` | finding 1 |
| `CompletionRace` | 2 events (assigned, completed), 2 replicas, no fault | finding 2 |

The bounds are enough for what can go wrong: two clients race on one entry or
one key; three entries allow a hold, a competitor and a reversal (or an entry,
its reversal and the reversal's reversal); `MaxAmount` 2 lets one entry draw
twice on an account that covers only one of the draws. Three outbox rows with
batches of two put a poison row in front of a healthy one that does not fit the
same batch; two faults allow a lost acknowledgement followed by a rollback.
Entries and clients are symmetric; rows and replicas are not reduced, since the
run checks liveness. The ledger runs check no liveness.

Two run numbers allow a reaped run whose goroutine still lives and the run after
it. Two faults allow a lost claim and a failed finalization, both failed
finalizations of one run, or an error and a crash. Replicas are symmetric in
`JobReplicas` only, which checks no liveness. Two jobs at once were checked
separately, with two slots (slot conservation) and with one (no job starves another).

Four postings contain every pair of lock sequences the code has, a release apart,
which locks what a post locks; three rows are shared pairwise, so that three calls
could close a cycle. Pools of three, four and five are below, at and above the number
of calls. Two entries and three dates give an entry before, on and after a
stored date, and a gap; five transactions are the two entries and three rebuilds.
In `EndOfDay` the third session lets a run meet the lock its predecessor left, on the
same session and on another; the second tenant has a step that sorts before the one
it depends on; two faults are a lost answer and what goes wrong with its retry. One
date is enough because runs of another date share only the calendar row with it;
late requests for a closed date happen. In `CaseInbox` three tasks are a revision, a
review and the revision it asks for, so that a step has two activations, and two projectors
are the fewest that race for one; two faults were checked separately, with two requests
(1,705,288 states) and with one (175,192). In
`CaseDecisions` three tasks are a submission and its review or its return, and an
approval; two requests at once and four tasks were checked separately (the
invariants, and without faults). In `NotificationInbox` three deliveries are a first, a
repeated and the last, dead-lettered one, and the two events of one task race for one
user's sequence. Three faults let every delivery of one event fail, the publication of its
dead letter included.

`TypeOK` of `TrialBalance`, `PostingLocks`, `CaseDecisions` and `NotificationInbox` holds in
these instances and is proved (section 4); the runs spend their time on the other
properties.

Deadlock is checked in every run; the steps named `Rest` are the ends a bound or a
finished case gives the others. The ledger never stops (opening balances and
periods may always change). The scheduler can always save a schedule or let a
cron instant pass. The relay's state always allows `InsertOutbox`, `Expire` or
another attempt at the poison row.

Fairness: `WF(Tick(r))` for each replica. `Run` ticks for ever and a tick that
fails is followed by the next (`outbox.go` 264-282); a replica whose transaction
is open goes on with it. `PublishFails` and `Rollback` get no fairness and are
bounded by `MaxFaults`: under endless faults nothing can be promised. No fairness
is assumed of `Write` or `Expire`. `HealthyRowsPublished` needs fewer poison rows
than a batch: with `BatchSize` poison rows at the head the claim never reaches
the others (the mutant `IsBatchShort` shows that case).

Fairness of the scheduler (`Fairness`). Weak: a goroutine goes on, an open claim
commits unless a fault stops it, deadlines pass, old rows are deleted by the daily
clean-up job, a process told to stop stops (`main` bounds the wait by 20 s).
Strong: `Finalize`, `StartManual` and `ReapOne` wait for a row lock, and
PostgreSQL grants it in turn; `TickReserve` and `ReapList` share the loop of
`Run`, whose `select` picks at random among ready tickers, so neither is passed
over for ever; a replacement starts once it gets the rows it seeds. None is
assumed of faults, crashes, manual requests, cron instants or saved schedules.

Fairness of the others, all weak. `EndOfDay`: a run in a live process goes on, a day
that is not closed is called again (the job `eod` is scheduled, and operators have the
endpoint), and the pool closes idle sessions, for which `ConfigurePool` sets a
lifetime; none of owners' late executions, faults or crashes. `PostingLocks`: goroutines
run and PostgreSQL and the pool serve whom they can; weak fairness suffices since a call
that can be served stays so unless another takes its turn, and calls are finitely many.
Deadlines get none. `CaseInbox`: the exporter, the reconciler's and the
projectors' tickers; no request need ever be made or completed. `CaseDecisions`: the
dispatchers' tickers; the faults are bounded. `NotificationInbox`: the server delivers what
it may, each ack wait passing at last, and each replica goes on with what it has; deliveries are
bounded, so no event can keep another from its turn.

### Findings

1. **A released key is not refused** (`ReleasedKey`). `PostTransaction` has a
   branch for a key whose entry is VOID ("was released (VOID); issue a new
   posting"), but releasing sets `idempotency_key = NULL`, so the lookup finds no
   entry and the post goes through as a direct post, with no availability check.
   Trace: reserve under k, release, post under k.
2. **A completion races with its assignment** (`CompletionRace`). `ResolveEntity` leaves a
   tombstone and then resolves the rows it sees; its comment says that this closes the
   race with the assignment. The two events have consumers of their own, and their
   transactions overlap: the assignment's inserts its row and finds no tombstone, the
   completion's finds no row, both commit, and the notification of a completed task
   stays actionable. Nine states, no fault.

### Other differences met while modelling

They have no run of their own; the passing runs leave them out, by the way their
properties are stated, which then say so, or by their instance.

*Finance.* The reversal of an entry in two currencies, which `resolve` accepts, is not
its mirror: `ReverseTransaction` stores every line in the header's currency
(`posting_service.go` 801) and moves the counters in the lines' own (845), so that a
counter of either currency is no longer the sum of its lines. A header may have no
currency at all, since lines default to VND on their own. The counters themselves return
to where they were and every currency stays in balance (`BooksAlwaysBalance` is proved
of such entries too); it is the journal that shows the wrong amounts. In a separate
instance with four balance keys in two currencies, an exchange, a transfer and a
withdrawal, TLC found `BooksBalance` and `DrawdownsAreCovered` to hold (72,096 states)
and `CountersMatchJournal` to fail after an exchange and its reversal. In another, of four
entries whose reversals may be reversed, `JSpec` holds (4,828 states). The backfill of
`20260908100000_fin_account_balances.sql` sums POSTED entries: an original (REVERSED) is
left out and its reversal (POSTED) is counted, so a reversed pair leaves minus the
original; the running service counts both. `TrialBalance` loses an entry for good in two
ways, collected in `forgotten`: the entry's transaction began before a rebuild and
outlasts it, so that `posted_at` is earlier than `rebuilt_at`; or an earlier date is
rebuilt alone and stamped anew while a later stored date still lacks the entry. The
comment above `RebuildDaily` (lines 85-95) promises rows that are a function of the
journal. A post that finds the pool exhausted by waiting transactions waits until its
deadline (`OnlyThePoolStalls`).

*End of day.* `RunSystem` asks whether a step is blocked before it reads its checkpoint
(`eod_service.go` 408), and a blocked step becomes SKIPPED whatever its row said. When a
step that stops its tenant depends on one that does not, it can be skipped in one run,
while the steps behind it become DONE, and be run and fail in the next: the DONE rows
become SKIPPED, and a third run asks their owners again. TLC finds this at once when the
accrual depends on the step outside the catalog. Every step of the seeded catalog stops
its tenant, so the catalog as seeded is not affected (`DoneStaysDone`). The advisory
lock outlives its run on a pooled session, so a retry from another session gets
`ErrEODRunInProgress` until the pool closes the first. When the commit of `CompleteEOD`
succeeds but its answer or the read that follows fails, the deferred `ReleaseEOD` opens
the gate of a day another run may be closing; its comment calls that harmless. A failed
read after `ClaimEOD` leaves the gate closed until the next run. A step whose client
timed out may be executed by its owner after the date has moved.

*Workflow.* A projector behind the engine reopens the row of a completed task (the
reconciler closes it again), and one that holds an earlier task of a step cancels the live
row (a later projection makes it anew). `UpsertWorkItem` locks the last activation of its
snapshot, not of the moment it gets the lock (`work_item_repository.go` 204-211): a
projector that waits for activation n while another cancels it and inserts n + 1 gets n,
finds its own job there and renews it to READY (302-325) beside the new row. Two rows of
the step are then open, at most as many as there are projectors (`OpenRowsAreBounded`),
until the reconciler closes those of tasks that are over. `WorkflowHandler` upserts the
task of a claim in the same way (`workflow_handler.go` 1381, 1417, 1480), so that each
claim under way counts as a projector. A projector behind the engine that finds a newer
activation inserts another row for its older job, which may have one already: the
migration's "one row per engine user task activation" (`20260919100000`, 41-42) does not
hold of such a job. After `FinishCase` it leaves an open row for ever, since the
reconciler passes over finished cases: the comment at `case_repository.go:740` says that
none is left. `ReconcileWorkItem` writes unconditionally and may turn COMPLETED into
CANCELLED. A decision is recorded before the engine is asked: when it refuses, the
decision stays and is dispatched. A decision for a task without a row is never recorded. A
REQUEST_CHANGES or SUBMIT that is still on its way (`overtaken`) overwrites the status of
an approved customer, or the NEEDS_CHANGES of a failed validation. Two dispatchers' marks
may turn APPLIED back into FAILED, and the decision is dispatched again
(`DecisionsAreApplied` holds all the same). `ExecuteHandler` completes the job before
`FinishCase`; a crash or an error between the two leaves the case open and its approval
RECORDED. The eager row of `SubmitCase` is for the step that comes first in document
order, UT_CheckerReview, while the process begins with UT_MakerRevise.

*Notifications.* When the publication of a dead letter fails, the message is not
acknowledged, which "keeps it redeliverable once the dead-letter publish succeeds"
(`consumer.go` 124-125). Only the last delivery is published (line 122), so JetStream
keeps the message and delivers it no more: it is neither handled nor dead-lettered.
`GivenUp` is that end, and `EventsSettle` names it; without it TLC finds an event of which
two deliveries fail and the third is spent on a publication that fails (`MaxFaults` 3). A
reassignment that is handled again after its notification was committed and before its
event was resolves the new assignee's own row. workflow-service sends it with the id of
the new task, so that later notifications of that task are born resolved while the rows of
the old one stay. `ClaimQueuedDeliveries` (line 662) leaves a row `dispatching` for ever
when the worker stops before it is marked.

## 4. Proofs

`FinanceProofs` proves of `PostingLedger`, for any sets of clients, entries, accounts, keys,
periods and requests:

- `TypeCorrect`, `KeysCountOnce`, `OneEventPerBooking`: invariants of `PostingCore`;
- `ReversalsAreStored`: reversed entries and booked reversals are paired one to one, and
  the reversal has the mirrored lines as `ReverseTransaction` stores them;
- `DrawdownsStayCovered` (`DrawdownsAreCovered`) and `BooksAlwaysBalance`
  (`BooksBalance`), of entries in one currency or several;
- `JournalIsImmutable`: the action property;
- `ImplementsJournal`: every behaviour of `PostingLedger` is one of `Journal`; with it
  `CountersAreWhatMoved`: the counters are the sums of what the entries hold and moved;
- under `SingleCurrency`, `CountersAreTheJournal` (`CountersMatchJournal`) and
  `ReversalsArePaired` (`ReversalPairing`).

`SingleCurrency` says that the lines of every request are in its header's currency. It
is a hypothesis of the last two only, and they need it: the reversal of a mixed entry
stores lines it does not move, as section 3 says. `Moved` tells the two apart: a reversal
moves the mirrored lines of its original, any other entry its own. `Journal` stores what
the engine stores and checks against what was moved. The rest rests on the ASSUMEs of the
modules: natures, amounts and periods are what they are called; requests and openings
have their types (`OpeningSideAssumption`: an opening is a direction and a whole
amount); `InCurrency` takes a balance key to its sister in another currency
(`InCurrencyAssumption`; a header without a currency is one more currency here).

The argument. `TypeOK` is not inductive: a release subtracts an entry's amounts, which
leaves naturals only if that entry is counted, and a call in flight carries a
request or an entry read earlier, which must still be well formed when it commits.
`LedgerInv` adds that the reserved counters are the sum over the pending entries, which
move finitely many minor units (`HoldsMatch`); that a call at a step carries the request
(balanced, once resolved) and the target of that step (`CallsOK`); and that written
headers have a currency (`HeadersOK`). `BookingInv` adds unique keys among live entries,
one event per booking and `StoredPairing`. Every disjunct of `Next` is first reduced
(lemma `Effects`) to one of six effects on the journal: quiet, holds, books, voids,
converts, reverses; each invariant is then proved once per effect. The first part
of the module is the algebra of `JournalSum`: adding, removing, moving an entry, and
that other entries are untouched.

`BookedMatch` says that the posted counters are the sum of `Moved` over the booked
entries. A step adds one booked entry at most, and the others keep what they move
(`BookedKeepMoving`), because by `StoredPairing` no booked entry becomes a reversal
and none is the reversal of two. The refinement follows: a check made against the counters
is the check made against the journal. What one currency adds is `LinesInHeader`: a
stored reversal is then a mirror, and what an entry moves is what its lines say
(`UnmixedMoves`).

Coverage. The checks are made line by line, the promise is about the whole entry. An
account an entry draws on has a last outflow line (`LastOutward`); up to that line the
entry has drawn everything it draws and brought in no more than it brings
(`NetOfPrefix`), so the value that line was checked against covers the entry
(`CoversEntry`); `SignedAfterAdd` carries this from the lines to the counters.

Balance. Debits equal credits in a currency when the units of one side correspond one to
one with those of the other. What a booking adds to the counters of a currency
corresponds to the entry's units of that side and currency (`CounterUnitsAdd`), and
`BalanceInv` says that written entries balance and so do the counters. The
stored reversal of a mixed entry is all in the header's currency; it balances there since
its sides are those of the whole entry, over all currencies (`StoredBalanced`,
`BalancedOverAll`).

`PostingLocksProofs` proves, for any number of postings, balance rows and connections,
`TypeCorrect`, `LockOrderPreventsDeadlock` (`NoLockCycle`) and `StandstillNeedsThePool`
(`OnlyThePoolStalls`). `LocksInv` says that a call deals with its entries in the order of
its list and with its rows in the order of the sort, that what it holds it has got to,
and that a row it has ensured exists or is its own insertion: this last is why the
second phase never waits behind its own first. A call that waits for a
lock has a `Rank`, the place of that lock in one order: entries and keys first, then the
rows as they are ensured, then as they are locked. The holder of what a call waits for, when it
waits too, has a greater rank (`RankGrows`), and ranks are bounded, so waiting
calls form no cycle. The order of the entries is `EntryOrderAssumption`: a call takes
one key or one entry, except the reversal, whose entry comes before its key.

`TrialBalanceProofs` proves, for any entries, concurrent rebuilds and dates,
`TypeCorrect`, `NothingCountedTwice` (`CountedOnce`), `MissingIsFound` (`MissingIsDirty`)
and `RebuildLeavesNothingOut` (`RebuildIsComplete`). A balance counts an entry at most once
since its date carries the date stored before and adds what that one does not cover; to
say this of every order of rebuilds takes `Monotone` (what a stored date lacks no later
date has). `MissingIsDirty` has to hold of entries that have not committed
(`LiveMissingIsDirty`), and, while a rebuild is at work, `Building` says what the
transaction sees: the dates it rebuilds are closed under "stored after" up to the requested
one (`InTurn`), a date rebuilt carries what an earlier one has (`CarriedOver`) and the
entries it is the first to cover (`FirstCounts`), and dates left alone were younger
than all they cover (`CleanAreYounger`).

Of `Outbox` it proves `RelayTypes`, `ReplicasExclude`, `NoEventIsLost` and
`SurplusIsBounded`, for any rows, replicas, batch size and number of faults.
`SurplusCopiesAreFaults` is not inductive: a row published a second time must be
known to owe its first copy to a fault. `CopiesOfUnmarked` says so (a row nobody
has marked and nobody has published has at most `faults` copies), and
`WindowStored` and `MarkedIsStored` carry "stored" through the duplicate window and
the open transactions.

`JobSchedulerProofs` proves, for any finite set of jobs and any replicas, slots,
limits and faults, `TypeCorrect`, `OneLiveRun`, `AlertsAreTrue` and the arithmetic
`DeadlineCoversExecution` (1 to 5 attempts, as the API accepts). `TypeOK` is not
inductive: that an attempt or a try is left whenever one is made is `TriesLeft`.
The two invariants are inductive given the types: a run becomes RUNNING only
through `InsertRuns`, on jobs without a running one, because `Startable` and
`IndexRefuses` look at them in the step that inserts; and `FinalizeTx` alone moves
`lastStatus` and `alerts`, both by `Transition`.

Further `OneExecutionAtATime` (`SingleExecution`), `NoSlotIsLost` (`SlotsConserved`),
`DrainedStaysQuiet` and `LateAnswersAreIgnored` (`LastStatusIsLatest`). The first
rests on `LiveInv`: unless a process was suspended, an attempt is that of a RUNNING run whose
deadline lies ahead, so the reaper has not ended it and the next has not begun. `SlotsInv`
counts: the slots a replica has taken are those of its tick, its manual requests and its
goroutines, and a claim has locked no more jobs than its tick reserved, which is what makes
the goroutines it starts fit. `HistoryInv` says that `rows` lists the rows of a job, each
once, and that a RUNNING row is the last of them; a finalization guarded by RUNNING
can therefore write only the status of the latest run.

`EndOfDayProofs` proves `TypeCorrect`, `RowsAgreeWithCalendar` (`SucceededDatesAreLeft`),
`RunsExclude` (`ExclusiveRun`) and `ImplementsBusinessDays` for any runs, processes, pools,
tenants, steps, dates and faults. `ExclusiveRun` alone is not inductive: `LockInv` adds
that sessions in use are distinct and that, unless a session was lost, a run at work
holds its date's lock through its own session. The refinement needs what each
part of the system knows about `executed`, which is `TaskInv`: a DONE checkpoint, a DONE
outcome and a good answer each mean the step was executed (`DoneWasExecuted`,
`OutcomesWereExecuted`, `AnswersAreTrue`); the step a run is about to ask for, and every
loose request, come after steps already executed (`ChosenIsReleased`, `LooseIsReleased`);
and no run works on a date that has not come (`DaysHaveCome`). Each action is one of
four effects (`Quiet`, `Chooses`, `Executes`, `Handles`), and each part is kept by each
effect. That the task a run handles is the same from `Choose` to `MarkRun` is
`NextIsUnique`, from the sequence numbers.

Further, under `StopsAreClosed`, `DoneStaysDone` (`DoneIsKept`) and
`StepsAreNotRepeated` (`NoRepeatUnderDependent`), both unless a session was lost. The
hypothesis says that what a stopping step depends on stops too, as in the seeded
catalog, where all steps stop; section 3 shows that it is needed. TLC finds `DoneIsKept`
to hold in the instance of `EndOfDay`, whose run checks `NoRepeatUnderDependent`. A
checkpoint is overwritten by a run that finds the step blocked or does not see that it
is DONE, and `KeptInv` excludes both. Runs at work agree with the rows on what is DONE
(`OutcomesAreSaved`, which needs `RunsExclude`), ask only for steps that are open
(`ChosenIsOpen`), and skip a stopping step only behind a failure (`SkipsHaveCause`). All
runs handle the steps in one order: of the sets two runs have handled, one includes the
other (`PrefixesAreAChain`). So it makes sense to speak of what a step needs: what it
depends on, and the stopping steps of its tenant that come earlier. Every step that was
executed, or still may be by a late request, has all it needs DONE (`AllFounded`), and
whatever would block a DONE step is among the things it needs (`DoneIsNotBlocked`).

`CaseInboxProofs` proves `InboxTypes`, `OpenRowsBounded` (`OpenRowsAreBounded`) and
`LiveRowsAreKept` (`LiveRowIsKept`) for any requests, tasks and faults and any finite,
nonempty set of projectors. The inductive invariant `InboxInv` adds that every row and
every task a projector found came from a record the index had (`RowsWereExported`,
`FoundWasExported`), that a request closes the row of a task the engine has completed
(`ClosingIsCompleted`), and that no task is open once the terminal job exists
(`JobIsLast`). With them a row the reconciler may close belongs to a task that is over.

The bound on open rows is not inductive, since a stale projector that has not written yet
will open one more. `ExtraRowsWereStale` counts it beforehand: the open rows of a step
before its last one and the projectors whose read is stale are together fewer than all
projectors. A renewal turns one of the latter into one of the former. An insert
makes stale every projector that has read the last row, but closes all rows, and the
projector that inserts is not among them; so what is counted starts anew below the number
of projectors. Reads are of rows that exist (`ReadsAreOld`), and rows are never removed.

`CaseDecisionsProofs` proves `DecisionTypes` and `CustomerHasLastDecision`
(`CustomerFollowsDecisions`) for any requests, dispatchers, tasks and faults. The
inductive invariant `DecisionsInv` has three parts. `Basic` is about the engine and the
queue: only the last task is open, and only while no job is in flight (`TasksInTurn`);
`log` lists each recorded decision once (`LogIsComplete`); what a dispatcher has still to
handle has been recorded (`BatchesAreRecorded`). `NewestIsLast`: a newest decision comes
after all others in `log`, so a dispatcher that has told the customer of it, and takes
the oldest first, has nothing else left in its batch. `HeardInTurn` is the property made
inductive. The customer has `Heard` of the newest when it is no longer pending, or when a
dispatcher has applied it and not marked it yet; from then on, whatever may still be sent
is in `overtaken` or is the newest itself, and so is what the customer has. A failed call
or mark leaves the newest pending, and a second delivery of it makes `overtaken` anew; a
decision in the batch of another dispatcher is still counted as one on its way (`Late`),
whatever its row says. Every step is reduced to one of a few effects
(`Effects`), with one lemma for each. That `log` is a sequence enters through one lemma:
its order of positions is a strict order (`BeforeIsAnOrder`).

`NotificationInboxProofs` proves, for any events, tasks, users, replicas, deliveries and
faults, `TypeCorrect`, `NobodyIsToldTwice` (`NoDuplicateNotification`), `CursorsSkipNothing`
(`CursorMissesNothing`) and `ProcessedIsHandled` (an event marked as processed has its
notification and its tombstone). `InboxInv` says that one replica works on an event
(`WorksAlone`, the advisory lock); that a draft is of an event not yet notified and is
numbered one past its user's sequence (`DraftsAreNew`), which no other draft of that user
shares (`SequencesAreHeld`, the row lock of `noti_user_seq`); that rows an open transaction
resolves are still in the inbox (`MarkedAreInserted`); and that a notification and its
rows are committed together (`NotifiedHaveRows`), before their event is.

Only model-checked: liveness (`EveryPostingEnds`, `HealthyRowsPublished`, `RunsEnd`,
`DueJobsAreClaimed`, `DayIsClosed`, `InboxSettles`, `DecisionsAreApplied`, `EventsSettle`),
which is out of the prover's reach.

## 5. Not modelled, and the plan

Not modelled in the ledger: account resolution, rules, posting-date policy
(pure checks before any write), queries and reports, posting cases (pure checks of a
request's shape; a one-sided off-balance case passes them and is then rejected as
UNBALANCED by `resolve`), document numbers (one transaction each, under the period's row
lock). 64-bit overflow of the counters is out of range for amounts in minor units.

Not modelled in the scheduler: cron arithmetic and time zones (an instant passes
at any time), the version check of `UpdateConfig` (a refused save changes nothing),
SKIPPED rows, metrics, and the outbox rows behind `alerts`, which the relay takes over.

Not modelled in the end of day: holidays (dates are numbered), what the owners' steps
do, and a change of the tenant list or of the catalog between two runs of a day. A retry
of the job `eod` without a date closes the next day when the first attempt had closed
the one before; that is `Call` again.

Not modelled in the inbox: who may complete a task (claims, candidate roles, assignment,
the expiry of claims: `ReleaseExpiredClaims` moves CLAIMED to READY, both open here),
the limit of 500 records per search, cancelled processes, timelines and notifications.
In the decisions: case types without an adapter (with fifty of their decisions at the
head of `LIMIT 50` the others starve), rejections (handled like approvals), the five
minutes between two attempts (a FAILED decision may or may not be a candidate).

Not modelled in the notification inbox: events of cases, loans and jobs (handled like
assignments, with consumers of their own), read marks, preferences, e-mail and push
deliveries, stream leases, attempts and `last_error` of `noti_event_inbox`.

Not modelled at all: AI approvals (single guarded statements; the EXPIRED mark of
`approval_store.go:321` is undone by the deferred rollback, as the code shows),
notification delivery, IAM sessions, loan submissions, the gateway, and the CRUD and
reporting services with their generated stubs. The repository has 741 implementation files,
most of them of these kinds; the modules cover those whose correctness depends on
the order of steps of several actors.
