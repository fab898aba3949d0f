# TaskPilot in TLA+

TaskPilot is a background-job service. Clients POST tasks to an HTTP API; workers
poll one PostgreSQL table, execute what is due, retry failures with a backoff and
dead-letter what keeps failing. This directory holds TLA+ models of it, the TLC
configurations that check them, and TLAPS proofs. Paths are relative to the
repository.

## 1. The system

| Part | Source | State | Operations |
|---|---|---|---|
| tasks table | `app/models.py`, `alembic/versions/` | one row per task: status, retry_count, last_error, scheduled_at, updated_at, idempotency_key; row locks of open transactions | the statements of the parts below |
| status machine | `app/state_machine.py` | none | `can_transition` |
| writing API | `app/service.py`, `app/routers/tasks.py` | none of its own; a session per request | `create_task`, `update_status`, `delete_task` |
| reading API | the same files | none | `get_task`; `list_tasks`: a count, then a page |
| worker tick | `app/worker/processing.py` | per tick: the claimed ids, a semaphore; per run: a session and the `Task` object it loaded | `reclaim_stale_running`, `claim_due_tasks`, `process_claimed_task`, `run_once` |
| executor | `app/worker/executor.py` | none | `execute_task`: fails for `force_fail`, may time out |
| event loop and shutdown | `app/worker/runner.py`, `app/worker/worker.py`, `app/main.py` | the stop event, the runs of the current and of earlier ticks | `run_loop`, signal handler or lifespan, process exit |
| request pipeline | `app/middleware.py`, `app/auth.py`, `app/errors.py`, `app/schemas.py`, `app/logging_config.py`, `app/database.py` | the request id in a context variable, the pool's connections | size guard, routing, body, key, validation, session, error handlers, log, metrics |
| health, metrics | `app/routers/health.py`, `app/metrics.py` | counters | liveness, readiness (a statement), scrape |
| configuration | `app/config.py` | read once | validation of the environment |
| dashboard | `frontend/components/` | React state: filter, offset, rows, total; an interval; fetches in flight, each with the render it was made in | poll, page, filter, create, delete |
| dashboard proxy | `frontend/app/api/` | none | adds the key, passes the request and the status on |
| review exercise | `task_service_fixed.py` | one shared sqlite connection and its open transaction | create, list, lifespan |
| deployment | `docker-compose.yml`, `Dockerfile` | containers | restart policy, `stop_grace_period` |

How they interact. The API and any number of worker processes share nothing but
the table. By default one worker runs on the API's own event loop. A worker holds
row locks only from a `SELECT ... FOR UPDATE SKIP LOCKED` to the commit that
follows it; execution holds none. A run reads its task once, before it executes,
and writes the outcome from that copy: `session.get` finds the object in the
session's identity map (`expire_on_commit=False`), so the outcome is an UPDATE of
the changed columns that does not look at the row again.

What is hard about it: several workers racing for rows; a run that reports after
the reaper gave its task back; PATCH and DELETE under a run; a crash, or a lost
answer to a COMMIT, between any two statements; `asyncio.gather` leaving the
siblings of a failed run behind; two creates with one idempotency key; shutdown in
the middle of a tick; requests that hold a connection while they wait for a row, and
requests that need a second connection after their commit; exceptions that leave
through the middleware; answers to the dashboard in any order, asked for by renders
that are gone; commits of one request that carry the rows of another. `PROJECT.json` lists each of these hazards at its line with
the properties that cover it.

What makes each part correct:

- *table and locks*: what a worker selected for update is unchanged when it commits;
- *worker*: a task has one run at a time; an outcome is written over the row it
  belongs to; retries are counted; final statuses are final; nothing is stranded;
- *create*: a key never names two tasks, all answers agree, every request is answered;
- *event loop*: the process exceeds its cap only beside failed ticks, nothing but orphans outlives a tick,
  stop is honoured;
- *timing*: a live tick ends before its tasks look lost;
- *request pipeline*: PATCH and DELETE are atomic and told the truth; no path keeps a
  connection or a lock; log and metrics say what the client was told; all are answered;
- *dashboard*: an answer is whole unless a write tore it; at rest the page shows what
  is selected and what is on the server;
- *shared connection*: what was acknowledged is durable; what comes to
  light after a failure, and what vanishes after it was listed, is explained.

## 2. The modules

| Module | Models | Abstract over |
|---|---|---|
| `TaskModel` | a row, `ALLOWED_TRANSITIONS`, `_apply_failure` | title, payload, clocks |
| `TaskTable` | rows, locks, LIMIT, dirty-column UPDATE | SQL, connections |
| `Worker` | `processing.py`: one action per transaction, crash and error paths | payloads, backoff length |
| `TaskApi` | POST, PATCH, DELETE on the table | HTTP |
| `TaskPilot` | `Worker` and `TaskApi` composed; fairness; properties | |
| `JobQueue` | what the core promises of a job, with no rows, locks or workers | |
| `IdempotentCreate` | `create_task` statement by statement, with resends | the other columns |
| `GetOrCreate` | the atomic get-or-create that `create_task` promises | |
| `RunLoop` | `run_loop`, the gather and semaphore of a tick, shutdown | the table |
| `TickTiming` | how long a tick lasts, against the timeouts | everything but time |
| `RequestPipeline` | a request from the middleware to its answer: checks, pool, handler statements, error handlers, log | bodies, latencies; POST and the listing |
| `RowRequests` | what PATCH and DELETE promise, with no locks, pool or commits | |
| `Dashboard` | `Dashboard.tsx` and `CreateTaskForm.tsx` over `list_tasks` | markup, fields, the proxy's key |
| `SharedConnection` | `task_service_fixed.py` | users, columns, JSON |
| `MC*` | model values for TLC | |
| `TaskPilotProofs`, `TaskPilotSafetyProofs`, `IdempotentCreateProofs`, `RunLoopProofs`, `TickTimingProofs`, `RequestPipelineProofs`, `DashboardProofs`, `SharedConnectionProofs` | theorems about the module they are named after | |

### State and actions of the core

- `row[t]` is the committed row. `due` stands for `scheduled_at <= now`, `stale` for
  `updated_at < now - running_task_timeout_seconds`; `BecomeDue` and `GoStale` are
  time passing, and every UPDATE clears `stale` because of `onupdate=func.now()`.
  A task id starts `absent` and ends `deleted`; UUIDs are not reused.
- `lock[t]` is the worker whose open transaction locks the row. Only the two
  SKIP LOCKED queries keep locks from one step to another. PATCH locks, checks and
  commits without anyone able to see in between, so it is one step that waits for
  the lock; DELETE and the write of an outcome likewise.
- `pc[w]` goes `idle`, `reclaiming`, `reclaimed`, `claiming`, `gathering`, `idle`,
  as `run_once` does. Select and commit are separate steps: `ReclaimSelect`,
  `ReclaimCommit`, `ClaimSelect`, `ClaimCommit`.
- `run[<<t, n>>]` is `process_claimed_task` for the n-th claim of `t`: `queued` until
  its first transaction (`ProcessStart`), then `executing` with the `retry_count` and
  `last_error` it loaded, then over (`RecordSuccess`, `RecordFailure`). `Flush` writes
  the columns that differ from the loaded ones and leaves the others as they are now.
- Error paths: `StaleDataError` (the row was deleted, the UPDATE matches nothing),
  `DatabaseError` (before or after the COMMIT was applied), `ClaimLost` (the claim is
  committed, its answer lost), `TickFails` (rolled back), `Crash` and `Restart`.
  An exception of a run ends the tick at once and its siblings go on (`Raises`).

A client's freedom is the constant `PatchSources`: the statuses out of which clients
PATCH each task. `MayStall` holds the tasks whose runs may outlast the running
timeout. `Undisturbed` tasks are those in neither way interfered with: their runs end
in time and no client PATCHes them while they run. Most safety properties are about
undisturbed tasks, in the company of others to which anything may happen. For a task
that *is* PATCHed while it runs they are false, and the runs `doc_final` and
`doc_not_twice` show it.

### State and actions of the other models

- `IdempotentCreate`: request `<<c, n>>` is the n-th POST of client `c`, and the name
  of the task it would insert. `Lookup`, `Insert`, `Commit`, `Relookup` and `Refresh`
  are the awaits of `create_task`. `Insert` waits while another transaction holds its
  key in the unique index. A client may resend although its first request still runs.
- `RunLoop`: `loop` is where `run_loop` is, `job[j]` the `_run` of a claim, `tickOf[j]`
  its tick (each tick has its own semaphore). `Raise` wakes the loop at once and leaves
  the siblings going. `Exit` cuts what is left when the loop has returned, `Kill` is
  the SIGKILL at the end of the grace period.
- `TickTiming`: `waiting` claims, and `upto[a]`, the number of runs that have executed
  for at most `a`: cumulative, so that the number of all runs is one of its values and
  no sum has to be reasoned about. `Advance` lets a unit of time pass if no permit can be taken and no timeout is due. `ApparentAge` is
  the age of a claim to a worker whose clock is `ClockSkew` ahead of the database's.
- `RequestPipeline`: `pc[r]` is where a request is. `Receive` is the way to the handler:
  a body is a set of `flaws`, and `Checks` is the order in which the code would find
  them. `Checkout` takes a connection of the pool (`free`), `PoolTimeout` is the end of
  the wait for one. `PatchSelect` and `PatchCommit` are apart, so that others run while
  the row is locked (`holder`); the refresh after the commit begins a new transaction
  and needs a connection again. `DeleteSelect` takes no lock, `DeleteCommit` waits for
  it. `DatabaseError` breaks the connection at any statement, a commit before or after
  its effect. `Respond` and `RequestFailed` are the two ways back through `dispatch`,
  `HandleUnexpected` the last handler. `WorkerWrites` is everything `Worker` may do to
  the row, without its reasons.
- `RowRequests`: a request is open until, in one step, it takes effect (or finds nothing,
  or is refused) and its outcome is decided. The mapping `Outcome` decides a PATCH at
  its commit, not at its answer, and a request that raises has failed.
- `Dashboard`: `table` is the result of the ORDER BY; `load[l]` is a fetch from its call
  to its answer, with the selection of the render that made it; `Count` and `Page` are
  the two statements. `Rank` numbers the rows that match in the order of the table, and
  a page holds those whose rank lies in the window of OFFSET and LIMIT. A click, the render and its effect are one step (`Select`).
  `timers` are the intervals that run; `call[n]` is the POST or
  DELETE that the n-th click sent: one POST at a time, since the form disables its
  button, and any number of DELETEs beside it, since the rows' buttons do not.
- `SharedConnection`: `txn` is the connection's open transaction, `durable` the disk.
  `InsertFails`, `CommitFails` and `SelectFails` leave the transaction open, as no
  handler rolls back, or lose it to SQLite's own rollback (`undone`).

## 3. What is checked

| Run | Instance | Shows |
|---|---|---|
| `core` | 2 workers, 2 tasks, MAX_RETRIES 1, 2 claims per task, 1 fault | the invariants and step properties of `TaskPilot`, and that it implements `JobQueue` on undisturbed tasks |
| `core_live` | 1 worker with batches of 1, otherwise the same, with fairness | every undisturbed task is settled; no row stays `running` for ever, although the reaper takes one of two stale rows per tick |
| `create` | 3 clients (2 share a key), 2 requests each, 1 fault, fairness | `create_task` implements `GetOrCreate`; keys, answers, failures and the counter; every request is answered |
| `loop` | 4 jobs, batches of 3, WORKER_CONCURRENCY 0, fairness | what outlives a tick and how far that takes the process beyond its cap, stop, no starvation |
| `tick_default` | the defaults, in units of 10 s; a clock three minutes ahead | the length of a tick, and that it ends before the reaper looks |
| `requests` | 3 requests of several kinds, a pool of 2, 1 fault, fairness | PATCH and DELETE implement `RowRequests`; no leak; log and counter; every request is answered |
| `dashboard` | 2 loads in flight, pages of 1 row, 2 clicks, 1 write of others, 1 error, fairness | answers are whole unless torn; the page converges |
| `shared` | 3 creates, 2 listings, 2 faults | durability, ownership of the open transaction, ghosts, what listings show and lose |
| `doc_final` | any PATCH | "final" statuses can be overwritten by a run |
| `doc_not_twice` | any PATCH | a task can run twice at a time |
| `doc_graceful` | 4 jobs, 2 permits | the loop returns with runs in flight |
| `doc_record_id` | 1 PATCH, 1 database error | the record of an unhandled exception has no request id |

The `doc_*` runs are violations on purpose: each states a sentence of the
documentation, and TLC's counterexample is what the code does instead. `PROJECT.json`
quotes the sentences.

Other divergences were met on the way that need no model to see, and have no run:

- the worker moves rows along edges `ALLOWED_TRANSITIONS` does not have (running to
  pending and to dead), though `state_machine.py:3-5` calls it the single source of truth for the worker too;
- `failed` is drawn with a retry edge (`state_machine.py:9`, `README.md:6`), but no
  code leaves `failed` except a client's PATCH;
- a tick may last two minutes with the defaults (`TickIsShort`), the container gets
  `stop_grace_period: 30s` (`docker-compose.yml:93`);
- the concurrency cap is per tick, and the runs of a failed tick go on beside it, taking
  permits of their own (`CapUnlessRaised`, with `OnlyOrphansOutlive`, says how far);
- `tasks_created_total` is described as "Tasks created via the API" (`metrics.py:27`), but a
  created task whose refresh fails is not counted, as `CounterIsExact` states;
- "tried 3 times" in the README's diagram: MAX_RETRIES = 3 allows four executions;
- 413 is answered before the access log and the counter, though `middleware.py:3`
  promises a line for every request;
- the 503 of the readiness probe has its own body, not the envelope of `errors.py:3`;
- an unhandled 500 lacks the `X-Request-ID` header;
- a body that is not JSON is answered 422 before the key is looked at.

### The properties

- `SelectedRowsUntouched`: a row that a worker holds is what its query selected, until
  the commit. This is what SKIP LOCKED and the API's FOR UPDATE are for.
- `NoOverlap`, `RunsAreFresh`: at most one run of a task is live over all workers, and
  an executing run's copy equals the row it will write. Nothing in the code checks
  either; they follow from the order in which rows are claimed, given back and finished.
- `ClaimBudget`: claims are paid for by retries, so a task has at most MAX_RETRIES + 1.
- `TerminalIsFinal`, `RetryCountNeverDrops`, `DeletedStaysDeleted`,
  `SucceededHasNoError`: what a late write from an old copy could undo.
- `ImplementsJobQueue`: a job is settled by the execution that was going on, or given
  back when none is, never both.
- `EventuallySettled`, `StuckRunningIsReclaimed`: no crash, lost commit, rollback, PATCH
  or stalled run strands a task.
- `OneTaskPerKey`, `RepliesAgree`, `FailuresAreExplained`, `CounterIsExact`, `IsAtomic`,
  `EveryRequestIsAnswered`: idempotent creation.
- `CapUnlessRaised`, `OnlyOrphansOutlive`, `StopIsHonoured`, `EveryRunEnds`: the loop. The
  first is about the process, not a tick: orphans take permits beside the current tick,
  and the excess is at most one semaphore for every tick with a run that raised.
- `TickIsShort`, `OverBeforeReaped`: timing. `OverBeforeReaped` is what justifies taking
  a task's runs not to stall, for the default settings, a process that is not
  suspended and clocks that differ by at most three minutes: the margin is exactly
  that, four waves of 30 s against 300 s less a skew of 180 s.
- `ImplementsRowRequests`: a race of PATCH, DELETE, a worker, a broken connection and an
  empty pool has an order that explains every answer. It fails without the row lock. A
  500 is the one answer that leaves open whether the change was made: the refresh after
  the commit of a PATCH may fail.
- `NothingLeaks`, `LogsAgreeWithAnswers`, and `EveryRequestIsAnswered` of
  `RequestPipeline`: each path back, with all others in progress. The last also says
  that waiting for a connection and waiting for a row's lock form no cycle: the holder
  of the lock commits, and lets go, before it asks for its second connection.
- `WholeUnlessTorn`, `EventuallyCurrent`: the dashboard has no guard against an answer
  that comes late. It shows wrong pages for a while, and every one of them is overwritten
  by a poll of the interval of the present selection, since the effect clears the old one.
- `AcknowledgedIsDurable`, `OpenTransactionIsOwned`, `GhostsAreExplained`, `ListedRowsStay`:
  what one connection for all requests costs and what it does not. A listing reads the open
  transaction too. So a task whose client was told 500 because its commit failed may appear
  in a listing with no commit at all, and get on disk by the commit of another create; and a
  listed row that nobody has committed may be gone later, if its own commit fails or a crash
  cuts its request off. A task whose client was told 201 stays. The exception to all of this
  is a transaction that SQLite itself rolls back.

Every property of a passing run is tested by a mutant of the model, a plausible bug
written next to the definition it replaces, which TLC shows to violate it.

### Bounds

Two workers and two tasks give every race of two actors over a row, a batch of two,
and a batch split by SKIP LOCKED. One retry gives both branches of `_apply_failure`.
An undisturbed task is claimed at most twice then (`ClaimBudget`), so `MaxClaims = 2`
cuts off nothing for it; for the other task it bounds a cycle that clients could keep
up for ever. One fault is enough for each single-fault path. `core_live` has one
worker: with one, nobody else can pick up what it leaves behind. Three claims of `k1`
(two clients, one resend) make a loser of the race whose winner is deleted. Four jobs
are two ticks with an orphan of the first next to the second.

Three requests over two connections let one hold the lock, one wait for it with the
last connection, and one wait for a connection; the kinds cover PATCH against PATCH,
PATCH against DELETE, DELETE against DELETE, a read, both probes and two refused
requests with more than one flaw. Two loads suffice for any reordering, since a load
that lands matters only by whether it lands last; one page of one row with up to three
tasks has a next page, an empty page and a torn answer; two clicks go to a page and
back, send a call and leave its render, or have two calls in flight. Three creates on the shared connection are
one that fails, one that carries it and one after; the second fault is the crash.

`CHECK_DEADLOCK FALSE` is used where the model comes to an end: all requests sent or
answered, the process exited, the tick over. The core, the dashboard and the shared
connection never stop, and deadlock is checked.

### Fairness

Weak fairness of each worker's tick and of each run: all awaits of a tick are bounded
by a timeout or by PostgreSQL, and the event loop is fair. Weak fairness of restart:
`restart: unless-stopped`. Weak fairness of `GoStale` and `BecomeDue`: clocks advance.
Clients owe nothing, and no fault has to happen. In `IdempotentCreate` each request
that was sent makes progress; in `RunLoop` the loop and each job do. In
`RequestPipeline` each request takes its next step: a wait for a connection ends by the
pool's timeout, and the lock it may wait for is held by a request that owes a step too.
In `Dashboard` fetches are answered or fail, each awaited call returns, and the interval
fires; users, other clients and errors owe nothing.

## 4. What is proved

TLAPS proves every invariant, every step property and every refinement that a passing
run checks, each for all values of the constants: any number of tasks, workers,
requests, jobs and loads, any batch size, MAX_RETRIES, pool, page size and number of
faults.

| Theorem | Property |
|---|---|
| `TypeCorrect` | `TypeOK` of `TaskPilot` |
| `LocksProtect` | `SelectedRowsUntouched` |
| `DeletionIsFinal` | `DeletedStaysDeleted` |
| `NeverTwiceAtATime` | `NoOverlap` |
| `OutcomesAreFresh` | `RunsAreFresh` |
| `AttemptsAreBounded` | `ClaimBudget` |
| `SuccessIsClean` | `SucceededHasNoError` |
| `FinalStatusIsFinal` | `TerminalIsFinal` |
| `RetriesAreNotForgotten` | `RetryCountNeverDrops` |
| `CoreImplementsQueue` | `ImplementsJobQueue`: undisturbed tasks refine `JobQueue` |
| `KeysAreUnique` | `OneTaskPerKey` |
| `CreateIsAtomic` | `IsAtomic`: `create_task` refines `GetOrCreate` |
| `AnswersAgree` | `RepliesAgree` |
| `LosingIsNoFailure` | `FailuresAreExplained` |
| `CountsAreExact` | `CounterIsExact` |
| `CreateTypes` | `TypeOK` of `IdempotentCreate` |
| `LoopTypesHold` | `TypeOK` of `RunLoop` |
| `CapIsOnlyRaisedByRaising` | `CapUnlessRaised` |
| `OrphansAreExplained` | `OnlyOrphansOutlive` |
| `TimingTypes` | `TypeOK` of `TickTiming` |
| `TicksAreShort` | `TickIsShort` |
| `NotReapedAlive` | `OverBeforeReaped`, if `Waves * ExecutionTimeout + ClockSkew <= RunningTaskTimeout` |
| `RequestsAreAtomic` | `ImplementsRowRequests`: PATCH and DELETE refine `RowRequests` |
| `ConnectionsComeBack` | `NothingLeaks` |
| `LogsAreTrue` | `LogsAgreeWithAnswers` |
| `PipelineTypes` | `TypeOK` of `RequestPipeline` |
| `PageTypes` | `TypeOK` of `Dashboard` |
| `UntornAnswersAreWhole` | `WholeUnlessTorn` |
| `SharedTypes` | `TypeOK` of `SharedConnection` |
| `AcknowledgedSurvives` | `AcknowledgedIsDurable` |
| `TransactionIsOwned` | `OpenTransactionIsOwned` |
| `ListingsAreKept` | `ListedRowsStay` |
| `GhostsHaveTwoWays` | `GhostsAreExplained` |

Assumptions: the named ASSUMEs on the constants, which TLC evaluates in the runs. They
say that numbers are naturals, that sets of names are disjoint from the markers beside
them, that the dashboard's first table is within the bounds, and that the jobs of
`RunLoop` and the requests of `RequestPipeline` are finitely many, since their
properties count them. One theorem has a premise of its own:
`NotReapedAlive` is about settings that leave room for the skew. `app/config.py` does
not enforce that; its defaults satisfy it with equality at three minutes.

*Locks.* `SelectedRowsUntouched` is not inductive: a lock may not be held by a worker
whose `pc` says it is outside a transaction, and a row's due flag must survive until
the commit. `LockInv` (in `TaskPilotProofs`) is the strengthening.

*One run at a time.* `NoOverlap`, `RunsAreFresh` and `ClaimBudget` need each other. The
inductive invariant `SafeInv` says of each live run of an undisturbed task that it is
the run of the latest claim (`r[2] = claims[t]`, so two live runs are the same) and that
the row is still `running` and fresh, or deleted; of each executing run that its copy
equals the row; and of each undisturbed task that its claims are within the budget its
status allows, and that it counts no retry before it exists. A claim needs a pending
row, a reclaim a stale one, and neither can have a live run; the locks carry that from
the select to the commit.

*Jobs.* Under `SafeInv` a step does one of eight things to an undisturbed task (`Move`):
nothing that matters, or one of the moves of a job, with what it does to the status, to
`retry_count` and to whether a run is live. `TaskMoves` shows that once, action by
action, and the three results about the core follow from it without going back to the
actions: `succeeded` and `dead` are left by no move but the deletion, no move lowers the
count, and each move is a step of `JobQueue` or a stutter (`JobMoves`). The hard cases are
the outcomes: that the run which writes is the only live one, so that the job is no
longer active afterwards, is `NoOverlap`, and that the count it writes is the row's plus
one is `RunsAreFresh`.

*Create.* The invariant says where a key can be: in one committed task or in one
uncommitted insert, never both. The refinement maps a request's decision to the task it
committed, or to its answer, so that the instant of a creation is its commit. For the
answers `AnswerInv` adds that a loser on its way to the second lookup met a task with its
key (`LostRace`): if the lookup finds none, a DELETE was there. The counter is a
cardinality, and only the step that answers a creator changes either side of it.

*Event loop.* `LoopInv` adds to `OnlyOrphansOutlive` that a tick has no more runs executing
than its semaphore has permits (`TickIsBounded`), that every claim belongs to a tick that
has begun, so that a new tick starts with no run of its own, and that there are no more
ticks than claimed jobs. The cap of the process is a count over ticks, which is had without
a sum: each tick's executing runs are mapped one to one to its permits (`Seating`), hence
all executing runs to pairs of a tick and a permit, and `OnlyOrphansOutlive` says that these
ticks are the current one and such as had a run that raised (`CapHolds`).

*Timing.* `TickIsShort` is about a schedule nobody controls: runs end when they like, and
the bound is that of full waves all the same. `Backlog` counts how many claims must have
been handed a permit for others still to wait: as long as a claim waits all permits are
taken and each is freed within one timeout, so that beside the first full set of permits
another has gone for every timeout that has passed, and the batch has only `Waves` sets. Thus nothing waits when the last wave
begins, and what runs then was started by then (`LastWave`).

*Requests.* The refinement puts the effect of a PATCH at its commit, some steps after the
row was read, so it needs that the transition is still allowed there. `PipeInv` says that
the lock belongs to a request that is about to commit and that, while it does, the row
exists and allows the transition; that needs every other writer to respect the lock
(`OthersKept`). The rest of `PipeInv` ties a request's place to its kind, its flaws and
its answer, from which the mapped outcome can be read. Each action then maps to one
action of `RowRequests` or to a stutter (`Mapped`); a broken connection at a commit maps
to the change together with the outcome `failed`, or to the failure alone.

*Pool, log and counter.* `AccountInv` adds the books: the free connections and those in
use make up the pool, each counter is the number of requests logged with its code, and
`LogOK` says what a request has been logged with at each place of its way back, between
the log and the answer too. `PoolMoves` and `LogMoves` reduce all actions to a few ways
to move one request in and out of the sets that are counted.

*Paging.* That a page has the rows its total promises rests on `Rank`: it is injective
(`RankDistinguishes`) and, as an injection between finite sets of one size, reaches every
number up to the count (`RankReachesAll`), so that the rows on a page are as many as the
ranks in its window (`PageLength`) and each place has one (`PageRows`). `PageInv` then says
that a count which no write has followed is that of the present table. `Reached` bounds
the offset by the clicks, in whole pages; that it never gets below the first page is the
guard of `Previous`.

*Shared connection.* `AcknowledgedIsDurable` needs `Kept`: between its INSERT and its
COMMIT a task is in the open transaction, on disk by another's commit, or undone by
SQLite, whatever the other requests do. `GhostsAreExplained` follows from
`OpenTransactionIsOwned`: only a commit moves tasks to disk, and those it carries for
others are inserted or failed at their own commit; and what a listing finds outside
`durable` is in the open transaction. `ListedRowsStay` is inductive with them: a listed row
can only get lost with the open transaction, and each way to lose that leaves its owners
failed, cut or undone.

Only model-checked, liveness being out of the prover's reach: `EventuallySettled`,
`StuckRunningIsReclaimed`, both `EveryRequestIsAnswered`, `StopIsHonoured`, `EveryRunEnds`
and `EventuallyCurrent`.

## 5. What is not modelled

- the rendering of logs and metrics, latency histograms, the heartbeat file, the
  parsing of the configuration, migrations: no concurrent behaviour, or run once before
  anything else;
- the length of the backoff: arithmetic on one timestamp, without state; the models
  keep that a retry is not due when it is granted;
- a client that disconnects before its answer: what becomes of the handler is Starlette's;
- the fields of the dashboard's form, its markup, and what the proxy does to headers;
- PostgreSQL, SQLAlchemy, SQLite and React themselves: their behaviour is assumed as
  documented (READ COMMITTED for PostgreSQL), and the definitions that stand for it are
  marked external in the map;
- the worker and the requests together at the level of connections: `WorkerWrites`
  stands for the worker in `RequestPipeline`, `TaskApi` for the requests in the core;
- more than one fault in a run of the core;
- starvation by an endless stream of work: `EventuallySettled` and `StuckRunningIsReclaimed`
  are checked for finitely many tasks and claims. With new stale rows for ever the code's
  reaper, which has no ORDER BY, promises nothing to an old one; the claim takes the oldest
  first, but the model leaves its order open and shows nothing about it.

## 6. Plan

Done, in this order: the core (`TaskModel`, `TaskTable`, `Worker`, `TaskApi`,
`TaskPilot`, `JobQueue`), its proofs, idempotent creation, the event loop, tick timing,
the shared connection and its proofs, the request pipeline and its refinement, the
dashboard; then the proofs of the step properties and the refinement of the core, of the
answers and counters, of the loop, of the timing and of the dashboard.

Next:

1. the step that joins two models: that in `TickTiming` no live run looks lost is what the
   core takes for granted of a task that is not in `MayStall`; both are proved, the link
   between them is an argument in section 3;
2. facts about the abstract specifications themselves, which the refinements then carry
   to the code: how often `JobQueue` takes a job, that `GetOrCreate` decides once;
3. the safety halves of the liveness properties: what a stopped loop can still do, and
   that the holder of a row's lock never waits for anyone.
