# ACDA-Q: TLA+ specifications

TLA+ models of the Rust server of ACDA-Q (`server-rust/`): what its task queue, its
backtest jobs, its simulated broker, its sandbox pool, its API server's accounts and
caches and its result page do, checked with TLC on small instances and, for all
their safety properties, proved with TLAPS for every value of the constants. Paths below are relative to `server-rust/src/` unless they say otherwise.

Contents: [the system](#1-the-system) · [the modules](#2-the-modules) ·
[the runs](#3-the-runs) · [fairness](#4-fairness) · [the proofs](#5-the-proofs) ·
[what the models found](#6-disagreements-between-the-code-and-its-comments) ·
[what is left out](#7-what-is-not-modelled-and-why) · [plan](#8-plan) ·
[running everything](#9-running-everything)

---

## 1. The system

A desktop client (Tauri/React, `client/`) talks HTTP and WebSocket to an API server.
The API stores jobs in PostgreSQL and pushes a task per backtest into a Redis stream.
One or more worker processes (the same binary started with `--worker`) read the
stream through one consumer group, run the backtest and write the outcome to the row,
to a report file and to a status hash in Redis. Progress goes through Redis pub/sub to
the WebSocket of whoever watches the job.

```
 client ──HTTP──▶ API ──INSERT──▶ PostgreSQL (backtest_jobs, users, devices, ...)
   ▲               │ ╲                 ▲ UPDATE
   │ WebSocket     │  ╲─XADD─▶ Redis ──┼── XREADGROUP ──▶ worker ──▶ report file
   └───────────────┘          stream   │ XACK, HSET       │ process(): engine,
        ▲      subscribe      group    └──────────────────┤ sandbox pool or scanner
        └───────────────────  pub/sub ◀──── PUBLISH ──────┘
```

| component | state it keeps | operations | hard about it | correct when |
|---|---|---|---|---|
| Task queue, `queue.rs` | stream, group and its pending list, status hashes, what each worker has in hand | `push_task`, `init_consumer_group`, `consume_task`, `consume_pending`, `reclaim_pending`, `ack_task`, `update_task_status`, the loop `start_worker` | `select!` drops a read in flight; kills between any two calls; new consumer name per start; errors dropped with `.ok()`; replies whose shape depends on their length | a task runs at most once, is in the pending list until it has run, and its status tells how it ended; every pushed task is delivered |
| Backtest jobs, `api/backtest.rs`, `api/admin.rs`, `backtest/worker.rs` | row, report file, task, `process()`'s program point | submit, delete, admin delete, `process()` | four stores written without a transaction, deletions during a run, errors on every path | row, file and status never contradict each other; a terminal row is final |
| Engine and broker, `backtest/engine.rs`, `broker.rs`, `context.rs`, `types.rs` | cash, positions, today's purchases, last prices, trades, equity curve | `Engine::run`, `Context::buy`/`sell`, `Broker::execute`, `record_snapshot` | several orders a day on one cash balance, T+1, rounding of fees, cached prices | never overdrawn, nothing sold on its day of purchase, the trade list explains the account |
| Built-in strategies, `backtest/worker.rs:74-156` | `has_bought`; `holding` | `on_bar` | their own idea of the account, set before an order is filled | they hold what they say |
| Analyzer, `backtest/analyzer.rs` | none | `calculate_performance`, FIFO pairing | it knows only the trade list; pro rata commission; division by zero | its lots are the positions, and it finds no more profit than was made |
| Result cache, `backtest/worker.rs:625-637, 747-790` | rows with report paths | read before, write after a run | the key is never read as it was written | a hit is the result of an equal job |
| Sandbox pool, `sandbox/executor.rs`, `sandbox_runner.py` | four Python processes, their pipes and `in_use` flags, one mutex | `acquire`, `send_request`, `release`, single-shot run | a mutex held across a blocking read, a timeout looked at too late, a stderr nobody reads, strategies that write to stdout, processes that die | a slot has one user, an answer is one's own, a strategy is started twice at most, a call returns |
| Scanner, `backtest/scanner.rs` | a child process and a progress forwarder | scan, timeout, kill | late messages | it does not disturb what is shown of the job |
| Progress, WebSocket and result page, `queue.rs:338-385`, `websocket.rs`, `BacktestResultPage.tsx` | subscriptions, messages under way, what the page shows, requests under way | publish, subscribe, forward, poll, reconnect | lossy pub/sub, late subscribers, reconnects, answers that overtake messages | a page is never ahead of the job, and learns its end |
| Sessions, `api/auth.rs` | token rows in families, refreshes under way | register, login, refresh, logout, deletion of a user | rotation without a transaction, reuse at the same time, errors ignored | a used token is dead, an ended session comes back by no other way than a refresh under way |
| Rate limiter, daily quota, device limit: `middleware/rate_limit.rs`, `api/backtest.rs:136-204`, `api/subscription.rs` | a window in Redis, rows | count, then add | check then act, counts that fail | never more than the limit and the requests under way |
| Devices, payments, `api/subscription.rs`, `api/admin.rs` | device rows, orders | register, beat, revoke, delete; create, cancel, set status | two flags for one fact, users and administrators at once | a revoked device stays out; an order has a date when it is paid |
| Chart cache, `api/backtest.rs:289-321` | cached charts and their age, requests under way | `get_backtest_chart` | the cache is asked before the row; the job ends or goes meanwhile | only charts of finished jobs; those of deleted ones go away |
| Market data, `data/tushare.rs` | bars in `daily_bars` | `sync_daily_bars` | DELETE and many INSERTs without a transaction, concurrent runs | a synchronised range is complete |
| Strategies, AI proxy, configuration, health | rows, HTTP | CRUD, reads | little | - |

The components meet at six places, and the models follow them: the API and the
workers meet in the queue and in the row (`BacktestJobs` over `TaskQueue`); the worker
calls the engine (`ComputeJob`, whose inside is `Broker`); the strategies call the
broker through `Context` (`BuyAndHold` over `Broker`); the analyzer reads the broker's
trade list (`FifoStats` over `Broker`); the queue reads what Redis
replied (`TaskQueue` uses `ReturnedTasks`, which `RedisReply` justifies); the worker,
the API server and the page meet in a row, a channel and a socket (`ResultPage`).

The hazards of the code, with their lines and the properties that watch them, are
listed in `PROJECT.json`.

---

## 2. The modules

```
 TaskDelivery  ◀─implements─  TaskQueue ──EXTENDS──▶ ReturnedTasks ◀──agrees── RedisReply
                                 ▲
                                 │ EXTENDS
 JobLifecycle  ◀─implements─ BacktestJobs

 CashAccount   ◀─implements─   Broker  ◀──EXTENDS── BuyAndHold, FifoStats

                              ┌ RateLimiter
 CheckThenInsert ◀─implement─ ┤ DailyQuota      RefreshTokens  Payments  ChartCache  BarSync
                              └ Devices
                                 └────────── MCApiServer: one of these seven at a time

 SandboxPool     ResultPage

 *Proofs: theorems and proofs        MC*: small instances for TLC
 SumTheorems: induction and sums, for BrokerProofs and TaskQueueProofs
```

### ReturnedTasks and RedisReply: what a reply yields

`RedisReply` builds the `redis::Value` tree that Redis sends for a list of entries
(XREADGROUP: streams ▸ entries ▸ id and fields; XCLAIM: entries ▸ id and fields) and
translates the three parsing loops of `queue.rs` (180-229, 256-294, 425-453), which
differ in how deep they look. It has no state of its own. `ReturnedTasks` says in three
lines what comes out: `consume_task` returns the entry of a reply with exactly one and
nothing of a longer one; `consume_pending` and `reclaim_pending` never return anything.
`TaskQueue` uses these three lines; `RepliesAgree`, an invariant of
`MCTaskQueue_safety`, says that they are what the loops compute for every reply that
Redis can send in the state, and `RepliesAreRead` proves it for replies of any length.
A nested loop is the set of positions it visits (`Places`, `ItemLists`); where the order
matters, because `consume_task` returns at the first entry with a task, the positions are
compared.

### TaskQueue: the stream, the group and the workers

| state | code |
|---|---|
| `sent`, `cursor`, `group` | the stream (entries numbered by XADD), the group's last-delivered id, whether the group exists |
| `owner` | the pending entries list: entry ↦ consumer. A consumer is a process and the number of its start, because `Queue::new` draws a fresh uuid (73-81) |
| `orphans` | consumers whose XREADGROUP still blocks in Redis although its future was dropped |
| `status` | the hashes `task:status:{id}` |
| `pc`, `stage` | the program point in `start_worker`: which of its five sources of tasks (start-up pending and reclaim, tick pending and reclaim, the read) and which call |
| `reply`, `claims`, `todo` | a reply not yet polled, entries XPENDING listed, entries in hand |
| `faults` | Redis errors that a `.ok()` or a logged branch dropped |
| `runs`, `outcome` | history: calls of `process()` and what the last returned |

`WorkerStep` is `start_worker` (465-635) one Redis call at a time:
`InitConsumerGroup` (473) ▸ `ConsumePending`, `ListPending`, `ClaimPending`,
`ReclaimReturns` (475-529) ▸ the loop: `SendRead`, `ConsumeTask` (602-632), with
`ReclaimTick` (542) and `Shutdown` (536) as the other branches of `select!`, which may
win at any moment and drop the read. Each task in hand goes `StartTask` (status
Running) ▸ `ProcessReturns` ▸ on Ok `AckSuccess`, `SettleSuccess`; on Err
`SettleFailure`, `AckFailure`, the last left out at start-up as in the code. Redis's
side is `DeliverToWorker`, `DeliverToOrphan`, `BlockExpires`, `OrphanExpires`.
`Crash` kills a process between any two of these; `Restart` starts it again under a new
name. `TaskDelivery` is the abstract queue: tasks leave in order, are processed by one
worker at a time, at most once; a task whose worker died is never given to anybody.

### BacktestJobs: row, report, task

An action is an action of `TaskQueue` with the job's part conjoined, or leaves the queue
alone. `row` is `backtest_jobs.status`, `report` the set of jobs whose file exists,
`payload` the job id a stream entry carries, `submit`, `delete` and `step` the program
points of `submit_backtest` (82-225), `delete_backtest` (494-533) and `process()`
(208-688). `BeginJob` is the `?` before the closure (218), `ComputeJob` everything
between, `SaveReport` (459-470 and its twins of the other modes), `CommitJob` the UPDATE
to success, `FailJob` the UPDATE of the failure path with its dropped error,
`LeaveJob` the return. Every database and file call may fail; a file may exist although
writing it failed. `JobLifecycle` is what a client sees: pending, then success or
failure once, a readable result from success to deletion, deletion for good.

### Broker, CashAccount, BuyAndHold

`NextDate`, `PlaceBuy`/`PlaceSell`, `OnBarReturns`, `TakeOrder` with `FillBuy`,
`FillSell` or `DropOrder`, `RecordSnapshot` and `ExitRun` are the day loop of
`Engine::run` with `Broker::execute` one order at a time. The strategy is arbitrary:
any list of orders that `Context::buy` and `Context::sell` can produce. Bars are
arbitrary too: `first` (the close `Context` sizes an order by), `close` and `pre_close`
of the last bar. Decimals are integers: prices in ticks, money in 1/`Scale` of a tick,
so slippage and limits are exact as in `rust_decimal`; fees are rounded to `Cent`, half
to even, as `round_dp(2)` does. `enable_t1` and `enable_limit` are true wherever `Engine` builds
a broker and so are not parameters. The division in `BuyAmount` truncates, and
`rust_decimal`'s own 28 digits are not modelled. `cost_basis` and `Trade.pnl` feed
nothing that the state here depends on.

`CashAccount` is the promise of `broker.rs:3`: shares are paid from the cash at hand,
and shares bought on a day are sold on a later day. `BuyAndHold` runs the built-in
strategy (`worker.rs:74-101`) on the broker.

`FifoStats` runs `calculate_fifo_stats` (`analyzer.rs:178-272`) over the broker's trade
list. Its two loops are recursive functions, `Pairing` over the trades and `Selling` over
the queue of lots, whose value at `i` is what the loop has done after `i` turns. Profits
count 1/`Parts` of a unit, so that the pro rata shares of a fee (`FeeShare`) are exact when
`Parts` is a multiple of the amounts traded, as it is in the run; for other `Parts` they are
rounded against the profit. `FifoAgrees` relates the result to the broker's account: the lots
left are the positions, every share sold is paired, and the profits of the pairs are at most
what the account made. Not equal: a lot sold in parts is charged more than its fee, because
`rate = matched / lot.remaining` is taken of the whole fee each time.

### SandboxPool: Python processes that answer a line with a line

| state | code (`sandbox/executor.rs`) |
|---|---|
| `lock` | the mutex of `PROCESS_POOL`, where a step of a caller holds it |
| `inUse`, `alive` | `in_use`, and whether the process of a slot runs |
| `stdin`, `running`, `stdout`, `stderr` | requests in the pipe to a process, the one it works on, and what it has written; nobody reads the last |
| `spoken` | history, read by no guard: slots in whose present process a strategy has written to stdout |
| `pc`, `call`, `slot`, `answer` | a caller in `run_backtest_sandbox`: its three steps (244-293), then the single-shot process |
| `strategy`, `large`, `runs` | what a call runs ("quiet", "chatty" prints, "writer" may write to stdout, "broken" yields no JSON, "endless"), whether its request is larger than a pipe, and how often it was started |

`Acquire`, `Send` and `Release` take the mutex; `Acquire` and `Release` give it back at
once, `Send` keeps it through `Write` until `Read` has its line, because `send_request` is
called on the locked pool (267). `Begin`, `Speak` and `Answer` are the loop of
`sandbox_runner.py`: a request is taken, the strategy may write lines of its own to stdout,
the answer is written. Nothing in a line says which request it is about, so lines are the
numbers of calls, and `Junk` for one that is no answer. `TakeLine` is the loop of
`send_request`: its first line is the answer or an error, and what the `BufReader`, made
anew for every request, has read beyond it is lost. A pipe has a capacity in both
directions, so a request may wait in it, and either end may block. `Die` is a kill from
outside at any moment, `Fallback`, `SingleEnds`, `SingleTimesOut` the process of its
own with its deadline. The deployed worker has one caller per process; the code and the
model are written for any number.

### ResultPage: how a page learns the end of its job

One job and one page: `process()` and its publications, with the scanner's forwarder
(`PublishRunning`, `StartScan`, `ForwardScan`, `ScanEnds`, `SaveSuccess`,
`PublishSuccess`, `RecordFailure`); the API server's socket handler (`OpenSocket`,
`Subscribe`, `CloseSocket`); the page's first GET and its interval (`PollTick`,
`AnswerGet`, `ReceiveGet`, `GetFails`), its `onmessage`, its retries, and its loading
of the result. An answer to a GET holds the status the row had when it was read, and may
come after a message that is newer.

### The parts of the API server

Seven modules that share no state: `RefreshTokens` (families of tokens; each statement
of `refresh` a step, since `FOR UPDATE` in autocommit mode locks nothing beyond its own
statement), `RateLimiter` (members of the sorted set told apart by age; a failed EXPIRE may let the key
expire with young members in it), `DailyQuota`, `Devices` (both flags of a row, silent devices, heartbeats, deletion), `Payments`
(orders named by their second, as `order_no` is), `ChartCache` (requests step by step
against the end and the deletion of their job), `BarSync` (a range of days deleted and
inserted one by one).

`CheckThenInsert` is what three of them promise: whoever counts first and inserts
later exceeds the limit by the other requests under way at most, and by one for each
request that passed because a query failed (a device count taken for 0, a device limit
taken for 1, a quota taken for 10). `RateLimiter`, `DailyQuota` and `Devices`
instantiate it with a refinement mapping each; that mapping is the property (`RateLimited`,
`QuotaKept`, `DevicesLimited`), and `LimitInv` is proved of it once.

`MCApiServer` is a sum: a variable `part` is chosen at the start and only that module's
steps are taken, so its state space is the sum of the seven, not their product. Since
they share no variable and every property is about one of them, nothing is lost.

---

## 3. The runs

`CHECK_DEADLOCK FALSE` is in every configuration: pushes, restarts, days and
ids are bounded, so a finite instance comes to an end, and a finished backtest really
stops.

| run | instance | states | what it shows |
|---|---|---|---|
| `MCTaskQueue_safety` | 2 workers, 2 tasks, 1 restart each, symmetry | 1,470,379 | `QueueInv`, `AtMostOnce`, `NoSharedTask`, `PendingUntilReturned`, `StatusTellsOutcome`, `SuccessAfterAck`, `RepliesAgree`, `TerminalStatusFinal`, refinement of `TaskDelivery` |
| `MCTaskQueue_liveness` | 2 workers, 2 tasks, 1 Redis error, no restart, no symmetry | 148,174 | `EveryTaskDelivered`: every pushed task is delivered unless no worker lives or no group comes to be; `TaskInHandFinishes`: a task in hand is settled and acknowledged unless its worker dies |
| `MCTaskQueue_recovery` | 1 worker, 2 tasks, 1 restart | | **violated**: `PendingRecovered` |
| `MCBacktestJobs_safety` | 1 worker, 2 jobs, 2 tasks, 1 restart, symmetry | 1,469,314 | `JobInv`, `SuccessHasReport`, `StatusMatchesRow`, `TerminalRowFinal`, refinement of `JobLifecycle` |
| `MCBroker_ledger` | 2 symbols, 2 days, 3 orders a day | 445,400 | `BrokerInv`, `TradesExplainAccount`, `SoldAfterTheDayOfPurchase`, `FifoAgrees`, `TradesCostMoney`, refinement of `CashAccount` |
| `MCBroker_snapshot` | 1 symbol, 2 days, 1 order a day | | **violated**: `SnapshotAtMarket` |
| `MCBuyAndHold_first_day` | 1 symbol, 2 days, default slippage | | **violated**: `HeldFromTheFirstDay` |
| `SandboxPool_calls` | 2 callers, 2 slots, 2 calls of 4 kinds, requests of 2 sizes, 1 process killed | 676,935 | `PoolInv`, `OwnAnswer`, `RunsTwiceAtMost`; `CallReturns`: a call returns unless a caller is stuck with the mutex in its hand |
| `SandboxPool_stdout` | 1 caller, 1 slot, 2 calls, a strategy that may write to stdout | | **violated**: `AnswersMatchRequests` |
| `MCApiServer_safety` | see below, symmetry | 652,147 | `SessionInv`, `OnlyRefreshesUnderWayRevive`; `DeviceInv`; `RateLimited`, `QuotaKept`, `DevicesLimited` (refinements of `CheckThenInsert`) and `LimitsHold`; `PaidIsDated`; `ChartsOfFinishedJobs`, `DeletedChartsFade`; `EqualSyncsComplete` |
| `ResultPage_progress` | a first GET and 2 polls under way, 1 retry, 2 progress messages, 2 faults | 158,217 | `NeverAhead`; `PollingShowsEnd`, `SocketBringsResult` |
| `ResultPage_end` | a first GET and a poll, no fault | | **violated**: `EndIsShown` |

The bounds, and why they are enough for what the runs ask:

- `MaxTasks` = 2 gives both replies that the parser treats differently (one entry and
  more than one) and two tasks for two workers.
- `MaxRestarts` = 1 gives each process one dead predecessor, whose pending entries and
  blocked read the successor meets. A second would add no new relation between a
  consumer and a process: dead consumers never act.
- `MaxFaults`: a failed call that is ignored costs nothing but the effect of the call.
  `MCTaskQueue_safety` and `MCBacktestJobs_safety` have none, so that their products with
  crashes stay small (the database and the file system of the latter fail at any call all
  the same);
  `MCTaskQueue_liveness` has one, and the proofs have any
  number. The liveness properties say what one error may cost: if the creation of the
  group fails, which is tried once, and there never is one, tasks stay unread; and a
  failed XACK is not repeated.
- `MaxDays` = 2 is the least with a purchase of yesterday next to one of today;
  `MaxOrders` = 3 the least for "buy, then sell in two parts" and for three orders
  drawing on one balance. `InitialCash` is small, so cash runs out; prices include
  limit-up, limit-down and a day whose last bar is not its first. `Parts` = 60 is a
  multiple of all amounts that come about.
- `SandboxPool`: 2 callers and 2 slots are the least for a slot that is free while
  another is in use, 2 calls the least for a slot used again, with what the first left in
  it, or for two callers at once; `StdinRoom` = 1 and requests larger than the pipe give a
  caller that waits in its write, `StdoutRoom` = 2 a process that waits in its own,
  `PipeRoom` = 1 makes the second printing run the one that jams, 1 death hits a
  process in every phase. "quiet" is left to the other run: it does what a "writer" does
  that keeps silent. The proofs are for any number of calls.
- `MCApiServer`: 2 users, 2 refreshes and `MaxTokens` = 5 give two families and two
  refreshes of one token, with successors of both; 2 registrations, 3 devices and a limit of 1 give a
  limit that is exceeded, `MaxUncounted` = 1 and `MaxDefaulted` = 1 a query that fails; with a limit of 1 the
  default of the device limit is the limit itself (others are left to the proof), while
  `DefaultQuota` = 4 is above the quota, as 10 may be; 3 handlers against a
  window of 2 and 3 submissions against a quota of 2 exceed them; `LastSecond` = 2
  gives several orders; 2 chart requests, 2 values of `agg` and `Fresh` = 2 a chart
  that is old and one that is new; 3 synchronisations of 3 days are the least in which
  one deletes what a second has inserted while a third is refused.
- `ResultPage`: 2 polls under way at once can answer in either order; 1 retry reaches
  both a reconnection and giving up; 2 messages keep one on the wire behind another.

The finite instances are checks of the models; the theorems below are about all values.

---

## 4. Fairness

`Fairness` of `TaskQueue`, and `JobFairness` of `BacktestJobs` with `process()` spelled
out:

- weak fairness of `RedisStep`: Redis answers or lets a BLOCK of 500 ms expire;
- weak fairness of a worker's own next step, `process()` included. It assumes that a
  process that is not killed is scheduled, that Redis and database calls return, and that
  **strategies terminate**. The last is an assumption on the strategy and not something the code enforces on
  every path: `SandboxPool` shows what becomes of a strategy that loops or prints a lot;
- strong fairness of `SendRead` and of `ReclaimTick`: `select!` without `biased` polls
  its branches in random order, so neither the read nor the due tick is passed over for
  ever, although each repeatedly loses to the other;
- weak fairness of `Restart`: `restart: unless-stopped` in
  `docker-compose.rust-only.yml`.

Nothing is assumed of pushes, deletions, crashes, shutdowns and failures. A worker that
an operator shuts down counts as down. `TaskInHandFinishes` also rests on the start-up
stages never having a task in hand (they return none, see section 6): their failure
branch writes Failed and does not acknowledge.

`Fairness` of `SandboxPool`: weak fairness of each caller's own steps (the mutex is
free again and again, and the calls that want it are finitely many), which includes the
deadline of the single-shot process, and of a process that has a request to take or an
answer to write. Nothing makes an endless strategy answer, empties a stderr pipe or reads
what earlier calls left in a stdout pipe; that is why `CallReturns` excepts a caller that
is `Stuck`, and why `TimeoutHonoured`, what `executor.rs:28` and `43` promise, is not
claimed. TLC refutes it: no timeout is applied to a pooled run.

`Fairness` of `ResultPage`: `process()` goes on, the interval and the timer of a
reconnection fire, requests are answered, messages on an open socket arrive. Nothing is
assumed of progress messages, failures and closing connections.

---

## 5. The proofs

All are checked by `tlapm` to the last leaf, for every value of the constants that
satisfies the named assumption of its module (`TaskQueueAssumption`, `JobsAssumption`,
`BrokerAssumption`, `PoolAssumption`, `PageAssumption`, ...). Workers, jobs, callers,
requests and synchronisations may be any sets, finite where they are counted, and the
bounds any numbers.

**TaskQueueProofs.** `QueueInv` is inductive. `AtMostOnce` alone is not: that
`process()` starts a task only once needs to know that a task in hand is untouched
before `mark` (`HandInv`), that no second worker has it in hand or in a reply
(`ExclusiveInv`), and that an entry delivered later is untouched (`FutureInv`). One
lemma per action shows that it keeps `QueueInv`; `NextInv` collects them. From
`QueueInvariant` follow `ProcessedAtMostOnce`, `TasksNotShared`, `PendingTasksStay`,
`StatusIsTrue`, `SuccessIsAcknowledged`, `StatusIsFinal` (an action property) and
`QueueImplementsDelivery`, whose `StepSimulation` maps each action to a step of
`TaskDelivery` or a stutter: a delivery to a worker or an orphan is `TakeAll`,
`StartTask` is `StartProcessing`, `ProcessReturns` is `Finish`, a crash inside
`process()` is `Abandon`.

The proofs hold with the parser as it is (`PendingReturned` and `ClaimReturned` are
expanded): with a recovery that returned tasks `AtMostOnce` would be false, and the
mutants `PendingReturnedWhole` and `ClaimReturnedWhole` show it. At most once is what the
code gives today, and at the price described in section 6.

That the parser is as it is, is proved too (`RepliesAreRead`): the loops find exactly one
item list in an XREADGROUP reply of any length, the list of all its entries
(`EntriesTakenForOne`), and read that list as if it were one entry. With one entry its
inner list is looked at, with more the first element is no id and everything is skipped
(`ListTakenForEntry`); of a claimed entry, the loop looks for "task" among the id and
the field list (`EntryYields`). `QueueInv` only has to supply that the entries are finitely
many, so that Redis can list them in order (`Listed`).

**BacktestJobsProofs.** `JobsRunTheQueue` shows that every behaviour of the composition
is a behaviour of `TaskQueue`, so all theorems above hold of it. `JobInv` adds to
`QueueInv`: each job is pushed once (`PushInv`), its row follows its one run (`RowInv`),
what each program point of `process()` knows (`StepInv`), and what a deletion knows
(`DeleteInv`). From it: `ReportsAreThere`, `StatusAndRowAgree`, `RowsAreFinal`,
`JobsImplementLifecycle`.

**BrokerProofs.** `AccountInv` is types and `BrokerInv`. The part that needs thought is
arithmetic: a sale must not drive the cash below zero by its fees. `FeeBounds` bounds
a rounded fee (at most twice the exact one; equal to zero below half a cent), and `FeesCovered` concludes that the
fees of a sale never exceed its proceeds when the three rates add up to at most a half,
the last assumption on the rates (the configured ones are about 0.1%). From it:
`NeverOverdrawn`, `NoFreeTrades` (an action property), `BrokerIsCashAccount`.

The ledger. `TradesExplainAccount` and `SoldAfterTheDayOfPurchase` sum over the trade list.
The second does not follow from itself: that a sale of today leaves enough bought *before*
today needs that `today_bought` is the last day's part of the purchases, and that no
trade is later than `last_trade_date`. `LedgerInv` says both, with the sums
taken by the end of each day (`Moved`), and `LedgerInvariant` proves it inductive: a fill appends
one trade and changes one sum by its amount (`MovedByAppended`), and a new day clears
`today_bought` when nothing has been bought on it yet (`OnBarReturnsKeepsLedger`).

The analyzer. `FifoAgrees` is proved as `TheAnalyzerAgrees`. Since the state holds the trades and not the
statistics, `FifoInv` says of the whole pairing that it agrees with the account, and
`PairingOfAppended` that pairing one trade more is one more turn of the loop. `BuyAgrees` is
short; `SellAgrees` rests on the loop invariant `SaleInv` of a sale over the queue: after
`i` lots, what they held is sold or still there; while something remains to be sold no lot
is left in front; and what the pairs do not show of the earnings covers the part of the
sale's fee that belongs to the shares sold so far. `LotTaken` is the turn of the loop, with
the arithmetic: the last shares of a lot are charged its whole fee, those before them a share
of it although the lot keeps it whole, so never less than what left the queue has cost. When the loop ends nothing remains
(`SaleIsPaired`), for the lots hold what the position holds and the broker sold no more
than that.

**SumTheorems.** Induction over data. The library states it with an operator parameter,
which the backends cannot instantiate; `SetInduction` and `SubsetInduction` state it with a
set (of numbers, of subsets of a finite set), from the library's `WFMin`. A proof defines
the set of the things its claim holds of. The recursion that the community module's
`SumFunction` iterates follows (`SumsTake`), and then how a sum changes when a
term is appended (`SumOfAppended`) or changed (`SumWithout`).

**LimitProofs and ApiServerProofs.** `LimitInv` of `CheckThenInsert` is inductive:
when a request passes its count, `used < Limit`, and the others that have passed are at
most all the other requests; from then on a pass becomes a row and their sum stays.
`ApiServerProofs` shows for the window, the quota and the devices that each step is a step
of `CheckThenInsert` under the refinement mapping (`WindowIsALimit`, `QuotaIsALimit`,
`DevicesAreLimited`; the devices need that `Counted` is a finite set and that one
registration adds at most one to it), and carries `LimitInv` over by instantiating
`LimitProofs` with the same mapping (`...NeverFarExceeded`). `SessionInv` is inductive as
it stands: that a token with a successor is dead needs that a refresh about to insert has
revoked its token already, and that tokens not minted yet have no family (`MintedInv`). `RevivalNeedsARefresh`
is an action property from it: only `InsertSuccessor` adds a token to an old family, and it is
the step of a refresh that has looked its token up. `DeviceInv` and `PaidIsDated` are inductive.

`ChartsOfFinishedJobs` is inductive with one clause about
`running`: a row that is not pending any more is not written by the worker again.
`ChartsFade` follows per action. `EqualSyncsComplete` needs an argument
(`MissingDaysCovered`): unless no one has deleted yet or one was aborted, some
synchronisation stands between each bar, or the end of the range, and each earlier day
without a bar, and is on its way down to that day. A deletion leaves no bar, and its own
synchronisation stands at the end of the range; an insertion leaves its synchronisation
just below the new bar; and one that is refused at a day stands at a bar, below which
there is another one for every missing day. When nobody inserts any more, no day is
missing.

`MCApiServer` is covered as a whole: `PartsAreSeparate` shows that each of its behaviours is a behaviour
of all seven parts, of which six stand still, so every theorem about a part holds of the
sum that TLC runs; `LimitsAreKept` is the one that speaks of three parts.

**SandboxPoolProofs.** `PoolInv` says of a process to whose stdout no strategy has written
where the one call in hand is: in the pipe, at work, or answered; it needs `CallInv`
(calls under way have different numbers). `OwnAnswer` follows for these processes, and
nothing is claimed of the others, where it is false. `RunsTwiceAtMost` holds for all of
them: `RunInv` counts a strategy's starts by how far its call is, and by whether its request
still waits in a pipe, where it waits once (`WaitsOnce`). One lemma per action.

**ResultPageProofs.** `NeverAhead` with `RunInv`, which ties the row to the program point
of `process()`: the row is pending until the UPDATE, and publication comes after it.

That the composition keeps the queue's fairness, too (`QueueSpec` of `BacktestJobs` under
`FairJobSpec`), is not among the runs; TLC agrees for 1 worker, 1 job, 1 restart and 1
Redis error (34,518 states).

Every invariant, action property and refinement of a passing run is stated by one of these
theorems. Only model-checked: the liveness properties (`EveryTaskDelivered`,
`TaskInHandFinishes`, `CallReturns`, `PollingShowsEnd`, `SocketBringsResult`) and everything
else that speaks of fairness or ENABLED, which is out of the prover's reach; and
`BuyAndHold`, whose one property TLC refutes.
`TypeOK` of the broker adds the equity curve to `AccountTypeOK`, which the other theorems
use; it is proved last (`TypesAreKept`), because a snapshot sums over the positions.

---

## 6. Disagreements between the code and its comments

The first five are runs that TLC finds violated.

1. `queue.rs:498, 543, 573`, recovery of pending messages. Neither recovery loop finds a
   task in the replies it gets, so what a crash, a dropped read or a batch left
   pending is never processed (`MCTaskQueue_recovery`).
2. `executor.rs:3`, `sandbox_runner.py:7-9, 645`, a request a line and its answer on
   stdout. Only the name `print` is rebound for a strategy (`sandbox_runner.py:393`); the
   DataFrame it is given can write to `sys.stdout`, and `day_bars.info()` does. The line is
   taken for the answer, fails to parse, and the slot is released with its process alive
   (`executor.rs:280-293`); the answer that comes then is read by the slot's next caller,
   who is given another call's result (`SandboxPool_stdout`).
3. `broker.rs:86, 268`, "total assets = cash + market value". `last_prices` is written
   only for symbols with an order that day, so the equity curve is flat for what is
   simply held (`MCBroker_snapshot`).
4. `worker.rs:74`, buy and hold. With one symbol the whole cash is ordered at the close;
   with slippage it does not fit, the order is dropped, `has_bought` is true, and nothing
   is ever held (`MCBuyAndHold_first_day`).
5. `BacktestResultPage.tsx:92, 213`, "falling back to polling". The interval is cleared
   when a socket opens and never set again; `process()` publishes nothing when it fails
   (`worker.rs:673`); and a late answer to a GET overwrites a newer status. So a page may
   show "running" for ever, with no fault at all (`ResultPage_end`).

The models show the following, too, without a run of their own:

- `api/backtest.rs:499, 510`, deletion of the report. A job deleted while it runs leaves
  its file behind, which the worker saves after the deletion: `DeletedJobLeavesNoReport` of
  `BacktestJobs` is false.
- `TEST_ACCEPTANCE.md:27` marks "refresh token rotation" as done, with family, replay
  detection and revocation, and so does `AUDIT_REPORT_2026-05-29.md:63`. A logout with its family, or
  the punishment of a reuse (`api/auth.rs:146-168`), that comes between the lookup (138) and
  the INSERT (179) of a refresh leaves that refresh's successor alive in a family that was
  ended. `OnlyRefreshesUnderWayRevive` says that this takes a refresh under way, and no more.
- `queue.rs:178`, the shape of an XREADGROUP reply. The command has no COUNT; with two
  or more new entries the loop takes the first entry for an id and skips them all. They
  stay in the pending list, delivered and not processed. `ReturnedTasks` has it as
  "the entry of a reply with exactly one".
- `backtest/worker.rs:224`, "no job stays pending". The first `?` is before the
  closure, and the UPDATE of the failure path drops its own error: `FailedRunRecorded` of
  `BacktestJobs` is false.
- `sandbox/executor.rs:239, 261` say that the pool's mutex is not held during the
  blocking read, and `TEST_ACCEPTANCE.md:26` marks its long holding as fixed; it is held (267). `executor.rs:28, 43` promise a timeout; a pooled run has
  none (104): `TimeoutHonoured` of `SandboxPool` is false. 82: a pooled process whose
  stderr pipe is full never answers again. And a request with bars in it is larger than a
  pipe (`worker.rs:802-858`): where earlier lines fill the stdout of its process, caller and
  process wait for each other, with the mutex held.
- `analyzer.rs:217`: a lot sold in parts is charged more than its commission, so the sum
  of the pairs' profits is below what the account made, and `FifoAgrees` says "at most".
- `data/tushare.rs:4` says that bars go to TimescaleDB, and backtests read `ts_db`;
  `admin.rs:371` synchronises into `state.db`. Where the two are different databases,
  synchronised bars never reach a backtest, which takes mock bars instead without a word
  to the user (`worker.rs:258`).
- `api/backtest.rs:220` says that a job whose push
  failed can be retried later, and nothing does; `context.rs:197` and `types.rs:18` say
  that amounts are multiples of 100, and `raw / 100 * 100` on decimals rounds nothing;
  `api/backtest.rs:138-140` treats any error of the quota query as the default quota;
  `queue.rs:3` names a retry mechanism, and `retry_count` and `max_retries` are never used.

---

## 7. What is not modelled, and why

- The result cache: it is written under one key and read under another
  (`worker.rs:637` against 747-758: another strategy id, an empty scope), so no entry is
  ever found, and nothing else depends on it.
- `DualMA` and the indicators of `Context`: they need dozens of closes, far from a small
  instance. Its `holding` flag has the flaw of `has_bought`.
- Strategies' CRUD, the validator, the AI proxy, health, metrics and configuration:
  reads and writes of single rows, HTTP, or pure checks. Of market data, only the
  synchronisation that deletes and inserts; `sync_daily_bars_by_trade_date` has no
  caller, and the rest upserts single rows or reads.
- Of the analyzer, all but the pairing: real-valued formulas over the equity curve.
- Inside the sandbox: of what Python code may do there, only what reaches the pool is in the
  model: what it writes to stdout and stderr, that it ends or does not, and that its process
  dies. The rest is a policy (`resource.rs`, `isolation.rs`).
- Of the client, all but the result page. The refresh mutex of `api.ts` keeps one window
  from refreshing twice at once; `RefreshTokens` lets several refreshes run, as several
  windows do.
- In modelled components: the 1 MB limit of `push_task` only refuses a request;
  `get_task_status` and the pages of jobs and trades only read; best-effort parts of the
  report and the writing of the result cache change no state of these models; of
  `process()`, the computation is one step that succeeds or fails.
- The composition of `ResultPage` with `BacktestJobs`: a page is about one job, and the
  row it sees is the one of `JobLifecycle`, whose status changes once.
- Redis and PostgreSQL do not lose acknowledged writes here, and a call that fails
  has no effect; a push whose reply is lost is the one exception, and it is `QueueJob`. So an
  UPDATE to success that commits and whose reply is lost (`worker.rs:605-614`) is not in the
  model; the code would then overwrite the row with "failed".
- Smaller things: a report is written anew with its trades, its equity curve and its K lines
  (`worker.rs:482, 530, 557`), which may truncate it; XPENDING lists 100 entries at most
  (`queue.rs:397`); a deletion that finds no row is answered with 404 (`api/backtest.rs:528`)
  and "done" in the model; a page whose worker is killed sees in `ResultPage` what it sees
  when the UPDATE of a failure is lost, and the deletion of the job it shows is left out.

---

## 8. Plan

Done: the queue, the jobs and the broker with their abstract specifications and proofs;
the analyzer's pairing; the sandbox pool; the result page with progress and socket; the
parts of the API server with the limit they share; proofs of the safety properties of all of these.

What could follow, in this order: bounds on the fees a lot sold in parts is overcharged;
the pages that list jobs, over `JobLifecycle`; overlapping ranges in `BarSync`, where the
property would say which days may be missing; a worker that calls `SandboxPool` from
`ComputeJob`, so that the liveness of the queue rests on `CallReturns` and not on an
assumption.

---

## 9. Running everything

```
tlc -workers 2 -config MCTaskQueue_safety.cfg MCTaskQueue.tla     # a run of section 3
tlapm TaskQueueProofs.tla                                         # the proofs of section 5
```

A run is named after its configuration; its module is the part before the first
underscore. `PROJECT.json` lists runs, theorems, the source lines
each definition models, and for every property a plausible bug (an operator marked
"Mutant" in the modules) under which that property fails.
