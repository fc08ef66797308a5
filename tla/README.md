# TA_daily: TLA+ specifications

TA_daily prepares, for every trading day of the Shanghai and Shenzhen exchanges,
a report on the stocks that pass a technical filter. A scheduler starts a
pipeline run; the run filters the market, hands the stocks to a set of language
model workers, each a TradingAgents-CN service on some host, and writes an HTML
report that grows as the analyses arrive. A researcher follows the signals of
earlier days and measures what became of them.

This directory models the parts of the program whose correctness depends on the
order of events: threads that share a queue and a report file, a client that
polls an unreliable service and the service's own tasks and queue, a scheduler
whose runs may outlast its triggers, threads that share tokens and flags without a
lock, and files rewritten by processes that may be killed. `PROJECT.json` lists components,
runs, mutants, source lines, findings, hazards and theorems in machine-readable
form.

## 1. The system

### 1.1 Components

| component (source) | state | operations | correct when |
|---|---|---|---|
| stock dispatcher (`pipeline/stock_dispatch.py`) | FIFO queue of (stock, attempt), `unfinished_tasks`, failure streak and death of each worker, `_primary_by`, `_stop`, deadline | `submit_all`, `run`, `_worker_loop`, `_process`, `_on_success`, `_on_failure`, `_drain_remaining` | no stock is lost, doubled or analysed more than `max_retry + 1` times; an outcome is final; `run` returns |
| pipeline orchestrator (`pipeline/orchestrator.py`, `run`) | `analysis_results`, `extra_outcomes`, the report file, `report_lock`, `PipelineResult` | filter, initial report, dispatch with `on_result` / `on_extra` in the worker threads, count, final report | one writer at a time, every whole report shows what those before it showed and the last one is complete, the counters add up, the run ends |
| scheduler (`pipeline/orchestrator.py`, `pipeline/main.py`) | clock, calendar, the run in progress | `next_trading_day`, `_run_pipeline`, `_run_researcher`, `--run`, `--schedule` | one run per trading day, in their order, begun before its deadline |
| analysis client (`pipeline/analysis_client.py`) | headers with the token, elapsed time, `consecutive_401`, `consecutive_conn_errors` | `submit_one`, `poll_one`, `_login`, `_fetch_result` | gives up or times out only when it must; always ends |
| cross-day tracker (`strategy_researcher/cross_day_tracker.py`) | `pending.json`, one verified file per day | `verify_pending`, `record_today_signals`, `_save_*`, `_load_*` | every signal is settled once, on time |
| API token rotation (`api.py`) | `_token_usage`, `_usage_date` | `_get_current_token`, `_record_usage`, `_mark_token_exhausted`, the loop of `_api_request` | a request fails only after the paid token; a free token stays within its limit; the paid one is the last resort |
| filter web application (`app.py`) | `is_running`, `should_stop`; in each of the reloader's two processes a scheduler and a history; one history file | `trigger_filter`, `stop_filter`, the 08:30 job, saving and loading the history | one filter run at a time; a stop stops the run it was meant for; the history is stored |
| filter runner and merge (`pipeline/filter_runner.py`, `czsc_scanner.py`) | lists of B1, B2, watch list and czsc results | run, merge, deduplicate | each stock is handed over once, with all its labels |
| stock filters (`stock_filter.py`, `filter.py`, `stock_filter_b2.py`) | two batches of stocks, thread pools, results | `run_filter`, `process_stock`, Ctrl+C; conditions on price series | every stock kept has a real result; nothing goes on after the return |
| data cache and retry list (`data_storage.py`, `retry_manager.py`, `api.py`) | cached series and quotations with their time, the configured ages, list of failures | load, save, expire, debug mode; `add_failed_stock` | what is used is as old as its rule says; no failure is forgotten |
| report generator, reader, scores, server (`pipeline/report_*.py`) | files | render, parse, serve | text processing |
| preheater (`pipeline/data_preheater.py`) | documents of MongoDB | upsert | its failure is ignored |
| configuration, notification, authentication, scripts | files | read, format | |
| researcher: model, wiki, collectors (`strategy_researcher/*`) | Markdown and CSV files | prompt, write | text processing |
| analysis service (`TradingAgents-CN/app`: `simple_analysis_service`, `memory_state_manager`, `routers/analysis`) | tasks in memory, documents and reports in MongoDB, a thread pool | create, background job, progress, save, status, result, mark failed, delete, clean up zombies | the polling client is told one outcome that stands, and gets what it is told is there |
| task queue and workers (`TradingAgents-CN/app`: `queue_service`, `queue/helpers`, `analysis_worker`) | Redis list, sets, hashes and visibility keys | enqueue, batch, dequeue, acknowledge, clean up, cancel | a task is in one place, slots do not leak, limits hold |
| rest of TradingAgents-CN (agents, data flows, settings, CLI, pages) | settings, caches | prompts, vendor adapters, CRUD | a copied third-party program; not modelled |

### 1.2 How they interact

`main` starts `PipelineScheduler`, whose two cron jobs call
`PipelineOrchestrator.run` and the researcher. The orchestrator calls the filter,
then `StockDispatchQueue.run`, which starts one thread per worker; each thread
logs in, takes stocks from the shared queue, and calls its own
`TradingAgentsClient`. Results come back through the callbacks `on_result` and
`on_extra`, which run **in the worker threads** and write the orchestrator's
dictionaries and the report file. The main thread polls `unfinished_tasks` and
the set of dead workers, and drains the queue when nobody is left. The service
writes its own result files, which the report generator reads too, also for tasks
the client gave up on. The client submits to `POST /api/analysis/batch`
(`analysis_client.py:102`), one stock at a time; for each stock the service creates a
task and a coroutine for it, as its `/single` does; the analysis runs in a pool thread that reports progress to
memory, while status requests, administrators' requests and the coroutine itself
run in the event loop. The service has a second way to run tasks, a Redis queue
with worker processes. The filter runs on the command line, in the pipeline and in
a web application; its threads share the market data client's tokens, the cache
files and the failure list. The web application runs with `debug=True`, so that
Werkzeug's reloader executes it in two processes, both with a scheduler and one
history file. The researcher runs in the pipeline's scheduler and in a
scheduler of its own, as two processes that share `pending.json`.

### 1.3 What is hard

* *Threads:* worker threads, the watching main thread and the callbacks share the
  queue, the health of the workers and the report; a dead worker may still take a
  stock; a retry and `task_done()` must come in the right order.
  Filter threads share counters, flags and files without any lock; in the service
  every `await` between two commands to Redis or two stores is a place for others.
* *Failures:* logins fail, analyses fail or time out, callbacks raise, report
  writes fail, tokens expire in the middle of a poll, the service disappears.
* *Time:* a deadline passes between two steps; a run outlasts the next trigger;
  weekends and holiday weeks; grace periods counted in days.
* *Files:* a file is emptied before it is written, and two files are saved one
  after the other by processes that may be killed or run twice.

The complete list, line by line, is under `hazards` in `PROJECT.json`.

## 2. Modules

| module | models |
|---|---|
| `StockRound` | what one round of the dispatcher promises its caller (abstract) |
| `StockDispatch` | the dispatcher, one action per atomic step of a thread |
| `Pipeline` | `PipelineOrchestrator.run` composed with the dispatcher (extends `StockDispatch`) |
| `Scheduler` | calendar, cron jobs, `--run` and `--schedule` |
| `AnalysisClient` | one worker's client, analysis after analysis |
| `CrossDayTracker` | the tracker's files and the processes that rewrite them |
| `AnalysisService` | the tasks of the TradingAgents-CN server: memory, documents, pool, administrators |
| `AnalysisQueue` | its Redis queue, workers, clean-up and cancellation, command by command |
| `MarketData` | `_api_request` and the tokens under several threads |
| `StockFilter` | `run_filter` with its pools, Ctrl+C and the failure list |
| `FilterApp` | the web application's flags and, over its two processes, its history |
| `DataCache` | one file of the price cache over the hours of a week, with debug mode |
| `MCStockDispatch`, `MCPipeline`, `MCCrossDayTracker`, `MCAnalysisQueue` | small instances for TLC |
| `MCPipelineSide` | an instance of `Scheduler`, `StockFilter` and `AnalysisClient`: each initial state is that of one of them, so that their states add up |
| `MCFilterSide` | likewise of `MarketData`, `FilterApp` and `DataCache` |
| `StockDispatchProofs` | the dispatcher's invariants and its refinement of `StockRound` |
| `PipelineProofs`, `SchedulerProofs`, `AnalysisClientProofs`, `CrossDayTrackerProofs`, `AnalysisServiceProofs`, `AnalysisQueueProofs` | the invariants and action properties of each component |
| `FilterSideProofs` | those of `FilterApp`, `StockFilter`, `MarketData` and `DataCache` |

Each component module also defines variants of some actions with one line dropped
or changed, marked as mutants or collected under "plausible mistakes". No specification uses them; they are
the mutants of `PROJECT.json`, which show that each property would notice the
mistake.

### 2.1 StockDispatch

Variables are the fields of `StockDispatchQueue` (`queue`, `unfinished`,
`streak`, `dead`, `primaryBy`, `stop`), the program point and current item of
every worker thread (`pc`, `task`), the program point of the main thread (`main`,
`joined`), what the caller's callbacks recorded (`results`, `extras`), whether the
deadline has passed (`expired`), and a count of the analyses begun (`submits`,
history).

A worker goes through the points `login`, `loop` (test of `_stop`), `get`, `got`
(test of death and deadline), `run` (analysis in progress), `success` (inside
`on_result`), `deadDrop` / `retry` (the exits of `_on_failure`), `taskDone` or
`retire` (`task_done()` owed), `exited`. One action is one `queue.Queue` call, one
critical section of `_lock`, one callback or one read of shared state; everything
between two of them is invisible to other threads. An analysis (`submit_one` then
`poll_one`) has any outcome. `_process` treats failure, timeout and exceptions
alike, as `ProcessFails` does. `join(timeout=5)` returns without the thread's end
only when the thread may really be away for five seconds, that is, in the network.

### 2.2 StockRound

The round the orchestrator relies on: each stock gets at most one outcome, a
result from a worker that is alive or one extra; outcomes never change; `run`
returns when every stock has an outcome or no worker is left; nothing is reported
after it returned. `StockDispatch` maps `alive` to the workers that are not dead
and `returned` to `main = "done"`; `results` and `extras` map to themselves.

### 2.3 Pipeline

Extends `StockDispatch` and replaces its `OnResult` by the three steps of the
orchestrator's callback: store the result (`StoreResult`), acquire `report_lock`
and read the analyses (`LockReport`), open the file, which empties it (`OpenReport`),
fill it and release (`Publish`). A
report is the set of stocks it shows an analysis for. `ReportGenerator.generate`
reads the analyses one after the other while others arrive, so that a report shows
at least what existed when it began and at most what exists when it is written.
It may raise before the file is opened, which leaves the file as it was, or while it is
filled, which leaves it empty (`Truncated`); the callback logs both. The initial and
the final report are written in the same two steps, by the main thread
(`InitialReport`, `OpenFinal`, `Return`), where the index, generated after the report
file is whole, may fail too. `published` is history: the stocks some whole report has
shown. `Filter` has the outcomes
of steps 1 and 1.5, a fatal error, an empty day, or a list of stocks;
`CheckAvailable` covers an unreachable service. `ServerWrites` (external) is the
service writing the files of a task at any time after it was submitted.

### 2.4 Scheduler

Time is a day (day 0 is a Monday) and the hour of the next event in it. Any subset
of `HolidayChoices` may be holidays, and the calendar library knows the days up to
`LastKnown` (beyond, `is_holiday` raises and the job fails). `Fire` is
`_run_pipeline`, with APScheduler's rule of one instance per job; `FireResearcher`
is `_run_researcher`. `job` carries the day, the deadline and the beginning of the run
in progress, the first run of `--run` included; `EndRun` ends the run in progress, and with it, in `--run`
mode, lets `main` start the scheduler. A run ends at most `Overrun` hours after
its deadline, when the analyses begun before it have timed out.

### 2.5 AnalysisClient

A worker makes one analysis after the other with the same headers. Time is counted
in rounds of the polling loop; every round is one action, split at the login
inside it. The service (external) ends the task whenever it likes, lets tokens
expire, and answers any request with an error; connections fail at any time. The
history variables count the rounds after the end of the task (`lag`) and the
reasons the client has for not having seen it (`faults`, `expiries`, `refused`).

### 2.6 CrossDayTracker

`pending` and `verified` are the files; `Torn` is a file that was opened and not
yet written, which the loaders read as an empty list. Every load, truncation and
write is an action of its own, so that kills (`Crash`) and a second process come
between any two of them. A list is modelled by how often each record is in it: the
code only loops over its lists and extends them, so that their order has no effect,
while a record that is there twice is settled twice. `VerifyPending` splits the
loaded list for any set of stocks that have a price today.

### 2.7 AnalysisService

A task is one entry of `POST /api/analysis/batch`, whose handler creates the task and
starts its coroutine; the client submits batches of one.

`job` is the program point of a task: the request that creates it, the coroutine
`execute_analysis_background` and the pool thread in the middle of it. `mem` and
`memResult` are the entry in `MemoryStateManager`, `doc` and `reports` the
documents. The operations write memory first and the document after an `await`;
each write is an action. `StatusOf` and `ResultOf` are the answers of the two
requests the pipeline's client makes, with their fall-backs from memory to the
document and to the report. A write to MongoDB may fail and is only logged
(`DbFault`); a crash empties memory and the pool. Progress reports of the thread
write RUNNING whatever the status is, as the code does. `trouble` and `deleted`
are history: which tasks an administrator or a failed write has touched.

The second half of the zombie clean-up uses a query that MongoDB refuses, because
`started_at` stands among the operators of `created_at`; the model lets the step
change any subset of the documents, none included.

### 2.8 AnalysisQueue

One action per Redis command. A worker goes through `Pop`, `CheckAgain` (the second
look at the limit), `MarkUser`, `MarkGlobal`, `ReadClock` (`time.time()`, which fixes
`timeout_at` before the `await`), `SetVisibility` (HSET), `SetExpiry` (EXPIRE), `SetProcessing`, `Work` and the commands of `ack_task`; a cleaner finds
given-up leases (`Scan`) and takes each back; a canceller reads the status and
withdraws or releases the task. Time is in seconds; a visibility key carries both
`timeout_at` (`due`) and its time to live (`ttl`), and Redis removes it when the
latter is over (`KeyExpires`). A second may begin between any two of these steps. The
clocks of the workers and of Redis are assumed to agree. `Interrupt` cuts any operation short, as a lost
connection or a killed process does: `dequeue_task` catches the exception and
leaves what was done. `interrupted`, `takenBack`, `raced` and `late` are history;
the properties name them as the only causes of harm.

### 2.9 MarketData

A thread in `_api_request` compares the date, clears the counters in a step of its
own, chooses a token, asks, and counts in two steps (read, write). The service's
answers are data, an unknown stock, 403, and failures that mark the token as used
up. `served` counts the answers each free token really gave since the counters
were cleared; `overlapped` is set when two threads were counting at once.

Not in the model: the return without a token (`api.py:71`), which needs a
configuration without a paid token; and the three places that fetch outside
`_api_request` (`api.py:315`, `:365`, `:407`), whose uses are counted nowhere. The
limit is about what `_api_request` asks for.

### 2.10 StockFilter

The main thread excludes stocks, divides the rest by what is cached, submits two
batches and collects; pool threads request up to `MaxRetries` times, apply the
strategies, and list a failure in three steps (read, truncate, write). `Signal` sets
`exit` at any time, whereupon threads return "cancelled" and the collection stops
and drains the pool. An error while the list is read or written is printed and
swallowed (`ListFails`), and one in the middle of the write leaves a file that does not
parse. `clashed` is set when two threads were in `add_failed_stock` at once, `unlisted`
when a call failed.

### 2.11 FilterApp

`app.run(debug=True)` makes two processes: the reloader's parent and the child that
serves HTTP. Both execute `app.py`, so that both start a scheduler and load the history.
`runner` is the program point of every HTTP thread in `trigger_filter` and of the
08:30 jobs of both processes, which look at no flag; `memory` is the history of each
process, and the file is common. `Restart` starts both anew, `Reload` only the child,
when a source file changed. The test of `is_running` and its assignment, the
clearing of the two flags, and the opening, writing and flushing of the history file
are steps of their own; a save may fail at each (`SaveFails`). `raced`, `missed`,
`damaged`, `stale` and `shared` are history: two threads passed the test together or a
malformed request cleared the flag; a stop came when no stock was left to check; saves
overlapped, or one failed or was cut short; the other process has saved since this one
loaded the file; a process saved while it was stale.

### 2.12 DataCache

One file: a daily series, a weekly series or a quotation. The last day of a series
(`EndDate`) is chosen when the request is made, the time stamp taken when the answer
is saved, and the file is emptied before it is written. Time is counted in hours and
looked at half past each, so that 9:30 and 15:00, the limits of the session, and
18:00 fall on different sides of an observation. `DebugRun` is `run_filter` with
`debug`, which sets the configured ages to 99999 for the whole program (`unlimited`)
and restores nothing. Only a new process (`Killed`) has the ages of the configuration
file again. The rule of 18:00 for daily series and the fixed ages of quotations outside
trading hours read no configuration.

## 3. Runs

The properties of one component that hold together are checked as one named
conjunction (`ReportInv`, `ScheduleInv`, `TrackerInv`, `OutcomeStands`, `OnePlace`,
`MarketInv`, `FilterInv`, `FlagsInv`, `CacheInv`); the parts are defined and
explained one by one in their modules.

| run | question | result |
|---|---|---|
| `dispatch` | three stocks, two workers, one retry, death after two failures, a deadline at any time: is a stock ever lost, doubled, over-run, given two outcomes? Is every step one of `StockRound`? | holds (80,429 states) |
| `dispatch_raise` | the same with two stocks and a callback that raises before or after it recorded the result; do the threads end, does every queued stock get its outcome? | holds (126,673 states) |
| `dispatch_all_dead` | does the watchdog record every stock when all workers are dead? | **violated** |
| `pipeline` | two stocks, two workers, one retry, failing writes, a service that goes on writing: one writer, no whole report shows less than one before it though a write may break off and leave an empty file, final report complete, counters add up, run ends | holds (350,761 states) |
| `schedule_early_overrun` | does every trading day get a run with the default 01:00? | **violated** |
| `tracker` | five days, two runs a day by two processes, kills: is a signal settled once and in time, recorded once? | holds (3,471,406 states) |
| `service` | two tasks, a pool of one thread, one failed write, one crash, two requests of administrators: does an outcome stand, is what is called completed deliverable, does a deleted task stay away, does every task settle? | holds (755,295 states) |
| `queue` | two tasks of one user, two workers, a cleaner, a canceller, a limit of one, three seconds, one interrupted operation: is a task in one place, does a slot leak, is the limit kept, which leases does the clean-up find? | holds (2,961,794 states) |
| `pipeline_side` | the scheduler in both modes, `--time` 23:00 and 01:00, two weeks, 32 choices of holidays: one run per day, in order, none left out, each begun in time or at the opening? The filter, three stocks in a pool of two under Ctrl+C: are its results and its failure list complete, does it return? The client, any answers, expiring tokens, refused logins: does it time out or give up only when it must, and always end? | holds (620,679 states) |
| `filter_side` | two threads and one free token with a limit of two over a midnight; the web application with two HTTP threads, an 08:30 job in each of its two processes, a restart or a reload and failing saves: one run at a time, does a stop stop the right run, what loses an entry of the history? A cache file over six days: does a daily series expire when it should? | holds (3,820,797 states) |
| `app_history` | is every entry that was saved in the file, when no save failed or overlapped? | **violated** |
| `cache_close` | does a quotation used after the close include the session? | **violated** |

### 3.1 What the violated runs show

* **`dispatch_all_dead`** (`AllDeadRecordsEveryStock`). `模型并发调度方案.md:180`
  says that when all workers are dead the watchdog discards all remaining stocks
  as `dead_skipped`. A worker tests its own death only after `get()`: a worker
  that died on its previous stock can hold a stock while the main thread sees that
  all are dead, drains an empty queue and stops. The worker then puts the stock
  back; nobody takes it, and `run` returns with the stock queued and without an
  outcome. `StrandedOnlyIfAllDead` shows that this is the only way a stock can be
  left without an outcome, and `CountsAddUp` excepts it.
* **`schedule_early_overrun`** (`NoTradingDayLeftOut`). The default trigger at
  01:00 gives a run 32 hours until its deadline. A run that is still in progress
  at the next 01:00 makes APScheduler drop that trigger, and the day it was for
  has no report, though `orchestrator.py:295` promises one for every trading day.
  With 23:00 this cannot happen (`EveryTradingDayRun`). The 32 hours come from
  another disagreement, which the trace shows too: `pipeline/README.md:67` and `:74` say
  that a trigger at 01:00 is for the same day, while `_run_pipeline` always takes
  tomorrow.
* **`app_history`** (`HistoryIsStored`). `DEPLOYMENT.md:95` says that the history is
  stored in the file. Each process writes the whole of its own list: the job of the
  second process at 08:30 overwrites the entry of the first, with no overlap and no
  fault. `HistorySurvives` shows that an entry is lost only this way (`shared`) or by
  saves that overlapped, failed or were cut short.
* **`cache_close`** (`QuotationHasTheClose`). `api.py:192` and `:209` justify the 18 and
  66 hours by data that does not change after the close; they are counted from the
  request, so that a quotation of 00:30 is used in the evening as the close. The trace
  contradicts the manual as well (`使用说明.md:159`: quotations are valid for one hour).

The cache disagrees with its comments and its manual in more places, which the model
has and no run is spent on. `使用说明.md:158` gives 24 hours for series; a daily one goes
by the rule of 18:00 and a weekly one has 72 hours. `api.py:255` says that the evening's
run always fetches the day; if 18:00 strikes between the choice of the end date and the
time stamp, the series lacks the day and counts as new (`Crossed`, the exception in
`DailyExact`). `stock_filter.py:276` and `:279` say that debug mode temporarily makes all
local data valid; it sets one age that nothing reads, does not reach daily series and
quotations outside trading hours, and is never undone, so that later runs of the same
program use weekly series of any age.

One more disagreement is inside the design document itself: lines 28-29 of
`模型并发调度方案.md` say that the stock a dying worker holds goes back to the
queue, line 100 that it is discarded. The code discards it (`DropDead`).

### 3.2 What the runs of the service and the filter show

Several properties are of the form "harm only through X", where X is a race or a
fault that the code really has; the run shows that there is no other way.

* `queue`: the second check of the limit does not prevent the race its comment
  speaks of, since an `await` and the SADD follow it; the limit is exceeded only
  when two workers pass it together (`OverrunOnlyByRace`). The clean-up of expired
  tasks hardly ever finds one: the visibility key lives as long as the lease, so
  that Redis removes it before the clean-up may see it as given up, unless a second
  began between the reading of the clock and EXPIRE (`OnlyLateLeasesFound`). A slot leaks only
  by an operation that was cut short, and nothing repairs it; a task is lost that way
  or by a clean-up whose late "queued" overwrites the status of a task that has
  been taken and ended meanwhile.
* `service`: a task that was marked as failed while it ran is brought back to
  running by its own thread and settled again by its job, so that the client is
  never left polling; but only tasks that no administrator and no failed write
  touched have the same outcome in memory and in MongoDB. A crash leaves documents
  in processing for good (the exception in `EveryTaskSettles`).
* `pipeline_side`: a failed stock is missing from the retry list only when calls
  overlapped or the file could not be read or written; the only run that begins after
  its deadline is a first run started between 09:00 and 09:30.
* `filter_side`: a request may fail without the paid token after two answers 403; a
  stop request that comes too late stops the next run; a malformed request
  clears the flag of the run in progress; an entry of the history is lost only by the
  causes named in 3.1; a daily series expires exactly when it lacks a day, unless 18:00
  struck during its request (`CacheInv`).

### 3.3 Bounds, and why they are enough

* *Two workers, three stocks* (`dispatch`): one worker may die while the other
  lives, both may die with stocks left, a stock may be retried by the other worker,
  and a third stock is queued while both are busy. With one retry and a threshold
  of two, a worker dies on two stocks or on one it retried. The theorems of
  section 4 hold for all numbers.
* *Two stocks* (`dispatch_raise`, `pipeline`): enough for two callbacks at once.
  In `dispatch_raise` the threshold is three, so that a stock reaches its last
  attempt with its worker alive; both workers can still die by failing to log in.
* *Days 0 to 12* (`pipeline_side`): two weeks with weekends; holidays on Tuesday,
  Wednesday, Friday and the next Monday and Tuesday give single holidays, a bridge
  over a weekend and a block of six days. The calendar ends on day 11, so that
  day 12 shows a day it does not know. `Overrun = 13` lets a run last until 22:00
  of its report date, the longest that ends before a trigger at 23:00.
* *Timeout = 9 rounds, three connection errors, two expiries* (`pipeline_side`): a token
  may expire twice within one analysis and each takes three 401 answers to renew.
* *Five days, two runs a day, `hold_days = 1`* (`tracker`): a signal of day 0 is due
  on day 1 and given up on day 4; two runs a day, one after the other or at once.
  One stock: the records of different stocks do not influence each other except by
  being in the same file, which the records of different days already show.
  The two processes are symmetric.
* *Two tasks, one pool thread* (`service`): one task waits in the pool while the
  other runs. One failed write and one crash come at any of their steps; two
  requests let a mark, a deletion or a clean-up follow each other on one task.
* *Two workers, limit one* (`queue`): enough for the race at the second check, for
  a task put back while another worker pops it, and for a task taken back from a
  worker still at work. A lease of one second and times up to two let a key expire,
  be found late, and be set again. Workers are interchangeable (symmetry; the run
  has no liveness property).
* *Limit of two, two threads* (`filter_side`): the last unit of the limit is chosen
  by both. Three attempts per request (one free token and two). Six days from a Wednesday, hour by hour: a weekend with the days on
  both sides; a request may last over one full hour, enough to cross 18:00. `cache_close` has
  the same bounds.
* *Three stocks, a pool of two, three requests per stock* (`pipeline_side`): one stock
  waits when Ctrl+C falls.
* *Three runs, two requests, one job in each process* (`filter_side`): two requests race for the
  flag while a job saves, and each process saves after the other. One restart or reload
  lets either process load what the other wrote.

### 3.4 Fairness

* `StockDispatch`, `Pipeline`: weak fairness of every thread. The operating system
  schedules threads, and every step that waits has a timeout: `get(timeout=1)`,
  `join(timeout=5)`, login and HTTP timeouts, the worker's analysis timeout. A
  lock is only held during a report generation. The clock need not pass the
  deadline. No fairness is assumed of successes: everything may fail.
* `AnalysisClient` (in `MCPipelineSide`): weak fairness of the client only. Nothing is assumed of the
  service.
* `AnalysisService`: weak fairness of every task's job, because the event loop
  resumes coroutines and an analysis is assumed to end (`run_in_executor` has no
  timeout: one that hangs keeps its thread), and of the pool starting what waits.
  None of administrators, faults or crashes.
* `StockFilter` (in `MCPipelineSide`): weak fairness of the filter's main thread and of
  each pool thread, since requests time out.
* `Scheduler`, `CrossDayTracker`, `AnalysisQueue`, `MarketData`, `FilterApp`,
  `DataCache`: safety only.

Deadlock is checked for the pipeline's components; `Terminated`, `Ended`, `Finished`
and `Returned` are the states in which the program or the bounded calendar has ended.
It is not checked for `service`, `queue`, `filter_side` and the runs of `FilterApp` and
`DataCache` alone: a server without requests, or whose bounded requests or hours are
used up, is idle.

## 4. Theorems

Every safety invariant and every action property that a passing run checks is also
proved, for every value of the constants that satisfies the assumption of its module.

### 4.1 Assumptions

| assumption | asks for | because |
|---|---|---|
| `DispatchAssumption` | each stock submitted once; a finite, possibly empty set of workers; natural numbers | the merge removes duplicates; the default configuration has no worker |
| `PipelineAssumption` | `on_result` does not raise | the orchestrator's callback catches the errors of the report |
| `ReportAssumption` | the two values for a missing and an emptied report file are no sets of stocks | |
| `SchedulerAssumption` | hours of the day; a model value apart from the values it stands beside | |
| `ClientAssumption` | natural numbers, a limit of connection errors of at least one | |
| `TrackerAssumption` | `hold_days` of at least one; some process | the default is positive; with 0 a signal would be settled on the day it is recorded, and recorded again by the next run |
| `ServiceAssumption` | a pool of at least one thread, natural bounds | |
| `QueueAssumption` | finite sets of tasks and workers, a batch without repetitions, a positive limit and lease | task numbers are fresh UUIDs |
| `AppAssumption`, `FilterAssumption`, `MarketAssumption` | finite sets of threads, the parent's jobs among the jobs, positive limits, a paid token that is not among the free ones | the configuration file; the paid token has an entry of its own |
| `CacheAssumption` | a request that lasts less than a day | requests time out |

### 4.2 What is proved

| theorem | says | module |
|---|---|---|
| `TypeCorrect` | types; `unfinished_tasks` is the number of queued items and of workers that owe `task_done()` | `StockDispatchProofs` |
| `NoStockLost`, `NoStockDuplicated` | a stock is queued, held or has an outcome; it has one copy | same |
| `AttemptsBounded` | at most `max_retry + 1` analyses of a stock | same |
| `DeadStayIdle` | a dead worker analyses nothing | same |
| `ReturnsComplete` | when `run` returns, a stock without an outcome is queued and all workers are dead | same |
| `OutcomesFinal` | one final outcome per stock, if `on_result` does not raise | same |
| `DispatchImplementsRound` | the dispatcher implements `StockRound`, if `on_result` does not raise | same |
| `ReportHolds` | one writer of the report at a time; a run that succeeded leaves a report with every analysis | `PipelineProofs` |
| `CountsHold` | the counters add up to the stocks of the run, unless every worker died | same |
| `ReportGrows` | every whole report shows what any whole report before it showed, though writes may break off | same |
| `TradingDaysServed` | each known trading day has one run or met a busy scheduler; with an evening trigger none is left out; the researcher has its days | `SchedulerProofs` |
| `RunsBeginInTime` | every run, the first of `--run` too, begins before its deadline, except a first run started between 09:00 and 09:30 of a trading day; no run is for an earlier day than one before it | same |
| `SeesTheEnd` | a task that has ended is missed by at most three rounds per fault or expired token and one per refused login | `AnalysisClientProofs` |
| `GivesUpOnOutage` | the service is given up only after the full row of connection errors | same |
| `NoSignalLost` | undisturbed runs keep every signal waiting or settled, once; none is settled early | `CrossDayTrackerProofs` |
| `NoneSettledTwice` | runs that do not overlap settle no signal twice, wherever they are killed | same |
| `NoneRecordedTwice` | a signal is recorded once, whatever overlaps or is killed | same |
| `NoneLeftWaiting` | `verify_pending` saves no signal beyond `hold_days` and the grace | same |
| `OutcomesStand` | a task that is over is not answered as unfinished unless its last write failed; undisturbed, memory and document agree | `AnalysisServiceProofs` |
| `CompletedIsFetched` | what is called completed can be fetched, unless a write failed | same |
| `DeletedStaysDeleted` | a deleted task never looks unfinished again | same |
| `TaskInOnePlace` | one copy of a task until a cleaner takes it back; lost only by an operation cut short or a late clean-up | `AnalysisQueueProofs` |
| `NothingLeaks` | slots and keys outlive their worker only through an operation cut short | same |
| `LimitHolds` | the limit is exceeded only after two workers passed the second check together | same |
| `CleanupFindsOnlyLate` | the clean-up finds only leases for which a second began between the reading of the clock and EXPIRE | same |
| `FlagsWork`, `HistoryKept` | the flags keep one run at a time and stop the run meant; saved history survives in both processes; up to the causes named | `FilterSideProofs` |
| `FilterResults`, `FailuresListed` | results of a filter run are complete and nothing goes on after it; a failure is forgotten only by overlapping calls or by one that could not read or write the list | same |
| `QuotaHolds`, `PaidIsReached`, `PaidIsLast` | the limit of a free token, exceeded by one per other thread at most; the paid token is reached, and last | same |
| `CacheExact` | a daily series expires exactly when it lacks a day, unless 18:00 struck during its request; for any number of hours | same |

### 4.3 The arguments

*The dispatcher.* `NeverLost` is not inductive: that a stock taken
from the queue is still held needs that it has no other copy (`OneCopy`); the bound
on analyses needs that the attempt number travels with the stock and counts its
analyses (`AttemptsCounted`); that nothing is left when `run` returns needs that
the main thread leaves its loop only when `unfinished_tasks`, which is exact
(`UnfinishedExact`), is zero, or when all are dead (`LeavesWhenOver`). The
conjunction of these with `TypeOK` and `DeadNeverRuns` is `SafetyInv`, which is
inductive. The lemmas `QueuedAfterGet` and `QueuedAfterPut` say how the two queue
operations change what is queued, `MoveOneCopy` and `MoveNeverLost` that a step
which moves one stock keeps both properties, and `WorkerMoves` and `MainMoves` that
every step is such a move.

*The refinement.* Under `SafetyInv` and `OneOutcome` every step is quiet, loses a
worker, returns, or settles one stock that was queued or held and is now gone
(`WorkerKind`, `MainKind`); each of these is a step of `StockRound` or leaves it
unchanged. It needs that `on_result` does not raise: a callback that raises after
it recorded its result leads to a second outcome.

*The pipeline* inherits `SafetyInv`: a step of the composition is one of the
dispatcher's or leaves its variables alone, and `Publish` is the dispatcher's
`OnResult`, because the result it would store is already there. `RunInv` adds that
the lock belongs to the worker at the point `gen` (`CallbackInv`), that the
dispatcher is silent before and after its round (`PhaseInv`), that a stock has one
outcome and then no copy except with the callback still at work (`OutcomeInv`), that
a report in the making contains all that a whole report has shown, also while the file
is empty (`DraftInv`), and that the counters
are right from when they are set (`TotalInv`). The counters are compared through
bijections with the stocks that have a result and those that have an extra.

*The scheduler.* Everything is said of the days whose trigger has passed
(`Passed`): such a day, if it is a known trading day, has its run or was dropped, and
only such days have one (`TargetInv`, `PassedInv`); `JobInv` bounds how long a run
lasts, which is why one of an evening trigger is over before the next. `BegunInv` remembers
when the run in progress began, from its first step to its last, and that no run
before it was for a later day. `MinIsLeast`
and `ClockMoves` say what the clock does, `NextTradingDayIsNext` what
`next_trading_day` finds.

*The tracker.* `FileInv` follows a signal through a run: what each process holds at
each program point, and what the files hold meanwhile (`HeldOnce`, `Kept`).
The exclusion it rests on is `AloneInv`. `SplitEffect` says what `verify_pending`
does to one signal.

*The client.* `Account` bounds the lag by what the faults so far have paid for,
with the rounds an expired token will still cost counted in advance
(`OwedNow`); `TokenCounts` and `ConnCounts` relate the two counters to the token
and to the outage.

*The service.* `TaskInv` speaks of one task, so that a step is examined for its task
and `TaskSame` settles all others: no progress is reported once the outcome is set
(`MemoryInv`); report, result and status are written in this order (`DocumentInv`); a
task left alone goes the same way in both stores (`AloneInv`); a request of an
administrator leaves its trace (`AdminInv`).

*The queue.* `OnePlace` is strengthened by the copy the client has still to push
(`SingleInv`) and by what a cleaner has pushed (`PushedInv`); the limit by the slot
that is free before the worker that passed the check (`SlotInv`); the clean-up by how
`due` and `ttl` of a key are related at every point of its worker (`LeaseInv`), which
starts from how old the reading of the clock may be (`ClockInv`).

*The filter's side.* `AppInv`: whoever holds the flag finds it set and is alone, and a
request to stop stays visible until its run looks. `FileInv` and `ListInv`: while no
calls overlapped or failed, what the one writer holds is what the emptied file held; for
the history this needs that a process that is not stale has in memory all that was
saved. `PoolInv`: a
stock is in one place, and only in the current batch. `TokenInv`: a counter lacks what
is still unrecorded, and every failed attempt of a request has used up a token of its
own, so that the number of attempts suffices. `DateInv`: what was asked for during a
request is at most one day behind its time stamp.

### 4.4 What the proofs changed in the models

* `FilterApp`: a request to stop reaches a run that is fetching its list only if the
  list is not empty; the invariant failed for an empty one (`CanStop`).
* `DataCache`: the bounds hold only for requests shorter than a day, which is now an
  assumption.
* `Pipeline`: `success` is set on returning only, part of `PhaseInv`.
* `CrossDayTracker`: lists as multiplicities; `AnalysisQueue`: LREM by an index map
  (`Without`); no recursive definition is left in what is proved about.
* Model values (`NoJob`, `Torn`) are assumed different from the values of the
  variables they appear in.

### 4.5 Model-checked only

Liveness (`RoundSettles`, `RunEnds`, `AnalysisEnds`, `EveryTaskSettles`,
`FilterRunEnds`) and everything that needs ENABLED is outside the prover's reach, as
is induction over data (what a recursive definition computes for every input). The
violated runs are counterexamples and need no proof.

## 5. Not modelled

* *The rest of TradingAgents-CN.* The repository holds a copy of this third-party
  program, about 180,000 lines and most of the repository: prompts and calls of
  language models, adapters of data vendors, CRUD of settings, command line, pages.
  It is text processing and input and output without a protocol; the pipeline uses
  it through the analysis service. The share of the repository's lines that the
  models stand for is therefore small, while the core logic of the pipeline and
  filter programs and of the service's task handling is covered.
* Rendering and parsing of reports, chat cards, wiki pages, prompts: text.
* Preheater, configuration, authentication, scripts: sequential input and output.
* Indicators and conditions of the filters: floating point on price series.
* The merge of the filters' lists (planned).

Known weaknesses of the code that no property states:

* `report_generator.py:295` converts a summary to HTML in an object that later
  reports convert again; `:350` writes in place: the emptied file of a failed
  write is modelled, but not the report server, which may send half a file.
* `main.py:148`: `--run` started between 09:00 and 09:30 is for today with a
  deadline that has passed, and skips every stock. `RunsInTimeAndOrder` names it as its
  one exception.
* `analysis_client.py:107`: only `poll_one` logs in again, so that a token that
  expires between two analyses fails every later submit of that worker; `:172`: one
  that expires before the result is fetched fails a finished analysis.
* `simple_analysis_service.py:897` passes the wrong enumeration after a failed
  validation, and the task gets no end time.
* `queue_service.py:68`: the global limit is checked on enqueueing only; `:191`:
  a batch is checked against what runs, not against what waits.
* `stock_filter.py:48` sorts stocks by the rule of 18:00 also for quotations, which
  are read by another rule: the "local" batch may make requests.
* `filter_runner.py:88`: a watch list code without suffix is not recognised and is
  analysed twice.

## 6. Plan

Done, in this order: `StockDispatch` with its proofs and `StockRound`; `Pipeline`;
`Scheduler`; `AnalysisClient` with its proofs; `CrossDayTracker`; `AnalysisService`;
`AnalysisQueue`; `MarketData`, `StockFilter`, `FilterApp` and `DataCache`; the proofs
about them.

Modules left: `FilterMerge` (`filter_runner.py`, `orchestrator.py`), the merging of
B1, B2, watch list and czsc results against a definition of the merged set; and
`FilterAlgorithms`, the conditions as operators on bounded price series.

Proved: the type invariant and every safety and action property of the passing
runs, for all constants (section 4).

What could still be proved: an abstract specification of the analysis service, a
task that is unfinished and then has one outcome, with `AnalysisService` without
administrators and failed writes as its implementation; and the bounds of
`Pipeline` without the assumption that `on_result` does not raise, as a statement
about a callback that does not catch its errors.

## 7. Running

    tlc -workers 2 -config StockDispatch.cfg MCStockDispatch
    tlapm StockDispatchProofs.tla

and likewise for the other pairs of `PROJECT.json`.
