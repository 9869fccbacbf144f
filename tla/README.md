# A formal model of the HFT benchmark platform

TLA+ models of the platform's own core logic: the matching engine that
contestants start from, the exchange built on it, and the services that drive
load against a contestant's exchange and score it. TLC checks the models on
small instances; TLAPS proves the theorems for every value of the constants.

`PROJECT.json` holds the machine-readable index: which definition models which
lines, which run checks which property, the seeded faults that show each
property can fail, the hazards and the findings.

## 1. The system

```
 frontend -> gateway -> submission-svc -> sandbox-mgr  -> container of the contestant's exchange
                            |      \-> bot-orchestrator -(bot-commands)-> bot-worker -> that exchange
                            |                                                |
                            |                                     (telemetry topic)
                            v                                                v
                        PostgreSQL   leaderboard-svc <-(Redis)- scoring-engine -> TimescaleDB
```

| component | state it keeps | operations | hard behaviour |
|---|---|---|---|
| order book (`pkg/orderbook`) | `bids_`, `asks_` (price -> FIFO list and a running total), `orders_` (id -> location), one mutex | `add_order` (match, then rest), `cancel_order`, readers | three structures that must agree while a loop erases from them; self-trade prevention leaves crossed books |
| exchange template (`templates/cpp-exchange`) | book map, `order_index` trackers, id counter | submit, cancel over HTTP | handlers take three mutexes one after the other, never together |
| bot-orchestrator | one `BenchmarkRun` object per run_id, `cancel_flag`, one detached thread per object | start, stop, status; warmup, ramp, peak, burst, cooldown | flag read outside the mutex, unconditional status updates, restart under the same run_id, publish failures |
| bot-worker: fleets | fleets by run_id, timer threads | consume an assignment, timers, shutdown | timers that outlive their fleet, joins under a mutex |
| bot-worker: bots, reporter | `live_orders_`, telemetry buffer, the producer's queue | send an order, record, flush, stop | detached order threads that outlive their bot, three kinds of threads flushing at once |
| scoring-engine | metrics per run, telemetry channel | ingest, TPS counter, finalize, DB writer | finalize against telemetry still on its way; overwriting writes; a restart from another offset, a broken database connection |
| sandbox-mgr | status object per submission, build queue, two workers | build and deploy, teardown, status | teardown against a running build, two builds of one submission |
| submission-svc | rows in PostgreSQL, connection pool, finalizer thread | upload, status poll, start, stop, delete a team | status written by several callbacks from stale answers |
| leaderboard-svc | update flag, WebSocket clients | subscribe, fetch, broadcast | flag cleared before the fetch, non-atomic reads, a snapshot against a broadcast |
| gateway, frontend | none | proxy, display | none modelled |
| deploy | the schema of the database | - | two `CREATE TABLE submissions` that differ |

What makes each of them correct, in the order of importance used for the plan:

1. order book: the index, the lists and the totals agree; trades follow
   price-time priority; a call returns; fills add up.
2. exchange: ids are unique, one book per symbol, what rests can be cancelled,
   a cancel is acknowledged at most once and never reports too much.
3. orchestrator: assignments follow the plan; a thread that was replaced falls
   silent; a stop ends a run; a run that has ended can be started again.
4. worker: one fleet per run, the fleet of a phase lives for the phase, stop and
   shutdown end everything.
5. submission: a run that is under way or completed is never lost sight of; a
   completed one is sent to be scored; every poll is answered.
6. sandbox: the status that is shown tells the truth about the container; every
   build ends.
7. telemetry, scoring, leaderboard: nothing is counted twice, nothing that was
   recorded is lost without a fault, an update reaches every client.

## 2. Modules

| module | models | composed with |
|---|---|---|
| `OrderBook` | `pkg/orderbook`: `add_order`, `match`, `cancel_order`, the readers | refines `PriceTimePriority` |
| `PriceTimePriority` | the promise of a price-time engine, without lists, cursors or an index | - |
| `Exchange` | the HTTP handlers of `templates/cpp-exchange` over one book | `Book == INSTANCE OrderBook` |
| `RunStatus` | what the orchestrator shows of a run_id, without threads, phases or flags | - |
| `Orchestrator` | `services/bot-orchestrator`: start, stop, the execution threads | refines `RunStatus` |
| `BotWorker` | `services/bot-worker/src/worker.cpp`: the consumer, the timers, shutdown | - |
| `Benchmark` | one benchmark in time | `Orchestrator`, `BotWorker`, the command topic, a clock |
| `Submission` | `services/submission-svc`: the row of one submission and all that write it | `Orch == INSTANCE RunStatus` |
| `Sandbox` | `services/sandbox-mgr`: builds, workers, teardown, docker and Kubernetes | - |
| `Telemetry` | `bot.cpp`, `reporter.cpp`, and the counting half of `services/scoring-engine` | - |
| `Leaderboard` | the writers of Redis (`FinalizeRun`, the deletion of a team) and `services/leaderboard-svc` | - |
| `Pipeline` | from an order to the browser | conjoins `Telemetry` and `Leaderboard` at `FinalizeRun` |
| `MCExchange`, `MCBenchmark` | symmetry and durations for TLC | |
| `OrderBookProofs`, `ExchangeProofs`, `OrchestratorProofs`, `BotWorkerProofs`, `BenchmarkProofs`, `SubmissionProofs`, `SandboxProofs`, `PipelineProofs` | theorems; those of `Telemetry` and `Leaderboard` are in `PipelineProofs` | `ExchangeProofs` cites the theorems of the book, `BenchmarkProofs` those of the orchestrator and the worker |

Modules also meet through abstractions. `Submission` sees of the orchestrator
only what its HTTP interface shows, so it is built on `RunStatus`, and
`Orchestrator` is shown to implement `RunStatus` (`ShowsRunStatus`, model-checked
and proved): what `Submission` assumes of its neighbour is a theorem about that
neighbour. In the same way `Pipeline` implements both of its halves, so that
what is proved of a half holds of the whole.

### OrderBook

`level[s][p]` is the `std::list` of a price, `total[s][p]` its `total_quantity`,
`keys[s]` the keys of `bids_` or `asks_`, `node[id]` the `Order` object in a
list, `index` is `orders_`. `match` is not one step: `pc`, `it` (the map
iterator) and `pos` (the list iterator) give each iteration of the two loops a
step of its own, `EnterLevel`, `SkipOwn`, `FillMaker`, `LeaveLevel`, and the
code after them `RestRemainder` or `ReturnFills`. So the invariants are checked
between any two iterations, where iterators are live and half the structures
are updated. Nobody else sees those states: the mutex is held, and calls start
only at `pc = "idle"`. The invariants that hold only when the mutex is free say
so (`QuotesMatchOrders`).

### Exchange

One action per critical section of a handler: `FindBook` and `CreateBook`
(the two halves of `get_or_create_book`), `NumberOrder` (the atomic counter),
`StartMatch` and the steps of the book, `FinishMatch`, `UpdateMaker` (one lock
of `index_mu` per fill), `AnswerSubmit` (the tracker of the new order); `Cancel`,
`CancelInBook`, `AnswerCancel`. `phase[h]` says which comes next for handler
`h`; `seen[h]` is the tracker it copied before it let go of `index_mu`. The
matching loop of the handler that is inside the book is stepped by the actions
of `OrderBook` themselves. The template never sets `account_id`, so no order
has an account there.

### Orchestrator

`pc[r]`, `at[r]` and `step[r]` are the position of the detached thread of run
object `r` in `execute_phases` and `execute_ramp_phase`: look at the flag, set
the status, publish, wait. `StartBenchmark` and `StopBenchmark` are the critical
sections of the requests; the publish of a stop is an action of its own,
`PublishStop`, because it happens after `mu_` was released. Every publish may
fail, and one that fails may have reached the topic all the same (`flush` can
throw after the message was sent). `topic` is the sequence of all messages.

### BotWorker

`consumer`, `timer[f]` and `main` are the positions of the three kinds of
threads; `listed` is `fleets_[run_id]`, `held` and `victim[f]` are the local
`fleet_to_stop` of `stop_fleet`, `alive` the fleets whose bots run, `timer_mu`
the holder of `timer_mu_`. `stop_fleet` is two steps, out of the map under
`mu_` and then the join without it. The wait of a timer is four: the predicate
is looked at with the mutex held (`TimerLocks`), the wait begins and releases it
(`TimerWaits`), the time is over or a notification comes (`TimesOut`,
`NotifyAll`), and the mutex is taken again (`TimerWakes`). `stop()`
notifies without taking the mutex, so a notification that falls between the
first two reaches nobody.

### RunStatus and Submission

`row` is `submissions.status`, `table` whose `CREATE TABLE` made it. Each of
`poll[p]`, `start[s]`, `stop` and `fin[f]` is a request whose answer is handled by
a callback some time after it was asked: `at` says whom it waits for, `ans` what
it will write when it has a connection. Between `PollAnswered` and `PollWrites`,
or `StartAccepted` and `RecordStart`, anything may happen to the row. `conns` is
the pool: a block that holds a connection waits for nothing else, so it is one
step that needs `conns > 0`, and a reconnect that throws costs the pool the
connection (`DatabaseFails`). Two fields of a request are history: `stale`, that
the row was set to "testing" after it was asked, and `of`, the run its answer is
about. `finalized` is the set of runs a finalize request was sent for, `excused`
the runs the service may lose sight of, for the reasons `Watched` names.

### Sandbox

Builds, status objects and containers are numbered by the build requests.
`ListBuild` and `QueueBuild` are the two critical sections of `enqueue_build`;
`Begin` takes the status object that is listed *by then*, which need not be the
one of the build. After it a worker holds no lock: `BuildImage`, `RemoveOld`
(`docker rm -f`), `Run`, `LookUpPort`, `PublishReady` work on one container name
per submission, and so does `RemoveContainer` of a teardown. Any of the commands
may fail, and an exception in a Kubernetes call leaves `build_and_deploy` and is
swallowed by the worker's loop, which writes no status (`ExceptionSwallowed`; the
status object is then in `abandoned`, which is history). `mode` is docker or Kubernetes, where a pod that exists is kept and a
teardown removes nothing. `crossed` is history, see `ListedStatusTrue`.

### Telemetry, Leaderboard and Pipeline

`at[t]` is the position of an order thread, the flusher or main. `TakeBuffer`
is the swap under `mu_`; what was swapped out is in `batch[t]`, which nobody else
can see, until each event has been produced (`Produce`) or one could not be
(`ProduceFails`, which drops the rest). `outq` is the queue inside the producer,
`topic` the topic; a message may be accepted and its answer lost, and is then sent
again (`AckLost`). The engine gets messages in batches (`PollBatch`), counts
one after the other (`Ingest`), closes a second (`FlushTps`) and writes batches
(`WriteBatch`) over a connection that is made when it starts: once that is broken
(`DbConnBreaks`), `db` says so and every later batch is dropped. It may restart with
empty memory and a new connection (`EngineRestarts`), at any offset up to what it
had polled, ingested or not, since the library commits what `poll_batch` returned. `promised`, `lost` and `doubled` are history. An order thread
that outlives its `Bot` writes into freed memory (`bot.cpp:198`): nothing
may come of it, or the process ends (`WritesToFreedBot`).

`rank` and `details` are the two Redis keys of a team, whose values are numbers
of scores. `Zadd`, `Hmset`, `PublishScore` are the commands of one pipeline;
`Zrem`, `Del`, `PublishDelete` three commands of the deletion. `caster` is the
broadcast thread, which clears `has_update` before it fetches, in two reads.
`client[c]` is a connection from "new" over its first snapshot to "on".

`Pipeline` lets `FinalizeRun` start once the engine has metrics for the run and
holds the mutex of the metrics until Redis has answered, so that no event is
counted and no second closed in between. The two halves share nothing else, so its
initial states do not combine all of their states: a running worker has no
audience, and either a fault or a score to come (`NoAudience`); an audience has a
worker that has ended (`Audience`); and an engine that restarts while it writes a
score has neither.

### Benchmark

Conjoins the actions of the two modules with durations. `due[r]` is when the
wait of the orchestrator's thread ends, `deadline[f]` when the timer and the bots
of an assignment end; both come from the code's arithmetic (`build_phases`,
`execute_ramp_phase`). **The clock moves only when no thread has anything left
to do at the present second** (`Settled`): the steps of the threads and the
delivery of a message take milliseconds, the waits whole seconds. What the
module says of the real system holds to the extent that this does. Inside one
second every order of the threads is explored.

## 3. Runs

| run | properties | bounds | shows |
|---|---|---|---|
| `orderbook` | `TypeOK`, `IndexMatchesLists`, `QuotesMatchOrders`, `UncrossedExceptOwn`, `FillsAddUp`, `PriceTimePriorityKept`, `CallReturns` | 3 ids, one account and "no account", prices and quantities up to 2 | the engine is right on every sequence of calls; it implements `PriceTimePriority`; every call returns |
| `exchange` | `TypeOK`, `OneBook`, `RestingIsTracked`, `TrackerNeverUnderstates`, `CancelNeverOverreports`, `CancelAckedOnce` | 3 handlers (symmetric), 3 orders, quantities up to 2 | reports and cancels stay right although the mutexes are taken one after the other |
| `orchestrator` | `TypeOK`, `PlanFollowed`, `ReplacedFallsSilent`, `OneLateAssignment`, `ThreadEnds`, `ShowsRunStatus` | 2 starts, 2 stops, a ramp of 2 steps (0 and `RampSteps`) | the plan is followed under stops, restarts and failing publishes; a replaced thread and a stopped one publish one more assignment at most; what is shown is `RunStatus` |
| `orchestrator_stuck` | `RefusedWhileRunning` violated | 1 start, 1 stop | a stop may be overwritten, and the run_id is then blocked |
| `bot_worker` | `TypeOK`, `NoFleetLost`, `OneFleet`, `CleanStop`, `FleetsAreStopped` | 3 assignments, 1 stop, a shutdown | the ownership of fleets between the threads; every fleet is stopped, whatever its bots do |
| `worker_shutdown` | `ShutdownEnds` violated | 1 assignment | the shutdown may join a thread that waits for the mutex it holds |
| `benchmark` | `LoadFollowsPlan`, `CompletedIsQuiet` | 1 start, 1 stop, durations 1, 2, 3, 2, 1 | bots that run are those of the phase (not that there are any), and none is left at the end |
| `benchmark_peak` | `PeakHasBots` violated | 1 start, the real 30 seconds | the timer of the ramp ends the peak |
| `submission` | `TypeOK`, `Watched`, `ScoredWhenOver`, `CompletedIsFinalized`, `TestingEnds`, `PollsAnswered` | one poll, start, stop and finalizer question at a time, a pool of 2, 2 runs, 1 stop, 1 fault; both tables | whatever the order of the callbacks, a completed run is sent to be scored but for named exceptions; nobody waits for ever |
| `submission_unpolled` | `FinalizerSuffices` violated | no poll, 1 run, no fault | with the migration's table nothing is scored |
| `sandbox` | `ListedStatusTrue`, `BuildEnds` | 2 workers, 3 builds, 1 teardown, the destructor; both modes | the status shown is true but for four named crossings; every build ends but for a swallowed exception |
| `pipeline` | `CountedOnce`, `DeliveredOnExit`, `UpToDate`, `RowIsWhole`, `TelemetryArrives`, `ClientsCatchUp` | 2 orders, a buffer of 2, 1 fault, 1 client, 2 scores, 1 deletion, 1 broken connection | no event counts twice or is lost without a fault; no update of the board is lost but for named exceptions |

Why the bounds suffice. A walk of the book needs two makers at one price and
a third order as the taker, or two prices, for every branch of the loop: own
maker before a foreign one, partial and full fill, an emptied and a half empty
level; two accounts are two only against each other, and "no account" is
the other. An exchange race involves a maker, a taker and a cancel: three
handlers. A replaced thread and its successor are two starts; a late stop and a
second stop two stops. The ramp has two steps, the first with a wait and the last
without, which are the two cases of the code. In the worker three assignments
are one that is being replaced, its successor, and a stale timer of the first.
Identifiers are not reused within a run of a model: ids of orders are drawn from
a counter in the exchange, and a fleet or run object is a new object each time.

In `submission` the races are between one callback of each kind: a poll that
holds an answer while a stop, a restart (hence 2 runs) and the finalizer write.
A pool of 2 with 1 fault is the smallest that can lose a connection and go on.
In `sandbox` a crossing is between two workers, or a worker and a teardown; the
third build is the one that is listed while the other two are built. In
`pipeline` a buffer of 2 is filled by 2 orders, so an order thread flushes beside
the flusher and main; a single order is flushed by the flusher or by main. A
board of one score that is overwritten by a second, and a deletion between or
after them, are all the pairs of writers; a second client would see the same
broadcasts, and the proofs are for any number of them.

Every property of a passing run also has a seeded fault, an operator `Bug...`
next to the one it replaces, under which the run finds the property violated.

`CHECK_DEADLOCK FALSE` is used where the system really comes to rest: all
requests of the bound are served, all threads have ended.

`benchmark` has one start only. After a restart the last assignment of the
thread that was replaced (the one `OneLateAssignment` allows) may reach the
worker after the first of the new run, and since both have the run_id the worker
then runs the fleet of the old one for a while; `LoadFollowsPlan` does not hold
of two starts, and nothing in the repository says that it should.

### Fairness

- `OrderBook`: `WF` of a step of the matching loop. The thread holds the mutex
  and waits for nothing.
- `Orchestrator`: `WF` of every thread and of every stop that is yet to publish.
  `mu_` is held for assignments only, every wait is a `wait_for` with a
  timeout. Requests carry no fairness.
- `BotWorker`: `WF` of the consumer, of main and of each timer: threads run, and
  the timers' waits have a timeout (the assignments of the orchestrator have a
  duration above 0). None for messages or the signal, and none for the end of
  the bots at their deadline: `FleetsAreStopped` is about the threads that stop
  a fleet from outside.
- `Submission`: `WF` of every callback and of the finalizer. A call to another
  service is answered or fails (with a timeout), the event loops run, and the
  finalizer sleeps for five seconds at a time. No request needs to come, and
  neither a build nor a benchmark needs to end. `CompletedIsFinalized` thus
  does not rely on anybody polling.
- `Sandbox`: `WF` of each worker and of the second half of `enqueue_build`. The
  code runs docker without a timeout: that its commands end is an assumption.
- `Pipeline`: `WF` of an order thread from its answer on (the senders have a
  timeout), of the flushes, the flusher and main's last steps, of the delivery,
  the engine's loops, the Redis commands, the subscriber and the broadcast
  thread. Not of sending orders, of the end of the worker, of a request for a
  score, of a client, or of a restart of the engine: none of them needs to come.

Weak fairness is enough for the properties; `ShutdownEnds` fails under it
because a deadlocked thread is not enabled, not because it is never scheduled.

## 4. Findings

1. `orchestrator_stuck`: `update_run_phase` (`main.cpp:317`) overwrites the
   "stopped" of a stop that came after the look at `cancel_flag`. The thread
   ends, the status says "warmup", every later start of the run_id is refused.
   (A second stop helps.)
2. `worker_shutdown`: `Worker::stop` joins the timers under `timer_mu_`
   (`worker.cpp:106-109`); one that has just been started, or whose time has
   just run out, needs that mutex to return.
3. `benchmark_peak`: a timer stops whatever fleet has the run_id when it fires
   (`worker.cpp:170`). The ramp of the default 30 seconds publishes its last
   step with a duration of 2 seconds and goes to the peak without a wait, so
   the peak, 12 seconds long, runs bots for 2. TLC's shortest trace is another
   case of the same: the timer of an earlier step of the ramp, due in the very
   second in which the peak begins, is late and takes the fleet of the peak.
4. `submission_unpolled`: the service writes the statuses "pending_build",
   "testing" and "complete". It creates its table only if there is none
   (`main.cpp:114`), and under docker compose `deploy/migrations/001_init.sql` has
   created one whose `CHECK` (line 27) allows none of the three. The update to
   "testing" throws after the orchestrator has accepted the start
   (`main.cpp:1039`), the finalizer looks for "testing" only, and a run that
   completes is never scored.

Seen while modelling, and not the subject of a run of its own:

- `templates/cpp-exchange/src/main.cpp:173` inserts the tracker of a new order after the
  book's mutex was released. If the order was filled meanwhile, the taker's
  handler has found no tracker to update, and the one inserted now stays for
  ever. Harmless for the reports (`CancelAckedOnce` holds), a leak otherwise.
- The reporter's producer is not set up to be idempotent (`reporter.cpp:31`), so a
  message whose answer is lost is sent again, and the engine counts it twice. It
  is the only way to count an event twice: `CountedOnce` excludes all others.
- A client's first snapshot may be fetched before a broadcast and sent after it:
  the client then shows the older board until the next update. `UpToDate` names
  this exception (`behind`).
- `FinalizeRun` scores what has been ingested when the request arrives; the last
  second, which no tick of the TPS counter has closed, is not in `max_tps`.
- The flush of the producer at the end may time out; the worker ends all the
  same, and what is left in the producer's queue is lost. `DeliveredOnExit` counts
  that as a fault of the broker.
- `K8sClient` makes an `httplib::Client` of an `https` address (`k8s_client.h:14,160`),
  which throws where httplib is built without OpenSSL, and so may the dump of the
  payload. The exception leaves `build_and_deploy_k8s` and ends in the worker's loop
  (`sandbox_service.cpp:40`): the build is "building" for ever. `BuildEnds` names it
  as the only exception.
- The engine's connection to TimescaleDB is made once (`main.cpp:339`). When it
  breaks, every batch is dropped from then on (`main.cpp:449`), and only the log
  says so. In `Telemetry` one fault is enough for that.
- A test of the deployment, `cold-start-test.sh`, waits for a status "running",
  which no code writes to `submissions`.

## 5. Proofs

TLAPS checks the theorems for every value of the constants; the only assumptions
are the named `ASSUME`s of the modules (bounds are naturals, sentinels are no
members of the sets they stand outside of), which TLC evaluates as well, and one
hypothesis that is part of a statement: a single start, in `BenchmarkProofs`.
Every safety invariant that a passing run checks, and both refinements, are
theorems.

**OrderBookProofs.** `Invariance` proves `IInv`, the conjunction of `TypeOK`,
`IndexMatchesLists`, `WalkInv` and `UncrossedExceptOwn`, inductive, one lemma per
action; `TypeCorrect`, `IndexCorrect`, `WalkCorrect` and `NeverCrossedByOthers`
follow. None of the four is inductive alone. That a taker which rests crosses
nobody but its own account (`UncrossedExceptOwn`) needs that the walk has passed
no foreign maker within its limit (`WalkInv`); that the walk stays at a maker it
may look up needs the index (`IndexMatchesLists`); and each needs the types. The
lemmas `BestProperties` and `RemoveAtProperties` say what `begin()` of the two
maps and `std::list::erase` do, the first from the least element of a set of
naturals.

Three theorems stand on `IInv`. `FillsAddUpAlways`: `FillInv` adds to `FillsAddUp`
that a maker that was filled has left the index as long as the taker goes on, so
no maker is filled twice in a call. `QuotesAlwaysMatch`: in `QuoteInv` a level's
total is the sum of its orders at every step of the walk, and a key without
orders is the one the walk is at; when the mutex is free there is none. Both are
about sums over data, `SumFunctionOnSet` of the community modules. The induction
theorems of the library take an operator and are out of reach, so `TableExists` and
`TablesAgree` show with a least counterexample, by the size of the subset, that
the table of sums the library's `CHOOSE` speaks of exists and is unique. What one
element more, or a changed one, does to a sum follows (`SumSplit`, `SumChange`),
and `ExchangeProofs` uses the same lemmas for its handlers.
`ImplementsPriceTimePriority` is the refinement: `Init` maps to the initial
state of a price-time engine, and each iteration of the loops to a fill of the
best foreign maker, a rest, an end, or a stutter. That the maker at the cursor
*is* the best one (least price that is good for the taker, and the oldest of
that price among the foreign ones) is where `WalkInv` is needed again.

**ExchangeProofs.** `ExchangeInvariance` for any number of handlers, orders and
quantities; from it `TypeCorrect`, `OneBookAlways`, `RestingIsAlwaysTracked`,
`TrackersNeverUnderstate`, `CancelsNeverOverreport` and `CancelsAckedOnce`. The
steps of the matching loop are steps of the book, so the invariants of
`OrderBookProofs` are cited through an instance (`BookInv`). What is new is
accounting. A tracker lags behind the book: between the match and the last
`UpdateMaker` of a handler the fills are known to the handler alone. The
invariant therefore speaks of `Pending(i)`, the sum over all handlers of what
each has filled of maker `i` and not yet taken off its tracker: what the tracker
says is gone, and what is pending, is at most what was executed (`TrackerInv`),
and the same with nothing pending of the copy a cancel took (`CancelInv`). It
is an inequality and not an equation since a fill can find no tracker yet (see
the findings). `MatchInv` ties the mutex to the one handler that matches;
`DistinctIds` and `RoomLeft` say that the counter gives no id twice and does not
run out; `AckInv` that of two cancels one at most gets past the book.

**OrchestratorProofs.** `Invariance` proves `IInv` inductive; `TypeCorrect`,
`StopIsLateByOne` and `ReplacedThreadFallsSilent` follow. `DriverInv` says that
a terminal status already means that the flag is up or that the thread cannot
turn back, so the check "already running" is enough at the moment of the
restart: a replaced thread is harmless (`Superseded`), which is not to say silent.
What it may still publish is `RestartInv`: a thread with an assignment behind one
of a later run is at a step from which it looks at its flag, which is up, before
it publishes again (`LooksFirst`). `StopInv` strengthens `OneLateAssignment`: a stop in the topic,
or on its way, means that the flag is up, and a thread which has published after
its stop (`Late`) is at a step from which it looks at the flag before it
publishes again. `RampInv` bounds the step of the ramp, which `TypeOK` needs.
`AppendStop` and `AppendAssignment` say what one more message does to both.
`PlanAlwaysFollowed`, for a ramp of any length: `PlanInv` relates the number of
assignments of a run in the topic to the position of its thread, which is one
ahead before a publish and level after it, and all of the plan when the status is
"completed". The k-th assignment of a run is the one with k - 1 of that run before
it, so the property counts by the cardinality of a set of places.
`ImplementsRunStatus` is the refinement: every step of a thread or a request is
a step of `RunStatus` or leaves what is shown alone. It needs `StatusInv`, that a
run object which exists always has a status, and `ThreadStatus`, that a thread
never leaves "completed" and cannot bring about "stopped".

**BotWorkerProofs.** `Invariance` proves `IInv`, the conjunction of `TypeOK`,
`OwnerInv`, `MainInv` and `NoFleetLost`, inductive; `TypeCorrect`,
`FleetsHaveOwners`, `LoadIsNeverDoubled` and `ShutdownIsClean` follow, for any
number of assignments, and so of timers. `OwnerInv` says who may hold a fleet
and when: a thread about to take one holds none (or it would drop that), and the
map has none while the consumer builds and lists the next (or listing would
destroy it). `MainInv` says who has returned by which step of the shutdown, and
so who can no longer touch `fleets_` when `wait()` clears them. That the
shutdown gets there is another question, which `worker_shutdown` answers.

**BenchmarkProofs.** `ImplementsParts`: every step of a benchmark in time is a
step or a stutter of `Orchestrator` and of `BotWorker`, for any number of starts,
so what is proved of the parts holds of the whole. `LoadAlwaysFollowsPlan` and
`CompletedIsAlwaysQuiet` have `MaxStarts = 1` as a hypothesis, for the reason given
with the run (neither holds of two starts), and are for any durations above
zero, any number of stops and of fleets. The invariant adds to those of the two
parts: the fleet in the map is that of the last assignment received
(`ListedInv`); while the orchestrator waits, the newest assignment of the topic
is the one it waits for (`WaitInv`, `Newest`), and in the last phase the worker
either has yet to receive it, in which case no time has passed, or its bots end
no later than the wait; so when the wait is over they have ended (`OverInv`).
The argument rests on `Settled`: the clock stands while a message is undelivered.

**SubmissionProofs.** `TypeCorrect`, `WatchedAlways` and `ScoredWhenOverAlways`
for any number of polls, starts and questions at a time, any pool, either table.
The inductive invariant `SubmissionInv` adds four parts. What matters is
`AllHarmless`: every answer that is held by a poll, a stop or the finalizer, and
that no start has overtaken, is harmless when it is written, because the run is
excused, or the answer says "complete" of the present run which has completed,
or the row does not say "testing", or the run has neither completed nor is under
way. `HarmlessWhen` states it with the row, the run and the status as
arguments, so that one lemma says under which changes of them it is kept.
`StoppedInv` (a stopped run is excused) lets the thread of a stopped run bring
its status back; `BuiltInv` (no run before there is a sandbox) keeps the upload
away from a row with a run; `AnswerInv` says which requests hold an answer at
all.

**SandboxProofs.** `Invariance`, `TypeCorrect` and `ListedStatusAlwaysTrue` for any
number of workers, builds and teardowns, in both modes. `ListedStatusTrue` speaks
of what has been written; what makes it inductive is what is known of those about
to write: a worker about to say "ready" holds the port of the container that
runs (`PortIsOfContainer`), and while a teardown is about to say "torn_down"
nothing runs (`NothingRuns`). Each of the four crossings is a step that breaks one
of the two, and the proof shows that there is no fifth. A worker that an exception
sends away is no crossing: it breaks the promise that somebody is at work, so the
proof assumes of the listed object that it is none of those (`AbandonedStays`).

**PipelineProofs**, of `Telemetry`: `DeliveredOnExitAlways` for any number of
orders, any size of the buffer and any number of faults. `Conserved`: every
recorded event is in the buffer, in somebody's batch, in the producer's queue, in
the topic, or lost. `PromiseKept` says the same of the events in `promised`
without the buffer and without the batches of others: from main's last swap
on, they are in main's own batch or further. It needs `Joined` (when main
flushes, the flusher has ended) and `BatchInv` (who is not producing has an empty
batch). `CountedOnceAlways` needs the converse of conservation, that an event is
in no two places: once in each sequence it is in (`OnceInEach`), in one of them
only (`Apart`), and recorded if it is anywhere (`RecordedBefore`), with a retry
inside the producer as the one exception. `CountsConsumed` says that a count
stands for a message before the offset, so the one consumed next is new, and a
restart forgets all counts, wherever it goes on.

Of `Leaderboard`: `UpToDateAlways` and `RowIsWholeAlways` for any number of
clients, scores, deletions and broken connections. `ViewInv` strengthens
`UpToDate` in two ways. What the broadcast thread has read so far is the present
row, or a later signal is on its way (`CastInv`); and the same of a snapshot that
is not sent yet (`ClientInv`). `RowInv` and `WriterInv` say which half of a row a writer has
written at which step.

Of `Pipeline`: `StepMaps`, every step of the pipeline is a step or a stutter
of each half. So `Pipeline` implements both (`ImplementsLeaderboard`,
`ImplementsTelemetry`), and `PipelineUpToDate`, `PipelineRowIsWhole`,
`PipelineDelivers` and `PipelineCountsOnce` follow without another invariant.

Only model-checked is liveness (`CallReturns`, `ThreadEnds`, `FleetsAreStopped`,
`CompletedIsFinalized`, `TestingEnds`, `PollsAnswered`, `BuildEnds`,
`TelemetryArrives`, `ClientsCatchUp`): fairness and `ENABLED` are beyond the
prover. The runs that expect a violation are what they are, counterexamples.

## 6. What is not shown

What a property of a run does not say, although a reader might take it to:

- `LoadFollowsPlan` is about bots that run. When a stale timer ends a fleet it is
  silent; that there are bots at all is what `benchmark_peak` refutes.
- `CleanStop` holds of a shutdown that returns. One that hangs is `ShutdownEnds`.
- `PlanFollowed` lets "completed" overwrite a stop of the last moment, when all
  phases have been sent.
- `PollsAnswered` is checked with fewer faults than the pool has connections. As
  many reconnects that fail as there are connections leave everybody waiting.
- `ListedStatusTrue` says nothing once a crossing has happened, and a teardown that
  a build undoes is not against it.
- `RowIsWhole` says nothing once a deletion and a score have overlapped or one of
  them has broken off; these are the ways a row is left in halves.
- `telemetry_raw` is a set of events in the model: that a row is there twice (after
  a restart of the engine, or a retry) is not seen.
- The write into a freed `Bot` has two outcomes in the model, none and the end of
  the process; what else undefined behaviour may do is out of reach.

Left out of the models:

- The width of integers: quantities are small numbers. `total_quantity` and the
  fill value of the report are `int64_t` in the code.
- Several symbols and several run_ids: they share the mutexes, the counter and
  the topic, and no entry of any map.
- The connection to the broker: in `Benchmark` and `Telemetry` the topic keeps
  everything in order. A worker that joins late (`auto.offset.reset` latest) or a
  rebalance that moves a run_id is listed as a hazard.
- A restart of the orchestrator, whose runs are in memory only.
- An exception in the middle of `handle_assignment` (a thread that cannot be
  created): the fleet built so far is destroyed, which stops its bots.
- What an order says, the latency histogram, the arithmetic of the score, the
  window of the last 60 seconds (a display is all that is made of it).
- Metrics of an earlier benchmark of the same run_id, which stay in the engine
  (a hazard): `Telemetry` has one benchmark.
- The checks of an upload, the lists of submissions and teams, `benchmark_runs`
  (written by one endpoint, read by none), and, in `Submission`, builds and
  teardowns asked of the sandbox manager by somebody else.
- What is in an image and in the source directory, which the builds of one
  submission share; container names, which are made of the first characters of
  the id; and the logs of a build, which are read without a lock.
- Subscriptions of the board's clients to details, which are sent anew every
  500 ms, the ping, and `updatePhase`, which passes a text on.
- Gateway, frontend and deployment (but for the schema of `submissions`): they
  keep no state of the system.

## 7. Plan

Done, in this order: `OrderBook` with `PriceTimePriority` and the proof of the book's
invariants; `Exchange` over it; `Orchestrator` and its proofs; `BotWorker`, its
proofs, and `Benchmark`; `RunStatus`, `Submission` and their proofs; `Sandbox`;
`Telemetry`, with the lifetime of a `Bot` against its order threads; `Leaderboard`;
`Pipeline` over the two, and their proofs; then the proofs of `Exchange`, `Sandbox`,
`Benchmark`, of the fills, the quotes and the refinement of the book, of the plan
of the orchestrator and of the counts of the engine, after which no safety
invariant is without one.

Left, the most worthwhile first:

1. The safety half of the liveness arguments: that the walk of the book has a
   rank that falls with every step (`CallReturns`), and that a request of
   `Submission`, a build of `Sandbox` or a timer of `BotWorker` is always at a step
   that some thread can take (`PollsAnswered`, `BuildEnds`, `FleetsAreStopped`).
2. An abstract specification of what the exchange promises a client of one
   order (accepted, filled, cancelled), and `Exchange` shown to implement it.
3. The hazards without a property: the width of sums, the offset a worker joins
   at, telemetry that is late for its score, a worse run that overwrites a
   better one, metrics that outlive their benchmark.
