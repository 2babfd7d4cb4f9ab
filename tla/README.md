# AlphaExchange in TLA+

AlphaExchange is a benchmark for exchange engines: contestants upload an order
book, the platform builds it, runs it in a sandbox, has bots trade against it
and ranks it by throughput, latency and correctness. This directory holds
TLA+ models of the services that do this, TLC configurations that check them on
small instances and proofs that TLAPS checks for every instance. Paths are
relative to `src/services/` unless they start with `README.md`, the repository's.

## The system

| part | state | operations | talks to |
|---|---|---|---|
| submission-api (`submission-api/`) | tables `tests`, `submissions`, `webhooks`, rate limits in Redis | create and read submissions and tests, webhooks | Kafka `build-jobs`, `orchestrator-events` |
| build-worker (`build-worker/`) | sandboxes, map of tracked ones, Kafka offsets | build, launch, probe, track, monitor, clean up, recover | `submissions`, Docker, `orchestrator-events` |
| orchestrator (`orchestrator/`) | row of each test, `lock:test:*`, `lock:recover:*`, timers, `sm.active`, heartbeats | start, stop, fail, drain, complete, recover | `orchestrator-events`, `bot-fleet`, Redis |
| bot-fleet (`bot-fleet/`) | runners, bots, circuit breaker, producer channel and batch | start and stop runners, send orders, number and emit events | the engine over HTTP, `bot-telemetry` |
| telemetry-ingester (`telemetry-ingester/`) | reorder buffer, shadow books, counters, sample queue | read, reorder, replay and judge, count, publish, write | `bot-telemetry`, Redis `metrics:*`, TimescaleDB |
| shadow-orderbook (`shadow-orderbook/`) | an order book | match, rest, cancel | none: a stand-alone copy of the ingester's book |
| leaderboard-api (`leaderboard-api/`) | connected clients and their queues, the last message, the last ranks, the board and its freeze in Redis | register, unregister, broadcast, score, freeze, disqualify | Redis, pub/sub, browsers |

What is hard here:

* **orchestrator**: several instances may handle one test at once: the consumer,
  the duration timer, the recovery scan, a crash report. Transitions are a read
  and a compare-and-set; locks live in Redis with a time to live and are released
  unconditionally; an instance may die anywhere. Correct means: the row follows the
  life cycle, one goroutine cleans up, one run per contestant, every run ends.
* **bot-fleet and telemetry**: the engine handles concurrent orders in an order
  nobody observes; events are numbered later, batched, delivered, buffered,
  sorted and replayed against a reference book that must agree with the engine.
  Correct means: no right engine is called wrong, and nothing is lost unseen.
* **order book**: two structures, levels and an index, kept equal through long
  sequences. Correct means: price-time priority, never crossed.
* **leaderboard**: ingester, orchestrator, admin and two caches write the same
  Redis keys; every pod scores for itself and messages between pods get lost.
  Three places close a client's channel, two pumps and a loop share it. Correct
  means: a freeze holds, what is shown catches up, ranks and ticker follow the
  scores, no panic, no gap in what a client gets.
* **submission-api**: handlers of one contestant meet in Redis, MinIO, Postgres
  and Kafka only, and may be cut off between two calls. Correct means: the limits
  hold, a build job has its row and its file.
* **build-worker**: builds run at once and commit out of order; rows, a map in
  memory and Docker each know some of the sandboxes, and monitor, cleanup job,
  restart and shutdown act on snapshots of them. Correct means: every job gets a
  result, a ready sandbox is watched, a dead one shows, an unclaimed one goes.

## Modules

| module | models | extends or instantiates |
|---|---|---|
| `TestLifecycle` | the abstract life cycle of a test: a status column and the legal edges | |
| `Orchestrator` | every instance of the orchestrator, its store, locks and topic, and `POST /v1/tests` | `TestLifecycle` as `Life` |
| `OrchestratorProps` | its properties | `Orchestrator` |
| `OrchestratorProofs` | type correctness, refinement, one cleaner and one recoverer of a test; what holds as long as nothing fails | `OrchestratorProps`, TLAPS |
| `OrderBook` | the matching algorithm as functions on books | |
| `ShadowBook` | a book and the orders sent to it, step by step | `OrderBook`; `PriceTimePriority` as `Reference` |
| `PriceTimePriority` | what a book must do, over a set of resting orders with arrival numbers: no levels, no index, no queues | |
| `Producer` | `telemetry.Producer` | |
| `Ingester` | reader, reorder buffer, validator, aggregator, publisher | `OrderBook` |
| `Telemetry` | bots, a right engine, the producer and the ingester together | `OrderBook`; `Producer` as `Fleet`, `Ingester` as `Ingest` |
| `TelemetryProofs` | theorems about `Telemetry` | `Telemetry`, `DataLemmas`; `AlgorithmProofs` as `Books`, `IngesterProofs` as `Batches` |
| `RateWindows`, `RowWriter`, `LagMonitor` | the ingester's memory of the recent past, its writer of rows, its measure of the lag | |
| `IngesterProofs` | theorems about these four | all four, `DataLemmas` |
| `BotBook` | the market maker, its quotes and its own book, beside the engine's and its other clients | `ShadowBook` |
| `TestRegistry`, `CircuitBreaker` | the runners of the bot fleet, and the breaker its bots share | |
| `FleetProofs` | theorems about these two and `Producer` | all three, TLAPS |
| `Hub` | `hub.Hub`, `Client` and its pumps | |
| `Ranking` | scores, ranks and ticker events as functions, cycle after cycle | |
| `DataLemmas` | induction over numbers and finite sets; greatest and least elements, sums and places in a ring | TLAPS |
| `AlgorithmProofs` | theorems about `Ranking`, `ShadowBook` and `BotBook` | `Ranking`, `BotBook`, `DataLemmas` |
| `Leaderboard` | the metrics keys and everyone who writes or reads them | |
| `SubmissionApi`, `Webhooks` | uploads and webhook registrations of one contestant | |
| `ApiProofs` | theorems about the hub and these three | `MCApis`, TLAPS |
| `BuildWorker`, `BuildWorkerProofs` | one build-worker process, its offsets, rows and containers | |
| `MCOrchestratorLive` | the behaviours of which liveness is asked: a test alone, or two rivals for the lock | `MCOrchestrator` |
| `MC*` | constants, operators and symmetry sets for TLC | |

Four MC modules put several components that share no state into one run:
`MCShadowBook`, `MCIngester`, `MCFleet` and `MCApis`. A variable `part` says which
of them a behaviour moves; the others stay as they began, so the run is the sum of
their state spaces and not the product. Each part has its own fairness, which
asks nothing of a behaviour of another part.

### Orchestrator

A process is a goroutine: of each instance the consumer, one per test and kind of
timer, and the recovery loop. `job[p]` holds the handler it is in (`op`), the
step it is at (`at`) and what it has read. A Redis, PostgreSQL or Kafka call is
one step, so every interleaving and crash between two calls is explored.

| code | action |
|---|---|
| `Handlers.CreateTest` | `CheckNoActiveTest`, `InsertTest`, `PublishStart` |
| `Consumer.Run`, `dispatch` | `ReceiveStart`, `ReceiveStop`, `ReceiveCrash`, `NextCrashed` |
| `TransitionTo` | `ReadStatus` then `CASStatus` |
| `StartTest` | `AcquireLock`, transition, `Seed`, `Publish`, `Arm`; `Unlock` on failure |
| `StopTest` | transition, `Publish`, `Drain`, transition, `Mark`, `Finish` |
| `FailTest` | transition, `Publish`, `Finish` |
| `time.AfterFunc` | `setTimer` arms, `cancelTimer` disarms, `FireTimer` starts the callback's goroutine |
| Redis time to live | `LockExpires`, `RecoverLockExpires` |
| `WriteHeartbeats` | `Heartbeat`, `HeartbeatStale` |
| `recoverOnce` | `FindOrphans`, `LockOrphan`, `Probe`, `ClaimRecovery`, `RegisterRecoveredTimer`, `ReleaseOrphan` |
| process death and restart | `Crash`: memory is gone, the next step is that of a new process |

Assumptions taken from the code's numbers: a test lasts at least 30 s
(`submission-api/security/validator.go:44`) and heartbeats come every 10 s; the
test lock lives for the duration plus 30 s, so it expires before the end of its
run only if the timer is late; the recovery lock (30 s) outlives one recovery
unless its holder dies. A graceful shutdown is a `Crash`: `run` returns without
waiting for goroutines. Consumers share a group and may swap partitions between
any two messages. A failing call (`faults`) may have taken effect or not.
`CONTAINER_CRASHED` has no producer in the repository: `ReportCrash` stands for
one. Abstracted: one timer goroutine per test and kind, where a second one of the same
kind could only meet the row the first has left; and a lookup of the contestant in
Redis (`contestantFor`) that always answers, where an error makes a stop without a
contestant, which the model knows from an empty hash. Left out: `failure_reason`, the Redis status field, score contents, the
`orchestrator_heartbeat` key, auto-start on `CONTAINER_READY` (off by default).

### Order book and validator

Prices and quantities are small integers. The Go code has floats; the
smaller of two quantities subtracted from both leaves one exactly zero with
either. Recursion is a fold. The ingester's book, `shadow-orderbook` and
`shadow_book.go` of the market maker are the same algorithm; `map` cites the first
for the algorithm and the ingester's where it is driven. `compare`
keeps the tolerances of `correctness_validator.go:58`, except that two ticks are
always further apart than its 0.01.

In `BotBook` the market maker quotes one limit order a side and cancels it when it has
stood its time (`BotSubmit`, `BotCancel`). It is the only bot with a book. What others
send, market orders among them, reaches the engine and not that book (`OthersOrder`), and
nothing is claimed once they have. Its requests do not time out here.

### Producer, ingester, telemetry

In `Producer` an event is its number in the order of the `Emit` calls when the
module is run alone, and a telemetry event in `Telemetry`. `WriteMessages` is
asynchronous: its errors are never seen, a fault loses one batch. `Ingester` models one
contestant, whose state no other shares, and splits `ProcessEvent` and
`GetSnapshot` at each atomic, since flusher and publisher are different
goroutines. `Arrive` may put any event in the partition, twice and in any order:
that is what Kafka promises across writer retries; in `Telemetry`, whose broker is
`WriteMessages`, a batch is appended once or lost. The reader commits each event it
fetches before it returns it; when that commit fails the event is dropped, whether or not
the broker took the commit (`CommitFails`; in `Telemetry` no commit fails). What is
*judged* has a verdict and was handed to `WriteSample`, whose refusal nobody reads;
`RowWriter` is what happens behind it.

`Telemetry` puts both between bots and an engine. The engine is external: a
correct `OrderBook` that handles a request at any moment between send and
answer, or late after a time-out. A bot sends limit and market orders of the
shapes given and cancels its own; persona strategies only choose among these.
Four Boolean constants name the conditions under which a property is claimed:
`Serial` (one order in flight), `Timely` (events arrive within the hold of the
reorder buffer), `Quiet` (a test is stopped while no order awaits its answer),
`Lagging` (a new test may start before the last one's events are judged; it takes
an ingester more than ten seconds behind). `telemetry_kind` has the first two
kind and stops tests at any moment; the unkind values give failures listed below.
A failure the conditions do not name *disturbs* the reference book (`Undisturbed`): a
request that times out, a reset that fails, an event dropped by a full channel.

### The ingester's windows, rows and lag

| code | action or operator |
|---|---|
| `TPSCounter.Record`, `GetCurrentTPS`, `GetPeakTPS` | `RecordTPS` in `ProcessEvent`; `GetCurrentTPS`, `GetPeakTPS` |
| `SlidingWindowHistogram.Record`, `Advance`, `GetPercentiles` | `ProcessEvent`, `Advance`, `Percentile` of `Merged`; `shown` is the fallback of `GetSnapshot` |
| `TimescaleWriter.WriteSample`, `loop`, `bulkInsert`, `Close` | `WriteSample`, `TakeRow`, `Second`, `LastFlush`, `EndCopy`, `CloseQuit`, `ClosePool` |
| `LagMonitor.check`, `readCommitted` | `Check`, `ReadLastOffset`, `SkipPartition`, `ReadCommitted`; `Write` and `Commit` are others' |

The clock and the window's ticker move independently, for a ticker may skip
beats. A histogram is exact here; the HDR histogram rounds to three digits. A COPY
may be committed and still report an error. The lag is read with two calls per
partition while messages come and are committed between any two.

### Fleet registry and circuit breaker

| code | action |
|---|---|
| `dispatch`, `startTest`, `TestRunner.Start` | `startTest`, then `Start`, `Spawn` outside the lock |
| `stopTest`, `stopByContestant`, `TestRunner.Stop` | `stopTest`, `stopByContestant` take entries out; `Stop`, `EndStop` one runner at a time |
| the runner's `AfterFunc`, a bot's return | `Elapse`, `Leave` |
| SIGTERM, `Consumer.Close` | `Sigterm`, `EndRun`, `Close`, `EndClose`, beside the consumer |
| `CircuitBreaker.Allow`, `Record` | `Allow`, `Record`; `Answer`, `Cool`, `AgeWindow`, `Fail`, `Recover` around them |

Runners are numbered, since a test may have several in turn. `Stop` waits for
the bots or thirty seconds, whichever comes first. A bot of the breaker asks once and
then sends a round of up to `Round` requests, so outcomes are recorded in states
they were not asked in. The bots of `Telemetry` do not consult the breaker: it
only makes them send less.

### Hub

Each `select` case is an action, the two pumps of a client and the departure of
its browser are others; channels have capacities, and `select` takes any ready case. `panic` records a second close
or a send on a closed channel.

### Ranking and leaderboard

`Ranking` computes a table from the rows of a cycle and the ticker events from
two tables. Scores are exact fractions rounded to hundredths. The entries come in
the order of a Go map, so `Tables` is the set of outcomes a stable sort can have.
`Leaderboard` leaves that arithmetic out: a set of metrics is the number of the
measurement it shows, and every Redis command of every writer is a step, except that
the two commands of the `PublishSnapshot` pipeline are one, and so are the `HGetAll`s of
one `Compute`, of which any may fail.

| code | action |
|---|---|
| `Pipeline.PublishSnapshot`, `RedisMetricsWriter` | `PublishSnapshot`, `PublishBehavior` |
| `ClearMetrics`, `SeedName`, `readWindow`, `PublishFinalScore` | the same, one call each |
| `Scorer.Run`, `Compute` | `BeginCycle`, `ReadMembers`, `ReadMetrics`, `Store`, `Publish`, for every pod |
| `redis_subscriber.go` | `receivers` in `Publish`; a reconnecting pod misses the message |
| `Freeze`, `Unfreeze`, `Disqualify` | the same |
| `GetLeaderboard` of submission-api | `Ask`, `FindMembers`, `Compute`, `Answer` |

### Submission API

`SubmissionApi` follows an upload from `INCR` and `EXPIRE` through the checks to
MinIO, Postgres and Kafka; every call may end well, fail, or take effect and
report an error, and the handler may be cut off before any of them. `Webhooks` has
the list and the insert of `CreateWebhook` as two steps. Contestants share no row
and no counter, so one is modelled.

### Build worker

Job `j` is the `j`-th message of `build-jobs`; `pc[j]` says where its goroutine
is, and every call to PostgreSQL, Docker or Kafka is a step. A container is the
pair of its submission and a generation, because a name can be used again after
a removal and snapshots hold container ids.

| code | action |
|---|---|
| `Consumer.Run` | `Fetch`, `Begin` (the semaphore), `Commit` |
| `ProcessBuild` | `SetBuilding`, `Download`, `BuildImage`, `Launch`, `Healthy` or `Unhealthy`, `setContainerInfo`, `SetReady`, `Track`; `fail` |
| `MonitorHealth`, `checkAll` | `MonitorTick` takes the snapshot, `MonitorCheck` looks at one container |
| `cleanupOrphans` | `SweepList`, `SweepTracked`, `SweepReady`, `SweepRemove` |
| SIGTERM, `StopAll`, end of `run` | `Shutdown`, `StopAll`, `DrainOne`, `Exit` |
| process start | `Start`, with `RecoverActive` |
| outside | `ContainerDies`, `Crash` |

A call made with the context of `run` fails once that is cancelled, and nobody
reads the error of a row's update: `UnderRun` and `Charge` say so in one place.
`CommitMessages` has its own context, and kafka-go commits the offset it is
given, be it lower than the last. One process is modelled; several share the
topic but also see each other's containers, which adds removals of ready
containers by another process's cleanup and is left out.

## Runs

| run | instance | shows |
|---|---|---|
| `orch_mutex` | 2 tests of 1 contestant, 2 instances, 1 scan | `OneRunPerContestant`, `StartNeverFailsARun`: the lock keeps runs apart, duplicates of START_TEST are harmless |
| `orch_faults` | 1 test, 2 instances, 1 crash or 1 report of a dead container (`MaxMishaps`), 1 scan, 1 failed call anywhere | `SingleFinisher`, `Lifecycle`: the compare-and-set elects one to clean up, and the row follows the abstract life cycle; that two scans do not recover one test at a time is left to the proof (`OneRecovererHolds`) |
| `orch_recovery` | 1 instance, fair; 1 test with 1 crash or 1 report and endless scans, or 2 tests of 1 contestant with 1 report | `RunEnds`, `EndsOrIsRefused`, `CompletedIsStamped`: a run ends, a queued request ends unless its START_TEST was refused, a completed test is stamped |
| `orch_stuck` | 1 test, 1 instance, 1 crash, endless scans, fair | **violated** `StoppingEnds`: a crash in the drain leaves the test stopping |
| `book` | 3 ids, 2 prices, 2 quantities, 4 orders; 3 contestants, 3 by 2 by 2 measurements | `BookIsSound`, `PriceTime`: the book implements `PriceTimePriority`; `AloneTheBotIsRight`; `RanksFollowScores`, `ImprovementNeverHurts`, `TickerTellsTheBoard` |
| `fleet` | producer: channel and batch of 3, 7 events, 1 fault; registry: 2 tests of 1 contestant, 3 runners; breaker: 2 bots, rounds of 2, 4 requests a window, 1 outage | `OrderIsKept`, `AcceptedIsSent`; `NoRunaway`, `StopsReturn`; `TripsOnEvidence`, `BreakerComesBack` |
| `ingester_counts` | events: 3 arrivals, 1 snapshot, 1 crash, 1 failed commit; windows: ring of 3, mean of 2, 2 histograms, 5 seconds, 3 turns, 3 orders; rows: queue and batch of 2, 5 rows, 1 error; lag: 2 partitions of 2 messages, 1 error | `WrittenAtMostOnce`, `EverythingIsJudged`, `RateErrsByWhatMoves`; `TPSErrsByIdleSeconds`, `ShownLatencyIsReal`; `DropsAreCounted`; `LagIsThatOfTheCheck` |
| `telemetry_kind` | 2 bots, 2 tests, 3 orders, a channel of 1, 1 time-out, 1 failed reset | `CorrectEngineIsNeverFaulted`, `BooksInSync` with orders one at a time |
| `telemetry_race` | 2 bots, 1 test, 3 orders in flight together | **violated** `CorrectEngineIsNeverFaulted`: numbers are drawn after the answer |
| `apis` | hub: 2 clients, limit 1, queues of 2, 3 messages; board: 2 pods, 1 contestant, 1 measurement, 2 events; uploads: 3, limit 1, 1 trouble; webhooks: 3, limit 1, 1 error | `NeverPanics`, `NoGaps`, `TheLastIsSeen`; `FreezeHolds`, `BoardCatchesUp`; `JobHasItsParts`; `LimitsHold`, for uploads and webhooks |
| `build` | 2 jobs, 1 at a time, 1 crash, SIGTERM or failed call, fair | `ReadyIsWatched`, `NoJobIsLost`, `EveryJobEnds`, `DeadIsNoticed`, `OrphansGo` |
| `build_lost` | 2 jobs, 2 at a time, 1 crash | **violated** `NoJobIsLost`: a later commit covers an earlier build |

A property that a theorem states for all constants, and that no one asks of a small
instance beyond that, is not run again: the type invariants, `CountersAddUp`,
`TimeoutsAreExcluded`, `NothingVanishes`, `OneRunnerPerTest`, `OneRecoverer`.

Why these bounds are enough to be interesting: two instances and two tests give
every pair of actors that can touch one row or one lock, and every pair of
handlers appears in some interleaving; one crash or fault may fall between any two
steps; one scan races every handler, and what two scans share, `lock:recover`, is
left to the proof of `OneRecoverer`. Four orders allow a level to be
filled, partly filled, emptied by a cancel and refilled. Seven events fill a
channel of three and force flushes by size and by tick. A limit of one with two
clients makes the limit, eviction and departure collide. A ring of three seconds
with five to live through is entered anew after idle ones. Three runners let one
test be started again while another of the contestant runs. Four requests a window
trip, probe and close the breaker with late outcomes of two bots under way. Two
events of the board are any two of a test, an order of the admin, a late
answer and a Redis error, on top of everything that runs by itself; one contestant is
enough, as the keys are written per contestant. One trouble among three
uploads at a limit of one may hit any call of any. Two jobs for one place
fill the semaphore and let one container be built while the monitor, the cleanup
job and the restart deal with another; more places only add builds, for which
the safety half is proved. Deadlock checking is
off because bounded instances come to rest when their bounds are used up.

Fairness: `FairSpec` of the orchestrator asks weak fairness of every running
goroutine, of delivery, heartbeats, timers and scans: the Go scheduler runs
every goroutine, tickers tick and a consumer group assigns every partition.
`MCOrchestratorLive` asks the same, but for the scans of the two rivals, of which there
are none (`DutyFairness` is the rest). A crash and a report are not in one behaviour of it.
Other instances were checked once and are not kept: two rivals with one scan, and two
rivals on two instances.
Nobody is obliged to create, stop or report anything, to crash or to fail.
The ingester's and producer's loops and the hub's loop and pumps are weakly
fair; Arrive, Emit, Broadcast and clients are not. Of the fleet, commands under way,
waits with an end and the shutdown once begun are fair, so are the requests of the
bots behind the breaker and the passing of time; no command need come and the engine may stay
down. The cycles of ingester and scorers, handlers of the board that have begun, and
expiring keys are fair; measuring, testing, administering and asking are not. So are
the build worker's reader, each build, its tickers, its shutdown once begun, and its
restart, which the pod's controller sees to; no container need die. Row writer, lag
monitor, windows and uploads have no fairness, as nothing is claimed of them that
must happen. The ingester writes the
fairness of its flush out through its enabling condition, which is equivalent
and lets TLC evaluate it in `Telemetry` as well.

`RunEnds` is stated without failed calls and `EndsOrIsRefused` and
`CompletedIsStamped` without crashes too: the code promises no more (see below).
A request is `Queued` while its START_TEST is on the topic, and `Refused` when that
event meets the lock of the contestant's other test.

## Proofs

`tlapm` checks every leaf; nothing is assumed but the named constant assumptions.

* `OrchestratorProofs!TypeCorrect`: `Spec => []TypeOK`, for any sets of tests,
  instances and contestants, and any numbers of crashes and faults. `TypeOK`
  is inductive: its part `JobShape` says which steps a handler passes through
  and that a goroutine about to compare-and-set has read a status with a legal
  edge to its target. That clause is what the refinement needs.
* `OrchestratorProofs!ImplementsLifecycle`: `Spec => Lifecycle`. Each step that
  writes the row does so by the compare-and-set whose edge `JobShape` has
  checked, so it maps to `Move`; others stutter. `NoRowYet`, also inductive,
  says that a test not yet inserted has no row, so `InsertTest` maps to `Create`.
* `OrchestratorProofs!SingleFinisherHolds`, `OneRecovererHolds`. The first needs
  the strengthening `FinishersAreTerminal`: the row of a goroutine past a final
  compare-and-set is final, and a final row has no outgoing edge, so no second
  one passes. The second needs `RecoverersHoldTheLock`, which rests on the
  recovery lock not expiring under a live holder.
* `OrchestratorProofs!OneRunPerContestantHolds`, `StartNeverFailsARunHolds`: with
  `MaxCrashes = 0` and `MaxFaults = 0`, for any sets of tests, contestants and
  instances. `OneRunPerContestant` is far from inductive, since the lock is deleted
  without asking whose it is. `Claims` says that it names the test that is being
  started, in progress or cleaned up, and that one goroutine at most starts a
  test; `Driven` says that every test in progress is in the hands of a goroutine
  or of the timer `StartTest` set, so that the TTL does not run out under it
  (`OnSchedule`: the TTL exceeds the duration by thirty seconds, and the handlers
  are assumed to need less); `JobsFit`, `TopicTells`, `MapsName` and
  `RequestsLeaveRows` say that nothing names a test that is not yet far enough, so
  that no `FailTest` reaches a pending row whose lock another test has. `CalmStep`
  says in one formula what a step may do to all of these; one lemma per action
  shows that it is such a step.
* `FleetProofs!ProducerTypeCorrect`, `EventsAreAccountedFor`:
  `NothingVanishes` for all capacities, with `TypeOK` as the strengthening.
* `FleetProofs!OrderAlwaysKept`: `OrderIsKept`. `InOrder` adds that no event
  on its way is later than the last `Emit`; lemmas about appending, taking the
  tail and joining rising sequences do the rest.
* `IngesterProofs!IngesterTypesHold`, `RateTypesHold`, `LagTypesHold`, `RowTypesHold`,
  `FleetProofs!FleetTypesHold`, `BreakerTypesHold`, `ApiProofs!BoardTypesHold`,
  `UploadTypesHold`, `ApiProofs!HubTypesHold`, `BuildWorkerProofs!TypesHold`: with the
  two above, the type invariant of every module that states one. They say more than
  types where the code relies on it: messages of the hub are numbered without a hole,
  a bot that rests owes no request of its round, an open channel is never over its size.
* `IngesterProofs!CountersAlwaysAddUp`: `CountersAddUp` for any events, crashes
  and snapshots.
* `IngesterProofs!SnapshotsErrByWhatMoves`: the action property
  `RateErrsByWhatMoves`, from the invariant above and one more, that the time-outs
  a snapshot has read are no more than there are now.
* `IngesterProofs!TimeoutsAlwaysExcluded`: `TimeoutsAreExcluded`, from
  `ExcludeInv`: while nothing has crashed the two counters are the sizes of sets
  of judged positions, to which a verdict adds one position at most.
* `IngesterProofs!DropsAlwaysCounted`: `DropsAreCounted`. Beside the account itself
  `RowInv` has the order (the table before the batch, the batch and the failed rows
  before the queue), without which a row could be counted twice, and that the loop
  holds less than a full batch unless a COPY is under way.
* `FleetProofs!NoRunnerRunsAway`, `OneRunnerTrades`. A runner is
  made before it trades and taken out of the map before it stops, so the
  strengthening `InReach` speaks of everyone not yet cancelled: each is in the map
  under its own test, or in the consumer's hands while it is stopping.
* `FleetProofs!BreakerTripsOnEvidence`: the action property `TripsOnEvidence`,
  from `CountsAreHistory`: the counters of a closed breaker are the outcomes
  recorded since it closed or the window began.
* `ApiProofs!AFreezeHolds`: `FreezeHolds` for any number of
  pods; a cycle that ends moves its pod from `busy` to `published`.
* `ApiProofs!JobsHaveTheirParts`, from `PartsInv` (a handler about to insert has
  stored its file, one about to produce has its row), and `TheLimitHolds`, from
  `LimitInv` (those admitted are no more than the counter and the limit).
* `ApiProofs!TheHookLimitHolds`: `HookLimitHolds` is not inductive, for who has
  listed will add later; `HookInv` counts those who are about to with those who have.
* `ApiProofs!HubNeverPanics`. `NeverPanics` is not inductive. The
  strengthening `OpenChannels` says that a client is queued for registration
  at most once, is never queued and in the map together, and that whoever is in
  the map or queued has an open channel.
* `ApiProofs!ClientsMissNothing`: `NoGaps`. `GapInv` says of each client in the map
  that what it is sent is consecutive and ends with the last message, and begins where
  what it has seen ends (`Follows`), and of one that is still queued that it has got
  nothing.
* `BuildWorkerProofs!ReadyStaysWatched`: `ReadyIsWatched` over any number of
  crashes and shutdowns. It is not inductive: a restart finds a container only if
  the row names the generation that runs, and a build may not create one while
  the row still says ready. `ClaimInv` adds both.
* `BuildWorkerProofs!OneAtATimeLosesNothing`: with `MaxConcurrentBuild = 1`,
  `NoJobIsLost` for any number of jobs and crashes, from the order `InOrder`
  in which results precede the build in hand and that precedes the job the
  reader holds.

Some properties add up or compare data, and the library adds with a recursion over
sets whose value the provers know nothing of. `DataLemmas` proves what is needed: that
the recursion has a solution (`SumsExist`), that a sum takes its elements in any order,
splits into parts, grows with its terms and may be renamed, and that a non-empty finite
set of integers has a greatest and a least element. Its inductions are over *sets*: the
predicate is the set of numbers, or of finite sets, it holds of (`Induct`,
`FiniteInduct`), which asks nothing of operators as parameters.

* `AlgorithmProofs!RanksAlwaysFollowScores`, `RankingTickerTellsTheBoard`,
  `RankingImprovementNeverHurts`: for any contestants and metrics. `RankingInv` says that
  everyone with numbers is in the table once (`Board`), with the composite score of these
  numbers and a rank above which are exactly the better scores, in the order of score,
  correctness and p99; and that `prevRank`,
  `told` and the table agree. The last is an action
  property: the two tables share the rows of all but one, whose change moves the extremes
  everyone is normalised by; `ImprovementMovesScores` shows that who was below it stays
  below, through what a riser gains and the others do not.
* `IngesterProofs!TPSAlwaysErrsByIdleSeconds`: `TPSInv` says that a bucket holds the
  orders of the last second of its place that had any (`HoldsLast`), and that the last
  second recorded had one. A covered second with orders is therefore in its bucket
  (`SamePlace`: of two seconds less than a turn apart only one has that place), and an idle
  one finds there zero or a count from whole turns ago.
* `IngesterProofs!ShownLatencyIsAlwaysReal`: `WindowInv` says that the slot of every turn
  not yet forgotten holds what was recorded in it, that each other slot is empty, and that
  what any slot counts was observed. The merged histogram is then the recent turns' sum,
  renamed; the least latency that enough values do not exceed has a value of its own, or
  the next lower would do (`LeastReached`).
* `IngesterProofs!LagIsAlwaysThatOfTheCheck`: the action property, from `LagInv`: the
  running total is the sum over the partitions done, each of which was measured with a
  committed offset between that at its end's reading and the present one.
* `ApiProofs!LimitsAlwaysHold`: `LimitsHold` of the composed `MCSpec`, each of whose steps is
  a step or a stutter of both components.

* `IngesterProofs!AlwaysWrittenAtMostOnce`: `WayInv` says that an event is written, in the
  group and pending no more often, all three together, than the partition has it before
  the committed offset. The counts
  survive the sort, which puts every event at a place of its own (`SortedPlaces`), and the
  fold of `ValidateBatch`, which leaves one verdict for each event in their order
  (`BatchKeepsEvents`; that the library's recursion has a solution is `BatchExists`).

* `AlgorithmProofs!BookAlwaysSound`. `MatchedTo` says, of the outer loop after n levels,
  that while the order has something left no level kept may be traded with, and that each
  id is kept or gone; `TakenTo` says the like of the inner loop and a level's orders. That
  the loop may stop at the first level that does not cross is `OrdersStop`, from the order
  of the levels, so the order of the levels (`GoodBook`) and the uncrossed sides need one
  another. The lookup is right (`KnownIds`) while ids are new, for which each id must rest
  once, on one side, at one place (`Once`). The folds' recursion is solved in `FoldExists`.
* `AlgorithmProofs!AloneTheBotIsAlwaysRight`, from `BotInv`: as long as the market maker is
  alone the two sets of levels are equal. It rests on the former: the cancel of a quote
  that was taken meanwhile searches the bot's levels, and finds nothing only because the
  engine's lookup holds all that rests.
* `AlgorithmProofs!LoopsArePriceTime`: `ShadowBook` implements `PriceTimePriority` under
  `resting <- Resting`, step by step. The abstract book says at once what each resting
  order gives, from the sum of those before it; the loops subtract one order after the
  other. Three things join them. `TimeInv`: within a level orders stand by their numbers,
  and no number is later than the last one given. `BeforeIsPlace`: so an order is before
  another, by price and time, just when its place in the levels is. And `Fed`: after some
  orders that are the first by price and time, what the loop has left of the incoming
  order is its quantity less their sum, or nothing. It is kept by one order more
  (`FedOneMore`), through a level (`LevelFed`) and through the side (`SideFed`); who is
  crossed but never reached gives nothing (`FedNoMore`). The price of the answer is the
  last level's that gave (`LastIsOfLevel`). The sums are the library's folds over sets,
  with their laws kept in a record of tables (`Ledger`). There must be some price
  (`Prices # {}`), for a market order, which has none, is in the abstract book's step an
  order of any price. When an id comes again a cancel may take one of two orders; from
  then on (`reused`) the steps are not compared, as in the property the run checks.

* `TelemetryProofs!CorrectEngineIsNeverFaultedEver`, `BooksAlwaysInSync`: where orders are
  numbered one at a time, the hold covers the delay and a test starts after the last is
  judged (`Serial`, `Timely`, not `Lagging`), for any bots, numbers of orders, tests and
  stops, and sizes of the buffers. The two properties say nothing of what is on its way,
  so neither is inductive. `Calm` adds it: the orders numbered and not yet judged
  are a *log without gaps* (`Log`), from the number the reference book has reached to the
  last one given; each is in one place, with its bot or between the producer's channel and
  the reorder buffer (`Carried`); and replaying the log on the reference book gives
  every answer in it and ends in the engine's book (`Follows`). A send, an answer or
  an abort touches the end of the log, transport moves places only (`WayMoves`), and a
  flush judges a stretch from its beginning: a number before one that is released
  cannot be missing, for it was given before and the hold covers the delay, so the sort
  puts every report at its number's place (`SortedAt`) and the fold over the batch is
  the replay (`BatchJudged`). `Inv` has `Calm` under `Undisturbed`, which once false stays
  so (`CountersStay`). The books' and batches' lemmas are those of the two modules above,
  taken by instance: `Answers` (a replayed order leaves a sound book, and an answer of
  the six kinds), `BatchGoesRound`, and `OwnAnswerIsCorrect`, by which `compare`
  accepts an answer that is the reference's own.

These hypotheses are needed: each unkind value, and each disturbance, has a
counterexample in the table below or in `telemetry_race`. TLC checked `Inv` on the instance
of `telemetry_kind` before it was proved.

Only model-checked: everything temporal under fairness (`StoppingEnds`, `RunEnds`,
`EndsOrIsRefused`, `CompletedIsStamped`, `AcceptedIsSent`, `StopsReturn`,
`BreakerComesBack`, `EverythingIsJudged`, `EveryJobEnds`, `DeadIsNoticed`, `OrphansGo`,
`TheLastIsSeen`, `BoardCatchesUp`), which the prover does not reach. Every invariant and
every action property of a passing run is proved, and so are both refinements.

## What the code does otherwise

Three disagreements between code and documents are runs (see above). The others
were seen in the models; each can be reproduced by the change named.

| what | where | to see it |
|---|---|---|
| A crash after the read of START_TEST loses it and no scan looks for pending tests | `orchestrator/consumer.go:37`, `db.go:78` | `EndsOrIsRefused` without `Undisturbed`, in `orch_recovery` |
| Of two accepted tests of a contestant the second START_TEST meets the held lock, is dropped, and the test is pending for ever, without a crash; so is one asked for between `completed` and the `DEL` of the lock | `orchestrator/consumer.go:113`, `state_machine.go:172`, `submission-api/handlers/test.go:87` | `EndsOrIsRefused` without `Refused`, in `orch_recovery` |
| A crash between `completed` and `MarkEnded` leaves no end time | `orchestrator/state_machine.go:172` | `CompletedIsStamped` without `Undisturbed` |
| One failed update in the StopTest of a timer leaves a run that never ends, for the heartbeat goes on | `orchestrator/state_machine.go:138` | `RunEnds` without `Faultless`, `MaxFaults = 1` |
| A healthy test is an orphan until its first heartbeat | `orchestrator/db.go:78` | an invariant that forbids `Recovering(i, t)` while the owner is alive |
| A handler that loses the compare-and-set never calls `finish`: the test stays in `sm.active` | `orchestrator/state_machine.go:172` | an invariant that relates `active` to `InProgress` |
| `Close` of the producer abandons queued events | `bot-fleet/telemetry/producer.go:93` | `AcceptedIsSent` without `done` |
| The published rate may exceed 1, its counters being read one by one (`RateErrsByWhatMoves` bounds it) | `telemetry-ingester/metrics/aggregator.go:84` | `published.correct <= published.valid` as an invariant |
| An event that misses its batch makes a right engine wrong | `telemetry-ingester/reorder_buffer.go:53` | `Timely = FALSE` |
| An event dropped by a full channel is never replayed, and a right engine is wrong from then on | `bot-fleet/telemetry/producer.go:50` | `CorrectEngineIsNeverFaulted` without `dropped` |
| Two tests in one batch reset the book at each alternation | `telemetry-ingester/shadowbook/correctness_validator.go:40` | `Lagging = TRUE` |
| A failed reset leaves engine and reference book apart | `bot-fleet/test_runner.go:68` | `BooksInSync` without its `resetFailures` condition |
| Requests aborted at the stop are emitted with an empty status and no `timed_out`: they count as incorrect | `bot-fleet/test_runner.go:134` | `judged[i].correct` for every answered or aborted order |
| `unregister` overtakes `register`: a gone client stays in the map until its queue is full | `leaderboard-api/hub/websocket_hub.go:65` | an invariant that forbids clients whose pumps have ended |
| Two `POST /v1/tests` of one contestant are both accepted: the check for an active test and the INSERT are two statements | `submission-api/handlers/test.go:87` | an invariant that forbids two tests of a contestant that are pending or in progress, in `orch_mutex` |
| Telemetry offsets are committed on read, against `README.md:398`: a crash loses what is buffered | `telemetry-ingester/consumer.go:39` | `offset = Len(judged) + Len(group) + Len(pending)` as an invariant of `ingester_counts` |
| When the commit of a fetched event fails, `ReadMessage` returns an error, the loop logs it and goes on behind the event: it is lost without a crash | `telemetry-ingester/consumer.go:41` | `EverythingIsJudged` without `missed` |
| The queue to TimescaleDB refuses a sample when full, and nobody reads the refusal | `telemetry-ingester/pipeline.go:59` | `DropsAreCounted` without `refused` |
| Equal scores share a rank, against `README.md:342`, by which correctness and then p99 break ties: they only order the table | `leaderboard-api/scorer/scorer.go:158`, `submission-api/handlers/leaderboard.go:94` | `Before(a, b) => a.rank < b.rank` for the rows of `table` |
| Nobody counts a contestant's valid orders, of which fewer than 100 disqualify by `README.md:342-343`: only the admin disqualifies | `leaderboard-api/admin/handlers.go:83` | by reading |
| A market order rightly rejected by an engine whose book is empty is reported as incorrect: the taker has no book and expects liquidity | `bot-fleet/bots/aggressive_taker.go:37` | by reading |
| The admin is told that the board is frozen when the call to Redis failed | `leaderboard-api/admin/handlers.go:38` | the second disjunct of `Freeze` |
| SIGTERM cancels a build, whose result is not written and whose offset is committed: the row stays building | `build-worker/consumer.go:62` | `NoJobIsLost` without `shutdowns` |
| A crash between ready and the commit redelivers the job: its launch meets the name of its own container and a row that was ready fails, with the container tracked and running | `build-worker/worker.go:84` | an invariant that forbids a tracked running container under a failed row |
| The cleanup job removes a container that is being probed, or became ready after the query | `build-worker/cleanup_job.go:65` | an action property that forbids `SweepRemove` of a job with `pc[j] = "probe"` |
| A ready row whose container died while the worker was down stays ready | `build-worker/container_manager.go:71` | `DeadIsNoticed` without `crashes` |
| The final score is normalised over the contestant alone, against `README.md:341`: it is always 40 and 20 times the rate | `orchestrator/state_machine.go:168` | `computeCompositeScore(r, {r})` in `Ranking` |
| A disqualification lasts until the ingester's next snapshot, which adds the contestant to the active set again | `leaderboard-api/admin/handlers.go:93` | an invariant that keeps a disqualified contestant out of `active` |
| `ClearMetrics` empties the hash, but the ingester's counters go on and its next snapshot brings the old test back | `orchestrator/metrics_writer.go:55` | an invariant on `PublishSnapshot` after `ClearMetrics` |
| Only the scorer asks for the freeze: the table of submission-api is computed from live metrics while the board is frozen | `leaderboard-api/admin/handlers.go:36` | `FreezeHolds` over the cache as well |
| Every pod publishes its own ticker events: N pods repeat each N times | `leaderboard-api/scorer/scorer.go:100` | by reading |
| A runner ended by its own timer stays in the registry: `ActiveTests` counts it as running | `bot-fleet/test_runner.go:104` | an invariant that forbids a cancelled runner in the map |
| After idle seconds the current rate adds counts a minute old (`TPSErrsByIdleSeconds` bounds it) | `telemetry-ingester/metrics/tps_counter.go:47` | the property without its idle seconds |
| The current bucket is "excluded", and merged | `telemetry-ingester/latency/sliding_window.go:39` | by reading |
| `Close` of the row writer "flushes", and leaves what is queued behind | `telemetry-ingester/storage/timescale_writer.go:110` | an invariant that forbids `writing = "ended"` with a queue |
| The reported lag counts a whole partition if the committed offset cannot be read, and 1 if it is empty and nothing was ever committed, since the broker answers -1 | `telemetry-ingester/kafka/lag_monitor.go:80` | `LagIsThatOfTheCheck` without `exact` |
| A failed publication of a build job is left to a "build-worker fallback" that does not exist: the submission stays pending | `submission-api/handlers/submission.go:115` | an invariant that asks for a job of every answered upload |
| `EXPIRE` follows `INCR` once only: if it is lost the counter never ends and the contestant is locked out | `submission-api/middleware/auth.go:51` | `counter > Limit ~> counter = 0` under fairness |
| Uploads that are refused later use up the limit all the same | `submission-api/middleware/auth.go:48` | by reading |
| The "sliding-window" limit is a fixed minute: twice the limit passes around its end | `leaderboard-api/middleware/middleware.go:27` | by reading |
| `ContainerCrashedEvent` is declared and never published | `build-worker/events.go:20` | by reading |

## Not modelled

Several build workers at once; upload validation, builders, scanners and the
archive guard (stateless checks, or steps that `BuildWorker` knows as ones that may
fail); delivery of webhooks, where `Manager.Fire` only starts goroutines that retry
three times and share nothing; anomaly detection and prediction (statistics over
floats); the read-only HTTP paths; the chaos server; frontend and infrastructure.
`PROJECT.json` gives the reason for each. Crashes with two instances are covered for
safety by the proofs and not by TLC: the combined instance does not finish in
minutes.

## Plan

1. Several build workers, with a cleanup job that removes another's containers.
2. The capped list of ticker events, the rate limit of leaderboard-api, `CONTAINER_READY`.
