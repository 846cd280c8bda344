# Formal models of redis_frtb_demo

TLA+ specifications of the control of redis_frtb_demo, a demonstrator that loads market-risk
sensitivities into Redis and computes the FRTB standardised approach on them.  The system is a
handful of Node services around one notion: the *active Redis target*.  An operator picks a
connection profile; every service then has to leave the old Redis and work on the new one, while
rows are loaded, queries run and services crash.  That hand-off, and the bookkeeping of rows on
their way into Redis, is where the code is hardest to get right and hardest to test.  It is what
the modules model.  The arithmetic of the charge is not: it is pure floating-point code that the
repository checks against golden values.

Paths below are relative to `src/services/` of the repository unless they start with `src/`.

## 1. The system

| Component | State it keeps | Operations | Talks to |
|---|---|---|---|
| active-target coordinator (`api/src/active-target.ts`) | the singleton target, its version, the record of the current switch with a phase per service | `setActiveTarget` (prepare, drain, commit), `setActiveTargetLabel`, push answers, acknowledgements | pushes prepare and commit to the services over HTTP; wakes listeners inside the api |
| connection profiles (`api/src/store.ts`, `routes/connections.ts`) | profiles and active id on disk | create, update, delete, activate | calls the coordinator, asks the in-flight registry |
| in-flight registry and loadgen proxy (`api/src/inflight-registry.ts`, `routes/loadgen-proxy.ts`) | entries that block a switch; a shared status poller | register, release, proxied start, stop and status | loadgen |
| loadgen (`loadgen/src/runner.ts`, `server.ts`) | the current run, its abort controller and duration timer | start, stop, status | api, Redis |
| target watchers (`source/`, `loadgen/`, `ingest/`, `bulk-loader/` `active-target-watcher.ts`) | the client in use and the version it was taken at | poll `/internal/redis/active-target/full`, swap | api, Redis |
| ingest consumer lifecycle (`ingest/src/cli.ts`, `shard-runtime.ts`, `admin-active-target.ts`) | the running consumer, the rebuild mutex, the pending switch | prepare, commit, swap, reshard, halt-and-flush | api, Redis |
| ingest stream consumer (`ingest/src/consumer.ts`) | delivery state of the group, rows, rollups, replay markers (all in Redis) | read, three-phase write, acknowledge, recover pending entries | Redis |
| bulk-loader (`bulk-loader/src/`) | pools, dispatcher with per-worker buffers, the bound target, admission flag | `/load/rows`, `/load/start`, `/load/stop`, flush, retry, dead-letter, swap | api, Redis |
| bootstrap status (`api/src/bootstrap-status.ts`) | phase, label, generation, debounce timer; the `/readyz` flag | schedule, run, settle, expire, self-heal; flush-db and rebuild-indexes write it too | index bootstrap |
| api backpressure (`api/src/backpressure.ts`) | two counters with limits | admit, refuse, release | every request |
| runtime Redis pools (`api/src/active-target.ts`, second half) | members per slot, circuit breaker, half-open probes | acquire, recycle, fail fast, detach on switch | Redis |
| index bootstrap (`api/src/bootstrap.ts`, `shared/rqe`) | the schema record, indexes, library and suggesters of a target (in Redis) | adopt, drop, create, verify, force | every node of Redis |
| calculations (`api/src/routes/calc.ts`, `sbm/`, `calc/`) | response cache, cache of K_b, registry and ring of runs | charge, total, details; clear on switch and flush | Redis, kernels in Lua |
| generator (`generator/src/`) | slots of the HTTP producer, stream windows, resume watermark | produce, post, pause, resume | bulk-loader, Redis |
| generator runs (`api/src/routes/generator.ts`) | registry of runs with their abort controllers | start, cancel, cancel all, stop | generator, ingest |
| bulk ingest runs (`api/src/routes/ingest.ts`, `ingest-snapshot.ts`, `bulk-loader-topology.ts`) | run records, archive, flush baselines | start, cancel, poll | loader replicas, generator |
| source (`source/src/`) and its proxy (`api/src/routes/sources-proxy.ts`) | a record per upload, the held operation | upload, infer, patch, ingest, delete | Redis, api |
| UI contexts (`ui/src/context/`) | the run followed in a tab, session storage | start, adopt, poll, dismiss, recover | api |
| queries, layer-4 jobs, observability, credential store, shared libraries, other panels, tools | little or none that others rely on | reads, periodic jobs, pure functions | |

`PROJECT.json` lists all of them with their files, and what is modelled of each.

How they interact.  The coordinator is the only writer of the target.  A service learns of a
switch in two ways that race: the api pushes prepare and commit to it, and it polls the api on an
interval that does not wait for the previous poll.  Inside the api the switch is a fire-and-forget
coroutine: the route that activates a profile writes the store and returns, so store and target
differ for as long as the switch drains.  The version number is the only thing a poller compares.

What is hard, by component, and what makes it correct:

- *Coordinator*: calls overlap, answers are late, timers race answers.  Every commit has a version
  of its own; a status claims only what the service said for this switch; every switch commits.
- *Profiles*: the store runs ahead of the target; `/full` combines the two.  At rest they agree;
  nothing changes the Redis in force while an operation blocks it.
- *Lockout*: the api only knows of a load run by replies, which arrive in any order.  A run that
  goes on keeps its lock, a run that ended loses it.
- *Watchers*: answers and pings overtake each other, the api restarts.  A follower ends on the
  target in force and never keeps a client with another profile's password.
- *Ingest lifecycle*: four operations drain and respawn the same consumer, anything may hang.  One
  at a time, never two consumers of the group, the mutex comes back, ingest converges.
- *Consumer*: several runners on the same rows, crashes between the phases of one entry, commands
  refused inside a transaction that goes through.  The rollup is the rows stored, nothing
  acknowledged is unstored but what was refused, every entry settles.
- *Bulk-loader*: rows go round between buffers and pipelines while the pool below is replaced.  A
  row answered 202 is stored or given up where it was promised; the counter is what is held.
- *Bootstrap*: a switch overtakes a bootstrap at any point.  "running" ends, "ready" means the
  index of the active target exists, `/readyz` agrees.
- *Backpressure*: two hooks may both give a slot back.  Counters are the slots held.
- *Pools*: a switch passes while a request waits for a client; probes, recycling and commands of
  the old target settle later.  A request gets a client of the target it asked for; the pool recovers.
- *Calculations*: the cache, the registry and the rollups are written by others while a charge is
  computed.  A charge is of the rows asked, is that of the kernels, and is stale only by overlap.
- *Producers*: batches fail, retry and are cancelled beside the loop.  A run that is done has its
  whole share in place; a pause ends.
- *Runs*: records are changed by a loop, a cancel and a poll.  What is over is over and silent.
- *Index bootstrap*: a dozen calls, any of which may be the last.  A served index is whole.
- *Views*: answers are applied later than they were read.  A run that goes on is found again, and
  watched once.
- *Sources*: records are read and written back whole.  "ingested" means every row the reader made.

The hazards are listed one by one, at their lines, in `PROJECT.json`.

## 2. The modules

`ActiveTarget` is the abstract specification: a target that is only ever replaced together with a
new version, or relabelled under the old one.  Everything that depends on the target is specified
against it.

```
                    ActiveTarget  (abstract)
                    /     |      \
       implemented by   api of    api of
                  /       |        \
        TargetSwitch  TargetFollow  BulkLoader          Backpressure
             |                          :                    |   extended by
        Connections                 LoadResume          CalcRegistry   (refines it)

   one module each:  RuntimePool  IngestSwap  LoadgenLockout  Bootstrap  IndexBootstrap
                     IngestConsumer  HttpProducer  StreamProducer  GeneratorRuns  BulkRuns
                     CalcCache  CalcPath  SbmCharge  RiskClass  SourceUpload
                     BulkRunView  GeneratorView  CalcRunView
```

What each definition stands for, line by line, is the `map` of `PROJECT.json`.

### The target

**TargetSwitch** (`api/src/active-target.ts`, `routes/internal-target.ts`).  `pc[s]` is where the
coroutine of call `s` is: before its first await the call is one step (`SetActiveTargetFast`,
`SetActiveTargetSlow`), `DrainTimeout` is the timer of `waitForDrain`, `CommitSwitch` the
continuation up to the commit push.  Answers to pushes are `PushOk`, `PushFailed`, `PushAborted`
(the first abort is retried once), with the guards of `applyPushAck` and `markPushFailed`;
`recordSwitchAck` is the endpoint.  A call is named by its order instead of a random `switch_id`.
It implements `ActiveTarget` with `target <- override`.

**Connections** (`store.ts`, `routes/connections.ts`) extends TargetSwitch: creating, editing,
deleting and activating profiles; the in-flight registry is the flag `blocked`, free to change.
`LockoutHolds` compares what a step asks of the coordinator with what the store held before it.
Handlers are single steps because the store resolves at once and `setActiveTarget` is not awaited.

**RuntimePool** (`active-target.ts`, `acquireFromPool` to `runHalfOpenProbe`): `slot` is the pool,
`call` the requests that wait for a client, `pings` the probes.  A client has no name: whoever
holds one records whether it is still in its slot, draining, orphaned or closed, which is what the
code compares.  Time is whether a timer may have expired; the backoff is a level.  The PING of a
probe may be rejected although Redis is up: its client connects lazily and has no offline queue.

**TargetFollow** (source and loadgen watchers): each follower may have several polls in flight;
source pings the new client before it moves, loadgen does not.  The api is `ActiveTarget` with the
store that runs ahead, draining switches that commit in any order, and a restart that counts
versions from one again.

**LoadgenLockout** (`runner.ts`, `loadgen-proxy.ts`, `inflight-registry.ts`): the runner in the
service, requests and replies under way, and the handles of the proxy in the api.  `late` is
history: runs whose handle was released by an answer given before they started.

**IngestSwap** (`ingest/src/cli.ts`, `shard-runtime.ts`, `admin-active-target.ts`, watcher,
`multi-consumer.ts`): a *task* is one asynchronous call (a poll, a commit closure, an operator's
request); its record holds the await it is at.  No external event happens while a queued
continuation is ready (`Quiet`), as in the event loop.  `ResetShards` clears the mutex by force.

**Bootstrap** (`bootstrap-status.ts`, `server.ts`, `routes/admin.ts`): `generation` gates results,
`timer` is the debounce, `run[g]` the scheduled run of generation `g`, whose runner may succeed,
fail, hang, or settle after its timeout.

**IndexBootstrap** (`bootstrap.ts`, `shared/rqe`): the runner itself, call by call: `record` is the
schema key, `held`, `full`, `slims`, `lib` and `sug` what each node has, `run[b]` where a
bootstrap is.  Each call may fail and the api may die after it; adoption of an index found in
place goes on in the background; an admin's rebuild may run beside.

### The rows

**HttpProducer**, **StreamProducer** (`generator/src/http-producer.ts`, `producer.ts`,
`flow-control.ts`, `coordinator.ts`, `worker.ts`): the row loop is `pc`; batches in flight are
`posts` and `flying`; a slot, a retry, a cancel and a flow-control poll are actions.

**BulkLoader** (`bulk-loader/src`): a *runtime* is a pool with its dispatcher; `state.cur` points
at the one in use and old ones go on flushing.  Admission, flush outcomes, retries, dead letters,
`swapTarget`, the watcher, the divergence poll and the background build of the boot.  `lost` holds
the rows whose dead letter was refused, which the code only logs; `raced` is history: a swap was
begun before the runtime of the boot was wired.

**LoadResume** (`checkpoint.ts`, `server.ts`, `pool.ts`, `http-producer.ts`): the same loader seen
by its checkpoints.  `live` is the last row each worker has flushed, `round` the pending `flushOnce`
with the metrics it took at its start, `hash` the hashes kept in each Redis, `reading` and `boot`
what a new runtime reads back, `gen` the producers that ask for the watermark, skip rows by it and
post a batch again when its 202 is lost.  A Redis may be flushed, with its checkpoints or without.

**IngestConsumer** (`consumer.ts`): runners of one group on one stream.  `processBatchAtomic` is
three steps per entry, each of which may fail before or after Redis applied it; `processBatch` is
one pipeline.  Redis may refuse a single command of any of them, which the code ignores or logs
(`Exec1Refused`, `Exec2Refused`, the subsets of `Pipeline`).  Optimistic locking (`WATCH`), retries, giving up, the boot and periodic drains of
the pending list and the marker that makes replays skip phase 2 are modelled.  A pending list is a
set of ids, as Redis gives them in their order.

**SourceUpload** (`source/src`, `routes/sources-proxy.ts`, the upload row of the UI): one file from
the browser to the stream, its record read and written back whole, the operation the api holds.
The reader makes rows of the lines it can parse and drops the others (`unread`).

### Runs and calculations

**Backpressure** (`backpressure.ts`): admission in `preHandler`, release by `onResponse` and
`onRequestAbort`.  **CalcRegistry** extends it with the calculation routes: jobs, their progress,
the ring of recent runs, and the switch and flush that drop them.  It refines Backpressure.

**CalcCache** (`calc-cache.ts`, `routes/calc.ts`): lookups, the data version, stores and clears
around a calculation that takes several steps; `ServedAnswersQuestion` is checked alone.  `heard`
is history: the age of the data when the cache was last told of a flush or switch.

**CalcPath** (`runSbmFanoutPhase`): from a request with its filters to the rows the charge is of,
with every refusal and failure on the way; `missing` are rows whose rollup hash is not there, and
the Lua kernels find no rows at all under the keys of today.  **SbmCharge** (`aggregate-via-index.ts`, kernels,
rollup jobs, `kb-cache.ts`): the charge of one bucket computed four ways from the same rows.  **RiskClass** (`reduce.ts`,
`curvatureCommon.ts`): buckets answer one by one and the class is charged under a correlation regime.
Squares of charges and fractions with a common denominator keep both in integers.

**GeneratorRuns** (`routes/generator.ts`, `lib/run-generator.ts`): `loop` is where the detached loop
of a run is, `entry` its record, `admin` the cancel-all and stop requests with the runs they wait for.

**BulkRuns** (`routes/ingest.ts`, `ingest-run-history.ts`, `ingest-snapshot.ts`,
`bulk-loader-topology.ts`): `rec` are the records, `work` the producer of each thread with its POSTs
in flight, `landed` what the replicas hold.  A cancel raises the flag of a run; a producer that sees
it is `aborted` and closes.  `world` is chosen once: the runs, threads, replicas and rows of a
behaviour are data of the state, so that one run of TLC covers several and a theorem all of them.

**BulkRunView**, **GeneratorView**, **CalcRunView** (the contexts of the UI): one tab; every request
is answered with what the api held at one moment and applied at a later one; reloads start over.

## 3. The runs

Run one with `tlc -config <cfg> <module>`.  A run's module is an umbrella: `part` says which of
several small instances a behaviour runs, the variables of the others are "off".  The parts do not
interact; they share a run because they answer one question about one layer of the system.
`PROJECT.json` has the properties of each.  A module whose properties are also proved is extended by
the umbrella, so that the formula TLC checks is the very one of the theorem; the others are instances.

| Run | Parts and bounds | Shows |
|---|---|---|
| `target` (`MCTarget`) | 3 overlapping switches, 1 service, 1 acknowledgement per switch; a pool of one slot with two requests, threshold and backoff 2; a pool of two slots, one request, 1 switch | versions, status and records of switches, refinement of `ActiveTarget`, every switch commits; requests get the target they asked for, the pool recovers |
| `services` (`MCServices`) | 2 load runs, 1 stop, 2 probes; a follower of either kind, 2 polls, 3 activations, 1 restart; ingest in 11 environments | only late answers unlock, one version is one Redis, one consumer, convergence |
| `rows` (`MCRows`, extends IngestConsumer) | 5 rows in batches of 2, 2 slots; 6 rows on 2 streams, windows 1 and 2; 2 runners, 5 streams of 2 to 4 entries, up to 2 faults; the views of 2 bulk runs and of 3 calculations | rollup is rows stored, done is whole, nothing hangs |
| `runs` (`MCRuns`, extends Bootstrap, GeneratorView, SourceUpload) | 2 targets, up to 3 switches, a self-heal, both admin routes, a wipe; the card of 2 generator runs with a reload; 2 files of 2 rows, a restart | the bootstrap status is true and does not stay at running, one watcher, ingested is whole |
| `records` (`MCRecords`, extends GeneratorRuns, Connections, IndexBootstrap, BulkRuns) | 2 generator runs and an admin; 2 profiles with 3 switches and 2 edits; 2 nodes, 2 schemas, 2 boots, a failure, a rebuild; 5 worlds of bulk runs: 2 threads over 2 replicas or over 1 with a lost reply, 1 in the process over 2 replicas with a lost reply or with a third row, 2 runs over 1 | what is over is over, a flush leaves nothing, store and target agree, a served index is sound, shown figures never fall |
| `routes` (`MCRoutes`, extends CalcRegistry, CalcCache, CalcPath, LoadResume) | 2 requests with limits 1 and 1; 2 calculations of one regime with a switch and 2 flushes of each Redis, or of all regimes one at a time with 1; every request of at most 2 filters on 4 rows; a bucket of 2 ids, 2 shards, 2 tenors, 2 writes; 3 buckets of 4 results, 4 correlations; 2 loader runtimes over 2 targets with 2 producers, or with 1 that posts batches again | slots, progress, staleness, rows, value and bounds of a charge, the resume watermark |
| `bulk` (`MCBulkLoader`) | 2 workers, 2 bodies that share a row and hold a malformed one, limit 3, 1 switch; one refused dead letter when a body is alone, a race with the boot for the body of one row | nothing admitted is lost without its dead letter, the counter is right, the loader follows or refuses |
| `ingest_net`, `bootstrap_heal`, `consumer_replay`, `producer_slots`, `calc_cells` | one part each | **violated**, see section 5 |

Why the bounds are enough.  The mistakes these modules are about need *two* of something that
overlaps and a third that comes after: a superseded switch, its successor, and one that lets the
record of the successor be superseded in turn; two polls of which the older is answered last; two
runners on one row; two workers, one of which is busy while the other is full; a cancel and an end
of the same run.  A second service in TargetSwitch only multiplies states: the services touch
disjoint fields of the record, and `allTerminallyDrained` over one service or two is the same
conjunction (the proofs cover any set).  Limits are small so that they are reached: three rows in
flight, batches of two, one or two retries, one slot, one place in the ring of recent runs.  Three
faults or two restarts repeat what one does, since all recovery state is in the model.  The
*environments* of IngestSwap, Bootstrap and IngestConsumer are alternatives chosen in `Init`: the
full product of all disturbances is too large for TLC, the environments pair those that touch the
same state.  Symmetry is used where no liveness is checked (`records`, `routes`).

Deadlock is not checked: in an umbrella every part may stop, when its bounds are reached.  What may
not stop is said by the liveness properties.

**Fairness.** Only what the event loop and the timers guarantee.  Timers that are armed fire and
queued continuations run (weak fairness).  A peer that is asked again and again answers in the
end (strong fairness on a successful answer, in TargetFollow, LoadgenLockout, IngestSwap and the
views); wherever a promise must hold although a peer never answers, no answer is assumed (a poll of XLEN
that fails is not what ends a pause of StreamProducer, nor a PING that is rejected what closes a
circuit): every
switch commits on its timer alone, the mutex of ingest is given back on its timeout, a bootstrap
whose runner hangs expires, a probe has a timeout.  An api request never has to come.  In
IngestConsumer the strong fairness of `ReadNew` says that the periodic drain does not keep a runner
from its forward read: each turn of the loop in the code ends with one.  Ingest keeps taking entries off
the streams of StreamProducer.  In an umbrella one fairness conjunct may join actions of different
parts: a behaviour runs one part, so that it is fairness of each.

**Checked under conditions.** Some properties state their condition in the formula, because without
it the code does not have them; none is a condition of a theorem or a run alone.
`StoreAndTargetAgree` takes switches that commit in the order of
their calls; `SameVersionSameRedis` and `FollowersConverge` one life of the api; `OneConsumer`
no reset by force and, but for the mutex, no faults; `ShardsConverge` no operator and no fault;
`StatusIsTrue` no self-heal, no admin route, and no wipe since the activation; `NeverLeftRunning` no
admin route; `StoreAgrees` no phase 1 that lost its phase 2 and no command of a changed row refused,
and it leaves out acknowledged entries of which Redis refused a command; `NothingHangs` no entry that cannot be read, and of a calculation
only one that is less than twenty minutes old and in the list of recent runs; `IngestedIsWhole` the rows
the reader makes of the file; `FlushedUnlessForced` what its name says; `StaleOnlyByOverlap` flushes the
cache is told of; `ChargeOfRowsAsked` its three exceptions; `ResumeIsStored` a Redis that may be
flushed; `AcceptedIsKept`, `FailsLoud` and `FollowsOrRefuses` a swap that did not race the boot, and
`AcceptedIsKept` dead letters that Redis takes.  Section 5 says what happens otherwise.

## 4. The proofs

Eight modules with 46 theorems prove, for every value of the constants, what the runs check on small
instances.  Each part begins with the types, then has one lemma per part of the inductive invariant
and, in it, one step per action.  They assume only the named assumption of the module they are about
(bounds are naturals, sets are disjoint where the code draws fresh names, threads and rows are
finitely many); no theorem assumes more.

| Module | Theorems | About |
|---|---|---|
| `TargetProofs` | `TypeCorrect`, `VersionsApart`, `SupersededClosed`, `StatusBacked`, `Implementation` | overlapping switches |
| | `ProfilesSound`, `StoreAgreesAtRest`, `LockoutNeverBroken` | profiles over them |
| `ServicesProofs` | `TypeCorrect`, `TimersOfCurrentRun`, `PollerStaysAlive`, `UnlockedLateOnly` | load runs |
| | `FollowTypes`, `OneRedis` | services that poll for the target |
| | `SwapTypeCorrect`, `OneAtATime` | the swap of the ingest consumers |
| `IngestConsumerProofs` | `ConsumerTypes`, `StoreSound` | the consumer and its rollup |
| `BulkLoaderProofs` | `BulkTypes`, `LimitCounts`, `LoudFailure`, `AcceptedKept` | the loader |
| `LoadResumeProofs` | `ResumeTypes`, `ResumeStored` | checkpoints and the watermark |
| `RunsProofs` | `TypeCorrect`, `StatusTrue` | the bootstrap status |
| | `OneWatcherOnly`, `IngestedWhole` | the card of generator runs; uploads |
| `RecordsProofs` | `GeneratorTypes`, `TerminalStays`, `FlushSound` | generator runs |
| | `IndexTypes`, `ServedSound` | the index bootstrap |
| | `BulkTypes`, `EndedStaysOver`, `DrainedSound`, `ShownSound` | bulk runs |
| `CalcProofs` | `TypeCorrect`, `SlotsCounted`, `LimitsKept`; `CalcTypeCorrect`, `CalcKeepsAdmission`, `OwnProgress` | admission; the calculation routes |
| | `CacheTypes`, `StaleByOverlap`; `ChargedRowsAsked` | the response cache; the rows of a charge |

**TargetSwitch**, for every set of services, endpoints and labels and any number of switches.
`VersionsIdentifyCommits` is inductive given the types, because it bounds announced versions by the
version served: a commit announces one above the old version, hence above every announced one.
`QuietSteps` is the argument that nothing but the two commits ends a coroutine in "committed",
moves a version or changes the target to be installed.  `StatusBacked` needs
`PushesFollowCalls`: a push is under way only for a call that was made, and in the stage the
coroutine has reached.  `SupersededClosed` is an action property: of all steps only the drain timeout of that very
switch writes its record.  `Implementation` is the refinement of `ActiveTarget`; it needs
`PendingHasTarget`: a coroutine past its first await holds a target, so the commit after the drain
installs one and not `NoTarget`.

**Connections**, for any profiles, edits and switches.  `StoreAndTargetAgree` compares the store with
a target that lags behind it.  `ProfilesInv` bridges them by the last call of `setActiveTarget`:
`LastCallForActive` says it was made for what the store holds of the active profile (but for a
password that a form left empty), `LatestInForce` that the target in force is the one of the commit
with the highest version.  At rest, with commits in the order of the calls, these are the same call.

**Backpressure** and **CalcRegistry**.  `SlotsCounted` is an induction on the set of holders of a
bucket: `Admit` adds one element that was not in it, `release` removes one that was, so cardinality
and counter move together and the guard against a negative counter never bites.  The requests need
not be finitely many: that the holders are finite is part of the induction.  `CalcKeepsAdmission`
makes every step of the routes a step of Backpressure or a stutter, so its theorems hold of
CalcRegistry.  `OwnProgress` needs `OwnEntry`: the entry of a request belongs to the calculation its
handler still runs, on the target that is active.

**LoadgenLockout**.  `OnlyLateAnswersUnlock` is not inductive: a release is harmless only because of
when its answer was given.  `AnswersAfterTheEnd` says so: a run that an answer on its way counts as
started is over and will not start again.

**Bootstrap**.  `StatusIsTrue` is about attempts that overlap; what makes it true is the generation:
`NewestIsActive` (the newest attempt is for the active target), `BuiltMeansIndexed` (one that has
built left an index, or a wipe was seen).  `TypeCorrect` is more than types: the generation has a
bound, which counts the causes of an attempt (switches, self-heals, admin requests, the boot).

**BulkLoader**, for any number of workers, sizes, retries and switches.  `LimitCounts` needs the
conservation of entries by every helper of the dispatcher and the workers (`RefilledIs`,
`FlushedIs`, `Counted`, `Enqueued`): each says which entries it keeps, adds and takes away.
`LoudFailure` and `AcceptedKept` speak of behaviours in which no swap raced the boot; after such a
race both are false (section 5).  `Booting` is why the others are safe: until the runtime of the boot
is wired there is none, no error and no swap under way, or `raced` is set.  `AcceptedKept` is strengthened
by `Shut`: a pool that is cut off has stopped, a pool about to be cut off holds rows only in the
flush loops that are waited for, and the current runtime reaches the target the loader is bound to.

**LoadResume**, for any number of workers, producers, rows, targets, repeated posts, flushes and
restarts.  `ResumeStored` is not inductive: the answer is composed of records that were read from a
Redis earlier, of metrics of workers, and of what a round took before it writes.  `Inv` says of each
of them, as long as it may still be used, that its row was stored in the very Redis it belongs to
(`KeptTrue`, `ReadTrue`, `BootTrue`, `LiveTrue`, `RoundTrue`); `Grows` carries all of them over a step.

**TargetFollow**, for any followers, overlapping polls, profiles, activations and restarts.
`SameVersionSameRedis` is not inductive, as answers wait in polls and pings while switches pass.  `Known`
says of every answer held, in a poll or by a follower, that it `Fits`: it is older than the version in
force or of the Redis in force.  That holds in the first life of the api only; a restart counts anew.

**IngestSwap**, for any polls, switches, consumers and attempts and in any surroundings.
`OneAtATime` is two results.  The mutex holds whatever hangs, until an operator clears it by force: `OneRebuild` says that one call is in a
rebuild and that both flags say so; it needs `Staged`, where each kind of call may be.  One consumer
is not inductive.  `Clear` says what each waiting call knows of the consumers: one that spawns finds
none at work, the one a call waits for was told to stop and is the runtime's, if that has any.  A spawn
keeps this because a prepare that waits for a stopped consumer is continued before (`Quiet`): at that
moment no call waits for a consumer but the one that spawns.

**IngestConsumer**, for any runners, rows, values, retries, streams and faults.  `StoreAgrees` is an
equation between sums that only holds up to the phases under way: `Balance` is rollup plus what the
runners at phase 2 still owe (`Owed`) equals the sum of the rows stored.  Phase 1 changes a row and a
debt by the same difference, because `Fresh` says that a runner whose `WATCH` has not been broken
knows the value stored; phase 2 moves the debt to the rollup, and `Written` says it is a debt of a
row that is there.  A refused command breaks the balance only when the row changed, and `torn` says
so; an entry that goes on although one of its commands was refused is in `refused`, which `AckedIsStored`
excepts.  `PelsApart` (no entry is pending with two runners) is what keeps two runners from
acknowledging for each other.

**GeneratorRuns**, for any runs, rows and requests.  `Fits` says of loop, record and eviction timers
of a run which go together; `Raises` what a request knows of each run whose flag it raised: it is
over once the request goes to the flush, or was forced.  `FlushedUnlessForced` and `TerminalIsFinal`
follow, as a step of another run or request leaves `Fits` alone and only moves `Raises` forward.

**IndexBootstrap**, for any nodes, schemas and failures.  `ServedIndexIsSound` is about a bootstrap
that ran alone.  `OnTrack` says what it has established at each of its calls: nodes already visited
have the new index, the index to be adopted has every field, the record still is what was read.
`AloneIsAlone` is why this survives the steps of others: there are none, a deployment
leaves no bootstrap under way, and a wipe takes the mark of being alone away.

**BulkRuns**, for any worlds: runs, threads, replicas, rows and lost replies.  `EndedIsOver` relates
producers, records, archives and replicas.  `RecordFits` gives the stages of a record (not started,
going, over, archiving, archived), `WorkFits` what each says of the producers: one that ended or was
aborted has no POST left (`Silent`), and a run that is over has no producer at work.  `ArchivedOnce`
needs that the record waiting for its archive is not in it.  `SentLands` (what a producer counts is
with a loader) carries over to what was counted when the run ended, and a drained probe that reached
every replica saw all of that flushed.  `ShownNeverFalls` is the bound `StableIs`: a poll gives at
least the high water, and what was shown last is the high water.

**GeneratorView** and **SourceUpload**.  `OneWatcher` is inductive as it stands.  `IngestedIsWhole` needs that a run adds
the rows before its position that the reader makes, so that one that is done has all of them, and
`PatchSound`: a change that has read the record and not yet written it may bring back "ingested" only
if it was true when read, and what is ingested stays so, since a run that is done stays done.

**CalcCache** and **CalcPath**.  `StaleOnlyByOverlap` needs `Reads`: a calculation that nothing the cache
was told of overtook has read the target it began on, in data no older than the last such telling.
`CachedIsFresh` says the same of the cache; the clear at the end of a flush, not its beginning, moves
`heard` and empties the cache in one step.
`ChargeOfRowsAsked` needs `PathInv`: the discovered buckets are those asked for, and at the rollups and
the query the resolved lists of desks say of every row's desk what the regions of the request say.

Sums and lists are handled without the library's induction theorems, which take an operator as a
parameter that the provers cannot instantiate: three modules prove the least-element principle from the
well-foundedness of `<` (`Least`, `LeastNumber`), and `IngestConsumerProofs` from it that a sum over a
finite set, a fold, is any of its terms and the sum of the others (`SumTerm`).

Only model-checked:

- every liveness property (`EverySwitchCommits`, `PoolRecovers`, `LockReleased`,
  `FollowersConverge`, `ShardsConverge`, `NothingHangs`, `NeverLeftRunning`, `RowsSettle`,
  `FollowsOrRefuses`): liveness under fairness and `ENABLED` are out of the prover's reach;
- `ChargeIsKernel` and `ChargeIsBounded`: SbmCharge and RiskClass compute by folds over sets of cells, of
  which every intermediate sum would have to be named; what a fold computes for every input is an
  induction over data;
- `HandedTargetAsked` (RuntimePool) and `DoneIsWhole` (HttpProducer, StreamProducer), and what the views of
  bulk runs and calculations (BulkRunView, CalcRunView) promise: their modules are instances of the
  umbrellas and have no proofs yet.

## 5. Where code and documentation part

Five runs reproduce a disagreement between the code and what it says of itself; the `findings` of
`PROJECT.json` quote both sides.

1. `ingest_net`: the ingest watcher records the new version before the rebuild; a rebuild refused
   as busy is never repeated, so two quick switches leave ingest on the first target although the
   polling is called the safety net.
2. `bootstrap_heal`: a self-heal that awaits its `DEL` while the target changes then schedules the
   old target over the new one.
3. `consumer_replay`: an entry whose phase 2 is lost is replayed against the value it has written
   itself; the delta is zero, the rollup never receives the row.
4. `producer_slots`: a slot handed over is counted twice; in the end `add()` waits with no POST in
   flight.
5. `calc_cells`: a charge narrowed to some cells is stored under the key of the whole class.

The models also made the following visible.  Each is behaviour of the code that a property excludes
by its condition, or that no property claims.

The target.

- Switches commit when their own wait ends, not in the order of the calls: the older of two may
  end up in force while the store names the newer, until the next activation.  A rename while a
  switch drains is overwritten by the label the switch was called with.
- The acknowledgement endpoint assigns any phase, so a late "drained" may overwrite "committed".
- The in-flight registry is asked before the drain: an operation that registers while a switch
  drains does not stop the commit.  An entry may be released by a status answer older than its run.
  Entries older than the stale limit stop blocking by design.
- An edit that sends an empty password string wipes the stored password; the comment at
  `api/src/routes/connections.ts:200` says that it is treated as "keep existing".  Deleting the
  active profile leaves its target in force until the next boot.  The store is changed in memory
  before it is written: a failing write answers 500 and the change stays.
- The probe of an open circuit sends its PING to a client that connects lazily and has no offline queue
  (`active-target.ts:1763-1791`): unless the client is still connected the PING is rejected at once,
  Redis up or not, and the backoff doubles.  The comment at 1751-1762 expects the PONG to close the
  circuit.  A slot that is open beside closed ones may so stay open for ever; when all are open a request
  promotes one, and its success closes it, which is what `PoolRecovers` rests on.
- A command in flight on a detached client may open the circuit of the new target, which the
  comment at `active-target.ts:1050` means to exclude.
- The version counter starts again with the api: a follower may hold the same number for another
  Redis and then does not move.  Of two overlapping swaps in source, the slower may disconnect the
  client of the faster one.
- `POST /ingest/shards/reset` drops the mutex and the consumer of a rebuild that hangs without awaiting
  either: the consumer goes on reading beside the one of the next rebuild, and a rebuild under way
  goes on beside that.
- A reshard between prepare and commit undoes the pause of ingest.  A commit whose own poll fails
  is answered as committed while the consumer is on the old target.
- flush-db and rebuild-indexes write the bootstrap phase without the `/readyz` flag and without a
  timeout; the late result of flush-db overwrites a newer phase.  The self-heal does not look
  whether a bootstrap is running.
- Adoption of a legacy index does not look at every node; a forced rebuild that races a scheduled
  adoption leaves a record that names a dropped index; a record that could not be written after the
  drop serves the dropped index until the next boot; FLUSHDB on a cluster reaches one node.

The rows.

- An error of one command inside a pipeline is ignored (`consumer.ts:822`) and one inside a transaction is
  only logged (1252-1261, 1326-1333): the entry is acknowledged all the same, and a row that was refused
  its HSET is nowhere, one that was refused its increment is stored without its rollup.
- An entry that cannot be read, or was trimmed while pending, blocks the pending entries behind it.
  The replay of an older entry writes its value over a newer one of the same row.  An entry that
  moves a row to another bucket leaves the old bucket as it was.  The default consumer name holds
  the process id: after a restart, the pending list of the old name has no reader.
- bulk-loader: the background build of the boot (`index.ts:383-402`) does not take the swap mutex and
  replaces the pointers of a runtime that a swap has installed meanwhile: the loader then names the new
  target as bound and writes to the old one (`raced`; without that disjunct TLC violates
  `AcceptedIsKept`).  When the XADD of a dead letter fails it is logged, the row is settled and is
  nowhere (`worker.ts:420-428`).  A swap that failed is not tried again, because the watcher
  records the version first, although comments in `swap-target.ts` expect the next tick to retry.
  A swap that succeeds reopens admission over an operator's `/load/stop`, and `/load/start` opens it
  during a swap: rows then reach a stopped dispatcher, are answered 500 and leave their count in
  `inFlight`.  A body larger than the limit is answered 429 for ever.
- Checkpoints: a batch whose 202 is lost is posted again (`http-producer.ts:318-339`), so that
  `rows_flushed` counts rows more than once; FLUSHDB empties a Redis under the watermark the workers
  still answer, and producers then skip rows that are gone.  The first round of a restarted loader
  overwrites the kept record with zero rows and no
  row (`checkpoint.ts:79` calls a re-flush safe), so after a second restart the watermark is gone.
  The record of a worker that has flushed replaces the one read back even when it is lower, against
  the comment at `server.ts:291`.  The last flush before a shutdown may join a round that began
  earlier, and comes before the workers are drained, although `checkpoint.ts:135` speaks of the
  freshest state.
- The watermark is one number for all producers: rows of a second producer that were never stored
  are skipped when they are older than it (`http-producer.ts:434` calls them persisted), while rows
  generated again have younger ids and are never skipped.
- Stream producer: with a window of more than one it goes on writing while paused
  (`flow-control.ts:3`), and the gate never looks at a cancel.  In HTTP mode a cancelled worker
  reports an error.
- Sources: lines of a JSONL file that do not parse are dropped without a trace (`readers/jsonl.ts:33-35`),
  as are lines that an open quote of a CSV swallows, and the record says "ingested".  Creating one adds it to the index before it writes it, which races the repair of orphans in
  the list; two patches may lose one; a record stays "ingesting" after a restart, and its operation is
  released by the time limit alone; an inference during an ingest releases it early.

Runs and calculations.

- Requests whose clients are gone free their slot while their handler still works, so more handlers
  may run than the limit says.  A handler that throws leaves its calculation "running".
- FLUSHDB deletes the data version, so that the next one is 1 again; rebuild-indexes does not bump
  it although `calc-cache.ts:7` says so.  A FLUSHDB that is carried out and whose reply is lost ends the
  handler before the bump (`admin.ts:202-217`), and `/admin/cancel-all-runs` has every `sens:*` document
  unlinked without one (`generator.ts:1129-1136`): charges of those rows are served until they expire.
- The Lua kernels look for rows under keys that nothing writes any more: a charge by them is 0 with
  status 200 (`calc.ts:345-351`).  In a class with tenors the rollups skip a bucket without hashes, which
  the reply fills in with K_b = 0 (`aggregate-via-index.ts:1059-1089`, `calc.ts:919-925`).
- The rollup path drops a bucket whose partial reads fail; a failing FT.INFO counts as an empty
  index; a failing discovery of regions lets every region through; cells with a subset are narrowed
  only on the FT.AGGREGATE path; the K_b cache does not know the correlation; a job that scans may
  count a key twice and loses what ingest adds meanwhile.
- The charge of a class: with many losing buckets beside a winning one, or with correlations of a
  matrix that is not positive semidefinite, the clipped alternative is negative and curvature, or
  delta, is charged 0.  `correlations.ts:8` calls a charge without correlation conservative, which it is
  not for buckets of one sign.  Vega is reduced with the correlations of delta, where `sbm.py:223` looks
  for those of vega first.
- A synchronous generator run is not listed and cannot be cancelled; one that still probes is missed
  by a cancel-all; the error path writes what is left in its buffers; a forced run whose loop fails
  later has its "cancelled" overwritten.
- A bulk run of several workers that is cancelled ends as "error"; the cancel of one run halts the
  loaders for another, and may land after a following start; flush baselines are global, so that
  two runs count each other's rows; after a 4xx the other batches of an inline run go on: its `catch`
  does not abort the producer, so that they land after the record is frozen, or has left the list.
  `EndedIsOver` is silent about runs that ended in an error for that reason.
- The views: a bulk run the api has forgotten leaves its card at "running"; a stream that closes
  without a last frame does too; a calculation that has left the ten recent runs the recovery looks at,
  or the ring of twenty that a switch empties, stays at "running": after twenty minutes the recovery does
  not look any more, and the call that would fail a stale run is behind it; the recovery of an older calculation overwrites a newer one after
  a dismissal.

From reading only, in parts without a module: the capacity test looks for running tests before an
await, so that two may start and exclude each other step by step, and it cancels its run without halting the
loaders; the drift check compares a rollup with a sum taken later; reconciling a bucket deletes it
while ingest adds to it; stream trimming does not look at pending entries.

## 6. What is not modelled, and the plan

Not modelled because nothing in it interleaves or because it is arithmetic: floating point,
credential encryption, read-only routes, panels that show what they are given, offline tools and
scripts.  Left out of modelled parts: metrics, seen sets and suggesters of the consumer, the mapping
of streams to shards, the fields of a row.

Planned, most important first.

1. Proofs about the producers (`DoneIsWhole`: slots, windows and retries) and about RuntimePool.
2. The capacity test and the layer-4 jobs: a record of a test with its runs, drift and trimming
   beside a running consumer.
3. The pure functions of the shared libraries as operators, against reference definitions.
