# Verification of the PMA backend

PMA is a home-automation server in Go: an HTTP API in front of a set of services that talk to
devices through adapters, run automation rules, work off a persistent queue of actions and push
events to websocket clients. This directory holds TLA+ models of the parts of it in which several
goroutines share state, the TLC runs that check them, and proofs of their safety properties.
Paths below are relative to the root of the repository.

Contents: [the system](#the-system), [what is modelled](#what-is-modelled),
[the runs](#the-runs), [the proofs](#the-proofs), [known behaviours](#known-behaviours),
[not modelled](#not-modelled), [plan](#plan).

## The system

`cmd/server/main.go` opens the database and migrates it, starts the hub (`go wsHub.Run()`), builds
the services and the router (`internal/api/handlers/handlers.go`, `NewHandlers`), connects the
adapters and serves HTTP. On a signal it stops the periodic sync, then the automation engine, then
the HTTP server. There is one process; what survives it is the SQLite database.

| Component | State | Operations | Talks to |
|---|---|---|---|
| Action queue, `internal/core/queue`, `internal/database/sqlite/queue_repository.go` | rows of `queued_actions`, `action_dependencies`, `action_results`; each goroutine's copy of a row | enqueue (single, bulk, sequential), worker poll, execute, retry with backoff, manual processing, forced retry, update, cancel, delete, clear, cleanup, expiry | the database, action handlers, the hub (topic broadcasts) |
| Automation engine, `internal/core/automation` | rules, cron entries and the scheduler's tables, execution queue, execution contexts, status of rules, statistics | add, update, remove, enable, disable, test a rule; cron firings, events, workers, cleanup, stop | cron, the entity service (actions), the API |
| WebSocket hub, `internal/websocket` | set of clients, a buffered channel for each, two goroutines for each | register, unregister, broadcast, evict a slow client, heartbeat, read, write, pong | API handlers and services that broadcast, browsers |
| Unified entities, `internal/core/unified`, `internal/core/types/registries` | entities with indexes by type, source and room; the connection of the one registered adapter (Home Assistant); the periodic loop, its ticker and stop channel | register, update, unregister an entity; sync at start-up, periodically and on request; start and stop the loop; API writes; execute an action and refresh | Home Assistant, the API, `main` at shutdown |
| Event stream, `internal/api/handlers/events.go` | map of connections, a buffered channel for each, a status goroutine for each | connect, greet, report status, send and broadcast, serve, leave, shut down | browsers, everything that broadcasts |
| Error recovery, `pkg/errors/recovery.go` | circuit breakers (state and counters), retry policies, a ring of error reports | run with recovery, state changes, retries, reports | its callers; API middleware (reports only) |
| Energy, `internal/core/energymgr` | settings in memory and in the database, a ticker and the goroutines that serve it, the last snapshot | load, update settings, start and stop tracking, record on a tick | the database, unified entities, the API |
| The rest: authentication, adapters, AI, monitoring, storage services, devices, configuration | rows, caches, counters | one request at a time | the database, external services |

### What is hard in it

- **Stale copies.** A worker of the queue, a manual-processing request and an API call each read
  a row and act on it several SQL statements later. Only the status in the `WHERE` clause of
  `MarkActionAsProcessing` and SQL increments stand between that and double execution.
- **Crashes and failing calls.** The queue is persistent and its errors are logged, not handled:
  a row may stay `processing` for good, and must then never run twice.
- **Locks that are released between a check and its use.** The engine looks a rule up under its
  lock, and reads `Enabled` and `Status` of the object later without it. Disabling a rule and
  cancelling its executions are two steps.
- **Half-done operations.** Setting up the second trigger of a rule may fail after the first is in
  cron; `UpdateRule` restores the old object.
- **Ownership of channels.** A client's channel is written by the hub and by the client's own
  reader, closed by the hub, and emptied by a third goroutine; removals are asked for from several
  sides.
- **Waiting for one another.** `Stop` holds a lock and waits for workers that need it; the hub
  sends on a channel only it receives from.
- **Decisions that are overtaken.** A synchronisation looks an entity up, compares stamps, and
  writes in another critical section; the circuit breaker looks at its state three times under
  three locks and records a result in whatever state it has by then.
- **Stops that nobody hears.** The energy service sends its stop without waiting, the entity
  service sets its ticker to nil before its loop has the stop: a loop that is busy at that moment
  comes back to a ticker that is not there.
- **Settings in three places.** Those of the energy service are in memory, in a row and in a
  running ticker, and are changed in that order, with failures and crashes in between.
- **Limits.** Queues and buffers drop what does not fit; the retry count bounds executions.

What makes each component correct: an action of the queue is run by one goroutine at a time, not
again once it has succeeded or ended, within its budget and after its predecessors, and it ends; an
enabled rule fires and a disabled one does not, its executions can be cancelled, a single-mode rule
is never left blocked, shutdown ends; a client that stays connected gets every broadcast in order,
one that goes is forgotten, no send hits a closed channel; the same of the
event stream's connections, but for what found a channel full; the entity indexes say what the
entities say, and the registry comes to agree with Home Assistant; a breaker opens, probes and
closes only as configured, and never stays half-open and refusing; the energy service has one
goroutine, a ticker that is served, and settings that are in force, stored and survive a restart.
The code does not keep all of this; the properties say what it keeps, and
[known behaviours](#known-behaviours) what it does not. `PROJECT.json` lists
the hazards at their lines with the properties that cover them, and notes what of a hazard a property
excepts.

## What is modelled

| Module | What it is | Code |
|---|---|---|
| `TaskQueue` | the queue's tables and every goroutine that uses them | `queue/processor.go`, `queue/service.go`, `queue_repository.go`, `handlers/queue.go` |
| `ActionLifecycle` | abstract: what the queue promises of an action | implemented by `TaskQueue` (`KeepsLifecycle`) |
| `AutomationRules` | the rule operations and the scheduler's tables, each operation atomic | `automation/engine.go`, `automation/scheduler.go` |
| `AutomationEngine` | composes the rules (`Rules == INSTANCE AutomationRules`) with firings, events, the execution queue, workers, tests, contexts and shutdown | the same, `automation/context.go`, `automation/rule.go`, `automation/trigger.go` |
| `WebSocketHub` | the hub, the pumps of each client, broadcasters | `websocket/hub.go`, `websocket/client.go` |
| `EntityRegistry` | the map of entities with its three indexes, each operation atomic | `core/types/registries/entity_registry.go` |
| `EntitySync` | extends it (one registry, in the same state): synchronisations, the periodic loop, API writes, Home Assistant | `core/unified/entity_service.go`, `handlers/entities.go`, `handlers/handlers.go` |
| `EventStream` | connections, their channels, handlers and status goroutines, broadcasts | `handlers/events.go` |
| `CircuitBreaker` | a breaker with the retries inside a call | `pkg/errors/recovery.go` |
| `EnergyTracking` | settings, ticker and tracking goroutines, through crashes and restarts | `core/energymgr/service.go` |
| `MC...` | constants for TLC | |
| `TaskQueueProofs`, `AutomationRulesProofs`, `AutomationEngineProofs`, `WebSocketHubProofs`, `EntityRegistryProofs` (of `EntitySync` too), `EventStreamProofs`, `CircuitBreakerProofs`, `EnergyTrackingProofs` | theorems and their proofs | |

Definitions whose comment starts with `mutant:` are plausible bugs. Nothing uses them: each is
there to be put in the place of the definition it stands before, and then the property it is
paired with in `PROJECT.json` fails.

### TaskQueue

A step is one SQL statement with the local computation after it: SQLite runs statements one at a
time, and the repository uses no transaction around several. `rows` is `queued_actions` by ID,
`deps` the dependency rows, `results` the recorded attempts. A goroutine has a place (`pc`), the
row it read (`cur`), the rest of a list it read (`todo`) and the request it serves (`job`).
`Fetch` is the poll with `LIMIT 1`; `Check`, `MarkActionAsProcessing`, `Execute`, `Complete`,
`ScheduleRetry` and `RecordAttempt` are `processAction`, statement by statement, for workers and
manual requests alike. The polls order by weight and by `created_at`, which SQLite fills in whole seconds:
`created` is the second of the insertion, and of rows that tie a poll may return any. Deleting a row
may or may not take its dependency rows along: the pragma that makes it do so holds for one connection
of the pool. API operations that read and then write are two steps. `CallFails` is an
error from any statement, `Crash` ends every goroutine and leaves the tables. Priority, schedule
and deadline are numbers, a handler succeeds, fails or is missing, names and parameters are left
out. `runs`, `succeeded`, `edited` and `gate` are history: the number of handler executions, the
actions whose handler succeeded, those whose status an operator wrote back (`UpdateAction`,
`ForceRetry`: after them the code gives no guarantee, and the properties exempt these actions),
and the predecessors a dependency query found.

`ActionLifecycle` keeps two things apart: what the table says of an action (`state`: queued, busy,
ended, removed) and whether somebody runs it (`running`). There is one runner at a time, nothing
starts after a success (`won`), and an action that has ended is queued again only by `Retry` of the
one who was running it when it ended. The refinement reads `state` off the row alone (`State`), so
that a cancelled or expired action which `ScheduleRetry` sets back to `retrying` is seen to be
queued again.

### AutomationRules and AutomationEngine

A rule is an object of `heap` (operations replace objects, and goroutines keep pointers to old
ones); `rules` maps IDs to objects; `sched` is cron, the scheduler's table by trigger ID and the
next entry number. A trigger is its ID and whether cron accepts its expression. A set-up that fails
at a trigger leaves the entries made before it, as the code does. `Reposted` is the set of IDs that
are posted while they are in use: such an `AddRule` replaces the rule and cleans nothing up. `SharedTrigger` says that a
trigger ID is used twice, which is what the parser does to every two rules.

`EntriesOwned` says of every entry in cron: if the table knows it, it is of the object its rule has
now, and that is enabled; if not, it was pushed out by a shared trigger ID. It excepts two leftovers
the code makes: entries of an object with a trigger cron refuses, and those of a re-posted ID.

The engine adds one step per lock region or channel operation. `mu` is the engine's lock where
an operation holds it longer than a step: `EnableRule` (the rule is switched on before its
triggers are set up), `DisableRule` (off before its executions are cancelled) and `Stop`. A worker
goes `Take`, `Lookup` (under the lock), `CreateContext`, `Check` (`CanExecute`, without it), `Mark`
(status running), `Finish`. The conditions and actions of a rule are one execution that ends in any
way. The manager of contexts is the flag `inMap` of each context ever made; contexts are never
removed from `ctxs`, so that a removed one can still be looked at. `had` is history: the object the
rule had when the context was made. A worker whose own object is another is `Late`: `UpdateRule` or
`RemoveRule` has come between its look-up and its context, too early to cancel it. A firing's context ends with
its job (`JobReturn`). Time triggers are the only ones with a source of events in the repository.

`KeepsRegistry` says that the engine, step by step, does what `AutomationRules` does atomically,
with `EnableRule` taking effect when its lock is released.

### WebSocketHub

`Run` is one goroutine, so that each branch of its select, with the unbuffered channel operation
it receives, is one step: `Register`, `Leave` and `Evict` (both `unregisterClient`), `Broadcast`,
`SendHeartbeat`. After `SendHeartbeat` the hub is `stuck`: it waits on `h.broadcast`, from which
only it receives. A client is its buffer `send`, whether its connection is open (`conn`), where its
reader and writer are, and how many goroutines wait to evict it. The n-th broadcast is the number
n. A send on a closed channel, a close of one, and a close under a blocked sender set `crashed`,
after which nothing happens: Go ends the process. `served`, `from` and `got` are history.

Topics and subscriptions are left out because nothing depends on them: `topicClients` is never
filled, and what a client subscribes to is stored and not read.

### EntityRegistry and EntitySync

`EntityRegistry` has an action for each operation that takes the registry's write lock:
`RegisterEntity`, `UpdateEntity`, `UnregisterEntity`. An index is a list of IDs per key, as in the
code, so that an ID can be in it twice or stay behind; `removeFromSlice` takes out the first. `moved`
is history: the IDs an update gave another type or source, which the code does not move between
lists.

`EntitySync` puts goroutines around these operations. A synchronisation is `Begin`, `Answer`,
`Convert` (the answer is stamped with the time of its conversion), for each entity `Lookup` (under
the registry's lock: the entity and the decision) and `Act` (under the lock again), and `Finish`;
`FetchFails` ends it early. `Boot` is the goroutine of `NewHandlers`: it connects, synchronises and
starts `Loop`, or ends if it cannot connect. An API write is `EditLookup`, `EditStamp`,
`EditWrite`. Time stamps are compared, never read, so the model keeps their order only: `ahead[p]`
is the IDs whose registered copy is stamped after what `p` is about to write. Home Assistant is
`world`, which changes by itself (also by what `ExecuteAction` asks of it). `raced` and `overlapped`
are history: whose decision was overtaken by another write, and who was not alone.

### EventStream

The handler of a connection is `Connect`, `Greet`, the loop (`Deliver`, `WriteNothing` for a keepalive
or the empty message of a closed channel, `Return`), then `Forget` and `Close`: it leaves the map
under the lock and closes its channel afterwards. `Report` is the status goroutine, which holds no
lock. `BroadcastMessage` sends to every connection of the map that has room; `Shutdown` closes all
the channels and empties the map; `Disconnect` is the client's going, or the server's write timeout.
A send on a closed channel ends the process unless a handler does it, whose panic is recovered.
`from`, `got` and `skipped` are history.

### CircuitBreaker

`allowRequest`, `Upgrade` and `Recheck` are the three looks a caller takes at an open circuit, each
under a lock of its own. `Succeed`, `Retry`, `GiveUp` and `Panic` are the runs of the function in
`RetryExecutor`; `recordResult` comes after them, in whatever state the circuit is by then.
`Panic` (the function's, or the executor's own on an error without a context) leaves without a
result. Time is one fact: `expired`. `streak` and `probes` are history.

### EnergyTracking

An operation holds the mutex from its first to its last step, and `op` is the place it has reached:
between two places a tracking goroutine may move, the process may be killed. A goroutine reads the
ticker (`Evaluate`), waits (`Park`), takes a tick, stores a snapshot and remembers it under the
mutex. `Signal` is the stop, heard by one goroutine in its select or by none. `Boot` starts the
process again with what is stored. `stops`, `acked`, `row` and `memory` are history: whether a stop was
ever missed; what the last successful request left; what may have taken its place in the database
(the defaults, after a start that could not read it: `reset`; the settings of an update that was not
answered: `open`); and whether the service still follows its row (`clean`), has failed to start
(`unstarted`) or has been changed by a request that failed (`changed`).

## The runs

`tlc -workers 2 -config <run>.cfg <module>`; every run ends within five minutes. Between them
the runs execute every action.

| Run | Module | Checks |
|---|---|---|
| `queue_races` | `MCTaskQueue` | `ExclusiveExecution`, `SucceedsOnce`, `CompletedIsReal`, `RetryCountAccounts` |
| `queue_links` | `MCTaskQueue` | `SuccessGate`, `RetryBudget`, `KeepsLifecycle` |
| `queue_single` | `MCTaskQueue` | `AllFinish` |
| `rules_owned` | `MCAutomationRules` | `EnabledRuleArmed`, `EntriesOwned` |
| `engine_run` | `MCAutomationEngine` | `ExecutesCurrent`, `CancelReaches`, `RunningIsReal`, `LeftoversCancelled`, `KeepsRegistry` |
| `engine_live` | `MCAutomationEngine` | `RequestsServed`, `StopReturns` |
| `hub_run` | `MCWebSocketHub` | `CrashOnlyByPong`, `NoSilentGap`, `GoneReaped` |
| `registry_index` | `MCEntityRegistry` | `RoomIndexExact`, `KindIndexExact`, `NeverHidden` |
| `sync_run` | `EntitySync` | `SyncTypeOK`, `StaleOnlyIfRaced`, `AloneMirrors`, `Converges`, `StopEndsLoop` |
| `sse_run` | `EventStream` | `CrashOnlyByReporter`, `NothingLost`, `GoneForgotten` |
| `breaker_run` | `CircuitBreaker` | `NeverWedged`, `Transitions`, `NothingWhileOpen`, `ClosesAgain` |
| `energy_run` | `EnergyTracking` | `TickerServed`, `LoneLoop`, `Settled`, `CallsReturn`, `Records` |

All pass. Where the code does not keep what one would wish, the property says exactly what it does
keep, and [known behaviours](#known-behaviours) what is left.

What they show:

- `queue_races`: one action, with a handler or none, one worker and two request goroutines with every
  API operation, failing calls and crashes. Two goroutines never hold the action together, a success
  is final, a completed row is a success, and the retry count accounts for every run.
- `queue_links`: two actions, one with a deadline and one with a `success` dependency, with the
  sweep, cancellation, manual processing and crashes. Nothing runs before its predecessor has
  really succeeded, no action runs more often than `max_retries` and the number of goroutines that
  process allow, and the queue implements `ActionLifecycle`.
- `queue_single`: one worker and a client that only enqueues single actions and sequential pairs of
  one priority, inserted in the same second or not. Every action that waits for completions only
  comes to an end, unless the polls go on returning an action that waits for one behind it
  (`Clogged`).
- `rules_owned`: three rules in any sequence of the five operations, enabled or disabled: two with a
  trigger ID in common, one of which is posted again while in use, and one whose second trigger cron
  may refuse. Enabled rules are armed through all of it, what the scheduler's table knows belongs to
  an enabled rule, and what is left over is what these collisions and refusals leave.
- `engine_run`: one worker, one test goroutine, one firing, one rule in two forms (enabled with a
  good trigger; disabled, parallel, with one cron refuses), the cleanup, the timeout, all
  operations and `Stop`, interleaved. What executes and is not cancelled is what its rule is now, but
  for a worker that was late; that happens in the run.
- `engine_live`: one worker, two firings, all operations and `Stop`: accepted requests are worked
  off, and `Stop` returns unless it meets a worker that is about to look a rule up.
- `hub_run`: two clients and a caller, buffers of one message: channels are closed once, a client
  that stays gets everything in order, one that goes is forgotten with its goroutines.
- `registry_index`: two entities through all operations, with two types, sources and rooms. The room
  index is exact; those of types and sources are exact for entities whose type and source never
  changed, and no entity is missing from all the lists.
- `sync_run`: the first synchronisation, the loop, a requested one and an API write of one entity
  that may change or vanish at Home Assistant, with failing answers and `StopPeriodicSync`. An older
  copy replaces a newer one only if the newer was written between decision and act; a
  synchronisation that was alone leaves what it was told; with the loop running, the registry ends
  up equal to Home Assistant; the loop ends after a stop.
- `sse_run`: two connections, buffers of two, two broadcasts, `Shutdown`: a broadcast never hits a
  closed channel (the status goroutine may), nothing is lost but for want of room, handlers of
  clients that have gone return.
- `breaker_run`: three callers, two failures open the circuit, two successes close it, four faults.
  The three looks let nothing through an open circuit, late results never leave it half-open and
  refusing, and once nothing fails it closes for good.
- `energy_run`: at most two tracking goroutines, intervals 0, 15 and 30, every operation, failing
  calls, crashes and restarts. There is one goroutine as long as every stop was heard, every ticker
  is served, no request waits for ever, and the settings acknowledged last stay in the row, in memory
  and in the ticker, but for what `Settled` names.

**Bounds.** `MaxId`, `MaxTime`, `MaxRuns`, `MaxObjs`, `MaxEntries`, `MaxFirings`, `MaxTests`,
`MaxMsgs` and `MaxPings` stop unbounded counters, in guards. In `queue_races` one action is enough
because its properties speak of one action at a time, and two request goroutines and a worker give
every pair of roles twice; `MaxRuns` 2 and `MaxRetries` 1 allow a retry and its exhaustion.
In `queue_links` two goroutines may process, which makes three runs possible; `MaxRuns` 4 would
let a fourth happen.
Dependencies take two actions (`queue_links`), a sequential pair and one more three
(`queue_single`); there `MaxTime` 3 lets rows differ in their second or share it, and a retry's delay
pass. `queue_links` leaves `action_results` out of the state's identity (`AllButResults`, a `VIEW`):
no action of the run and none of its properties reads that table. `MaxObjs` 4 and `MaxEntries` 8 let
a rule be replaced while another shares its trigger ID, be refused half-way, and be posted again. In
`engine_run` a firing enqueues twice (handler and event) into a queue of one place, so that the
drop happens too. `MaxListed` lets a list hold an ID twice.
`sync_run` has one entity because synchronisations treat entities one by one, and five goroutines
that can meet on it. Two faults open the circuit of `breaker_run`, a third sends it back from
half-open, and a fourth is late. `energy_run` never has more goroutines than
two: an operation that would start a third is left out, and two are enough for one to be orphaned
while the other serves. A hub buffer of one is full after the welcome message, so that the first
broadcast may already evict; with two broadcasts the same client can be evicted twice. The proofs
below do not depend on these values.

**Fairness.** `TaskQueue!Fairness`: workers poll on a ticker and handlers return, request
goroutines that have started run on, time passes; nothing is assumed of crashes, failures or
clients. `AutomationEngine!FairSpec`: goroutines that can run do, an execution ends (the worker's
context times out), the cleanup ticks; nobody has to call the API and nothing has to fire. The
firing and event goroutines are under one weak fairness condition each, which is enough because
their number is bounded. `WebSocketHub!FairSpec`: the hub serves someone as long as somebody
waits, and the pumps run. Go's select is fair in probability; the model asks only that some branch
is taken, which suffices because there is a finite number of messages and removals. Nothing
forces a heartbeat, a client or a failure. `EntitySync!SyncFairness`: goroutines run, the ticker
ticks, a stop is not passed over for ever by the select, and Home Assistant does not refuse every
answer for ever (`Converges` says nothing of one that does). `EventStream!FairSpec`: handlers run,
and the select does not pass over a finished context for ever. `CircuitBreaker!FairSpec`: time
passes, callers go on calling, because a breaker changes only when it is used. `EnergyTracking!FairSpec`: the
holder of the mutex runs on, the ticker ticks, a Go mutex is handed to whoever has waited for it
long, and among many attempts to store a snapshot some succeed. Kills and failures of requests
are never forced and never excluded.

`CHECK_DEADLOCK FALSE` is set everywhere: with the bounds used up, or after shutdown or a crash of
the process, these systems stop.

Type invariants are proved for all constants rather than run (`SyncTypeOK` is both); so are
`StatsAgree` of `AutomationRules` and `EnabledFires` of the engine.

## The proofs

`tlapm <module>Proofs.tla`. All are for arbitrary constants, under the assumptions named in each
module: finite sets of connections, workers
and requests, disjoint kinds of goroutines, natural bounds, rule bodies that
are rules (`AutomationEngine`), at least one entity type and one state (`EntitySync`). TLC
evaluates each assumption on the runs. Each inductive invariant was checked with TLC on small
instances, like those of the runs, before it was proved.

Every safety property the runs check is a theorem here, as are the action properties
`Transitions`, `NothingWhileOpen` and `AloneMirrors` and the two refinements. Two carry a
hypothesis the code makes necessary: `KeepsLifecycle` (no operator writes a status back) and
`StatsAgree` (no ID posted twice).

**TaskQueueProofs**: `TypeCorrect`, `ExclusiveExecutionHolds`, `SucceedsOnceHolds`,
`CompletedIsRealHolds`, `RetryCountAccountsHolds`, `SuccessGateHolds`. The five safety properties
are not inductive: that two goroutines cannot both hold an action rests on the row of a held action
not being claimable (`HeldNotClaimable`); that retries account for runs needs every copy a goroutine
keeps to be behind the row (`SnapshotsBehind`), a claimable row to have been counted
(`ClaimableRunsCounted`) and a recorder to come after its increment (`RetryCounted`).
`SafeInv` is their conjunction. Most steps are quiet: they touch only one goroutine's locals or
write a status no claim can use; one lemma (`QuietSafe`) covers them, and `MarkSafe`,
`ExecuteSafe`, `ScheduleRetrySafe` and `InsertSafe` the four that are not.

`LifecycleKept` is the refinement: in every behaviour in which `edited` stays empty the queue
implements `ActionLifecycle`. One lemma per statement says which abstract step it is (`ClaimSeen` a
start, `ExecuteSeen` a success, `RetrySeen` a retry and `CompleteSeen` an end, or each of them a loss
when the row has gone in the meantime, `CrashSeen` the loss of everything held), and
`HiddenSeen` that the others are stutters. Removal, and a retry or an end written to a removed row,
are not in the run (it offers no deletion): the proof alone covers them. Without the hypothesis it is false: `UpdateAction` takes a finished action back to
pending. `LifecycleWithoutEdits` draws the consequence for a deployment that offers neither
`UpdateAction` nor `ForceRetry`, whose `edited` cannot grow.

`RetryBudgetHolds` bounds the runs of an action no operator has edited by `max_retries` and the
number of goroutines that may process (`Executors`: the workers, and the requests if manual
processing or forced retries are offered). With one that is a run and its retries
(`OneWorkerBudget`). With more the bound cannot be lower, and TLC reaches it: the decision to retry
is taken on the copy a goroutine read (`CanRetry`), the increment happens on the row, and a
goroutine with a copy from before another's retry grants one retry too many. It does so once: it
then gives the action up, and what it reads from there on shows that the budget is spent. The
invariant (`RetriesBounded`) counts just that: `retry_count` stays below `max_retries` and the
number of goroutines with no stale copy of the action (`Fresh`), each retry beyond the budget adding
one to them, and no step taking one away while the budget is spent. It needs batches to hold an
action once (`BatchOrderly`), and runs to be accounted for by retries (`RetryCountAccounts`).
`CrewBudget` is the same for any finite set of goroutines, under the hypothesis that no other
processes.

**AutomationRulesProofs**: `TypeCorrect`; `ArmedHolds` (an enabled rule has its entries in cron);
`OwnedHolds` (whose the other entries are) and `StatsHold`. The first two hold for any bodies, also
when set-ups fail and trigger IDs are shared. `ArmedHolds` needs that objects are bodies under their
own ID (`Shape`), so that a failed update can fall back on the triggers of the object it restores.
The invariant of `OwnedHolds` adds that every entry was made for a trigger of an object of its rule
(`Made`). A cleanup takes out every entry of its rule that the table knows (`CleanupKnown`), and a
set-up that is not refused puts its own entries there, each of which can push out an entry of the same trigger ID: of another
rule, or made by an earlier place of the same one, which is then `SharedTrigger` (`SetupOwned`).
`StatsHold` assumes that no ID is posted twice, because a replacement is counted as an addition.

**AutomationEngineProofs**: `EngineTypes`, `CurrentHolds`, `ReachesHolds`, `RunningHolds`,
`LeftoversHold`, for any number of workers, rule tests and firings; `EngineRefines` and `EngineArmed`.
What a rule operation does to the tables is taken from `AutomationRulesProofs`
(`RuleProofs == INSTANCE AutomationRulesProofs`, over the same variables). `Inv` is the
conjunction of the properties with their supports: the type facts, among them that whoever
executes has an object of its rule and a context made for it (`ProcsOK`), and that the lock is held
for a rule that exists (`LockOK`); and `LeftoversMarked`, that a context in the manager is a
test's, cancelled, or one of the two a worker is still executing with. `ExecutesCurrent` rests on
`CancelReaches`, because what an operation cancels is what it finds in the manager, and on
`Followed`: from its context on, an execution that is not cancelled and was not late has the object
of its rule, for whoever replaces it cancels it; one that was late has another, for an object that
was replaced never comes back and, being out of the rules, keeps the flag it had. `EngineRefines`
is proved step by step: an operation of the API is the one of `AutomationRules`, `EnableRule` when
it releases the lock, and everything else leaves rules, cron and statistics as they are.
`EngineArmed` carries `EnabledRuleArmed` over to the engine, where it holds except while
`EnableRule` is between switching the rule on and its last trigger.

**WebSocketHubProofs**: `TypeCorrect`, `CrashOnlyByPongHolds`, `NoSilentGapHolds`. The invariant
adds that a registered client's channel is open and one that has not been registered has nothing
(`Channels`), that nothing is received before it is sent (`Past`), and that callers keep within the
bound on messages (`Budget`). There is a lemma for each action.

**EntityRegistryProofs**: `RegistryTypes`, `RoomIndexCorrect`, `KindIndexCorrect`, `NothingHidden`.
The invariant is their conjunction: that an unregistration takes an ID out of an index for good
needs that it was there once. Lemmas about lists (what appending an ID and removing its first
occurrence do to `Exact`) carry the proof; there is one lemma for each operation.

The same module proves `SyncTypes`, `SyncIndexes`, `StaleOnlyInWindow` and `AloneSyncMirrors` about
`EntitySync`, for any number of requests and editors. Its steps write an entity or leave
the registry alone, so that the registry's invariant carries over unchanged (`SyncKeepsInv`).
`Shape` says where a goroutine can be and that it holds a decision exactly between its lookup and
its write. `StaleOnlyIfRaced` is inductive with it: an update is decided on an ID that is not
`ahead`, and the write that puts it ahead afterwards notes whom it overtook (`Overtakes`). For
`AloneMirrors` the invariant `AloneOK` follows a synchronisation that is alone: nobody else is at
work, nothing was stamped after it (`StampsOK`), every entity of its answer it has come to is
registered as it was told, and the decision it is about to act on is still the right one, so that
the write succeeds (`StoreSucceeds`).

**EventStreamProofs**: `StreamTypes`, `BroadcastsAreSafe`, `NothingLostHolds`. The invariant adds that
a connection that was not made yet has nothing (`Fresh`), and that one in the map has an open
channel and a handler that has not begun to close it (`Open`).

**CircuitBreakerProofs**: `BreakerTypes`, `NeverWedgedHolds`, `TransitionsHold`,
`NothingWhileOpenHolds`. The invariant `Counted` says what the counters are in each state: in a
closed circuit fewer failures than open it, in a half-open one as many calls as successes and fewer
than close it. The action properties follow from it step by step.

**EnergyTrackingProofs**: `TrackingTypes`, `TickerServedHolds`, `LoneLoopHolds`, `SettledHolds`.
`Stopped` adds that there is no ticker while a stop is on its way or a ticker about to be made;
`Alone` that, if every stop was heard, the only goroutine holds the current ticker, or is in its
select and about to take the stop; `Underway` and `Matching` follow an operation from place to place:
what is stored before tracking is restarted is what will be acknowledged, what `StartTracking` and
`StopTracking` store is what they have done already, and a start works with what it has read.

**Only model-checked**: liveness under fairness (`AllFinish`, `RequestsServed`, `StopReturns`, `GoneReaped`,
`Converges`, `StopEndsLoop`, `GoneForgotten`, `ClosesAgain`, `CallsReturn`, `Records`). That, and
`ENABLED`, are out of the prover's reach, as is induction over data with the library's induction
theorems; the modules therefore define nothing recursively. `KeepsLifecycle` is
checked on an instance that satisfies the hypothesis of its theorem.

## Known behaviours

What the code does that a reader of the models should know of. The properties above hold beside it,
and say where they had to be delimited against it.

- *Hub.* `Run` calls `sendHeartbeat`, which sends on the unbuffered channel only `Run` receives from
  (`hub.go:577`). 30 s after the start the hub is blocked for good, and with it every broadcast, new
  connection and leaving client; in the model it is `stuck`.
- *Engine.* `Stop` sends to each worker with the lock held (`engine.go:198`); a worker that has just
  taken a request needs the lock before it can receive. `StopReturns` excepts that moment.
- *Engine.* `CanExecute` and the change of status are two unprotected steps (`engine.go:613`), and each
  firing makes two requests of its rule: a rule of mode `single` can run twice at a time.
- *Engine.* A worker looks a rule up (`engine.go:751`) and makes its context later (`:768`). If
  `UpdateRule` replaces the rule in between, its cancel finds nothing, the worker reads `Enabled` of the
  old object (`:613`) and executes it, also if `DisableRule` has returned by then: only an operation
  whose cancel comes after the context stops it. `ExecutesCurrent` names it (`Late`).
- *Scheduler.* The table is keyed by trigger ID alone (`scheduler.go:163`), and the parser calls the
  triggers of every rule `trigger_0`, `trigger_1` and so on unless they have IDs (`parser.go:136`): the
  second rule pushes the entry of the first out of the table, and after the first rule is disabled or
  removed that entry keeps firing. A set-up that is refused leaves the entries of the triggers before the
  one cron refused (`engine.go:240`), and posting an ID in use leaves those of the rule it replaces.
  `EntriesOwned` says that nothing else is left over.
- *Queue.* `ScheduleRetry` writes `retrying` over any status (`queue_repository.go:661`): an action
  that was cancelled, or expired, while its handler ran, with the request answered, is queued again and
  runs again if the handler fails and a retry is left. `CompleteAction` overwrites an end in the same
  way. `ActionLifecycle` has both, and no other way back.
- *Queue.* `GetNextActionsToProcess` orders by `created_at` of whole seconds
  (`queue_repository.go:488`, `migrations/016_queue_management.up.sql:106`), so that the rows of a
  sequential pair usually tie and the order among them is SQLite's. A worker reads one row
  (`processor.go:516`): if the dependent comes first while its predecessor waits or is retried, it is
  found blocked and read again on every poll, and neither ends. The same happens to everything of
  lower priority behind an action whose predecessor failed. `AllFinish` is conditional on the head
  not being clogged for good.
- *Queue.* `registerDefaultHandlers` registers the handlers under the names of the action types
  (`processor.go:298`), `processAction` looks up `ActionType.HandlerName` (`processor.go:330`), and the
  migration seeds that column with other names (`EntityStateHandler` and so on,
  `migrations/016_queue_management.up.sql:55`): every action of a shipped type ends as failed with "No
  handler found". The model has actions with and without a handler.
- *Queue.* An action is claimable before its dependency rows are inserted (`service.go:167`, `:172`), so
  that the second of a sequential pair can run first. `UpdateAction` writes back every column it read and
  can revive an action. Each processing goroutine but one can grant a retry beyond `max_retries`, on a
  stale copy (`processor.go:347`). `Stop` closes a channel `Start` never makes again (`processor.go:142`).
- *Engine.* A firing's request usually runs with a cancelled context (`scheduler.go:393`).
- *Hub.* A reader that answers a ping while its client is being evicted sends on a closed channel
  (`client.go:295`), which `CrashOnlyByPong` leaves open; a reader whose writer is gone can wait with
  its pong for ever, which `GoneReaped` leaves open. `topicClients` is never filled (`hub.go:243`):
  topic broadcasts reach nobody. `SendToClient` would lock against itself (`hub.go:292`); it has no
  caller.
- *Entities.* If the first connection fails nobody tries again and the periodic loop never starts
  (`handlers.go:320`). Entities that vanish at Home Assistant stay registered. The refresh after an
  action drops what Home Assistant answers, whatever its comment says (`entity_service.go:883`). A stop
  while the loop synchronises makes it dereference a nil ticker (`entity_service.go:744`, `:729`):
  `StopEndsLoop` counts that as an end. `DELETE /entities/:id` reads a parameter of another
  name (`router.go:150`, `entities.go:663`) and always answers 400, so `UnregisterEntity` has no
  caller in production. An API write of an entity of Home Assistant makes it one of the API's own
  until the next synchronisation, while the index by source stays.
- *Event stream.* The status goroutine of a connection that ends within 100 ms sends on a closed channel
  and ends the process (`events.go:107`), which `CrashOnlyByReporter` leaves open. `Shutdown` and the
  broadcasting helpers have no caller outside the file, so that in production only heartbeats are
  broadcast, and the server's write timeout of 15 s (`main.go:140`) ends a stream before the first.
  After `Shutdown` a handler receives empty messages as fast as it can until its client goes.
- *Recovery.* `half_open_max_calls` never limits anything: its successes reach half of it first, and
  the circuit closes. Results of calls admitted before the trip count as probes, cancelled
  requests as failures. The predefined errors have no context, in which executor and report write
  (`recovery.go:403`, `:517`). Nothing builds a `RecoveryManager`; at this commit `router.go:59` calls
  a middleware that is not defined.
- *Energy.* A stop is lost on a goroutine that is not in its select (`service.go:183`): it then reads a
  nil ticker, which ends the process, or serves the next ticker beside its successor. `LoneLoop`
  excepts this. An interval of 0 is stored before the ticker refuses it (`service.go:158`), and ends
  every start-up from then on. After a failed
  `UpdateSettings` the service keeps the changed settings in memory (`service.go:648`), and a later request
  stores them unasked; a restart brings back what was acknowledged. Any error on reading
  the settings at start-up, not only their absence, writes the defaults over them
  (`service.go:92`; the comment says "Create default settings if none exist"): acknowledged settings are
  lost. A history that cannot be loaded leaves the service without tracking until it is asked for again.
  `Settled` names these cases.
- *Areas* (not modelled). The search for a cycle ends with success when it meets the area itself
  (`area/service.go:702`), the one case it is there for, and an area given itself as parent is not
  searched at all: an area can be moved below itself or its own descendant.
- *Database* (not modelled). `PRAGMA foreign_keys = ON` is executed once, on one connection of the pool
  (`database.go:98`); SQLite keeps it per connection.

## Not modelled

- In the queue: starting and stopping the processor (no caller starts it: actions run only
  through the API's processing requests, though the workers are modelled as the code has them),
  settings, statistics, notifications.
- In the automation engine: what conditions and actions do, execution statistics, templates,
  triggers without a source of events, `RescheduleAllTriggers` and `UnscheduleTrigger` (no caller).
- In the hub: `SendToClient`, `Shutdown`, the optimised hub and the enhanced client (no caller),
  counters.
- In unified entities: the adapter registry with its metrics (one adapter is registered, once),
  the conflict resolver, priorities and virtual entities (no caller), searches, what an action sends to
  the adapter, a metadata source given in an API write.
- In error recovery: the ring of reports and its statistics, the delays between attempts, HTTP errors.
- In energy: what is measured and summed, statistics, queries, the clean-up of old rows, `Shutdown`
  (no caller).
- In unified entities also: an entity of an answer that cannot be converted, which is skipped
  (`adapter.go:328`), and synchronisation switched off in the configuration (`entity_service.go:694`).
- Everything else in the component list of `PROJECT.json`, with the reason there. Most of the
  repository by lines is request-by-request storage (repositories of one statement per method, the
  handlers in front of them), wrappers of devices and external services, numeric aggregation and
  text: state machines with one step, of which a model would restate the statement.

## Plan

1. Device services: the UPS monitor (one client connection shared without a lock by requests and the
   monitoring loops, whose context ends with the request that starts them), Bluetooth pairing and
   scanning (a scan's late collector writes into the next scan's results), the display's hardware
   settings applied in the background, possibly out of order.
2. `AutomationEngine`: the safety part of `RequestsServed`, that an accepted request is in the queue,
   with a worker or done.
