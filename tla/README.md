# A TLA+ model of the nestjs-ddd service template

The program is a NestJS service template: an HTTP server with several database
sources, an optional cluster of worker processes, cron jobs, outbound HTTP calls,
idempotent endpoints and a forwarder to a legacy service. Most of it is wiring;
this project models the parts that keep state across an `await`, share it between
requests or processes, or race a timer. Paths below are relative to the
repository; `cluster-primary.ts:133` means line 133 of that file.

Contents: [the system](#the-system), [modules](#the-modules), [runs](#the-runs),
[bounds](#bounds), [fairness](#fairness), [proofs](#what-is-proved),
[departures](#departures-of-the-code-from-its-documents),
[what is left out](#what-is-not-modelled), [what comes next](#what-comes-next).

To repeat everything, with `tlc` and `tlapm` on the path:

    tlc -config <run>.cfg <module>      # the table of runs names both
    tlapm <module>Proofs.tla            # eight of them

## The system

One process is started by `src/main.ts`. Without a cluster it builds the
application, serves, and shuts down on SIGTERM or SIGINT. With
`cluster.enabled` it becomes the primary, which forks workers, and each worker
does what the single process does. The parts, the state each keeps, its
operations, and what makes it correct:

| Part | State | Operations | Correct when |
| --- | --- | --- | --- |
| Configuration and boot (`infrastructure/config/`, `main.ts`, `infrastructure/tls/`, `infrastructure/cluster/cluster-boot-rails.ts`) | the environment, what was read from it; how far `bootstrap()` is; what it has opened, armed and bound so far | load, validate, read the PEM files, check the rails, fork, create pools, ping, build, arm the jobs, listen, install the handlers | what can be refused is refused before anything is opened or forked; what is served is what was configured; one worker runs the jobs; the boot ends |
| Idempotency (`interface/http/interceptors/idempotency.interceptor.ts`, `infrastructure/database/idempotency/`) | one record per key: fingerprint, state, two instants, response | claim, complete, release; around the handler of a request | one handler per key at a time; not again within `ttlMs`; a replay is the response of that key and those bytes |
| HTTP client (`infrastructure/http/`) | per origin: closed, open or half-open, failures, a trial flag; per call: its attempt, timer and delay | `blockedForMs`, `recordSuccess`, `recordFailure`; `request` with attempts and retries | a half-open circuit has one trial and is always decided |
| Cluster primary (`infrastructure/cluster/cluster-primary.ts`) | live workers, leader, timestamps of respawns, the shutdown flag | fork, exit event, signal, bounded wait | at most one leader process; the cap on respawns; nobody left behind |
| Worker shutdown (`infrastructure/lifecycle/`, `main.ts`) | the shutdown flag, the server, its connections, timers | begin, drain delay, close, force, stop jobs, close pools, release the channel | connections keep their grace; pools outlive jobs; it ends |
| Scheduler (`interface/scheduler/`) | per job: the current run | tick, run, stop | one run per job; whoever is running is waited for |
| Readiness (`interface/http/controllers/health.controller.ts`) | none of its own: reads the flag, awaits the pings | ready | new requests go to an open port only |
| Boot ping and semaphore (`infrastructure/database/connection/pool.manager.ts`, `utils/semaphore.util.ts`) | free slots, waiting tasks; attempts per source | pingAll, with | never more than the limit; nobody forgotten; the boot is decided on the required sources |
| HTTP pipeline (`interface/interface.module.ts`, `interface/http/`) | per request: its id, user, headers, result, the metrics listener | body parser, context, four guards, five interceptors, handler, exception filter | nothing runs, claims or replays past the decorators of a route; a failure is told as one; one answer, counted once |
| Connections and units of work (`connection/`, `clients/oracle.client.ts`) | pooled sessions with an identity and open work; the unit of each call chain | run, runInTransaction, withConnection, transaction, release | all or nothing; the right identity; a clean pool |
| Legacy forwarder (`infrastructure/legacy/`) | per request: two streams, two sockets, two timers | route, pipe, timeout, error, abort | routed by whole segments; one status; no half body taken for whole; both sides end |

How they interact: a process loads its configuration and either forks, and its
workers load theirs again from the environment it hands them, or creates the
pools, pings the sources through the semaphore, and serves. A request goes
through the pipeline of its worker. The idempotency interceptor is the innermost
stage of it, and uses a unit of work when its store is in the database. The
shutdown flag is written by the worker's shutdown and read by readiness. The
shutdown calls the scheduler's stop and, last, the close of the pools. The
primary speaks to a worker by a signal, and learns of it only by its exit event.
The outbound client and the forwarder share nothing with the others.

What is hard in it: two requests of one key on either side of an expiry;
statements of two workers between each other; outcomes of calls that belong to
an earlier state of the circuit; a signal between two steps of anything; exit
events that come late; connections and handlers that end in either order; a
COMMIT that fails, or takes effect while its answer is lost, a failing rollback,
a branch that outlives its unit; idle timers against slow bodies; a value that
is blank in one place and set in another, at the edge of its range, or read once
by the primary and once more by its workers. `PROJECT.json` lists forty such
places, each with its line and the properties that watch it.

## The modules

| Module | Models | Composed by |
| --- | --- | --- |
| `IdempotencyContract` | what an idempotent endpoint promises, with no clock, record or store | refined by `IdempotencyStore` and `OracleIdempotency`, used by `RequestPipeline` |
| `IdempotencyStore` | the interceptor over the in-memory store, in one process | `MCIdempotencyStore`, `IdempotencyProofs` |
| `OracleIdempotency` | the interceptor over the Oracle store, in several processes, statement by statement | `MCOracleIdempotency`, `OracleIdempotencyProofs` |
| `HttpClient` | circuit breaker, attempts, retries of concurrent calls | `OutboundProofs` |
| `ClusterPrimary` | the primary and the processes it forks | `ClusterPrimaryProofs` |
| `WorkerLifecycle` | the shutdown of a worker, its connections, handlers and jobs | extended by `ClusterShutdown` |
| `ClusterShutdown` | that worker under the bounded wait of its primary | extended by `Readiness` |
| `Readiness` | a monitor and a balancer in front of that worker | `WorkerLifecycleProofs` |
| `Configuration` | what the environment is read as, and whether it is accepted: the schemas, the sources, the rules across fields | extended by `Bootstrap` |
| `Bootstrap` | a process from its first line to the end of `bootstrap()`, alone, as primary or as worker, over `BootPing` and `Configuration` | `MCBootstrap`, `BootstrapProofs` |
| `Semaphore` | the concurrency limiter | extended by `BootPing` |
| `BootPing` | the pings at boot over the semaphore | extended by `Bootstrap`; `BootstrapProofs` |
| `Transactions` | units of work, connections, sessions | `MCTransactions`, `TransactionsProofs` |
| `RequestPipeline` | a request from the body parser to its answer, with `IdempotencyContract` for the store | `MCRequestPipeline`, `RequestPipelineProofs` |
| `LegacyForwarding` | routing and the life of one forwarded call | `MCLegacyForwarding`, `OutboundProofs` |

`MC*` modules hold the definitions an instance needs (symmetry sets, path
lists, the sources of connections); the rest of the instances is in the `.cfg`
files. `Mut*` operators stand in front of the definition they are a mistaken
form of: they say which bug the properties would notice, and no specification
uses them.

Conventions. A Node process runs a handler up to its next `await` without
interruption, so one action is one such stretch of code, and what other
requests can do in between is an interleaving of actions. Actions carry the
name of the method where there is one. Times are whole units of whatever the
configuration counts; where only a difference matters the model keeps the
difference (`elapsed`, `timer`, `idle`) and lets it rest once every comparison
with it has been decided.

**IdempotencyStore.** `records` is the store's map. `Claim`, `Mismatch`,
`InProgress` and `Replay` are the four answers of `claim()` with the part of
`intercept()` that acts on them; `Succeed` and `Fail` are the `concatMap` and
`catchError` of the handler with `complete()` and `release()`; `Hang` is a
handler that never settles. The store knows no owner: `Complete(r)` and
`Release(r)` address whatever record the key has. A response is named by the
request that produced it.

**OracleIdempotency.** The same interceptor, but `claim()` is a transaction of
several statements: `PurgeExpired`, `Insert` or `InsertConflict`, `Select...`,
`Reinsert`, `Takeover`, each an action. The database is READ COMMITTED:
`purged[r]` are the rows that r has deleted and not committed, which lock.
`release()` is called for a failed Result (`"releasing"`) and by `catchError` for
every error (`"discarding"`), the ones of `complete()` and of the first
`release()` included. `ClaimError`, `CompleteError`, `ReleaseError`,
`DiscardError` and `Crash` are the failures; `Faults` says which of them happen,
and `Lost` which calls may take effect and yet reject (`AnswerLost`, `Rejects`).
`SlotOf` is what the committed rows and the live owners say of a key. A purge
becomes visible only with the COMMIT of the claim that made it, in the same step
as the grant or the refusal: that is the contract's `ForgetAndClaim`, a Forget
and what follows it as one step.

**HttpClient.** `Admit` is `blockedForMs()` together with the start of the
attempt; the four outcomes are the classes `request()` tells apart (below 500;
408, 425 and 429; the 5xx and errors that are retried; the other 5xx). `trial`
is a history variable: the code keeps only a flag.

**ClusterPrimary.** `live` is the primary's map, `alive` the processes; an
exit event (`Exit...`) comes some time after `WorkerDies`. The four `Exit...`
actions are the branches of `onExit`. `log` is the history of respawns.

**WorkerLifecycle, ClusterShutdown, Readiness.** `stage` is the await at which
`runGracefulShutdown` stands. A connection (`sock`) and the handler of its
request (`handler`) are two variables, because the server waits for
connections and nobody waits for handlers. `ClusterShutdown` adds the
primary's wait and the worker's channel and process; `Readiness` adds
`ready()` around its `await`, the monitor that polls it, and the balancer.

**Semaphore, BootPing.** A leaving task wakes the first waiter, which asks
again in a later microtask and may find the slot taken. `CallPing` is
`Promise.all` calling `with` for each source before anything else runs.

**Configuration, Bootstrap.** A raw value is a record of what the three readers
of `env.util.ts` can make of it (a text, a number, a fraction, a flag, a list),
each a set of at most one, so that blank, unreadable and out of range are three
different things, as they are for the schemas. `Schema` and `Variables` are the
two tables of the code, one row per option; the rules across fields
(`ThrottleOk`, `LegacyOk`, `TlsOk`, `Complete`, `PoolFits`) are the
`superRefine`s and `refine`s. `Bootstrap` goes through `bootstrap()`: `phase`
is where it is, and `effects` are the things an operator can see of a boot or
has to clean up after. The primary is followed to its last fork and then one
of its workers, which begins again at the first line with the environment of
`ForkEnv`. `Fail` is the `catch` at the end of `main.ts`.

**Transactions.** A flow is one asynchronous call chain with its
`AsyncLocalStorage` entry (`conn`). A `session` is what driver and database hold
for a connection: the identifier that was set and not yet sent, the one in
force, and the open work. `ClientId` is what a source makes of a user (trimmed,
cut to `maxLength` bytes, perhaps to nothing), `Enabled` and `Enforced` are the
sources that set it and that require one. An identifier travels with the next
round trip, which is why `Sent` is applied in every action that makes one.

**LegacyForwarding.** `call` is the forwarded request. The behaviour of
`node:http` (what counts as idle, which of `error`, `aborted` and nothing at
all is emitted when) is written in the module's head; it is external.

**RequestPipeline.** `Path` lists the stages as they are registered; `at` is
where a request stands and `going` its direction. The action of a stage passes
the request on (`Pass`), ends the way in with a value (`TurnBack`) or with an
error (`Reject`). On the way out a result meets the interceptors that the
request has entered, innermost first (`Entered`, `Leaving`), and `Send` is the
exception filter or the router, with the listener of the metrics. What the
client brings is `ask`; what the decorators say of its route is `ask.route`.
The store takes the steps of `IdempotencyContract`, which both stores are shown
to implement. Any of its calls may reject with one of `StoreErrors`, done or not
(`ClaimFails`, `CompleteFails`, `ReleaseFails`, `DiscardFails`); a claim that
failed calls leave behind is taken over when it is stale (`Lapse`). Left out is
the first `release()` that takes effect and rejects, which is departure 20.

## The runs

| Run | Instance | Shows |
| --- | --- | --- |
| `idempotency_memory` | 3 requests, 2 keys, 2 bodies, `Ttl` 3, `InProgressTtl` 1, clock to 6 | with handlers that settle in time: one handler per key, at most once per Ttl, and the contract, faithful replays included, is implemented |
| `idempotency_oracle` | 3 requests on one key, two failures, clock to 5 | the same, contract included, between workers that die or whose calls reject, with or without effect, as long as a takeover is not overtaken and no `release()` of a failed Result takes effect and rejects |
| `idempotency_oracle_takeover` | the same with overlapping takeovers | **violated**: two requests own one key (departure 3) |
| `http_client` | 3 calls, window 2, timeout 1, one retry | a half-open circuit has one trial and is decided, and the circuit closes when the upstream recovers |
| `cluster_primary` | 2 workers, 4 deaths, cap 2 per window of 2 | one leader process, the cap, the shutdown ends |
| `cluster_leaderless` | 2 workers, 3 deaths, cap 1 | **violated**: a pool that respawns again but has no leader (departure 13); the trace ends with one worker of two |
| `shutdown` | 2 connections, 2 jobs, the primary, the monitor, pools that may take longer than the slack | pools outlive jobs, no worker killed in its drain delay, over its connections or over its jobs, new requests to an open port only, the worker is gone in the end (by itself, then, once it has finished, unless it hangs) |
| `bootstrap` | 1915 environments, 2 cores; 4 sources, 2 pings at a time, a placeholder, an unknown name, every list of required ones | the boot decided, on the right grounds and within the limit; refused before any effect; served as configured; the numbers and secrets the rest relies on; one worker with jobs |
| `transactions` | 2 flows, 3 sources with a connection each (users set; set and required; required and not set), one user whose name the main source cuts and one of whom it leaves nothing | clean pool, all or nothing, right identity, calls end though both flows wait for each other's source |
| `transactions_nested` | 1 flow with a nested unit on the main source | **violated**: the writes of a nested unit that failed are committed (departure 14) |
| `legacy_forwarding` | all 40 paths up to 4 characters over `/ a b`, 4 prefix lists | routing by segments, one status, no cut body taken for whole, both sides end |
| `request_pipeline` | 2 requests with one key, the first any of 18, 5 routes, 2 errors of a handler, calls of the store that reject | nothing past the decorators, fresh replays, failures told as failures, notice and count of every answer, every request answered and every key given back |

`TypeOK` of the two idempotency modules, of `Transactions` and of
`RequestPipeline` and `ForwardTypeOK` of `LegacyForwarding` are proved instead of
run.

Each property of a passing run has a mutant in `PROJECT.json`: a plausible bug
in a modelled definition with which TLC finds the property violated in the same
run.

`CHECK_DEADLOCK FALSE` stands where the modelled part really stops: the requests
are used up and the clock has reached its bound, the primary has exited, the
worker is gone, the process serves or is gone, the call is over. The HTTP client
never stops, and `RequestPipeline` says when it may (`Done`): there TLC checks
for deadlock.

### Bounds

- *Clocks.* `MaxTime` of the idempotency modules lets a record be claimed,
  completed, expire and be claimed again (`Ttl` 3, clock to 6 in memory, to 5
  over Oracle, where a claim waits in between). `MaxTime` of the primary leaves
  two full windows. The other clocks are relative and need no bound.
- *Failures.* `MaxDeaths` 4 with two workers lets the leader die, its
  replacement die, the cap be reached and the window pass. `MaxFaults` 2 is
  two failures of any kind at any point; `faults` only counts.
- *Actors.* Two requests suffice for every overlap on a key; the third is the
  one that replays, or that claims after the second. Three calls are a trial, a
  late outcome and a newcomer. Two connections and two jobs are one that ends in
  time and one that does not. Four pings on two slots give a queue of two;
  `pingAll` calls all of them before one leaves, so no newcomer overtakes a
  woken waiter in the run, which `NeverTooMany` and `NoWaiterForgotten` cover.
  Two flows on two sources with a connection each are the smallest that can wait
  for each other; the third source requires users and sets none.
- *Requests.* Requests of the pipeline meet only at the key, so one of them is
  any request: the accepted one of its route, or one that differs from it in one
  place, or in two that different stages look at. The other one gets as far as
  the key, with the same body or another one. The handler's errors are one that
  the table of statuses does not list and a `DomainError` whose `toProblem()`
  does not work; a store rejects with an error of its driver. Statuses that
  errors carry themselves are those of the guards and the body parser.
- *Bodies.* `MaxAge` is when neither side of a forwarded call sends another
  chunk: bodies are finite. It is larger than the legacy timeout, so a slow
  body outlives it.
- *Users.* One whose name the main source cuts and one of whom it leaves nothing;
  the others have room for both. Each flow calls for one of them, or for nobody.
- *Visits.* A flow goes to another source at most once (`visited`), opens at
  most one nested unit, one sibling branch.
- *Delays.* They are small numbers chosen so that each of the orders that the
  configuration allows happens: the window longer than the timeout, the drain
  delay longer than interval times threshold, the close of the pools longer than
  the slack, as it is with the defaults. The theorems say which of these matter,
  and hold for every value.

- *Environments.* Each option of a valid environment takes each of fourteen
  values at the edges of the readers and of the ranges (blank, unreadable, -1,
  0, 1, between two, far too large), one at a time; each field of the first
  source takes nine likewise, each dialect has its own incomplete forms; and the
  switches that interact (cluster, store, leader, TLS, forwarder, scheduler,
  file) are set together. `Configures` leaves out the valid ones whose database
  has other sources than the constants of `BootPing` name. Two cores, and 0, 1
  or 2 configured workers, are the smallest with a default that differs.

### Fairness

Fairness is assumed only of what the process itself schedules.

- `HttpClient`: the clock goes on; an attempt in flight settles, at the latest
  by the abort of its timeout; a call whose delay is over asks the breaker; and
  callers keep arriving, without which a circuit whose window is over has
  nobody to try it. The upstream may stay down for ever.
- `ClusterPrimary`: the timer and the continuations of `shutdown()`. Workers
  may ignore the signal; exit events are not assumed to come.
- `Readiness`: timers and continuations of the primary, of the worker's
  shutdown and of the monitor. Clients, handlers and jobs may do nothing for
  ever.
- `Bootstrap`: awaits are settled and the boot goes on. A ping answers or fails
  (a health ping has a call timeout of its own), a pool is created or not
  (`connectTimeoutSec`), a port is bound or refused; a woken microtask runs.
- `Transactions`: every step of a call that has started is taken: a round trip
  is answered or times out, and the work returns or throws. A round trip times
  out only with `callTimeoutMs`, whose default 0 means never: this is an
  assumption, and so is `QueueTimeoutMs` > 0, without which two flows that wait
  for each other's connection wait for ever (`oracle.client.ts:48`).
- `RequestPipeline`: handlers and the calls of the store end, one way or the other,
  and ready code runs; a claim that failed calls have left becomes stale and is
  claimed again. The clients are not asked for anything else, and responses need
  not expire.
- `LegacyForwarding`: the event loop dispatches the middleware, timers and
  events. Nothing is asked of the client or the legacy service.

## What is proved

`tlapm` checks these for every value of the constants, under the named
`ASSUME`s of the modules (ranges of the configuration, and that the values that
stand for "nothing" are nothing else).

| Theorem | Says | Needs |
| --- | --- | --- |
| `IdempotencyProofs`: `TypeCorrect`, `MutualExclusion`, `AtMostOnce`, `FaithfulReplay`, `StableReplay` | its types, the invariants of `idempotency_memory`, faithful replays, and that no late `complete()` or `release()` touches a stored response | the last four: `TimelyHandlers` |
| `IdempotencyProofs`: `Refinement` | interceptor and store implement `IdempotencyContract` | `TimelyHandlers` |
| `OracleIdempotencyProofs`: `TypeCorrect` | its types | |
| `OracleIdempotencyProofs`: `OneOwnerPerKey`, `SuccessKeepsOthersAway`, `ReplaysAreFaithful` | the invariants of `idempotency_oracle`, whatever else dies or rejects | `TimelyRequests`, no overlapping takeovers, `ReleasesAnswered` |
| `OracleIdempotencyProofs`: `StoredSuccessIsNotRepeated` | the effect of a key happens once per `Ttl` | the same, and `SuccessIsStored` |
| `OracleIdempotencyProofs`: `Refinement` | the statements of all the workers implement `IdempotencyContract`, whatever else dies or rejects | `TimelyRequests`, no overlapping takeovers, `ReleasesAnswered` |
| `TransactionsProofs`: `TypeCorrect`, `PoolIsClean`, `UnitsAreAtomic`, `WritesAreAttributed` | the safety of units of work and of the connections under them | |
| `TransactionsProofs`: `FailuresReturnedOnLeaveNothing` | a nested unit that fails leaves nothing: the property of `transactions_nested` | `FailuresAreReturnedOn` |
| `OutboundProofs`: `TypeCorrect`, `HalfOpenHasTrial` | a half-open circuit has its trial in flight | |
| `OutboundProofs`: `OneTrialAtATime` | never two trials | `ShortAttempts` |
| `OutboundProofs`: `OnlyALateSuccessReopens` | an open circuit refuses for `ResetMs` | `NoLateSuccess` |
| `OutboundProofs`: `ForwardTypeCorrect`, `NoCutBodyPasses`, `OneStatus` | no forwarded body that was cut is taken for whole; a status is written once | |
| `OutboundProofs`: `RoutingFollowsSegments`, `SubPathsAreForwarded` | a path is forwarded exactly when its segments begin with those of a listed prefix, for paths and prefixes of any length | `NoBareSlash` |
| `OutboundProofs`: `UploadersAreDropped` | whoever leaves leaves no outbound socket open | `ClientsStayForTheAnswer` |
| `OutboundProofs`: `EveryOtherFailureIsReported` | a failed call is logged | `NoOrderlyCut`, `UploadsAreFinished` |
| `OutboundProofs`: `RequestsAtOnceAreDecidedInTime` | a call older than `LegacyTimeoutMs` has its status, or its client is gone | `BodyComesAtOnce` |
| `ClusterPrimaryProofs`: `TypeCorrect`, `LeaderIsKnown`, `OneLeader`, `RespawnsAreCapped`, `NothingLeftBehind` | the safety of the primary | |
| `ClusterPrimaryProofs`: `OnlyTheCapLosesTheLeader` | a pool that respawns has a leader: the property of `cluster_leaderless` | `CapSparesLeader` |
| `ClusterPrimaryProofs`: `OnlyTheCapShrinksThePool` | a pool that respawns has `WorkerCount` workers | `CapNotMet` |
| `WorkerLifecycleProofs`: `TypeCorrect`, `JobsDoNotOverlap`, `JobsHaveTheirPools`, `RequestsHaveTheirGrace` | the safety of a worker's shutdown | |
| `WorkerLifecycleProofs`: `AttendedHandlersHaveTheirPools` | the pools close under no handler before connections are cut | `ClientsWait` |
| `WorkerLifecycleProofs`: `ClusterRefinesWorker`, `ClusterJobsHaveTheirPools`, `ReadinessRefinesCluster` | a worker in a cluster, behind a balancer, is such a worker | |
| `WorkerLifecycleProofs`: `OnlyStuckWorkersAreKilled` | the primary kills no worker in its drain delay, over its connections or over its jobs, and none over its pools before the slack is used up | |
| `WorkerLifecycleProofs`: `TakenOutInTime` | new requests go to an open port only | `DelayExceedsPolls` |
| `BootstrapProofs`: `NeverTooMany`, `NoWaiterForgotten` | the semaphore, under any use | |
| `BootstrapProofs`: `BootUsesSemaphore`, `PingsAreLimited`, `BootDecidesRightly` | the pings of a boot | |
| `BootstrapProofs`: `OnlyUnknownNamesPass`, `OnlyUserSourcesAbort` | every required source answered; only a placeholder or a silent database aborts | no unknown name, no required source that requires a user |
| `BootstrapProofs`: `BootstrapUsesBootPing`, `BootstrapDecidesRightly` | the same of a whole process | |
| `BootstrapProofs`: `OneSchedulerAtMost` | one worker with jobs, whatever is in the environment or its file | |
| `BootstrapProofs`: `InvalidHasNoEffects` | refused before any effect | |
| `BootstrapProofs`: `AcceptedConfigFits` | the numbers, files and secrets that the rest relies on, in every accepted configuration | |
| `BootstrapProofs`: `BootstrapTypeCorrect`, `OpenPortServesConfiguration` | what is served is what was configured | |
| `RequestPipelineProofs`: `EntitledOnly`, `FreshReplays` | nothing past the decorators of a route; fresh replays | |
| `RequestPipelineProofs`: `FailuresAreTold` | failures told as failures | `ErrorsAreErrors` |
| `RequestPipelineProofs`: `OnlyRawResultsPass` | no failure leaves with a success, but a failed Result that goes out raw | `ErrorsAreErrors` |
| `RequestPipelineProofs`: `CountedAndNoticed` | the count and the notice of every answer | `OnlyTheLimit` |
| `RequestPipelineProofs`: `TypeCorrect` | its types, and that every status sent is a known one | `KnownErrors` |

The conditions are hypotheses of the theorems because the code does not enforce
them. The first are about a deployment, each is where one can go wrong:

- `TimelyHandlers`: a handler settles before its claim counts as abandoned or
  expires. Nothing stops a slow handler (departure 1).
- `TimelyRequests` and `~TakeoversOverlap`: the same over Oracle, and nobody
  touches an abandoned row between the SELECT and the UPDATE of a takeover,
  which no lock of the code excludes (departures 1 and 3).
- `ReleasesAnswered`: no `release()` of a failed Result both takes effect and
  rejects. The second `release()` would then meet whatever a later request has put
  under the key (departure 20). Every other call may take effect and reject.
- `ShortAttempts`: `timeoutMs < resetMs`. The defaults are 5 s and 30 s, and no
  rule of the schema relates the two (departure 4).
- `DelayExceedsPolls`: the drain delay exceeds interval times threshold of the
  monitor, as `docs/architecture/operations.md:222` asks of the operator.
- `ErrorsAreErrors`, `OnlyTheLimit` and `KnownErrors` are about the handlers and
  stores a service adds: an `HttpException` they throw has a status of 400 or
  more, not 429, and one that the application knows. The filter sends whatever
  status an `HttpException` carries (`global-exception.filter.ts:72`); other
  objects count as client errors only from 400 to 499 (line 139). The second is
  how the property tells a request that the rate limit refused; a handler that
  answers 429 itself would be counted, too.
- `RoomForOne`, inside the property of `WritesAreAttributed`: no source that sets
  and requires a user cuts one to nothing (departure 21).
- `NoBareSlash`: no prefix of the list is `/` or `//` (departure 9). The schema
  wants a character, and nothing else of a prefix (`legacy.schema.ts:16`).

The others say that something does not happen in a run: an action property of
what the client, the upstream, the database or the work does or, for departures
7 and 8, a condition on the names that are required. Each leaves every other
fault and every interleaving in, and TLC finds the conclusion violated without
it: together with the theorem, it is the one cause of a departure.

| Hypothesis | What does not happen | Departure |
| --- | --- | --- |
| `SuccessIsStored` | `complete()` fails, or the worker dies before it | 2 |
| `NoLateSuccess` | a call admitted before the circuit opened succeeds while it is open | 4 |
| `ClientsWait` | a client leaves while its handler runs | 5 |
| `required \cap Unknown = {}` | a required name is that of no source | 7 |
| `reqSet \cap UserSources = {}` | a required source requires a context user | 8 |
| `BodyComesAtOnce` | a body is uploaded after its head | 10 |
| `ClientsStayForTheAnswer` | a client leaves after its upload | 11 |
| `NoOrderlyCut`, `UploadsAreFinished` | the legacy service ends its answer too early, but in order; a client breaks its upload off once the answer has begun | 12 |
| `CapSparesLeader` | the exit of the leader meets the cap | 13 |
| `FailuresAreReturnedOn` | the work around a failed unit succeeds | 14 |

The arguments, and why the properties are not inductive alone:

- *Idempotency.* `OneRunningHandler` alone says nothing about the record, and
  a step of `Claim` looks at the record only. `ClaimHeld` says that the record
  under the key of a running handler is the one its claim wrote, no older than
  `HandlerMax`; so whoever finds the key vacant or abandoned finds nobody
  running. `Remembered` says the same for `Ttl` of a handler that has
  succeeded, which gives at most once; `StoredBy` names the handler behind a
  stored response, which gives the replays. `RecordLife`, `LatestClaim` and
  `Progress` carry the instants and the phases. The refinement maps a key to
  "owned" while its handler runs, to "stored" while a live record is complete
  and to "free" otherwise; a claim, a success, a failure, a hang, a replay and
  the tick at which records expire are the steps of the contract, everything
  else stutters.
- *Oracle store.* A row names no owner either, and other claims may hold it
  deleted without having committed. `Owned` says that the row under the key of
  an owner is the one its claim wrote and that no open purge has it: it is too
  young to be expired, and too young for `Taking`, which says that a claim on
  its way to a takeover has a stale row for itself. `Locks` says that what a
  purge has deleted had expired, so a rollback gives back nothing that counts
  and a commit takes away no stored response before its time (`Stored`).
  `PairInv` keeps two purges, two owners and two takeovers apart; `RowInv` names
  the handler behind each response. The refinement has "stored" for a key whose
  committed row is complete, expired or not, since a response may be replayed
  until somebody deletes it. A grant needs the key free in the contract, that is
  without an owner and without a response that its own purge leaves (`Owned`,
  `Taking`); `CommitForgets` is the step by which the rows of a purge are
  forgotten with it; a crash, the last `release()` and its failure are all
  GiveUp, though the row may stay in the first and the third; a `complete()`
  that takes effect and rejects is a response that was stored and not sent, and
  the `release()` after it a Forget. A `release()` of a failed Result that
  rejects deletes nothing here (`ReleasesAnswered`), so its owner still has its
  row when it releases again. `Known` says that a request whose handler has not
  ended is behind no response, so it is new to the contract.
- *Transactions.* `CleanPool` says nothing of a connection in use. For each
  flow, `Places` says which connections it has at each point, `Identified` whose
  identifier their sessions carry, sent or about to be, `Open` that the open
  work of its session is what it has written, and `Judged` that the verdict says
  what was kept. A step of one flow reaches another only through a connection
  or the database; `Apart` says that no connection serves two flows, and so
  every action needs to be looked at for its own flow only (`OneFlowKeeps`).
- *HTTP client.* `TrialAlive` is inductive over the types, since every recorded
  outcome, whoever's it is, leaves half-open. For `SingleTrial` the invariant
  `TrialAge` says that a trial still in flight while the circuit is open is at
  least as old as its opening; when the window is over it would be older than
  `TimeoutMs` allows.
- *Forwarder.* `WholeOrBroken` says nothing of a response that is still open, so
  a step of the service might seem to follow an answer of the forwarder's own.
  `HeadFirst` says that no body flows before a status went out and that a 502 or
  504 is sent only when the outbound socket has closed; an error of a call whose
  status went out then destroys the response and never ends it. For the
  departures, `AbandonedInv` adds that a request not yet at the forwarder has its
  client, and `IdleFromTheStart` that until there is a status the socket is idle
  for as long as the call is old, so that its timeout is the one of the call.
- *Routing.* `matchesLegacyPrefix` compares characters, `ForwardedIffListed`
  segments. `Pieces` cuts a path by its slashes, one character after the other;
  that the cut pieces of one text begin with those of another exactly when the
  texts agree up to a slash or an end (`PiecesPrefix`) is an induction over the
  path. The library's induction theorems cannot be instantiated here, so
  `SetInduction` and `PathInduction` state them for the set of the numbers, or
  of the paths, of which the claim is true, from which the rest is set theory;
  `SetInduction` itself follows from the pigeonhole principle of
  FiniteSetTheorems. `ReadingExists` and `ReadingUnique` are what makes a
  recursive function out of its equation. `OnePrefix` adds `normalize()`, and
  `RouteInv` that a request keeps the path, and the way, it was given.
- *Primary.* `LeaderKnown` relates the flag each process was forked with to
  `leaderId`; at most one leader follows as `alive` is part of `live`. The cap
  needs `Recorded`: the timestamps the code keeps are a suffix of the history
  and whatever was dropped is older than the window, now and later. `Led` and
  `Full` say that the leader is in the pool and the pool is full while the
  primary respawns; only the branch of `onExit` that meets the cap breaks either.
- *Worker.* `Clock` bounds the time since the signal by the stage, `Draining`
  says that from the snapshot on no job starts that is not awaited. In the
  cluster `Waiting` ties the primary's clock to the worker's; behind the
  balancer `Noticed` counts how many polls must have failed by now.
- *Boot.* `SInv` counts slots: free ones and running tasks together are the
  limit, and waiting tasks are the queue. The boot is a refinement of the
  semaphore, so it keeps `SInv`, and `BInv` says that a source that is through
  with its ping answered, failed or was not required.

- *Bootstrap.* A worker validates again what its primary validated, over an
  environment that differs in one variable. The invariant `PInv` says what a
  process knows at each phase (`Informed`: past loading, its environment is
  merged and valid and `config` is what it says, past the files they can be
  read), what a worker has from its primary (`Inherited`: the merged and valid
  environment, the rail, and the flag of its number) and that nothing is open
  before it is due (`Idle`). Loading again changes nothing (`OnlyFlagDiffers`,
  `Loading`), because the merge keeps what is set; that is also why the flag the
  primary sets cannot be overridden by a file, which gives `OneScheduler`.
  `ConfigFits` is then about the tables alone: one lemma for each kind of row
  (`NumberFits`, `ListReading`, `RequiredReading`), one that a file and a flag
  leave each value with one reading (`AlwaysReadable`), one that a source's
  secrets are the only thing put over it (`OracleRows`), and from these what an
  accepted environment says of numbers, tokens and pools. `ServesAsConfigured`
  needs the way to the port: `Flow` says of each phase what has been opened so
  far (`OpenedUpTo` the number of clients in the order of the list, then
  `AllOpened`), heard (`Heard`) and looked at by the providers (`Checked`), whose
  environment this is (`Followed`) and that the pings ask the sources of it
  (`Named`).
- *Pipeline.* An answer says nothing of how it came about, so the invariant
  follows each request. `Passed` is what the stages before its place have
  established; the way out ends before the guards, so it still holds of a
  request that has been answered. `Outcome` says what it carries out: what its
  handler ended with, what another one ended with, or an error that has its
  `Grounds` at the stage where the request stands, raw or formatted as its place
  and its headers ask (`Carries`). `SlotInv` names the handler behind a slot,
  and that it was a success. A step of one request leaves the other ones' part
  alone (`StepOfOne`), whose only connection is the slot, and whoever is named
  there has got past the validation. A request for which a call of the store
  rejected carries that error out (`StoreFailed`), and may leave its name in the
  slot until the claim is stale.

`ReplayFaithful` (in memory), `StoredResponseStable`, `TrialAlive`,
`LeaderKnown`, `NoOrphans`, `OneRunPerJob`, `GraceBeforeCut` and `NoIdleSlot`
are proved and not run; so are the properties of departures 2, 4, 5 and 7 to 12,
under their hypotheses.

Only model-checked: the liveness properties (`Recovers`, `ShutdownEnds`,
`WorkerIsGone`, `BootEnds`, `CallsEnd`, `BothSidesEnd`, `Settles`), since the
provers do not reason about ENABLED. Every other property of a passing run is
stated by a theorem.

The assumptions on the constants are named in the modules and TLC evaluates them
in every run: limits and times are natural numbers, positive where the schemas
say so; the values that stand
for "nothing" are no others; and `ReadingAssumption` of `Bootstrap`, that one
value reads as one text, one number and so on, never as two.

## Departures of the code from its documents

Each is a behaviour of the code that a document, a comment or a test says it
does not have. Three are runs; the others are properties that stand in the
modules with the remark "the code does not keep this". Adding the property to
the cfg of the run named shows the trace.

1. *A slow handler loses its claim.* After `inProgressTtlMs` another request
   may claim the key while the first handler still runs; the first one's
   `complete()` then fills the second one's record
   (`in-memory-idempotency.store.ts:65`), against "executes at most once per
   key" of `docs/guides/make-an-endpoint-idempotent.md:50`. Set `HandlerMax` 3
   in `MCIdempotencyStore.cfg`: `OneRunningHandler` and `ReplayFaithful` fail.
2. *A failing `complete()` releases the key.* The rejection inside `concatMap`
   reaches `catchError` (`idempotency.interceptor.ts:98`), the key is free, and
   the retry runs the handler again though it had succeeded.
   `EffectAtMostOncePerTtl` with `MCOracleIdempotency.cfg`; the trace may also
   have a worker that dies before `complete()`, which the guide concedes (line
   126) while it says nothing of a `complete()` that fails.
3. *Two workers take over one stale claim.* The UPDATE of a takeover repeats
   no condition on the row that was read (`oracle-idempotency.store.ts:136`).
   Run `idempotency_oracle_takeover`.
4. *A late success closes an open circuit.* `recordSuccess` does not look at the
   state (`circuit-breaker.ts:48`): the answer of a call admitted before the
   circuit opened closes it at once, against the comment at line 13.
   `RefusesForResetMs` with `HttpClient.cfg`. In the same way, with `timeoutMs
   >= resetMs` the late failure of an old trial gives the circuit a second one
   while the new trial is in flight (`SingleTrial` with `TimeoutMs` 2 and
   `ResetMs` 2).
5. *Handlers outlive the pools.* A handler whose client has gone, or whose
   connection was cut, is nobody's: the server closes and so do the pools under
   it (`graceful-shutdown.ts:68`, against the comment at line 36).
   `PoolsOutliveHandlers` with `Readiness.cfg`.
6. *The primary's wait leaves out the pools.* `waitMs`
   (`cluster-primary.ts:158`) has no term for `drainTimeSec`, against
   `docs/architecture/operations.md:203,220`: a worker that waits for its pools
   longer than the slack is killed. The defaults are such: 10 s of drain against
   2000 ms of slack. `InTimeIsSpared` with `Readiness.cfg`.
7. *An unknown required source is ignored.* A name that is no configured
   source (`pool.manager.ts:192`) is dropped from the required ones, against
   `docs/architecture/configuration.md:193`. `RequiredAnswered` with
   `MCBootstrap.cfg`.
8. *A source that requires a user cannot be pinged.* The ping passes no context
   user, so `resolveContextUser` refuses it before anything is sent
   (`oracle.client.ts:98`): the boot is aborted though the database answers.
   `AbortMeansSilence` with `MCBootstrap.cfg`.
9. *The prefix `/` matches only itself.* `normalize` leaves it and
   `//` begins no path (`matches-prefix.util.ts:17`). `SubPathsForwarded` with
   the list `{ <<"/">> }`.
10. *The timeout of a legacy call counts idle time.* A call that trickles
    outlives it (`legacy-forwarder.ts:77`, against decision 0013, line 58).
    `DecidedInTime` with `MCLegacyForwarding.cfg`.
11. *`aborted` comes only during the upload.* A client that leaves after its
    request was read leaves the outbound socket open until it is idle
    (`legacy-forwarder.ts:112`). `AbandonedCallIsDropped`.
12. *Some cut calls are not noticed.* An answer that the legacy service cuts in an
    orderly way raises no `error` (`legacy-forwarder.ts:93`): nothing is logged,
    against `docs/architecture/configuration.md:126`, and the response stays open
    until the client's socket times out. Neither does `destroy()` raise one when a
    client breaks its upload off after the answer began (line 112).
    `FailureIsReported`.
13. *A pool without a leader.* When the leader's exit meets the cap, `leaderId`
    is cleared for good (`cluster-primary.ts:133`); the pool respawns again when
    the window has passed, smaller by one, and its respawns are forked without
    the flag, against the comment at line 51. Run `cluster_leaderless`.
14. *A nested unit that fails is committed.* The inner `run` joins and returns
    its failed Result (`pool.manager.ts:141`); if the outer work goes on, its
    writes are committed with the rest, against `unit-of-work.port.ts:17`. Run
    `transactions_nested`.

15. *Refused requests are not counted.* "Counts and times every request"
    (`metrics.interceptor.ts:14`), but an interceptor runs after the guards: a
    401, a 403, a 429 and a malformed body leave no trace in the metrics.
    `EveryAnswerCounted` with `MCRequestPipeline.cfg`.
16. *Refused requests get no deprecation notice*, for the same reason, against
    "every response carries" of `docs/architecture/http-interface.md:76`.
    `EveryAnswerNoticed`.
17. *A failure may leave as a success.* With the header `x-skip-format`, which
    any client may send, or on a route with `@RawResponse()`, a failed Result is
    sent as it is with the status of the route
    (`response-formatter.interceptor.ts:34`). `http-interface.md:28` says
    "untouched"; decision 0004 was made to end this. `FailureNeverSuccess`.
    An envelope of the handler's own with `success: false` also keeps the status
    of the route, and `@Idempotent()` stores it as a success.

18. *Jobs start before the signal handlers.* `app.listen()` runs the hook that
    arms the cron jobs, and the handlers are installed after it
    (`main.ts:114-116`): a SIGTERM in between ends the process in the middle of
    a run, against `docs/guides/add-a-scheduled-job.md:74`. `JobsHaveHandlers`
    with `MCBootstrap.cfg`.
19. *What only a worker refuses passes the primary.* The name of the
    idempotency table (`oracle-idempotency.store.ts:52`, "validated at boot" in
    `docs/architecture/configuration.md:136`) and the URL of the legacy service
    are looked at when the providers are built, in the workers. In a cluster
    each of them exits, is forked again up to the cap, and the primary stays
    alive without one: not the exit with code 1 of
    `docs/architecture/operations.md:120`. `ReadyBeforeFork`.
20. *A release is made twice.* When `release()` of a failed Result rejects
    (`idempotency.interceptor.ts:92`), the rejection reaches `catchError`, which
    releases again (line 100). If the first DELETE was committed and only its
    answer was lost, a retry may have claimed the key, and the second DELETE takes
    its row, or the response it has become: a third request runs the handler too,
    against "first request still running | 409" of
    `docs/guides/make-an-endpoint-idempotent.md:58`. `OneHandler`, and
    `ImplementsContract`, with `MCOracleIdempotency.cfg` and `"release"` in `Lost`.
21. *A required user may be cut to nothing.* `required` is looked at before the
    user is cut to `maxLength` bytes (`oracle.client.ts:133,142`); when not even the
    first character fits, which takes a `maxLength` below 4, the identifier is not
    set (line 56) and the write carries nobody's name. `Attributed` without
    `RoomForOne`, with `MCTransactions.cfg` and the main source in `Enforced`.

## What is not modelled

- *The statistics of a pool, the metrics server, logging, the metrics
  registry*: input and output; no decision of the program reads them back.
- *Rate limiting*: `@nestjs/throttler` and Redis count; the code configures.
- *OpenAPI, decorators, dependency injection, scripts*: declarations.
- *Domain events and use cases*: the publisher is a loop over handlers that
  nobody registers and aggregates that nobody writes. Nothing under `src/` calls
  it, so there is no behaviour of the program to follow.
- Of the boot: the list of jobs is a template's and empty, so `armed` stands for
  the jobs a service adds; whether a certificate and its key belong together is
  for `node:tls`; a `null` in the JSON of the sources; the second `loadConfig()`
  under dependency injection, which reads the same environment again.
- Of the primary: a clock that steps back, and a pool shrunk to no worker at all
  by the cap, which the code logs and accepts (`cluster-primary.ts:115,125`). Of
  the Oracle store: which of two claims that lock each other out the database
  picks as its victim (`oracle-idempotency.store.ts:156`); the victim is a
  `ClaimError`. Of the shutdown: a rejection of `closeApp()`
  (`main.ts:152`), after which a worker counts as stuck.
- Within the modelled parts: headers, bodies and their encodings; the SQL text
  and the hash of a fingerprint; cron expressions; jitter and backoff as
  lengths; slow query logging; in the pipeline CORS, helmet, message texts, the
  switch `http.csrfEnabled` (`csrf.guard.ts:38`; off, it makes every site a
  trusted one, of which the run has requests), several statuses of one route (a
  replay has the status that was stored), a client that disconnects (the
  forwarder and the shutdown have theirs), and the id of an answer to a
  malformed body, which the filter takes from the header. No idempotent route
  returns a stream: the memory store would keep a consumed one, and nothing in
  the code refuses it. A wall clock that steps back is not modelled: the respawn
  window and the expiry of records compare `Date.now()`.

## What comes next

1. *Domain events*, once a service that grows from the template publishes some.
2. *Rate limiting*, once the code decides more than its configuration.
3. *A replay across stores*: both refine one contract, but a deployment that
   changes `idempotency.store` starts with an empty one; nothing states what a
   client may then expect.
