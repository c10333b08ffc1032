------------------------------- MODULE Bootstrap -------------------------------
(***************************************************************************)
(* A process from its first line to the end of bootstrap(): it reads its   *)
(* environment, and either becomes the primary of a cluster, which checks  *)
(* its rails and forks, or creates the pools, pings the sources (BootPing),*)
(* builds the application, starts the cron jobs and listens.  Whatever     *)
(* goes wrong ends it with exit code 1.                                    *)
(*                                                                         *)
(*   bootstrap          src/main.ts                                        *)
(*   loadTlsOptions     src/infrastructure/tls/load-tls-options.ts         *)
(*   startPrimary       src/infrastructure/cluster/cluster-primary.ts      *)
(*   PoolManager.init   src/infrastructure/database/connection/pool.manager.ts *)
(*                                                                         *)
(* Of a cluster the behaviour follows the primary up to its last fork and  *)
(* then one of the workers, any of them; what the primary does afterwards  *)
(* is ClusterPrimary, and what a process does that serves, WorkerLifecycle. *)
(***************************************************************************)
EXTENDS BootPing, Configuration

CONSTANTS
    Environments,   \* what the operator may have set
    Cpus,           \* os.cpus().length
    Pems,           \* paths of files that can be read and are not empty
    UserUrls,       \* URLs of a database that name user and password
    Tables,         \* texts that are the name of a table
    Zones           \* texts that are time zones

ASSUME BootstrapAssumption ==
    /\ Cpus \in Nat /\ UserUrls \subseteq Urls
    /\ \A e \in Environments : DOMAIN e = {"vars", "file", "json", "list", "secrets"}

\* The list is an array, and what there is to read is read in one way.
ASSUME ReadingAssumption ==
    \A e \in Environments :
        /\ e.list \in Seq({e.list[i] : i \in DOMAIN e.list})
        /\ \A x \in DOMAIN e.vars : Single(e.vars[x])
        /\ \A x \in DOMAIN e.file : Single(e.file[x])
        /\ \A i \in DOMAIN e.list : \A f \in DOMAIN e.list[i] : Single(e.list[i][f])

VARIABLES
    env,        \* process.env and the file, before or after they were merged
    config,     \* what loadConfig() returned, <<>> before
    phase,      \* where bootstrap() is
    worker,     \* 0, or the number of the worker that is followed
    forked,     \* workers the primary has forked
    driver,     \* node-oracledb is set up
    clients,    \* sources that PoolManager has a client for
    armed,      \* the cron jobs are started
    port,       \* the port is open
    handlers    \* the signal handlers of the shutdown are installed

process == <<env, config, phase, worker, forked, driver, clients, armed, port, handlers>>
bootstrapVars == <<process, bootVars>>

Phases == {"loading", "tls", "primary", "pools", "pinging", "providers", "middleware",
           "starting", "listening", "bound", "serving", "exited", "killed"}

Ended == {"serving", "exited", "killed"}

HasDatabase == env.json # "blank"

-----------------------------------------------------------------------------
(* The instance: the constants of BootPing are what a valid environment     *)
(* configures; environments with another database are left out.            *)

NamesOf(sources) == UNION {KeyOf(source) : source \in sources}
OfOracle(e) == {source \in Sources(e) : Dialects(source) = {"oracle"}}
NeedsUser(source) ==
    LET parsed == Parsed(OracleSource, source) IN On(parsed.userEnabled) /\ On(parsed.userRequired)

Configures(e) ==
    LET health == Config(e).health IN
    /\ NamesOf(OfOracle(e)) = Implemented
    /\ NamesOf(Sources(e) \ OfOracle(e)) = Placeholders
    /\ NamesOf({source \in OfOracle(e) : NeedsUser(source)}) = UserSources
    /\ required \in health.requiredSources
    /\ health.maxRetries = {Retries}
    /\ health.concurrency = {Limit}

Init ==
    /\ env \in Environments
    /\ LET e == LoadEnvFiles(env) IN
       IF e.json # "blank" /\ Valid(e) THEN Configures(e) ELSE required = {}
    /\ BootInit
    /\ config = <<>>
    /\ phase = "loading"
    /\ worker = 0
    /\ forked = 0
    /\ driver = FALSE
    /\ clients = {}
    /\ armed = FALSE
    /\ port = FALSE
    /\ handlers = FALSE

-----------------------------------------------------------------------------
(* bootstrap() *)

\* It throws: the error is printed and the process exits with code 1.
Fail ==
    /\ phase' = "exited"
    /\ UNCHANGED <<env, config, worker, forked, driver, clients, armed, port, handlers>>

\* loadConfig()
LoadConfig ==
    /\ phase = "loading"
    /\ LET e == LoadEnvFiles(env) IN
       \/ ~Valid(e) /\ Fail
       \/ /\ Valid(e)
          /\ env' = e
          /\ config' = Config(e)
          /\ phase' = "tls"
          /\ UNCHANGED <<worker, forked, driver, clients, armed, port, handlers>>
    /\ UNCHANGED bootVars

\* The files of loadTlsOptions() can be read.
PemsOk ==
    On(config.tls.enabled) =>
        config.tls.keyFile \cup config.tls.certFile \cup config.tls.caFile \subseteq Pems

\* The primary goes its own way; everybody else builds the application.
IsPrimary == On(config.cluster.enabled) /\ worker = 0

Goto(p) ==
    /\ phase' = p
    /\ UNCHANGED <<env, config, worker, forked, driver, clients, armed, port, handlers>>

LoadTls ==
    /\ phase = "tls"
    /\ \/ ~PemsOk /\ Fail
       \/ PemsOk /\ Goto(IF IsPrimary THEN "primary" ELSE "pools")
    /\ UNCHANGED bootVars

\* resolveWorkerCount: 0 is one per core, and one at least.
resolveWorkerCount(configured, cpuCount) ==
    LET requested == IF configured > 0 THEN configured ELSE cpuCount
    IN IF requested > 1 THEN requested ELSE 1

\* runClusterBootRails: a store in memory serves one worker.
MutRailsOk(workerCount) ==
    config.cluster.workers # {0} /\ workerCount > 1 => config.idempotency.store # {"memory"}
RailsOk(workerCount) == workerCount > 1 => config.idempotency.store # {"memory"}

\* The environment of worker w: what the primary has, and its flag.
ForkEnv(w) ==
    [env EXCEPT !.vars = Over(Just("CLUSTER_LEADER", Word(IF w = 1 THEN "true" ELSE "false")), @)]

\* startPrimary() up to its last fork; a worker starts with the first line.
StartPrimary ==
    /\ phase = "primary"
    /\ \E n \in config.cluster.workers :
       LET workerCount == resolveWorkerCount(n, Cpus) IN
       \/ ~RailsOk(workerCount) /\ Fail
       \/ /\ RailsOk(workerCount)
          /\ forked' = workerCount
          /\ \E w \in 1..workerCount : worker' = w /\ env' = ForkEnv(w)
          /\ config' = <<>>
          /\ phase' = "loading"
          /\ UNCHANGED <<driver, clients, armed, port, handlers>>
    /\ UNCHANGED bootVars

\* The factory of ConnectionProvider, without a database.
NoDatabase ==
    /\ phase = "pools"
    /\ ~HasDatabase
    /\ Goto("providers")
    /\ UNCHANGED bootVars

\* The attributes toPoolAttributes() finds for a pool: a part the source does
\* not have comes from its URL.
PoolAttributes(source) ==
    LET s == Parsed(OracleSource, source)
        Own(part, ofUrl) == IF part # {} THEN part ELSE s.connectionUrl \cap ofUrl
    IN [user |-> IF On(s.externalAuth) THEN {} ELSE Own(s.user, UserUrls),
        password |-> IF On(s.externalAuth) THEN {} ELSE Own(s.password, UserUrls),
        connectString |-> Own(s.connectString, Urls),
        externalAuth |-> s.externalAuth,
        poolMin |-> s.poolMin, poolMax |-> s.poolMax]

\* init() awaits one source after the other, in the order of the list.
NextSource == env.list[Cardinality(clients) + 1]

\* initOracleDriver(): once, before the first pool.
InitDriver(source) == driver' = (driver \/ Dialects(source) = {"oracle"})

\* A client for the next source: a pool or a placeholder.
CreateClient ==
    /\ phase = "pools"
    /\ HasDatabase
    /\ Cardinality(clients) < Len(env.list)
    /\ clients' = clients \cup KeyOf(NextSource)
    /\ InitDriver(NextSource)
    /\ UNCHANGED <<env, config, phase, worker, forked, armed, port, handlers>>
    /\ UNCHANGED bootVars

\* initOracleClient() or createPool() fails: the pools created so far stay
\* open until the process is gone, and the driver does not matter any more.
CreateFails ==
    /\ phase = "pools"
    /\ HasDatabase
    /\ Cardinality(clients) < Len(env.list)
    /\ Dialects(NextSource) = {"oracle"}
    /\ Fail
    /\ UNCHANGED bootVars

\* pingAll(), if it is asked for
MutPoolsCreated ==
    /\ phase = "pools"
    /\ HasDatabase
    /\ Cardinality(clients) = Len(env.list)
    /\ Goto(IF required = {} THEN "providers" ELSE "pinging")
    /\ UNCHANGED bootVars
PoolsCreated ==
    /\ phase = "pools"
    /\ HasDatabase
    /\ Cardinality(clients) = Len(env.list)
    /\ Goto(IF On(config.health.pingOnBoot) THEN "pinging" ELSE "providers")
    /\ UNCHANGED bootVars

Ping ==
    /\ phase = "pinging"
    /\ BootNext
    /\ UNCHANGED process

Pinged ==
    /\ phase = "pinging"
    /\ \/ boot = "up" /\ Goto("providers")
       \/ boot = "aborted" /\ Fail
    /\ UNCHANGED bootVars

\* The store that the configuration chooses; the one over Oracle checks the
\* name of its table.
BuildStore ==
    /\ phase = "providers"
    /\ IF config.idempotency.store = {"oracle"} /\ ~(config.idempotency.table \subseteq Tables)
       THEN Fail ELSE Goto("middleware")
    /\ UNCHANGED bootVars

\* NestFactory.create() is done: the forwarder, which parses its target, and
\* the parsers.
BuildForwarder ==
    /\ phase = "middleware"
    /\ IF On(config.legacy.forwardEnabled) /\ ~(config.legacy.targetUrl \subseteq Urls)
       THEN Fail ELSE Goto("starting")
    /\ UNCHANGED bootVars

\* JobScheduler.onApplicationBootstrap: does this process run the jobs?
RunsJobs ==
    /\ On(config.scheduler.enabled)
    /\ On(config.cluster.enabled) => On(config.cluster.isLeader)

\* listen() first runs the hooks; a job of an unknown zone throws.
StartJobs ==
    /\ phase = "starting"
    /\ IF RunsJobs /\ ~(config.scheduler.timezone \subseteq Zones)
       THEN Fail
       ELSE /\ armed' = RunsJobs
            /\ phase' = "listening"
            /\ UNCHANGED <<env, config, worker, forked, driver, clients, port, handlers>>
    /\ UNCHANGED bootVars

PortIsWhole == Option(env, "http", "port").fraction = {}

\* The port is bound, unless somebody else has it or it is no port.
Listen ==
    /\ phase = "listening"
    /\ \/ Fail
       \/ /\ PortIsWhole
          /\ port' = TRUE
          /\ phase' = "bound"
          /\ UNCHANGED <<env, config, worker, forked, driver, clients, armed, handlers>>
    /\ UNCHANGED bootVars

InstallHandlers ==
    /\ phase = "bound"
    /\ handlers' = TRUE
    /\ phase' = "serving"
    /\ UNCHANGED <<env, config, worker, forked, driver, clients, armed, port>>
    /\ UNCHANGED bootVars

\* SIGTERM or SIGINT: as long as nobody handles it the process is gone.
Signal ==
    /\ phase \notin Ended
    /\ ~handlers
    /\ phase' = "killed"
    /\ UNCHANGED <<env, config, worker, forked, driver, clients, armed, port, handlers>>
    /\ UNCHANGED bootVars

Steps ==
    \/ LoadConfig \/ LoadTls \/ StartPrimary
    \/ NoDatabase \/ CreateClient \/ CreateFails \/ PoolsCreated \/ Ping \/ Pinged
    \/ BuildStore \/ BuildForwarder \/ StartJobs \/ Listen \/ InstallHandlers

Next == Steps \/ Signal

Spec == Init /\ [][Next]_bootstrapVars

\* Awaits are settled: a pool is created or not, a ping answers or fails, the
\* port is bound or refused.
LiveSpec == Spec /\ WF_bootstrapVars(Steps)

-----------------------------------------------------------------------------
(* Properties *)

\* Types of the state.
BootstrapTypeOK ==
    /\ BootTypeOK
    /\ config = <<>> \/ DOMAIN config = Sections(env)
    /\ phase \in Phases
    /\ worker \in 0..forked
    /\ clients \subseteq Implemented \cup Placeholders
    /\ {driver, armed, port, handlers} \subseteq BOOLEAN

\* What else can be seen of a process, or cannot be undone: its workers, the
\* driver, the pools, the jobs, the port.
effects == <<forked, driver, clients, armed, port>>

\* "Fails fast": whatever the schemas, the PEM files and the rails can refuse
\* is refused before the first effect, and a worker finds nothing to refuse
\* in the environment its primary forked it with.
RefusedBeforeEffects ==
    [][/\ effects' # effects =>
             LET c == Config(env)
                 tls == c.tls
             IN /\ Valid(env)
                /\ On(tls.enabled) => /\ tls.keyFile # {} /\ tls.keyFile \subseteq Pems
                                      /\ tls.certFile # {} /\ tls.certFile \subseteq Pems
                                      /\ tls.caFile \subseteq Pems
                /\ forked' > 1 => c.idempotency.store # {"memory"}
       /\ worker > 0 /\ phase \in {"loading", "tls"} => phase' # "exited"
      ]_bootstrapVars

\* In a cluster one worker runs the cron jobs, the one the primary chose,
\* whatever the operator or the file of the environment says of it.
OneScheduler == armed /\ On(config.cluster.enabled) => worker = 1

\* A process whose port is open serves what its environment says: over the
\* pools of all its sources, none of which is required and silent, with a
\* store and a forwarder that can work, and in a cluster as a worker.
ServesAsConfigured ==
    port =>
        /\ Valid(env) /\ config = Config(env)
        /\ On(config.cluster.enabled) <=> worker \in 1..forked
        /\ HasDatabase =>
              /\ clients = NamesOf(Sources(env))
              /\ driver <=> OfOracle(env) # {}
              /\ On(config.health.pingOnBoot) =>
                    reqSet \cap clients \subseteq answered \cap Implemented
        /\ config.idempotency.store = {"oracle"} => config.idempotency.table \subseteq Tables
        /\ On(config.legacy.forwardEnabled) =>
              config.legacy.targetUrl \cap Urls # {} /\ {} \notin config.legacy.forwardPrefixes

\* A pool has somewhere to connect to, and someone to connect as, unless that
\* is left to a URL.
PoolFitsDriver(source) ==
    LET a == PoolAttributes(source) IN
    /\ a.connectString # {}
    /\ On(a.externalAuth) \/ Get(source, "connectionUrl") # Blank
          \/ (a.user # {} /\ a.password # {})
    /\ \A min \in a.poolMin, max \in a.poolMax : 0 <= min /\ min <= max /\ max > 0

\* Numbers that what runs on them assumes to be positive: a semaphore without
\* a slot, a circuit that opens before any failure, keys that expire at once,
\* a pool of workers that is never refilled.
MustBePositive(c) ==
    c.httpClient.timeoutMs \cup c.httpClient.circuitFailureThreshold
        \cup c.httpClient.circuitResetMs \cup c.idempotency.ttlMs
        \cup c.idempotency.inProgressTtlMs \cup c.legacy.timeoutMs
        \cup c.shutdown.forceAfterMs \cup c.cluster.respawnMaxPerMinute
        \cup (IF "health" \in DOMAIN c THEN c.health.concurrency ELSE {})

\* What the rest of the program takes for granted (the non-null assertions of
\* the code, the assumptions of the other modules) holds of every environment
\* that is accepted.
ConfigFits ==
    phase = "tls" =>
        /\ \A n \in MustBePositive(config) : n > 0
        /\ \A n \in config.shutdown.drainDelayMs \cup config.shutdown.jobDrainMs : n >= 0
        /\ \A n \in config.http.port : 0 <= n /\ n <= 65535
        /\ On(config.tls.enabled) => {} \notin {config.tls.keyFile, config.tls.certFile}
        /\ On(config.legacy.forwardEnabled) => config.legacy.targetUrl # {}
        /\ config.http.throttleStorage = {"redis"} => config.http.throttleRedisUrl # {}
        /\ config.jwt.secret # {} /\ {} \notin config.jwt.algorithms
        /\ HasDatabase =>
              /\ Cardinality(NamesOf(Sources(env))) = Len(env.list) /\ env.list # <<>>
              /\ \A source \in OfOracle(env) : PoolFitsDriver(source)

\* Whatever the environment, and whatever answers, a boot ends: the process
\* serves or is gone.
BootEnds == <>(phase \in Ended)

\* "On SIGTERM an in-flight run is waited for": jobs run only in a process
\* that handles the signals.
\* The code does not keep this: README, departure 18.
JobsHaveHandlers == armed => handlers

\* "Fails fast": a worker does not refuse to boot over what was already
\* written in the environment of its primary.
\* The code does not keep this: README, departure 19.
ReadyBeforeFork ==
    forked > 0 =>
        LET c == Config(LoadEnvFiles(env)) IN
        /\ c.idempotency.store = {"oracle"} => c.idempotency.table \subseteq Tables
        /\ On(c.legacy.forwardEnabled) => c.legacy.targetUrl \subseteq Urls
=============================================================================
