---------------------------- MODULE Configuration ----------------------------
(***************************************************************************)
(* What a process makes of its environment before it does anything else.   *)
(*                                                                         *)
(*   loadConfig, hydrate, loadEnvFiles  src/infrastructure/config/load-config.ts *)
(*   envString, envBool, envList        src/infrastructure/config/env.util.ts *)
(*   the schemas                        src/infrastructure/config/schemas  *)
(*                                                                         *)
(* A raw value is a record of what it can be read as, each reading a set   *)
(* of at most one element: a text, a number, a fraction (just above n), a  *)
(* flag, a list of words.  Nothing can be read from a blank one.  A value  *)
(* that was accepted is a set too: {} is `undefined`.                      *)
(***************************************************************************)
EXTENDS Integers, FiniteSets, TLC

CONSTANTS
    LongSecrets,    \* texts of 32 characters or more
    Sizes,          \* texts that are a size of a log file
    Paths,          \* texts that begin with a slash
    Urls            \* texts that are URLs

\* Texts of these kinds are not empty.
ASSUME TextAssumption ==
    /\ "" \notin LongSecrets \cup Sizes \cup Paths \cup Urls
    /\ LongSecrets \cup Sizes \cup Paths \cup Urls \subseteq STRING

-----------------------------------------------------------------------------
\* Everything f has, and what g has besides.
Over(f, g) == [x \in DOMAIN f \cup DOMAIN g |-> IF x \in DOMAIN f THEN f[x] ELSE g[x]]
Just(x, value) == [y \in {x} |-> value]

(* Raw values *)

\* envString answers undefined for a variable that is unset or only spaces.
Blank == [text |-> {}, number |-> {}, fraction |-> {}, flag |-> {}, items |-> {}]

\* The words envBool takes for a boolean.
FlagOf(w) ==
    IF w \in {"true", "1", "yes", "on"} THEN {TRUE}
    ELSE IF w \in {"false", "0", "no", "off"} THEN {FALSE}
    ELSE {}

\* Variables: words, whole numbers, numbers between n and n + 1, and lists
\* ("," is the empty one), as the three readers of env.util.ts see them.
Word(w) ==
    [text |-> {w}, number |-> {}, fraction |-> {}, flag |-> FlagOf(w), items |-> {{w}}]
Numeral(n) == [Word(ToString(n)) EXCEPT !.number = {n}]
Between(n) == [Word("fraction") EXCEPT !.fraction = {n}]
Words(ws) == [Blank EXCEPT !.text = {","}, !.items = {ws}]

\* Members of the JSON text of the sources have the type they are written with.
Str(w) == [Blank EXCEPT !.text = {w}]
Num(n) == [Blank EXCEPT !.number = {n}]
Bool(b) == [Blank EXCEPT !.flag = {b}]

\* Of each kind a value has one reading at most.
Single(raw) == \A kind \in DOMAIN Blank : \A x, y \in raw[kind] : x = y

-----------------------------------------------------------------------------
(* Rows of a schema: how an option is read, which values it takes, what a  *)
(* blank one stands for (zod does not check a default).                    *)

Row(as, of, default) == [as |-> as, of |-> of, default |-> default, required |-> FALSE]
Required(as, of) == [as |-> as, of |-> of, default |-> {}, required |-> TRUE]
Optional(as, of) == Row(as, of, {})

Int0 == Nat
Positive == Nat \ {0}
From(n) == Nat \ 0..(n - 1)
Ports == 1..65535
NonEmpty == STRING \ {""}

Accepts(row, raw) ==
    IF raw = Blank THEN ~row.required
    ELSE IF row.as = "real"     \* z.coerce.number() without int()
    THEN /\ raw.number \cup raw.fraction # {}
         /\ raw.number \subseteq row.of
         /\ \A n \in raw.fraction : {n, n + 1} \subseteq row.of
    ELSE raw[row.as] # {} /\ raw[row.as] \subseteq row.of

Read(row, raw) ==
    IF raw = Blank THEN row.default
    ELSE IF row.as = "real" THEN raw.number \cup raw.fraction
    ELSE raw[row.as]

-----------------------------------------------------------------------------
(* The schemas of the sections *)

AppSchema == [env |-> Required("text", {"development", "test", "staging", "production"})]

LoggingSchema == [
    logLevel |-> Row("text", {"debug", "info", "warn", "error"}, {"info"}),
    showStackTraces |-> Row("flag", BOOLEAN, {FALSE}),
    requestIdHeader |-> Row("text", STRING, {"x-request-id"}),
    toFile |-> Row("flag", BOOLEAN, {TRUE}),
    directory |-> Row("text", STRING, {"logs"}),
    fileName |-> Row("text", STRING, {"app.log"}),
    filesLimit |-> Row("number", 1..365, {14}),
    maxSize |-> Row("text", Sizes, {"10m"}),
    pretty |-> Optional("flag", BOOLEAN)]

HttpSchema == [
    port |-> Row("real", Ports, {3000}),
    corsOrigins |-> Row("items", SUBSET NonEmpty, {{}}),
    serverTimeout |-> Row("real", From(2000), {120000}),
    headersTimeout |-> Row("real", From(2000), {121000}),
    keepAliveTimeout |-> Row("real", From(1000), {61000}),
    jsonBodyLimit |-> Row("text", STRING, {"1mb"}),
    urlencodedBodyLimit |-> Row("text", STRING, {"1mb"}),
    swaggerEnabled |-> Optional("flag", BOOLEAN),
    throttleTtlMs |-> Row("number", Positive, {60000}),
    throttleLimit |-> Row("number", Int0, {100}),
    throttleStorage |-> Row("text", {"memory", "redis"}, {"memory"}),
    throttleRedisUrl |-> Optional("text", NonEmpty),
    trustProxy |-> Row("flag", BOOLEAN, {FALSE}),
    csrfEnabled |-> Row("flag", BOOLEAN, {TRUE}),
    csrfTrustedOrigins |-> Optional("items", SUBSET NonEmpty)]

HttpClientSchema == [
    timeoutMs |-> Row("number", Positive, {5000}),
    retries |-> Row("number", 0..10, {2}),
    retryBaseMs |-> Row("number", Positive, {200}),
    retryJitterMs |-> Row("number", Int0, {150}),
    retryMaxDelayMs |-> Row("number", Positive, {5000}),
    circuitEnabled |-> Row("flag", BOOLEAN, {TRUE}),
    circuitFailureThreshold |-> Row("number", Positive, {5}),
    circuitResetMs |-> Row("number", Positive, {30000}),
    userAgent |-> Row("text", NonEmpty, {"APP_NAME"})]

JwtSchema == [
    secret |-> Required("text", LongSecrets),
    algorithms |-> Row("items", (SUBSET {"HS256", "HS384", "HS512", "RS256", "RS384",
                                         "RS512", "ES256", "ES384"}) \ {{}}, {{"HS256"}}),
    issuer |-> Optional("text", NonEmpty),
    audience |-> Optional("text", NonEmpty),
    cookieName |-> Row("text", NonEmpty, {"jwt"})]

IdempotencySchema == [
    store |-> Row("text", {"memory", "oracle"}, {"memory"}),
    table |-> Row("text", NonEmpty, {"IDEMPOTENCY_KEYS"}),
    ttlMs |-> Row("number", Positive, {86400000}),
    inProgressTtlMs |-> Row("number", Positive, {60000}),
    header |-> Row("text", NonEmpty, {"idempotency-key"})]

LegacySchema == [
    forwardEnabled |-> Row("flag", BOOLEAN, {FALSE}),
    targetUrl |-> Optional("text", NonEmpty),
    forwardPrefixes |-> Row("items", SUBSET NonEmpty, {{}}),
    timeoutMs |-> Row("number", Positive, {10000}),
    preserveHostHeader |-> Row("flag", BOOLEAN, {FALSE})]

MetricsSchema == [
    enabled |-> Row("flag", BOOLEAN, {FALSE}),
    defaultMetrics |-> Row("flag", BOOLEAN, {TRUE}),
    path |-> Row("text", Paths, {"/metrics"})]

SchedulerSchema == [
    enabled |-> Row("flag", BOOLEAN, {FALSE}),
    timezone |-> Row("text", NonEmpty, {"UTC"})]

ShutdownSchema == [
    drainDelayMs |-> Row("number", Int0, {5000}),
    forceAfterMs |-> Row("number", Positive, {10000}),
    jobDrainMs |-> Row("number", Int0, {10000})]

TlsSchema == [
    enabled |-> Row("flag", BOOLEAN, {FALSE}),
    keyFile |-> Optional("text", NonEmpty),
    certFile |-> Optional("text", NonEmpty),
    caFile |-> Optional("text", NonEmpty),
    passphrase |-> Optional("text", NonEmpty),
    minVersion |-> Row("text", {"TLSv1.2", "TLSv1.3"}, {"TLSv1.2"})]

ClusterSchema == [
    enabled |-> Row("flag", BOOLEAN, {FALSE}),
    workers |-> Row("number", Int0, {0}),
    respawn |-> Row("flag", BOOLEAN, {TRUE}),
    respawnMaxPerMinute |-> Row("number", Positive, {10}),
    metricsPort |-> Optional("number", Ports),
    isLeader |-> Row("flag", BOOLEAN, {FALSE})]

RootSchema == [
    app |-> AppSchema, logging |-> LoggingSchema, http |-> HttpSchema,
    httpClient |-> HttpClientSchema, jwt |-> JwtSchema, idempotency |-> IdempotencySchema,
    legacy |-> LegacySchema, metrics |-> MetricsSchema, scheduler |-> SchedulerSchema,
    shutdown |-> ShutdownSchema, tls |-> TlsSchema, cluster |-> ClusterSchema]

\* The sections of a database, besides its sources.
HealthSchema == [
    pingOnBoot |-> Row("flag", BOOLEAN, {TRUE}),
    timeoutMs |-> Row("number", 0..60000, {3000}),
    maxRetries |-> Row("number", 0..100, {2}),
    requiredSources |-> Row("items", SUBSET STRING, {{}}),
    concurrency |-> Row("number", 1..100, {3}),
    jitterMs |-> Row("number", 0..5000, {250})]

OracleDriverSchema == [
    thickMode |-> Row("flag", BOOLEAN, {FALSE}),
    clientLibDir |-> Optional("text", NonEmpty),
    clientConfigDir |-> Optional("text", NonEmpty),
    fetchAsString |-> Row("items", SUBSET {"CLOB", "NCLOB", "NUMBER", "DATE", "JSON"}, {{}}),
    fetchAsBuffer |-> Row("items", SUBSET {"BLOB"}, {{}})]

DatabaseSchema == [
    health |-> HealthSchema, oracle |-> OracleDriverSchema,
    database |-> [useDbLink |-> Row("flag", BOOLEAN, {FALSE})]]

Schema == Over(RootSchema, DatabaseSchema)

-----------------------------------------------------------------------------
(* The environment: `vars` are the variables of the process, `file` those  *)
(* of .env.<NODE_ENV>; `json` and `list` are DATABASE_CONFIG_JSON and the  *)
(* members of its list, objects from fields to raw values; `secrets` are   *)
(* the variables the sources refer to.                                     *)

\* hydrate(): the variable each option is read from.
Variables == [
    app |-> [env |-> "NODE_ENV"],
    logging |-> [
        logLevel |-> "LOG_LEVEL", showStackTraces |-> "SHOW_STACK_TRACES",
        requestIdHeader |-> "REQUEST_ID_HEADER", toFile |-> "LOGGING_TO_FILE",
        directory |-> "LOGGING_DIR", fileName |-> "LOGGING_FILE_NAME",
        filesLimit |-> "LOGGING_FILES_LIMIT", maxSize |-> "LOGGING_MAX_SIZE",
        pretty |-> "LOGGING_PRETTY"],
    http |-> [
        port |-> "PORT", corsOrigins |-> "CORS_ORIGINS",
        serverTimeout |-> "SERVER_TIMEOUT", headersTimeout |-> "HEADERS_TIMEOUT",
        keepAliveTimeout |-> "KEEP_ALIVE_TIMEOUT", jsonBodyLimit |-> "JSON_BODY_LIMIT",
        urlencodedBodyLimit |-> "URLENCODED_BODY_LIMIT", swaggerEnabled |-> "SWAGGER_ENABLED",
        throttleTtlMs |-> "THROTTLE_TTL_MS", throttleLimit |-> "THROTTLE_LIMIT",
        throttleStorage |-> "THROTTLE_STORAGE", throttleRedisUrl |-> "THROTTLE_REDIS_URL",
        trustProxy |-> "TRUST_PROXY", csrfEnabled |-> "CSRF_ENABLED",
        csrfTrustedOrigins |-> "CSRF_TRUSTED_ORIGINS"],
    httpClient |-> [
        timeoutMs |-> "HTTP_CLIENT_TIMEOUT_MS", retries |-> "HTTP_CLIENT_RETRIES",
        retryBaseMs |-> "HTTP_CLIENT_RETRY_BASE_MS",
        retryJitterMs |-> "HTTP_CLIENT_RETRY_JITTER_MS",
        retryMaxDelayMs |-> "HTTP_CLIENT_RETRY_MAX_DELAY_MS",
        circuitEnabled |-> "HTTP_CLIENT_CIRCUIT_ENABLED",
        circuitFailureThreshold |-> "HTTP_CLIENT_CIRCUIT_FAILURE_THRESHOLD",
        circuitResetMs |-> "HTTP_CLIENT_CIRCUIT_RESET_MS",
        userAgent |-> "HTTP_CLIENT_USER_AGENT"],
    jwt |-> [
        secret |-> "JWT_SECRET", algorithms |-> "JWT_ALGORITHMS", issuer |-> "JWT_ISSUER",
        audience |-> "JWT_AUDIENCE", cookieName |-> "JWT_COOKIE_NAME"],
    idempotency |-> [
        store |-> "IDEMPOTENCY_STORE", table |-> "IDEMPOTENCY_TABLE",
        ttlMs |-> "IDEMPOTENCY_TTL_MS", inProgressTtlMs |-> "IDEMPOTENCY_IN_PROGRESS_TTL_MS",
        header |-> "IDEMPOTENCY_HEADER"],
    legacy |-> [
        forwardEnabled |-> "LEGACY_FORWARD_ENABLED", targetUrl |-> "LEGACY_TARGET_URL",
        forwardPrefixes |-> "LEGACY_FORWARD_PREFIXES", timeoutMs |-> "LEGACY_TIMEOUT_MS",
        preserveHostHeader |-> "LEGACY_PRESERVE_HOST_HEADER"],
    metrics |-> [
        enabled |-> "METRICS_ENABLED", defaultMetrics |-> "METRICS_DEFAULT_METRICS",
        path |-> "METRICS_PATH"],
    scheduler |-> [enabled |-> "SCHEDULER_ENABLED", timezone |-> "SCHEDULER_TIMEZONE"],
    shutdown |-> [
        drainDelayMs |-> "SHUTDOWN_DRAIN_DELAY_MS", forceAfterMs |-> "SHUTDOWN_FORCE_AFTER_MS",
        jobDrainMs |-> "SHUTDOWN_JOB_DRAIN_MS"],
    tls |-> [
        enabled |-> "TLS_ENABLED", keyFile |-> "TLS_KEY_FILE", certFile |-> "TLS_CERT_FILE",
        caFile |-> "TLS_CA_FILE", passphrase |-> "TLS_PASSPHRASE",
        minVersion |-> "TLS_MIN_VERSION"],
    cluster |-> [
        enabled |-> "CLUSTER_ENABLED", workers |-> "CLUSTER_WORKERS",
        respawn |-> "CLUSTER_RESPAWN",
        respawnMaxPerMinute |-> "CLUSTER_RESPAWN_MAX_PER_MINUTE",
        metricsPort |-> "CLUSTER_METRICS_PORT", isLeader |-> "CLUSTER_LEADER"],
    health |-> [
        pingOnBoot |-> "DATABASE_PING_ON_BOOT", timeoutMs |-> "DATABASE_PING_TIMEOUT_MS",
        maxRetries |-> "DATABASE_PING_MAX_RETRIES",
        requiredSources |-> "DATABASE_PING_REQUIRED_SOURCES",
        concurrency |-> "DATABASE_PING_CONCURRENCY", jitterMs |-> "DATABASE_PING_JITTER_MS"],
    oracle |-> [
        thickMode |-> "ORACLE_THICK_MODE", clientLibDir |-> "ORACLE_CLIENT_LIB_DIR",
        clientConfigDir |-> "ORACLE_CLIENT_CONFIG_DIR",
        fetchAsString |-> "ORACLE_FETCH_AS_STRING", fetchAsBuffer |-> "ORACLE_FETCH_AS_BUFFER"],
    database |-> [useDbLink |-> "DATABASE_USE_DBLINK"]]

\* Both tables name the same options, and nothing else is read from the
\* variable that the primary sets.
ASSUME TableAssumption ==
    /\ DOMAIN Schema = DOMAIN Variables
    /\ \A s \in DOMAIN Schema : DOMAIN Schema[s] = DOMAIN Variables[s]
    /\ \A s \in DOMAIN Schema : \A f \in DOMAIN Schema[s] :
          Variables[s][f] = "CLUSTER_LEADER" => s = "cluster" /\ f = "isLeader"

Get(f, x) == IF x \in DOMAIN f THEN f[x] ELSE Blank

Option(env, s, f) == Get(env.vars, Variables[s][f])

\* loadEnvFiles(): a variable of the process wins over one of the file, also
\* a blank one; NODE_ENV decides before any file is read.
MutLoadEnvFiles(env) ==
    IF Get(env.vars, "NODE_ENV").text \subseteq {"test", "testing"} THEN env
    ELSE [env EXCEPT !.vars = Over(env.file, @)]
LoadEnvFiles(env) ==
    IF Get(env.vars, "NODE_ENV") \in {Word("test"), Word("testing")} THEN env
    ELSE [env EXCEPT !.vars = Over(@, env.file)]

-----------------------------------------------------------------------------
(* The sources of DATABASE_CONFIG_JSON *)

\* resolveSecretRefs: a secret that is not in the JSON is read from the
\* variable its reference names.
Referred(source, secrets, field, ref) ==
    IF Get(source, field) # Blank \/ Get(source, ref).text \in {{}, {""}} THEN source
    ELSE LET variable == CHOOSE v \in source[ref].text : TRUE
         IN Over(Just(field, Get(secrets, variable)), source)

Resolved(source, secrets) ==
    Referred(Referred(source, secrets, "password", "passwordEnv"),
             secrets, "walletPassword", "walletPasswordEnv")

BaseSource == [
    key |-> Required("text", NonEmpty),
    poolMin |-> Row("number", Int0, {0}), poolMax |-> Row("number", Positive, {10}),
    defaultSchema |-> Optional("text", NonEmpty)]

OracleTarget == [
    connectionUrl |-> Optional("text", Urls), connectString |-> Optional("text", NonEmpty),
    user |-> Optional("text", NonEmpty), password |-> Optional("text", NonEmpty),
    passwordEnv |-> Optional("text", NonEmpty), externalAuth |-> Row("flag", BOOLEAN, {FALSE}),
    edition |-> Optional("text", NonEmpty), configDir |-> Optional("text", NonEmpty),
    walletLocation |-> Optional("text", NonEmpty), walletPassword |-> Optional("text", NonEmpty),
    walletPasswordEnv |-> Optional("text", NonEmpty), sslServerDNMatch |-> Optional("flag", BOOLEAN),
    httpsProxy |-> Optional("text", NonEmpty), httpsProxyPort |-> Optional("number", Ports)]

OraclePool == [
    poolMin |-> Row("number", Int0, {2}), poolMax |-> Row("number", Positive, {10}),
    poolIncrement |-> Row("number", Int0, {1}), poolTimeoutSec |-> Row("number", Int0, {60}),
    poolMaxLifetimeSessionSec |-> Row("number", Int0, {0}),
    poolPingIntervalSec |-> Row("number", Int, {60}),
    poolPingTimeoutMs |-> Row("number", Int0, {5000}),
    queueMax |-> Row("number", Int0 \cup {-1}, {500}), queueTimeoutMs |-> Row("number", Int0, {60000}),
    stmtCacheSize |-> Row("number", Int0, {30}), enableStatistics |-> Row("flag", BOOLEAN, {FALSE}),
    homogeneous |-> Row("flag", BOOLEAN, {TRUE}), drainTimeSec |-> Row("number", Int0, {10})]

\* Network, fetching, behaviour, contextUser.
OracleCalls == [
    connectTimeoutSec |-> Row("number", Positive, {20}), expireTimeMin |-> Row("number", Int0, {0}),
    retryCount |-> Row("number", Int0, {0}), retryDelaySec |-> Row("number", Int0, {1}),
    callTimeoutMs |-> Row("number", Int0, {0}), fetchArraySize |-> Row("number", Positive, {100}),
    prefetchRows |-> Row("number", Int0, {2}), maxRows |-> Row("number", Int0, {0}),
    outFormat |-> Row("text", {"array", "object"}, {"array"}),
    slowQueryMs |-> Row("number", Int0, {1000}), logSql |-> Row("flag", BOOLEAN, {FALSE}),
    healthQuery |-> Row("text", NonEmpty, {"SELECT 1 FROM DUAL"}),
    userEnabled |-> Row("flag", BOOLEAN, {TRUE}), userRequired |-> Row("flag", BOOLEAN, {FALSE}),
    userMaxLength |-> Row("number", 1..64, {64})]

OracleSource == Over(Over(OracleCalls, OraclePool), Over(OracleTarget, BaseSource))

\* postgres, mysql, mariadb and mssql, which name their encryption differently.
ServerTarget == [
    connectionUrl |-> Optional("text", Urls), host |-> Optional("text", STRING),
    port |-> Optional("number", Positive), database |-> Optional("text", STRING),
    user |-> Optional("text", STRING), password |-> Optional("text", STRING),
    passwordEnv |-> Optional("text", NonEmpty)]
ServerSource(encryption) ==
    Over(Over(ServerTarget, Just(encryption, Optional("flag", BOOLEAN))), BaseSource)

SqliteSource ==
    Over([file |-> Optional("text", NonEmpty), connectionUrl |-> Optional("text", Urls)], BaseSource)

SourceSchema == [
    oracle |-> OracleSource, postgres |-> ServerSource("ssl"), mysql |-> ServerSource("ssl"),
    mariadb |-> ServerSource("ssl"), mssql |-> ServerSource("encrypt"), sqlite |-> SqliteSource]

\* hasAll: texts that are there and not empty.
HasAll(source, fields) == \A f \in fields : Get(source, f).text \notin {{}, {""}}

\* "URL or parts", per dialect.
MutComplete(dialect, source) ==
    \/ dialect # "oracle"
    \/ HasAll(source, {"connectionUrl"})
    \/ HasAll(source, {"connectString"})
Complete(dialect, source) ==
    \/ HasAll(source, {"connectionUrl"})
    \/ /\ dialect = "oracle"
       /\ HasAll(source, {"connectString"})
       /\ HasAll(source, {"user", "password"}) \/ Get(source, "externalAuth").flag = {TRUE}
    \/ dialect = "sqlite" /\ HasAll(source, {"file"})
    \/ /\ dialect \notin {"oracle", "sqlite"}
       /\ HasAll(source, {"host", "database", "user", "password"})
       /\ Get(source, "port").number # {}

\* An object of the list, once it has been parsed.
Parsed(schema, source) == [f \in DOMAIN schema |-> Read(schema[f], Get(source, f))]

PoolFits(source) ==
    LET parsed == Parsed(OracleSource, source)
    IN \A min \in parsed.poolMin, max \in parsed.poolMax : min <= max

Dialects(source) == Get(source, "dialect").text \cap DOMAIN SourceSchema

SourceOk(source) ==
    /\ Dialects(source) # {}
    /\ \A d \in Dialects(source) :
          /\ \A f \in DOMAIN SourceSchema[d] : Accepts(SourceSchema[d][f], Get(source, f))
          /\ Complete(d, source)
          /\ d = "oracle" => PoolFits(source)

\* The sources of the JSON text with their secrets.
Sources(env) == {Resolved(env.list[i], env.secrets) : i \in DOMAIN env.list}

KeyOf(source) == Get(source, "key").text

\* parseSources and the array it is checked as: one source at least, and no
\* key twice.
SourcesOk(env) ==
    /\ env.json = "list"
    /\ env.list # <<>>
    /\ \A source \in Sources(env) : SourceOk(source)
    /\ \A i, j \in DOMAIN env.list : KeyOf(env.list[i]) = KeyOf(env.list[j]) => i = j

-----------------------------------------------------------------------------
(* loadConfig() *)

\* Without DATABASE_CONFIG_JSON the variables of a database are not looked at.
Sections(env) == IF env.json = "blank" THEN DOMAIN RootSchema ELSE DOMAIN Schema

\* The typed configuration, of an environment that is valid.
Config(env) ==
    [s \in Sections(env) |->
        [f \in DOMAIN Schema[s] |-> Read(Schema[s][f], Option(env, s, f))]]

FieldsOk(env) ==
    \A s \in Sections(env) : \A f \in DOMAIN Schema[s] :
        Accepts(Schema[s][f], Option(env, s, f))

On(flag) == flag = {TRUE}

\* superRefine of http, legacy and tls: what a switch that is on asks for.
ThrottleOk(http) == http.throttleStorage = {"redis"} => http.throttleRedisUrl # {}

LegacyOk(legacy) ==
    On(legacy.forwardEnabled) => legacy.targetUrl # {} /\ legacy.forwardPrefixes # {{}}

TlsOk(tls) == On(tls.enabled) => tls.keyFile # {} /\ tls.certFile # {}

\* safeParse() of the hydrated environment succeeds.
Valid(env) ==
    /\ FieldsOk(env)
    /\ env.json # "blank" => SourcesOk(env)
    /\ LET c == Config(env) IN ThrottleOk(c.http) /\ LegacyOk(c.legacy) /\ TlsOk(c.tls)
=============================================================================
