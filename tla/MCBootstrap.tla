------------------------------ MODULE MCBootstrap ------------------------------
(***************************************************************************)
(* Environments for Bootstrap: a small one that is valid, each of its      *)
(* options at the values where readings and bounds differ, a database with *)
(* each field of its first source likewise, and the switches that interact. *)
(***************************************************************************)
EXTENDS Bootstrap

Minimal == [
    vars |-> "NODE_ENV" :> Word("production") @@ "JWT_SECRET" :> Word("long"),
    file |-> <<>>, json |-> "blank", list |-> <<>>, secrets |-> <<>>]

With(e, settings) == [e EXCEPT !.vars = settings @@ @]

\* Values at the edges of the readers and of the bounds.
Edges == {Blank, Word("yes"), Word("maybe"), Word("long"), Words({}), Words({"HS256"}),
          Between(0), Between(1)} \cup {Numeral(n) : n \in {-1, 0, 1, 999, 2000, 65536}}

EachOption(e, sections, values) ==
    UNION {{With(e, Variables[s][f] :> v) : f \in DOMAIN Schema[s], v \in values} : s \in sections}

-----------------------------------------------------------------------------
(* A database of four sources that are implemented and one that is not. *)

Oracle(k) == [
    key |-> Str(k), dialect |-> Str("oracle"), connectString |-> Str("host/service"),
    user |-> Str("user"), passwordEnv |-> Str("PASSWORD")]

Placeholder(d) ==
    [key |-> Str("p1"), dialect |-> Str(d)]
        @@ IF d = "sqlite" THEN [file |-> Str("data")]
           ELSE [host |-> Str("host"), port |-> Num(1), database |-> Str("data"),
                 user |-> Str("user"), password |-> Str("secret")]

Sources5 == <<Oracle("s1"), Oracle("s2"), Oracle("s3"),
              Oracle("s4") @@ [userRequired |-> Bool(TRUE)], Placeholder("postgres")>>

Database == [
    vars |-> ("DATABASE_PING_MAX_RETRIES" :> Numeral(Retries)
              @@ "DATABASE_PING_CONCURRENCY" :> Numeral(Limit)) @@ Minimal.vars,
    file |-> <<>>, json |-> "list", list |-> Sources5, secrets |-> [PASSWORD |-> Str("secret")]]

Quiet == With(Database, "DATABASE_PING_ON_BOOT" :> Word("no"))

WithSource(i, source) == [Quiet EXCEPT !.list[i] = source]

JsonEdges == {Blank, Str(""), Str("x"), Bool(FALSE), Bool(TRUE)} \cup {Num(n) : n \in {-1, 0, 1, 11, 65536}}

\* What a source can be, besides one that is complete.
Odd == Sources5[1]
Without(source, fields) == [f \in DOMAIN source \ fields |-> source[f]]
OddSources == {
    Without(Odd, {"passwordEnv"}),
    Without(Odd, {"user", "passwordEnv"}) @@ [connectionUrl |-> Str("userurl")],
    Without(Odd, {"connectString"}) @@ [connectionUrl |-> Str("url")],
    Without(Odd, {"user", "passwordEnv"}) @@ [externalAuth |-> Bool(TRUE)],
    [externalAuth |-> Bool(TRUE)] @@ Odd,
    Without(Odd, {"connectString"}) @@ [externalAuth |-> Bool(TRUE)],
    [passwordEnv |-> Str("UNSET")] @@ Odd, [password |-> Str("secret")] @@ Odd,
    [poolMin |-> Num(5), poolMax |-> Num(4)] @@ Odd, [poolMin |-> Num(4), poolMax |-> Num(4)] @@ Odd,
    [userRequired |-> Bool(TRUE), userEnabled |-> Bool(FALSE)] @@ Odd,
    [key |-> Str("s2")] @@ Odd, Without(Odd, {"dialect"}), [dialect |-> Str("db2")] @@ Odd}

Databases ==
    \* one field of one source, one option
    {WithSource(1, (f :> v) @@ Odd) : f \in DOMAIN OracleSource \ {"key"}, v \in JsonEdges}
    \cup {WithSource(1, source) : source \in OddSources}
    \cup {WithSource(5, Placeholder(d)) : d \in DOMAIN SourceSchema}
    \cup {WithSource(5, (f :> v) @@ Placeholder(d)) :
              d \in {"mysql", "mssql", "mariadb"}, f \in {"host", "port", "password"}, v \in JsonEdges}
    \cup EachOption(Quiet, DOMAIN DatabaseSchema, Edges)
    \* the text itself
    \cup {[Quiet EXCEPT !.json = j] : j \in {"broken", "other"}}
    \cup {[Quiet EXCEPT !.list = <<>>], [Quiet EXCEPT !.secrets = <<>>],
          [Quiet EXCEPT !.secrets = [PASSWORD |-> Str("")]]}

\* Every list of required sources, with names no source has.
Pings == {With(Database, "DATABASE_PING_REQUIRED_SOURCES" :> Words(names)) :
              names \in SUBSET (Implemented \cup Placeholders \cup Unknown)}

-----------------------------------------------------------------------------
(* Switches *)

Cluster(e, workers) ==
    With(e, "CLUSTER_ENABLED" :> Word("on") @@ "CLUSTER_WORKERS" :> workers
            @@ "SCHEDULER_ENABLED" :> Word("true"))

\* What an operator, or the file, may say of the leader.
ByHand(e) == {e, With(e, "CLUSTER_LEADER" :> Word("true")), [e EXCEPT !.file = "CLUSTER_LEADER" :> Word("1")]}

Stores(e) ==
    {e, With(e, "IDEMPOTENCY_STORE" :> Word("oracle")),
     With(e, "IDEMPOTENCY_STORE" :> Word("oracle") @@ "IDEMPOTENCY_TABLE" :> Word("T;")),
     [e EXCEPT !.file = "IDEMPOTENCY_STORE" :> Word("oracle")],
     \* a blank variable of the process hides the one of the file
     [With(e, "IDEMPOTENCY_STORE" :> Blank) EXCEPT !.file = "IDEMPOTENCY_STORE" :> Word("oracle")],
     [With(e, "NODE_ENV" :> Word("test")) EXCEPT !.file = "IDEMPOTENCY_STORE" :> Word("oracle")]}

Clusters ==
    UNION {ByHand(store) :
           store \in UNION {Stores(Cluster(e, workers)) :
                            e \in {Minimal, Quiet}, workers \in {Blank, Numeral(1), Numeral(2)}}}

File(v) == {<<>>, v :> Word("key.pem"), v :> Word("missing.pem")}
Tls ==
    {With(e, "TLS_ENABLED" :> Word("true") @@ key @@ cert @@ ca) :
         e \in {Minimal, Cluster(Minimal, Numeral(1))},
         key \in File("TLS_KEY_FILE"), cert \in File("TLS_CERT_FILE"), ca \in File("TLS_CA_FILE")}

Forwards ==
    {With(e, "LEGACY_FORWARD_ENABLED" :> Word("true")
             @@ "LEGACY_TARGET_URL" :> target @@ "LEGACY_FORWARD_PREFIXES" :> prefixes) :
         e \in {Minimal, Cluster(Minimal, Numeral(1))}, target \in {Blank, Word("url"), Word("host")},
         prefixes \in {Blank, Words({}), Words({"/old"})}}

Others ==
    {With(e, "SCHEDULER_ENABLED" :> Word("true") @@ "SCHEDULER_TIMEZONE" :> zone) :
         e \in ByHand(Minimal) \cup ByHand(Quiet), zone \in {Blank, Word("UTC"), Word("Mars")}}
    \cup {With(Minimal, "THROTTLE_STORAGE" :> Word("redis") @@ "THROTTLE_REDIS_URL" :> url) :
              url \in {Blank, Word("redis")}}

MCEnvironments ==
    EachOption(Minimal, DOMAIN RootSchema, Edges)
    \cup Databases \cup Pings \cup Clusters \cup Tls \cup Forwards \cup Others
=============================================================================
