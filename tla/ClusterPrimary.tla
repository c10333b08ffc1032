---------------------------- MODULE ClusterPrimary ----------------------------
(***************************************************************************)
(* The primary process of cluster mode: it forks the workers, marks one of *)
(* them as the scheduler's leader, forks a replacement for a worker that   *)
(* exits (at most RespawnMax of them per rolling window) and, on a signal, *)
(* takes the pool down within a bounded wait.                              *)
(*                                                                         *)
(*   startPrimary      src/infrastructure/cluster/cluster-primary.ts       *)
(*                                                                         *)
(* A worker is a process of its own: it dies when it likes, and the        *)
(* primary learns of it later, from the `exit` event, so that `live` (the  *)
(* primary's map) and `alive` (the processes) differ in between.           *)
(***************************************************************************)
EXTENDS Integers, Sequences

CONSTANTS
    WorkerCount,    \* resolveWorkerCount(cluster.workers, cpus)
    RespawnMax,     \* cluster.respawnMaxPerMinute
    Window,         \* RESPAWN_WINDOW_MS
    WaitMs,         \* drainDelayMs + forceAfterMs + jobDrainMs + SHUTDOWN_SLACK_MS
    MaxDeaths,      \* bound: workers that die before the shutdown
    MaxTime         \* bound: how long the cluster runs before the shutdown

\* resolveWorkerCount never answers 0 and the schema asks for a positive cap;
\* the waits are durations.
ASSUME ClusterAssumption ==
    /\ WorkerCount \in Nat \ {0}
    /\ RespawnMax \in Nat \ {0}
    /\ Window \in Nat
    /\ WaitMs \in Nat
    /\ MaxDeaths \in Nat
    /\ MaxTime \in Nat

\* leaderId = undefined
NoLeader == 0

VARIABLES
    respawn,            \* cluster.respawn, fixed at boot
    lastId,             \* worker ids are 1, 2, ...: the id of the last fork
    alive,              \* the worker processes that run
    flag,               \* flag[w]: w was forked with CLUSTER_LEADER=true
    live,               \* liveWorkers
    leaderId,
    respawnTimestamps,
    phase,              \* how far shutdown() is
    waited,             \* how long it has been waiting for the workers
    now,
    deaths,             \* workers that died before the shutdown
    log                 \* history: the time of every respawn

pool == <<lastId, alive, flag, live, leaderId>>
vars == <<respawn, lastId, alive, flag, live, leaderId, respawnTimestamps,
          phase, waited, now, deaths, log>>

\* Types of the state.
TypeOK ==
    /\ respawn \in BOOLEAN
    /\ lastId \in Nat
    /\ alive \subseteq live
    /\ live \subseteq 1..lastId
    /\ flag \in [1..lastId -> BOOLEAN]
    /\ leaderId \in 0..lastId
    /\ respawnTimestamps \in Seq(0..MaxTime)
    /\ phase \in {"serving", "waiting", "closing", "exited"}
    /\ waited \in 0..WaitMs
    /\ now \in 0..MaxTime
    /\ deaths \in 0..MaxDeaths
    /\ log \in Seq(0..MaxTime)

\* The pool as the loop of startPrimary() forks it: the first worker leads.
Init ==
    /\ respawn \in BOOLEAN
    /\ lastId = WorkerCount
    /\ alive = 1..WorkerCount
    /\ flag = [w \in 1..WorkerCount |-> w = 1]
    /\ live = 1..WorkerCount
    /\ leaderId = 1
    /\ respawnTimestamps = <<>>
    /\ phase = "serving"
    /\ waited = 0
    /\ now = 0
    /\ deaths = 0
    /\ log = <<>>

shuttingDown == phase # "serving"

-----------------------------------------------------------------------------
(* onExit *)

\* The exit event of w is being delivered.
ExitOf(w) == w \in live \ alive /\ phase # "exited"

\* Is it the leader that has exited?
MutWasLeaderFirst(w) == \A v \in live : w <= v
wasLeader(w) == w = leaderId

\* No shutdown has begun and respawn is on.
MayRespawn == ~shuttingDown /\ respawn

\* liveWorkers.delete(), with no fork after it
Remove(w) ==
    /\ live' = live \ {w}
    /\ UNCHANGED <<lastId, alive, flag>>

\* liveWorkers.delete(), then forkWorker(isLeader)
MutReplace(w, isLeader) ==
    LET id == lastId + 1 IN
    /\ lastId' = id
    /\ alive' = alive \cup {id}
    /\ flag' = [v \in 1..id |-> IF v = id THEN isLeader ELSE flag[v]]
    /\ live' = live \ {w}
    /\ leaderId' = IF isLeader THEN id ELSE leaderId
Replace(w, isLeader) ==
    LET id == lastId + 1 IN
    /\ lastId' = id
    /\ alive' = alive \cup {id}
    /\ flag' = [v \in 1..id |-> IF v = id THEN isLeader ELSE flag[v]]
    /\ live' = (live \ {w}) \cup {id}
    /\ leaderId' = IF isLeader THEN id ELSE leaderId

\* leaderId, once a leader that will not be replaced has exited
Forget(w) == IF wasLeader(w) THEN NoLeader ELSE leaderId

\* The loop that shifts what is older than the window drops the first n.
MutShifts(n) == n = Len(respawnTimestamps)
Shifts(n) ==
    LET windowStart == now - Window IN
    /\ \A i \in 1..n : respawnTimestamps[i] < windowStart
    /\ n < Len(respawnTimestamps) => respawnTimestamps[n + 1] >= windowStart

Kept(n) == SubSeq(respawnTimestamps, n + 1, Len(respawnTimestamps))

\* Once the shutdown has begun the exit is only counted.
ExitInShutdown(w) ==
    /\ ExitOf(w)
    /\ shuttingDown
    /\ Remove(w)
    /\ UNCHANGED <<leaderId, respawn, respawnTimestamps, phase, waited, now, deaths, log>>

\* Respawn is off.
ExitNotReplaced(w) ==
    /\ ExitOf(w)
    /\ ~shuttingDown /\ ~respawn
    /\ Remove(w)
    /\ leaderId' = Forget(w)
    /\ UNCHANGED <<respawn, respawnTimestamps, phase, waited, now, deaths, log>>

\* The cap of the window is reached.
ExitRateLimited(w) ==
    /\ ExitOf(w)
    /\ MayRespawn
    /\ \E n \in 0..Len(respawnTimestamps) :
          /\ Shifts(n)
          /\ Len(Kept(n)) >= RespawnMax
          /\ respawnTimestamps' = Kept(n)
    /\ Remove(w)
    /\ leaderId' = Forget(w)
    /\ UNCHANGED <<respawn, phase, waited, now, deaths, log>>

\* A replacement is forked; it inherits the leadership.
ExitReplaced(w) ==
    /\ ExitOf(w)
    /\ MayRespawn
    /\ \E n \in 0..Len(respawnTimestamps) :
          /\ Shifts(n)
          /\ Len(Kept(n)) < RespawnMax
          /\ respawnTimestamps' = Append(Kept(n), now)
    /\ Replace(w, wasLeader(w))
    /\ log' = Append(log, now)
    /\ UNCHANGED <<respawn, phase, waited, now, deaths>>

-----------------------------------------------------------------------------
(* Workers *)

\* A worker process ends, by a crash or because it was told to.
WorkerDies(w) ==
    /\ w \in alive
    /\ IF shuttingDown THEN UNCHANGED deaths
       ELSE deaths < MaxDeaths /\ deaths' = deaths + 1
    /\ alive' = alive \ {w}
    /\ UNCHANGED <<respawn, lastId, flag, live, leaderId, respawnTimestamps,
                   phase, waited, now, log>>

-----------------------------------------------------------------------------
(* shutdown *)

\* The first SIGTERM or SIGINT: every worker is signalled and the wait
\* begins.  A later one returns at once.
Shutdown ==
    /\ ~shuttingDown
    /\ phase' = "waiting"
    /\ UNCHANGED pool
    /\ UNCHANGED <<respawn, respawnTimestamps, waited, now, deaths, log>>

\* The race is won by `drained`: liveWorkers is empty.
Drained ==
    /\ phase = "waiting"
    /\ live = {}
    /\ phase' = "closing"
    /\ UNCHANGED pool
    /\ UNCHANGED <<respawn, respawnTimestamps, waited, now, deaths, log>>

\* The race is won by the delay: whoever is left gets a SIGKILL.
MutTimeout == FALSE
Timeout ==
    /\ phase = "waiting"
    /\ waited = WaitMs
    /\ alive' = alive \ live
    /\ phase' = "closing"
    /\ UNCHANGED <<lastId, flag, live, leaderId>>
    /\ UNCHANGED <<respawn, respawnTimestamps, waited, now, deaths, log>>

\* The metrics server has closed: process.exit(0).
Exit ==
    /\ phase = "closing"
    /\ phase' = "exited"
    /\ UNCHANGED pool
    /\ UNCHANGED <<respawn, respawnTimestamps, waited, now, deaths, log>>

-----------------------------------------------------------------------------

\* Time passes.  Once the shutdown has begun only its own wait is looked at.
Tick ==
    /\ \/ /\ ~shuttingDown /\ now < MaxTime
          /\ now' = now + 1
          /\ UNCHANGED waited
       \/ /\ phase = "waiting" /\ waited < WaitMs
          /\ waited' = waited + 1
          /\ UNCHANGED now
    /\ UNCHANGED pool
    /\ UNCHANGED <<respawn, respawnTimestamps, phase, deaths, log>>

Next ==
    \/ \E w \in 1..lastId :
          \/ WorkerDies(w)
          \/ ExitInShutdown(w)
          \/ ExitNotReplaced(w)
          \/ ExitRateLimited(w)
          \/ ExitReplaced(w)
    \/ Shutdown
    \/ Drained
    \/ Timeout
    \/ Exit
    \/ Tick

Spec == Init /\ [][Next]_vars

(***************************************************************************)
(* Once shutdown() runs, its timer fires and its continuations run.        *)
(* Nothing is assumed of the workers: one may ignore the signal for ever.  *)
(***************************************************************************)
Fairness == WF_vars(Tick) /\ WF_vars(Drained) /\ WF_vars(Timeout) /\ WF_vars(Exit)

LiveSpec == Spec /\ Fairness

-----------------------------------------------------------------------------
(* Properties *)

\* Two processes never both believe they are the scheduler's leader, through
\* any sequence of crashes, late exit events and respawns: N workers never
\* each run every job.
OneLeaderProcess == \A v, w \in alive : flag[v] /\ flag[w] => v = w

\* The primary knows the leader: of the workers it believes to be live, the
\* one with CLUSTER_LEADER=true is leaderId, so that an exit is recognised as
\* the leader's and its replacement inherits the flag.
LeaderKnown ==
    /\ \A w \in live : flag[w] <=> w = leaderId
    /\ ~shuttingDown => leaderId \in live \cup {NoLeader}

\* "Ceiling on respawns per rolling minute": any RespawnMax + 1 respawns in a
\* row take longer than the window.
RespawnCap ==
    \A i \in DOMAIN log :
        i + RespawnMax \in DOMAIN log => log[i + RespawnMax] - log[i] > Window

\* When the primary exits no worker process is left behind.
NoOrphans == phase = "exited" => alive = {}

\* "keeps exactly one worker marked as the scheduler leader, respawns workers
\* that exit unexpectedly": after a respawn the pool has its leader.
RespawnedPoolHasLeader == [][log' # log => leaderId' \in live']_vars

\* A shutdown that has begun ends, whatever the workers do.
ShutdownEnds == shuttingDown ~> phase = "exited"
=============================================================================
