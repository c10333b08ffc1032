------------------------------- MODULE Readiness -------------------------------
(***************************************************************************)
(* Readiness and the balancer in front of the worker of ClusterShutdown:   *)
(* a monitor polls /health/ready and the balancer routes new requests to   *)
(* the worker until enough polls in a row have failed.                     *)
(*                                                                         *)
(*   ready()    src/interface/http/controllers/health.controller.ts        *)
(*   health()   src/infrastructure/database/connection/pool.manager.ts     *)
(*                                                                         *)
(* ready() reads the shutdown flag first and pings the sources afterwards: *)
(* an "ok" can leave after the shutdown has begun.  The monitor and the    *)
(* balancer are external, as docs/architecture/operations.md sizes the     *)
(* drain delay for them: one poll at a time, every IntervalMs, out of the  *)
(* pool after Threshold failures and back with the first success.          *)
(***************************************************************************)
EXTENDS ClusterShutdown

CONSTANTS
    IntervalMs,     \* between two polls
    Threshold,      \* failed polls in a row that take the worker out
    ReadyMs         \* how long a poll may take, of the worker or of the monitor

ASSUME MonitorAssumption ==
    /\ IntervalMs \in Nat \ {0}
    /\ Threshold \in Nat \ {0}
    /\ ReadyMs \in 0..IntervalMs

VARIABLES
    probe,      \* ready() has passed the flag and awaits the pings
    sincePoll,  \* time since the last poll was sent
    fails       \* failed polls in a row, up to Threshold

probes == <<probe, sincePoll, fails>>
readyVars == <<clusterVars, probes>>

isShuttingDown == stage # "serving"

\* The balancer sends new requests here.
Routed == fails < Threshold

Failed == IF fails < Threshold THEN fails + 1 ELSE fails

ReadyInit ==
    /\ ClusterInit
    /\ probe = FALSE
    /\ sincePoll = 0
    /\ fails = 0

\* ready() up to its await: SHUTTING_DOWN at once, or the pings are sent.
MutAsk ==
    /\ probe' = TRUE
    /\ UNCHANGED fails
Ask ==
    IF isShuttingDown
    THEN fails' = Failed /\ UNCHANGED probe
    ELSE probe' = TRUE /\ UNCHANGED fails

\* The next poll is due; a port that is closed fails it too.
Poll ==
    /\ ~probe
    /\ sincePoll = IntervalMs
    /\ sincePoll' = 0
    /\ IF Listening THEN Ask ELSE fails' = Failed /\ UNCHANGED probe
    /\ UNCHANGED clusterVars

\* ready() after its await: every implemented source answered, or NOT_READY.
Answer ==
    /\ probe
    /\ probe' = FALSE
    /\ fails' \in {0, Failed}
    /\ UNCHANGED sincePoll
    /\ UNCHANGED clusterVars

\* A new connection comes through the balancer.
ThroughBalancer ==
    (\E c \in Clients : sock[c] = "none" /\ sock'[c] = "busy") => Routed

\* Time passes up to the next answer or poll that is due.
ProbeTick ==
    /\ sincePoll < (IF probe THEN ReadyMs ELSE IntervalMs)
    /\ sincePoll' = sincePoll + 1
    /\ UNCHANGED <<probe, fails>>

\* Only the monitor measures time before the signal.
ServingTick == stage = "serving" /\ ProbeTick /\ UNCHANGED clusterVars

ShutdownTick == ClusterTick /\ ProbeTick

Serve == WorkerStep /\ ThroughBalancer /\ UNCHANGED probes

Stop == (SignalWorker \/ Release \/ WorkerExits \/ Kill) /\ UNCHANGED probes

ReadyNext ==
    \/ Serve
    \/ Stop
    \/ Poll
    \/ Answer
    \/ ServingTick
    \/ ShutdownTick

ReadySpec == ReadyInit /\ [][ReadyNext]_readyVars

\* A continuation of the worker's shutdown.
Continues(A) == WorkerStep /\ A /\ UNCHANGED probes

(***************************************************************************)
(* Timers fire and continuations run, in the primary, the worker and the   *)
(* monitor; nothing is assumed of clients, handlers and jobs.              *)
(***************************************************************************)
ReadyFairness ==
    /\ WF_readyVars(ShutdownTick)
    /\ WF_readyVars(Poll)
    /\ WF_readyVars(Answer)
    /\ WF_readyVars(Continues(StopListening))
    /\ WF_readyVars(Continues(CutConnections))
    /\ WF_readyVars(Continues(ServerClosed))
    /\ WF_readyVars(Continues(JobsDrained \/ JobsTimeout))
    /\ WF_readyVars(Continues(AppClosed))
    /\ WF_readyVars(Release /\ UNCHANGED probes)
    /\ WF_readyVars(WorkerExits /\ UNCHANGED probes)
    /\ WF_readyVars(Kill /\ UNCHANGED probes)

ReadyLiveSpec == ReadySpec /\ ReadyFairness

-----------------------------------------------------------------------------
(* Properties *)

\* "so a draining instance is taken out before it stops listening"
\* (operations.md:87): the balancer routes new requests only to an open port,
\* even when an "ok" overtakes the signal -- provided the drain delay exceeds
\* interval times threshold, as operations.md:222 asks.
RoutedIsListening == Routed => Listening
=============================================================================
