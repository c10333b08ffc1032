---------------------------- MODULE ClusterShutdown ----------------------------
(***************************************************************************)
(* A clustered shutdown: the primary of ClusterPrimary, reduced to its     *)
(* bounded wait, and one of its workers, which runs WorkerLifecycle and    *)
(* closes its channel to the primary when it has finished.                 *)
(*                                                                         *)
(*   shutdown()             src/infrastructure/cluster/cluster-primary.ts  *)
(*   releaseWorkerChannel   src/infrastructure/cluster/release-worker-channel.util.ts *)
(*   installShutdownHandlers src/main.ts                                   *)
(*                                                                         *)
(* The two clocks advance together, and a step that is due is taken before *)
(* time goes on.                                                           *)
(***************************************************************************)
EXTENDS WorkerLifecycle

CONSTANT SlackMs    \* SHUTDOWN_SLACK_MS

ASSUME SlackAssumption == SlackMs \in Nat \ {0}

VARIABLES
    waiting,    \* the primary waits for the worker
    waited,     \* for how long
    process,    \* the worker's process
    connected   \* its IPC channel is open

clusterVars == <<vars, waiting, waited, process, connected>>

\* waitMs of shutdown()
MutWaitMs == DrainDelayMs + ForceAfterMs + JobDrainMs
WaitMs == DrainDelayMs + ForceAfterMs + JobDrainMs + SlackMs

ClusterInit ==
    /\ Init
    /\ waiting = FALSE
    /\ waited = 0
    /\ process = "up"
    /\ connected = TRUE

\* The worker serves and, once signalled, shuts down.
WorkerStep ==
    /\ process = "up"
    /\ Work \/ Steps
    /\ UNCHANGED <<waiting, waited, process, connected>>

\* The primary is told to stop: it signals the worker and starts to wait.
SignalWorker ==
    /\ Signal
    /\ waiting' = TRUE
    /\ UNCHANGED <<waited, process, connected>>

\* runGracefulShutdown() resolved: the channel is closed.
Release ==
    /\ process = "up"
    /\ stage = "finished"
    /\ connected
    /\ connected' = FALSE
    /\ UNCHANGED <<vars, waiting, waited, process>>

\* No handler or job keeps the event loop alive: the process ends by itself
\* and the primary's wait is over.
WorkerExits ==
    /\ process = "up"
    /\ stage = "finished"
    /\ ~connected /\ ~Busy
    /\ process' = "gone"
    /\ waiting' = FALSE
    /\ UNCHANGED <<vars, waited, connected>>

\* The worker is about to go by itself.
Leaving == process = "up" /\ stage = "finished" /\ (connected \/ ~Busy)

\* The wait is over and the worker is still there: SIGKILL.
MutKill == waiting /\ waited = WaitMs /\ waiting' = FALSE /\ ~Leaving
           /\ UNCHANGED <<vars, waited, process, connected>>
Kill ==
    /\ waiting
    /\ waited = WaitMs
    /\ ~Leaving
    /\ process' = "killed"
    /\ waiting' = FALSE
    /\ UNCHANGED <<vars, waited, connected>>

\* Time passes for both.
ClusterTick ==
    /\ waiting
    /\ waited < WaitMs
    /\ waited' = waited + 1
    /\ \/ Tick
       \/ stage = "finished" /\ ~Leaving /\ UNCHANGED vars
    /\ UNCHANGED <<waiting, process, connected>>

ClusterNext ==
    \/ WorkerStep
    \/ SignalWorker
    \/ Release
    \/ WorkerExits
    \/ Kill
    \/ ClusterTick

ClusterSpec == ClusterInit /\ [][ClusterNext]_clusterVars

-----------------------------------------------------------------------------
(* Properties *)

\* "Extra time past the drain/force/job-drain budget before a still-open worker
\* gets SIGKILLed" (cluster-primary.ts:9): a SIGKILL hits only a worker that
\* has finished its own shutdown and is kept alive by a handler or a job that
\* hangs, or one whose pools have not closed for the whole of the slack.  No
\* worker is killed in its drain delay, over its connections or over its jobs.
KilledOnlyIfStuck ==
    process = "killed" =>
        \/ stage = "finished" /\ Busy
        \/ stage = "closing" /\ timer >= SlackMs

\* What operations.md:203 says of cluster.drain.timeout: it "means a worker
\* really is stuck, not that shutdown is working normally".  A worker that is
\* within the limit of its stage, the drain of its pools included, is not killed.
\* The code does not keep this: README, departure 6.
InTimeIsSpared ==
    process = "killed" => stage = "finished" \/ timer >= Limit[stage]

\* A shutdown ends for the cluster too: the worker leaves by itself or is killed.
WorkerIsGone == stage = "delaying" ~> process # "up"
=============================================================================
