---------------------------- MODULE WorkerLifecycle ----------------------------
(***************************************************************************)
(* The shutdown of a process that serves: fail readiness, keep serving for *)
(* a while, close the server, cut what is still open, wait for the cron    *)
(* jobs, close the database pools.                                         *)
(*                                                                         *)
(*   runGracefulShutdown   src/infrastructure/lifecycle/graceful-shutdown.ts *)
(*   ShutdownState         src/infrastructure/lifecycle/shutdown-state.ts  *)
(*   JobScheduler          src/interface/scheduler/job-scheduler.ts        *)
(*   JobRunner             src/interface/scheduler/job-runner.ts           *)
(*                                                                         *)
(* A connection and the handler of its request are two things: the server  *)
(* knows of connections only, and a handler runs on when its client goes   *)
(* away or its connection is cut.                                          *)
(***************************************************************************)
EXTENDS Naturals

CONSTANTS
    Clients,        \* connections, each used again and again
    Jobs,           \* ScheduledJobsToken
    DrainDelayMs,   \* shutdown.drainDelayMs
    ForceAfterMs,   \* shutdown.forceAfterMs
    JobDrainMs,     \* shutdown.jobDrainMs
    PoolDrainMs     \* drainTimeSec of the slowest database source

\* The schema of shutdown.* and of drainTimeSec.
ASSUME LifecycleAssumption ==
    /\ DrainDelayMs \in Nat
    /\ ForceAfterMs \in Nat \ {0}
    /\ JobDrainMs \in Nat
    /\ PoolDrainMs \in Nat

VARIABLES
    stage,      \* where runGracefulShutdown() is
    timer,      \* how long it has been there
    elapsed,    \* how long ago the signal came
    sock,       \* sock[c]: the connection of client c
    handler,    \* handler[c]: the handler of c's request runs
    armed,      \* the cron jobs are started
    current,    \* current[j]: JobRunner.current is defined
    runs,       \* runs[j]: how many job.run() of j are going on
    awaited,    \* the runs stop() waits for
    forced,     \* the open connections were cut
    abandoned   \* stop() gave up waiting

jobs == <<armed, current, runs, awaited, abandoned>>
vars == <<stage, timer, elapsed, sock, handler, armed, current, runs,
          awaited, forced, abandoned>>

Budget == DrainDelayMs + ForceAfterMs + JobDrainMs + PoolDrainMs

\* Types of the state.
TypeOK ==
    /\ stage \in {"serving", "delaying", "draining", "drainingJobs", "closing", "finished"}
    /\ timer \in 0..Budget
    /\ elapsed \in 0..Budget
    /\ sock \in [Clients -> {"none", "idle", "busy"}]
    /\ handler \in [Clients -> BOOLEAN]
    /\ armed \in BOOLEAN
    /\ current \in [Jobs -> BOOLEAN]
    /\ runs \in [Jobs -> 0..1]
    /\ awaited \subseteq Jobs
    /\ forced \in BOOLEAN
    /\ abandoned \in BOOLEAN

\* The scheduler starts its jobs at boot if it is enabled and, in a cluster,
\* this worker is the leader.
Init ==
    /\ stage = "serving"
    /\ timer = 0
    /\ elapsed = 0
    /\ sock = [c \in Clients |-> "none"]
    /\ handler = [c \in Clients |-> FALSE]
    /\ armed \in BOOLEAN
    /\ current = [j \in Jobs |-> FALSE]
    /\ runs = [j \in Jobs |-> 0]
    /\ awaited = {}
    /\ forced = FALSE
    /\ abandoned = FALSE

-----------------------------------------------------------------------------
(* Clients and handlers *)

Listening == stage \in {"serving", "delaying"}

\* A client sends a request, on a new connection or on one kept alive.
Request(c) ==
    /\ ~handler[c]
    /\ sock[c] = "idle" \/ (sock[c] = "none" /\ Listening)
    /\ sock' = [sock EXCEPT ![c] = "busy"]
    /\ handler' = [handler EXCEPT ![c] = TRUE]
    /\ UNCHANGED <<stage, timer, elapsed, forced>>
    /\ UNCHANGED jobs

\* The handler is done; the connection is kept alive or closed.
Respond(c) ==
    /\ handler[c]
    /\ handler' = [handler EXCEPT ![c] = FALSE]
    /\ IF sock[c] = "busy"
       THEN \E s \in {"idle", "none"} : sock' = [sock EXCEPT ![c] = s]
       ELSE UNCHANGED sock
    /\ UNCHANGED <<stage, timer, elapsed, forced>>
    /\ UNCHANGED jobs

\* The client goes away, or its idle connection times out.
Disconnect(c) ==
    /\ sock[c] # "none"
    /\ sock' = [sock EXCEPT ![c] = "none"]
    /\ UNCHANGED <<stage, timer, elapsed, handler, forced>>
    /\ UNCHANGED jobs

-----------------------------------------------------------------------------
(* Jobs *)

\* run() refuses while the previous run is in flight.
MutMayRun(j) == TRUE
MayRun(j) == ~current[j]

\* A cron job fires: JobRunner.run().  A run that is refused changes nothing.
CronTick(j) ==
    /\ armed
    /\ MayRun(j)
    /\ current' = [current EXCEPT ![j] = TRUE]
    /\ runs' = [runs EXCEPT ![j] = @ + 1]
    /\ UNCHANGED <<stage, timer, elapsed, sock, handler, armed, awaited, forced, abandoned>>

\* execute() settles, whether the job succeeded or failed.
JobEnds(j) ==
    /\ runs[j] > 0
    /\ runs' = [runs EXCEPT ![j] = @ - 1]
    /\ current' = [current EXCEPT ![j] = FALSE]
    /\ UNCHANGED <<stage, timer, elapsed, sock, handler, armed, awaited, forced, abandoned>>

-----------------------------------------------------------------------------
(* runGracefulShutdown *)

\* The next stage begins.
Enter(s) == stage' = s /\ timer' = 0 /\ UNCHANGED elapsed

\* The first signal; begin() refuses a later one.
Signal ==
    /\ stage = "serving"
    /\ Enter("delaying")
    /\ UNCHANGED <<sock, handler, forced>>
    /\ UNCHANGED jobs

\* The drain delay is over: idle connections are closed and the server stops
\* accepting.
StopListening ==
    /\ stage = "delaying"
    /\ timer >= DrainDelayMs
    /\ Enter("draining")
    /\ sock' = [c \in Clients |-> IF sock[c] = "idle" THEN "none" ELSE sock[c]]
    /\ UNCHANGED <<handler, forced>>
    /\ UNCHANGED jobs

\* The force timer: closeAllConnections().
CutConnections ==
    /\ stage = "draining"
    /\ timer >= ForceAfterMs
    /\ ~forced
    /\ sock' = [c \in Clients |-> "none"]
    /\ forced' = TRUE
    /\ UNCHANGED <<stage, timer, elapsed, handler>>
    /\ UNCHANGED jobs

Idle(set) == \A j \in set : ~current[j]

\* The server has closed: JobScheduler.stop() notes who is running, stops
\* the cron jobs and waits if somebody is.
MutServerClosed ==
    /\ stage = "draining"
    /\ \A c \in Clients : sock[c] = "none"
    /\ awaited' = {j \in Jobs : current[j]}
    /\ Enter(IF Idle(Jobs) THEN "closing" ELSE "drainingJobs")
    /\ UNCHANGED <<sock, handler, armed, current, runs, forced, abandoned>>
ServerClosed ==
    /\ stage = "draining"
    /\ \A c \in Clients : sock[c] = "none"
    /\ awaited' = {j \in Jobs : current[j]}
    /\ armed' = FALSE
    /\ Enter(IF Idle(Jobs) THEN "closing" ELSE "drainingJobs")
    /\ UNCHANGED <<sock, handler, current, runs, forced, abandoned>>

\* Every run that was noted is over.
JobsDrained ==
    /\ stage = "drainingJobs"
    /\ Idle(awaited)
    /\ Enter("closing")
    /\ UNCHANGED <<sock, handler, forced>>
    /\ UNCHANGED jobs

\* withTimeout() rejects: stop() returns with jobs still running.
JobsTimeout ==
    /\ stage = "drainingJobs"
    /\ timer >= JobDrainMs
    /\ abandoned' = TRUE
    /\ Enter("closing")
    /\ UNCHANGED <<sock, handler, armed, current, runs, awaited, forced>>

\* app.close() returns: the pools are closed, whether or not their
\* connections came back in time.
AppClosed ==
    /\ stage = "closing"
    /\ Enter("finished")
    /\ UNCHANGED <<sock, handler, forced>>
    /\ UNCHANGED jobs

\* How long a stage may last.
Limit ==
    [delaying     |-> DrainDelayMs,
     draining     |-> ForceAfterMs,
     drainingJobs |-> JobDrainMs,
     closing      |-> PoolDrainMs]

\* A handler or a job is still at work, and may hold a database connection.
Busy == (\E c \in Clients : handler[c]) \/ (\E j \in Jobs : runs[j] > 0)

\* Time passes, but not past the end of a stage; closing the pools takes
\* time only as long as a connection may be in use.
Tick ==
    /\ stage \in DOMAIN Limit
    /\ timer < Limit[stage]
    /\ stage = "closing" => Busy
    /\ timer' = timer + 1
    /\ elapsed' = elapsed + 1
    /\ UNCHANGED <<stage, sock, handler, forced>>
    /\ UNCHANGED jobs

Work ==
    \/ \E c \in Clients : Request(c) \/ Respond(c) \/ Disconnect(c)
    \/ \E j \in Jobs : CronTick(j) \/ JobEnds(j)

Steps ==
    \/ StopListening
    \/ CutConnections
    \/ ServerClosed
    \/ JobsDrained
    \/ JobsTimeout
    \/ AppClosed

Next == Work \/ Signal \/ Steps \/ Tick

Spec == Init /\ [][Next]_vars

-----------------------------------------------------------------------------
(* Properties *)

\* "skips a run while the previous one is still going": one run of a job at a
\* time, also while the scheduler is being stopped.
OneRunPerJob == \A j \in Jobs : runs[j] = (IF current[j] THEN 1 ELSE 0)

\* "it still needs the database pools the next step closes": once the pools are being closed a job
\* runs only if stop() waited its whole time for it.
PoolsOutliveJobs ==
    stage \in {"closing", "finished"} =>
        \A j \in Jobs : runs[j] > 0 => abandoned /\ j \in awaited

\* "In-flight requests get this long before their connections are cut": the
\* cut comes no earlier than the drain delay and the force delay together,
\* counted from the signal.
GraceBeforeCut == forced => elapsed >= DrainDelayMs + ForceAfterMs

\* "close the application (database pools) once nothing is being served":
\* unless connections were cut, no handler runs when the pools close.
\* The code does not keep this: README, departure 5.
PoolsOutliveHandlers ==
    stage \in {"closing", "finished"} /\ ~forced => \A c \in Clients : ~handler[c]
=============================================================================
