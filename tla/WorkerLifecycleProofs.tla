------------------------- MODULE WorkerLifecycleProofs -------------------------
(***************************************************************************)
(* Proofs about WorkerLifecycle, for any connections, jobs and delays:     *)
(* jobs never overlap, the pools outlive the jobs unless the wait for them *)
(* is over, and connections are cut after their grace and no earlier.      *)
(* They outlive the handlers, too, whose clients wait (departure 5).       *)
(*                                                                         *)
(* A worker of ClusterShutdown is such a worker, so all of this holds in a *)
(* cluster too, and there the primary kills none before its pools.         *)
(***************************************************************************)
EXTENDS Readiness, TLAPS

\* How long ago the signal came, stage by stage.
Clock ==
    /\ stage = "serving" => timer = 0 /\ elapsed = 0
    /\ stage = "delaying" => timer <= DrainDelayMs /\ elapsed = timer
    /\ stage = "draining" => timer <= ForceAfterMs /\ elapsed = DrainDelayMs + timer
    /\ stage = "drainingJobs" =>
          timer <= JobDrainMs /\ elapsed <= DrainDelayMs + ForceAfterMs + timer
    /\ stage = "closing" =>
          timer <= PoolDrainMs /\ elapsed <= DrainDelayMs + ForceAfterMs + JobDrainMs + timer
    /\ stage = "finished" => timer = 0
    /\ elapsed <= Budget

\* The types, without the bounds of the clocks, which Clock gives.
Typed ==
    /\ stage \in {"serving", "delaying", "draining", "drainingJobs", "closing", "finished"}
    /\ timer \in Nat
    /\ elapsed \in Nat
    /\ sock \in [Clients -> {"none", "idle", "busy"}]
    /\ handler \in [Clients -> BOOLEAN]
    /\ armed \in BOOLEAN
    /\ current \in [Jobs -> BOOLEAN]
    /\ runs \in [Jobs -> 0..1]
    /\ awaited \subseteq Jobs
    /\ forced \in BOOLEAN
    /\ abandoned \in BOOLEAN

Stopped == stage \in {"drainingJobs", "closing", "finished"}

\* Once the scheduler is stopped no job starts, and whoever still runs is one
\* of those stop() waits for.
Draining ==
    /\ Stopped => ~armed /\ \A j \in Jobs : current[j] => j \in awaited
    /\ stage \in {"closing", "finished"} => abandoned \/ \A j \in Jobs : ~current[j]

IInv == Typed /\ Clock /\ OneRunPerJob /\ Draining /\ GraceBeforeCut

-----------------------------------------------------------------------------

\* The sum of the waits is a duration too.
LEMMA BudgetIs ==
    /\ Budget = DrainDelayMs + ForceAfterMs + JobDrainMs + PoolDrainMs
    /\ Budget \in Nat
BY LifecycleAssumption DEF Budget

\* A process that starts to serve satisfies the invariant.
LEMMA InvInit == Init => IInv
<1> SUFFICES ASSUME Init PROVE IInv
  OBVIOUS
<1>1. Typed
  <2>1. 0 \in 0..1 /\ 0 \in Nat
    OBVIOUS
  <2>2. runs \in [Jobs -> 0..1]
    BY <2>1 DEF Init
  <2>3. QED
    BY <2>1, <2>2 DEF Init, Typed
<1>2. Clock
  BY BudgetIs DEF Init, Clock
<1>3. OneRunPerJob /\ Draining /\ GraceBeforeCut
  BY DEF Init, OneRunPerJob, Draining, Stopped, GraceBeforeCut
<1>4. QED
  BY <1>1, <1>2, <1>3 DEF IInv

\* The work of clients, handlers and jobs keeps the invariant.
LEMMA WorkKeeps == IInv /\ Work => IInv'
<1> SUFFICES ASSUME IInv, Work PROVE IInv'
  OBVIOUS
<1>1. stage' = stage /\ timer' = timer /\ elapsed' = elapsed /\ forced' = forced
  BY DEF Work, Request, Respond, Disconnect, CronTick, JobEnds
<1>2. Clock' /\ GraceBeforeCut'
  BY <1>1 DEF IInv, Clock, GraceBeforeCut, Budget
<1>3. ASSUME NEW c \in Clients, Request(c) \/ Respond(c) \/ Disconnect(c)
      PROVE  Typed' /\ OneRunPerJob' /\ Draining'
  <2>1. UNCHANGED <<stage, jobs>>
    BY <1>3 DEF Request, Respond, Disconnect
  <2>2. sock' \in [Clients -> {"none", "idle", "busy"}] /\ handler' \in [Clients -> BOOLEAN]
    BY <1>3 DEF IInv, Typed, Request, Respond, Disconnect
  <2>3. QED
    BY <1>1, <2>1, <2>2 DEF IInv, Typed, jobs, OneRunPerJob, Draining, Stopped
<1>4. ASSUME NEW j \in Jobs, CronTick(j) PROVE Typed' /\ OneRunPerJob' /\ Draining'
  <2>1. ~current[j] /\ runs[j] = 0 /\ ~Stopped
    BY <1>4 DEF CronTick, MayRun, IInv, OneRunPerJob, Draining
  <2>2. runs' = [runs EXCEPT ![j] = 1] /\ current' = [current EXCEPT ![j] = TRUE]
    BY <1>4, <2>1 DEF CronTick
  <2>3. Typed'
    BY <1>4, <2>2 DEF CronTick, IInv, Typed
  <2>4. OneRunPerJob'
    BY <2>2 DEF IInv, Typed, OneRunPerJob
  <2>5. Draining'
    BY <1>1, <2>1 DEF Draining, Stopped
  <2>6. QED
    BY <2>3, <2>4, <2>5
<1>5. ASSUME NEW j \in Jobs, JobEnds(j) PROVE Typed' /\ OneRunPerJob' /\ Draining'
  <2>1. runs[j] = 1
    BY <1>5 DEF JobEnds, IInv, Typed
  <2>2. runs' = [runs EXCEPT ![j] = 0] /\ current' = [current EXCEPT ![j] = FALSE]
    BY <1>5, <2>1 DEF JobEnds
  <2>3. Typed'
    BY <1>5, <2>2 DEF JobEnds, IInv, Typed
  <2>4. OneRunPerJob'
    BY <2>2 DEF IInv, Typed, OneRunPerJob
  <2>5. Draining'
    BY <1>5, <2>2 DEF JobEnds, IInv, Typed, Draining, Stopped
  <2>6. QED
    BY <2>3, <2>4, <2>5
<1>6. QED
  BY <1>2, <1>3, <1>4, <1>5 DEF Work, IInv

\* The steps of the shutdown and the passing of time keep the invariant.
LEMMA ShutdownKeeps == IInv /\ (Signal \/ Steps \/ Tick) => IInv'
<1> SUFFICES ASSUME IInv, Signal \/ Steps \/ Tick PROVE IInv'
  OBVIOUS
<1> USE LifecycleAssumption
<1>1. CASE Signal
  <2>1. Typed' /\ OneRunPerJob' /\ Draining'
    BY <1>1 DEF Signal, Enter, jobs, IInv, Typed, OneRunPerJob, Draining, Stopped
  <2>2. Clock' /\ GraceBeforeCut'
    BY <1>1, BudgetIs DEF Signal, Enter, IInv, Typed, Clock, GraceBeforeCut
  <2>3. QED
    BY <2>1, <2>2 DEF IInv
<1>2. CASE StopListening
  <2>1. sock' \in [Clients -> {"none", "idle", "busy"}]
    BY <1>2 DEF StopListening, IInv, Typed
  <2>2. Typed' /\ OneRunPerJob' /\ Draining'
    BY <1>2, <2>1 DEF StopListening, Enter, jobs, IInv, Typed, OneRunPerJob, Draining, Stopped
  <2>3. Clock' /\ GraceBeforeCut'
    BY <1>2, BudgetIs DEF StopListening, Enter, IInv, Typed, Clock, GraceBeforeCut
  <2>4. QED
    BY <2>2, <2>3 DEF IInv
<1>3. CASE CutConnections
  <2>1. UNCHANGED <<stage, timer, elapsed, handler, armed, current, runs, awaited, abandoned>>
    BY <1>3 DEF CutConnections, jobs
  <2>2. sock' \in [Clients -> {"none", "idle", "busy"}]
    BY <1>3 DEF CutConnections
  <2>3. forced' \in BOOLEAN
    BY <1>3 DEF CutConnections
  <2>4. Typed' /\ OneRunPerJob' /\ Draining'
    BY <2>1, <2>2, <2>3 DEF IInv, Typed, OneRunPerJob, Draining, Stopped
  <2>5. elapsed >= DrainDelayMs + ForceAfterMs
    BY <1>3 DEF CutConnections, IInv, Typed, Clock
  <2>6. Clock' /\ GraceBeforeCut'
    BY <2>1, <2>5 DEF IInv, Clock, GraceBeforeCut, Budget
  <2>7. QED
    BY <2>4, <2>6 DEF IInv
<1>4. CASE ServerClosed
  <2>1. Typed' /\ OneRunPerJob'
    BY <1>4 DEF ServerClosed, Enter, IInv, Typed, OneRunPerJob
  <2>2. Draining'
    BY <1>4 DEF ServerClosed, Enter, Idle, IInv, Typed, Draining, Stopped
  <2>3. Clock' /\ GraceBeforeCut'
    BY <1>4, BudgetIs DEF ServerClosed, Enter, IInv, Typed, Clock, GraceBeforeCut
  <2>4. QED
    BY <2>1, <2>2, <2>3 DEF IInv
<1>5. CASE JobsDrained \/ JobsTimeout
  <2>1. /\ stage = "drainingJobs" /\ stage' = "closing" /\ timer' = 0
        /\ UNCHANGED <<elapsed, sock, handler, armed, current, runs, awaited, forced>>
    BY <1>5 DEF JobsDrained, JobsTimeout, Enter, jobs
  <2>2. abandoned' \in BOOLEAN
    BY <1>5 DEF JobsDrained, JobsTimeout, jobs, IInv, Typed
  <2>3. Typed' /\ OneRunPerJob'
    BY <2>1, <2>2 DEF IInv, Typed, OneRunPerJob
  <2>4. abandoned' \/ \A j \in Jobs : ~current'[j]
    BY <1>5 DEF JobsDrained, JobsTimeout, Idle, jobs, IInv, Draining, Stopped
  <2>5. Draining'
    BY <2>1, <2>4 DEF IInv, Draining, Stopped
  <2>6. Clock' /\ GraceBeforeCut'
    BY <2>1, BudgetIs DEF IInv, Typed, Clock, GraceBeforeCut
  <2>7. QED
    BY <2>3, <2>5, <2>6 DEF IInv
<1>6. CASE AppClosed
  <2>1. Typed' /\ OneRunPerJob' /\ Draining'
    BY <1>6 DEF AppClosed, Enter, jobs, IInv, Typed, OneRunPerJob, Draining, Stopped
  <2>2. Clock' /\ GraceBeforeCut'
    BY <1>6, BudgetIs DEF AppClosed, Enter, IInv, Typed, Clock, GraceBeforeCut
  <2>3. QED
    BY <2>1, <2>2 DEF IInv
<1>7. CASE Tick
  <2>1. Typed' /\ OneRunPerJob' /\ Draining'
    BY <1>7 DEF Tick, jobs, IInv, Typed, OneRunPerJob, Draining, Stopped
  <2>2. /\ stage = "delaying" => timer < DrainDelayMs
        /\ stage = "draining" => timer < ForceAfterMs
        /\ stage = "drainingJobs" => timer < JobDrainMs
        /\ stage = "closing" => timer < PoolDrainMs
        /\ stage \in {"delaying", "draining", "drainingJobs", "closing"}
    BY <1>7 DEF Tick, Limit
  <2>3. stage' = stage /\ timer' = timer + 1 /\ elapsed' = elapsed + 1 /\ forced' = forced
    BY <1>7 DEF Tick
  <2>4. Clock' /\ GraceBeforeCut'
    BY <2>2, <2>3, BudgetIs DEF IInv, Typed, Clock, GraceBeforeCut
  <2>5. QED
    BY <2>1, <2>4 DEF IInv
<1>8. QED
  BY <1>1, <1>2, <1>3, <1>4, <1>5, <1>6, <1>7 DEF Steps

\* The invariant holds in every reachable state.
LEMMA Invariant == Spec => []IInv
<1>1. IInv /\ UNCHANGED vars => IInv'
  BY DEF vars, IInv, Typed, Clock, OneRunPerJob, Draining, Stopped, GraceBeforeCut, Budget
<1>2. IInv /\ [Next]_vars => IInv'
  BY <1>1, WorkKeeps, ShutdownKeeps DEF Next
<1>3. QED
  BY <1>2, InvInit, PTL DEF Spec

\* The types hold; in particular a shutdown takes at most the sum of its
\* waits, whatever clients, handlers and jobs do.
THEOREM TypeCorrect == Spec => []TypeOK
<1>1. IInv => TypeOK
  <2> SUFFICES ASSUME IInv PROVE TypeOK
    OBVIOUS
  <2>1. timer \in 0..Budget /\ elapsed \in 0..Budget
    BY LifecycleAssumption, BudgetIs DEF IInv, Typed, Clock
  <2>2. QED
    BY <2>1 DEF IInv, Typed, TypeOK
<1>2. QED
  BY <1>1, Invariant, PTL

\* One run of a job at a time.
THEOREM JobsDoNotOverlap == Spec => []OneRunPerJob
BY Invariant, PTL DEF IInv

\* While the pools are being closed a job runs only if the wait for it is
\* over.
THEOREM JobsHaveTheirPools == Spec => []PoolsOutliveJobs
<1>1. IInv => PoolsOutliveJobs
  <2> SUFFICES ASSUME IInv, stage \in {"closing", "finished"}, NEW j \in Jobs, runs[j] > 0
               PROVE  abandoned /\ j \in awaited
    BY DEF PoolsOutliveJobs
  <2>1. current[j]
    BY DEF IInv, OneRunPerJob
  <2>2. QED
    BY <2>1 DEF IInv, Draining, Stopped
<1>2. QED
  BY <1>1, Invariant, PTL

\* No connection is cut before the drain delay and the force delay are over.
THEOREM RequestsHaveTheirGrace == Spec => []GraceBeforeCut
BY Invariant, PTL DEF IInv

\* Every client waits for its answer (README, departure 5).
ClientsWait == [][\A c \in Clients : handler[c] => ~Disconnect(c)]_vars

\* Then a handler has its connection until connections are cut, and a server
\* that has closed has none.
Attended ==
    /\ ~forced => \A c \in Clients : handler[c] => sock[c] = "busy"
    /\ Stopped => \A c \in Clients : sock[c] = "none"

\* Every step keeps this.
LEMMA AttendedKeeps ==
    IInv /\ Attended /\ [Next]_vars /\ [\A c \in Clients : handler[c] => ~Disconnect(c)]_vars
        => Attended'
<1> SUFFICES ASSUME IInv, Attended, [Next]_vars,
                    [\A c \in Clients : handler[c] => ~Disconnect(c)]_vars
             PROVE  Attended'
  OBVIOUS
<1>0. sock \in [Clients -> {"none", "idle", "busy"}] /\ handler \in [Clients -> BOOLEAN]
  BY DEF IInv, Typed
<1>1. ASSUME NEW c \in Clients, Request(c) PROVE Attended'
  <2>1. ~Stopped
    BY <1>1 DEF Request, Listening, Attended, Stopped
  <2>2. QED
    BY <1>0, <1>1, <2>1 DEF Request, Attended, Stopped
<1>2. ASSUME NEW c \in Clients, Respond(c) PROVE Attended'
  <2>1. /\ handler' = [handler EXCEPT ![c] = FALSE]
        /\ \A d \in Clients \ {c} : sock'[d] = sock[d]
        /\ sock[c] = "none" => sock'[c] = "none"
        /\ UNCHANGED <<stage, forced>>
    BY <1>0, <1>2 DEF Respond
  <2>2. QED
    BY <1>0, <2>1 DEF Attended, Stopped
<1>3. ASSUME NEW c \in Clients, Disconnect(c) PROVE Attended'
  <2>1. CASE UNCHANGED vars
    BY <2>1 DEF vars, Attended, Stopped
  <2>2. CASE ~handler[c]
    <3>1. /\ sock' = [sock EXCEPT ![c] = "none"]
          /\ UNCHANGED <<stage, forced, handler>>
      BY <1>3 DEF Disconnect
    <3>2. QED
      BY <1>0, <2>2, <3>1 DEF Attended, Stopped
  <2>3. QED
    BY <1>3, <2>1, <2>2
<1>4. CASE StopListening
  <2>1. ~Stopped'
    BY <1>4 DEF StopListening, Enter, Stopped
  <2>2. QED
    BY <1>0, <1>4, <2>1 DEF StopListening, Attended
<1>5. CASE CutConnections
  BY <1>5 DEF CutConnections, Attended
<1>6. CASE ServerClosed
  BY <1>6 DEF ServerClosed, Attended
<1>7. CASE JobsDrained \/ JobsTimeout \/ AppClosed
  <2>1. Stopped /\ UNCHANGED <<sock, handler, forced>>
    BY <1>7 DEF JobsDrained, JobsTimeout, AppClosed, Stopped
  <2>2. QED
    BY <2>1 DEF Attended
<1>8. ASSUME UNCHANGED <<stage, sock, handler, forced>> PROVE Attended'
  BY <1>8 DEF Attended, Stopped
<1>9. CASE Signal
  <2>1. ~Stopped' /\ UNCHANGED <<sock, handler, forced>>
    BY <1>9 DEF Signal, Enter, Stopped
  <2>2. QED
    BY <2>1 DEF Attended
<1>10. QED
  BY <1>1, <1>2, <1>3, <1>4, <1>5, <1>6, <1>7, <1>8, <1>9
     DEF Next, Work, Steps, CronTick, JobEnds, Tick, vars

\* "Close the application (database pools) once nothing is being served" is
\* true as long as every client waits for its answer: only a handler without
\* its client, or one whose connection was cut, finds the pools closed.
THEOREM AttendedHandlersHaveTheirPools == Spec /\ ClientsWait => []PoolsOutliveHandlers
<1>1. Init => Attended
  BY DEF Init, Attended, Stopped
<1>2. Attended => PoolsOutliveHandlers
  BY DEF Attended, Stopped, PoolsOutliveHandlers
<1>3. QED
  BY <1>1, <1>2, AttendedKeeps, Invariant, PTL DEF Spec, ClientsWait

-----------------------------------------------------------------------------
(* The worker in its cluster *)

\* Whatever the primary does, the worker goes through the steps of its own
\* specification.
THEOREM ClusterRefinesWorker == ClusterSpec => Spec
<1>1. ClusterInit => Init
  BY DEF ClusterInit
<1>2. [ClusterNext]_clusterVars => [Next]_vars
  <2> SUFFICES ASSUME [ClusterNext]_clusterVars PROVE [Next]_vars
    OBVIOUS
  <2>1. CASE WorkerStep
    BY <2>1 DEF WorkerStep, Next
  <2>2. CASE SignalWorker
    BY <2>2 DEF SignalWorker, Next
  <2>3. CASE Release \/ WorkerExits \/ Kill
    BY <2>3 DEF Release, WorkerExits, Kill
  <2>4. CASE ClusterTick
    BY <2>4 DEF ClusterTick, Next
  <2>5. CASE UNCHANGED clusterVars
    BY <2>5 DEF clusterVars
  <2>6. QED
    BY <2>1, <2>2, <2>3, <2>4, <2>5 DEF ClusterNext
<1>3. QED
  BY <1>1, <1>2, PTL DEF ClusterSpec, Spec

\* In a cluster as well the pools outlive the jobs.
THEOREM ClusterJobsHaveTheirPools == ClusterSpec => []PoolsOutliveJobs
BY ClusterRefinesWorker, JobsHaveTheirPools, PTL

\* While the primary waits its worker is up and, until it has finished, the
\* two have been waiting for the same time; a killed worker was a stuck one.
Waiting ==
    /\ process \in {"up", "gone", "killed"}
    /\ waited \in Nat
    /\ stage = "serving" => ~waiting /\ process = "up" /\ waited = 0
    /\ waiting => process = "up"
    /\ waiting /\ stage # "finished" => waited = elapsed
    /\ process = "killed" => ~waiting

\* Every step keeps the waits in step.
LEMMA WaitingKeeps ==
    IInv /\ Waiting /\ KilledOnlyIfStuck /\ [ClusterNext]_clusterVars
        => Waiting' /\ KilledOnlyIfStuck'
<1> SUFFICES ASSUME IInv, Waiting, KilledOnlyIfStuck, [ClusterNext]_clusterVars
             PROVE  Waiting' /\ KilledOnlyIfStuck'
  OBVIOUS
<1>1. CASE WorkerStep
  <2>1. stage # "serving" => stage' # "serving"
    BY <1>1 DEF WorkerStep, Work, Steps, Request, Respond, Disconnect, CronTick, JobEnds,
                StopListening, CutConnections, ServerClosed, JobsDrained, JobsTimeout,
                AppClosed, Enter
  <2>2. stage = "serving" => stage' = "serving"
    BY <1>1 DEF WorkerStep, Work, Steps, Request, Respond, Disconnect, CronTick, JobEnds,
                StopListening, CutConnections, ServerClosed, JobsDrained, JobsTimeout,
                AppClosed
  <2>3. elapsed' = elapsed /\ (stage = "finished" => stage' = "finished")
    BY <1>1 DEF WorkerStep, Work, Steps, Request, Respond, Disconnect, CronTick, JobEnds,
                StopListening, CutConnections, ServerClosed, JobsDrained, JobsTimeout,
                AppClosed, Enter
  <2>4. process = "up" /\ UNCHANGED <<waiting, waited, process>>
    BY <1>1 DEF WorkerStep
  <2>5. QED
    BY <2>1, <2>2, <2>3, <2>4 DEF Waiting, KilledOnlyIfStuck
<1>2. CASE SignalWorker
  <2>1. stage = "serving" /\ stage' = "delaying" /\ elapsed' = elapsed
    BY <1>2 DEF SignalWorker, Signal, Enter
  <2>2. elapsed = 0
    BY <2>1 DEF IInv, Clock
  <2>3. QED
    BY <1>2, <2>1, <2>2 DEF SignalWorker, Waiting, KilledOnlyIfStuck
<1>3. CASE Release
  BY <1>3 DEF Release, vars, Waiting, KilledOnlyIfStuck, Busy
<1>4. CASE WorkerExits
  BY <1>4 DEF WorkerExits, vars, Waiting, KilledOnlyIfStuck
<1>5. CASE Kill
  <2>1. CASE stage # "finished"
    <3>1. elapsed = DrainDelayMs + ForceAfterMs + JobDrainMs + SlackMs
      BY <1>5, <2>1 DEF Kill, Waiting, WaitMs
    <3>2. stage = "closing" /\ timer >= SlackMs
      BY <1>5, <2>1, <3>1, LifecycleAssumption, SlackAssumption
         DEF Kill, Waiting, IInv, Clock, Typed
    <3>3. QED
      BY <1>5, <3>2 DEF Kill, vars, Waiting, KilledOnlyIfStuck
  <2>2. CASE stage = "finished"
    <3>1. Busy
      BY <1>5, <2>2 DEF Kill, Leaving, Waiting
    <3>2. QED
      BY <1>5, <2>2, <3>1 DEF Kill, vars, Waiting, KilledOnlyIfStuck, Busy
  <2>3. QED
    BY <2>1, <2>2
<1>6. CASE ClusterTick
  <2>1. waiting /\ waiting' /\ process' = process /\ waited' = waited + 1
    BY <1>6 DEF ClusterTick
  <2>2. stage # "serving" /\ process = "up" /\ process' = "up"
    BY <2>1 DEF Waiting
  <2>3. stage' = stage /\ (stage # "finished" => elapsed' = elapsed + 1)
    BY <1>6 DEF ClusterTick, Tick, vars
  <2>4. QED
    BY <2>1, <2>2, <2>3 DEF Waiting, KilledOnlyIfStuck
<1>7. CASE UNCHANGED clusterVars
  BY <1>7 DEF clusterVars, vars, Waiting, KilledOnlyIfStuck, Busy
<1>8. QED
  BY <1>1, <1>2, <1>3, <1>4, <1>5, <1>6, <1>7 DEF ClusterNext

\* SIGKILL meets only a worker that finished its shutdown and is kept alive by
\* a handler or a job that hangs, or one whose pools have not closed for the
\* whole slack, however long they may take (departure 6).
THEOREM OnlyStuckWorkersAreKilled == ClusterSpec => []KilledOnlyIfStuck
<1>1. ClusterInit => Waiting /\ KilledOnlyIfStuck
  BY DEF ClusterInit, Init, Waiting, KilledOnlyIfStuck
<1>2. IInv /\ Waiting /\ KilledOnlyIfStuck /\ [ClusterNext]_clusterVars
        => Waiting' /\ KilledOnlyIfStuck'
  BY WaitingKeeps
<1>3. QED
  BY <1>1, <1>2, ClusterRefinesWorker, Invariant, PTL DEF ClusterSpec

-----------------------------------------------------------------------------
(* The worker behind its balancer *)

\* Whatever the monitor does, the cluster goes through its own steps.
THEOREM ReadinessRefinesCluster == ReadySpec => ClusterSpec
<1>1. ReadyInit => ClusterInit
  BY DEF ReadyInit
<1>2. [ReadyNext]_readyVars => [ClusterNext]_clusterVars
  BY DEF ReadyNext, readyVars, Serve, Stop, Poll, Answer, ServingTick, ShutdownTick, ClusterNext
<1>3. QED
  BY <1>1, <1>2, PTL DEF ReadySpec, ClusterSpec

\* How far the monitor is behind the signal: a poll that was asked before the
\* signal is as old as the signal at least, and afterwards every interval has
\* added a failure.
Noticed ==
    /\ probe \in BOOLEAN
    /\ sincePoll \in 0..IntervalMs
    /\ probe => sincePoll <= ReadyMs
    /\ fails \in 0..Threshold
    /\ stage = "delaying" =>
          \/ probe /\ timer <= sincePoll
          \/ ~probe /\ (fails = Threshold \/ timer <= fails * IntervalMs + sincePoll)
    /\ ~Listening => ~probe /\ fails = Threshold

\* The rule of operations.md:222.
DelayExceedsPolls == DrainDelayMs > IntervalMs * Threshold

\* A number of intervals below the threshold falls short of the rule.
LEMMA ShortOfThreshold ==
    ASSUME NEW n \in 0..Threshold, n # Threshold
    PROVE  /\ n * IntervalMs \in Nat
           /\ (n + 1) * IntervalMs = n * IntervalMs + IntervalMs
           /\ n * IntervalMs + IntervalMs <= IntervalMs * Threshold
           /\ IntervalMs <= IntervalMs * Threshold
<1>1. n \in Nat /\ n + 1 <= Threshold /\ IntervalMs \in Nat /\ Threshold \in Nat
  BY MonitorAssumption
<1>2. PICK d \in Nat : Threshold = (n + 1) + d
  <2>1. Threshold - (n + 1) \in Nat /\ Threshold = (n + 1) + (Threshold - (n + 1))
    BY <1>1
  <2>2. QED
    BY <2>1
<1>3. n * IntervalMs \in Nat /\ d * IntervalMs \in Nat
  BY <1>1, <1>2
<1>4. (n + 1) * IntervalMs = n * IntervalMs + IntervalMs
  BY <1>1
<1>5. IntervalMs * Threshold = n * IntervalMs + IntervalMs + d * IntervalMs
  BY <1>1, <1>2
<1>6. QED
  BY <1>1, <1>3, <1>4, <1>5

\* Every step keeps the monitor in step.
LEMMA NoticedKeeps ==
    DelayExceedsPolls /\ IInv /\ Noticed /\ [ReadyNext]_readyVars => Noticed'
<1> SUFFICES ASSUME DelayExceedsPolls, IInv, Noticed, [ReadyNext]_readyVars PROVE Noticed'
  OBVIOUS
<1>1. ASSUME UNCHANGED probes, UNCHANGED <<stage, timer>> PROVE Noticed'
  BY <1>1 DEF probes, Noticed, Listening
<1>2. CASE Serve
  <2>1. CASE StopListening
    <3>1. /\ stage = "delaying" /\ timer >= DrainDelayMs /\ stage' = "draining"
          /\ UNCHANGED probes
      BY <1>2, <2>1 DEF Serve, StopListening, Enter
    <3>2. ~probe /\ fails = Threshold
      <4>1. timer \in Nat /\ DrainDelayMs \in Nat /\ IntervalMs \in Nat /\ ReadyMs <= IntervalMs
        BY LifecycleAssumption, MonitorAssumption DEF IInv, Typed
      <4>2. IntervalMs * Threshold \in Nat /\ timer > IntervalMs * Threshold
        BY <3>1, <4>1, MonitorAssumption DEF DelayExceedsPolls
      <4>3. 0 \in 0..Threshold /\ 0 # Threshold
        BY MonitorAssumption
      <4>4. IntervalMs <= IntervalMs * Threshold
        BY <4>3, ShortOfThreshold
      <4>5. ~probe
        BY <3>1, <4>1, <4>2, <4>4, MonitorAssumption DEF Noticed
      <4>6. ASSUME fails # Threshold PROVE FALSE
        <5>1. timer <= fails * IntervalMs + sincePoll /\ sincePoll <= IntervalMs /\ sincePoll \in Nat
          BY <3>1, <4>1, <4>5, <4>6 DEF Noticed
        <5>2. /\ fails * IntervalMs \in Nat
              /\ fails * IntervalMs + IntervalMs <= IntervalMs * Threshold
          BY <4>6, ShortOfThreshold DEF Noticed
        <5>3. QED
          BY <4>1, <4>2, <5>1, <5>2
      <4>7. QED
        BY <4>5, <4>6
    <3>3. QED
      BY <3>1, <3>2 DEF probes, Noticed, Listening
  <2>2. CASE Work
    <3>1. UNCHANGED <<stage, timer>>
      BY <2>2 DEF Work, Request, Respond, Disconnect, CronTick, JobEnds
    <3>2. QED
      BY <1>1, <1>2, <3>1 DEF Serve
  <2>3. CASE CutConnections \/ ServerClosed \/ JobsDrained \/ JobsTimeout \/ AppClosed
    <3>1. ~Listening /\ ~Listening' /\ stage' # "delaying"
      BY <2>3 DEF CutConnections, ServerClosed, JobsDrained, JobsTimeout, AppClosed, Enter,
                  Listening
    <3>2. UNCHANGED probes
      BY <1>2 DEF Serve
    <3>3. QED
      BY <3>1, <3>2 DEF probes, Noticed
  <2>4. QED
    BY <1>2, <2>1, <2>2, <2>3 DEF Serve, WorkerStep, Steps
<1>3. CASE Stop
  <2>1. CASE SignalWorker
    <3>1. stage' = "delaying" /\ timer' = 0 /\ UNCHANGED probes
      BY <1>3, <2>1 DEF Stop, SignalWorker, Signal, Enter
    <3>2. ~probe /\ fails # Threshold => 0 <= fails * IntervalMs + sincePoll
      BY ShortOfThreshold, MonitorAssumption DEF Noticed
    <3>3. probe => 0 <= sincePoll
      BY MonitorAssumption DEF Noticed
    <3>4. QED
      BY <3>1, <3>2, <3>3 DEF probes, Noticed, Listening
  <2>2. CASE Release \/ WorkerExits \/ Kill
    <3>1. UNCHANGED <<stage, timer>> /\ UNCHANGED probes
      BY <1>3, <2>2 DEF Stop, Release, WorkerExits, Kill, vars
    <3>2. QED
      BY <1>1, <3>1
  <2>3. QED
    BY <1>3, <2>1, <2>2 DEF Stop
<1>4. CASE Poll
  <2>1. UNCHANGED <<stage, timer>> /\ ~probe /\ sincePoll = IntervalMs /\ sincePoll' = 0
    BY <1>4 DEF Poll, clusterVars, vars
  <2>2. 0 \in 0..IntervalMs /\ 0 <= ReadyMs
    BY MonitorAssumption
  <2>3. CASE stage = "serving"
    <3>1. probe' = TRUE /\ fails' = fails
      BY <1>4, <2>3 DEF Poll, Ask, Listening, isShuttingDown
    <3>2. QED
      BY <2>1, <2>2, <2>3, <3>1 DEF Noticed, Listening
  <2>4. CASE stage # "serving"
    <3>1. probe' = FALSE /\ fails' = Failed
      BY <1>4, <2>1, <2>4 DEF Poll, Ask, Listening, isShuttingDown
    <3>2. fails' \in 0..Threshold /\ (fails = Threshold => fails' = Threshold)
      BY <3>1, MonitorAssumption DEF Failed, Noticed
    <3>3. stage = "delaying" /\ fails # Threshold => timer <= fails' * IntervalMs + sincePoll'
      <4> SUFFICES ASSUME stage = "delaying", fails # Threshold
                   PROVE  timer <= fails' * IntervalMs + sincePoll'
        OBVIOUS
      <4>1. fails' = fails + 1
        BY <3>1, MonitorAssumption DEF Failed, Noticed
      <4>2. timer <= fails * IntervalMs + IntervalMs
        BY <2>1 DEF Noticed
      <4>3. (fails + 1) * IntervalMs = fails * IntervalMs + IntervalMs
            /\ fails * IntervalMs \in Nat
        BY ShortOfThreshold DEF Noticed
      <4>4. QED
        BY <2>1, <4>1, <4>2, <4>3, MonitorAssumption
    <3>4. QED
      BY <2>1, <2>2, <3>1, <3>2, <3>3 DEF Noticed, Listening
  <2>5. QED
    BY <2>3, <2>4
<1>5. CASE Answer
  <2>1. UNCHANGED <<stage, timer>> /\ probe /\ probe' = FALSE /\ sincePoll' = sincePoll
        /\ fails' \in {0, Failed}
    BY <1>5 DEF Answer, clusterVars, vars
  <2>2. fails' \in 0..Threshold /\ 0 \in 0..Threshold
    BY <2>1, MonitorAssumption DEF Failed, Noticed
  <2>3. fails' * IntervalMs \in Nat
    <3>1. \A m, n \in Nat : m * n \in Nat
      OBVIOUS
    <3>2. fails' \in Nat /\ IntervalMs \in Nat
      BY <2>2, MonitorAssumption
    <3>3. QED
      BY <3>1, <3>2
  <2>4. Listening
    BY <2>1 DEF Noticed
  <2>5. stage = "delaying" => timer <= sincePoll
    BY <2>1 DEF Noticed
  <2>6. timer \in Nat /\ sincePoll \in Nat
    BY MonitorAssumption DEF IInv, Typed, Noticed
  <2>7. stage' = "delaying" => timer' <= fails' * IntervalMs + sincePoll'
    BY <2>1, <2>3, <2>5, <2>6
  <2>8. QED
    BY <2>1, <2>2, <2>4, <2>7 DEF Noticed, Listening
<1>6. CASE ServingTick \/ ShutdownTick
  <2>1. /\ sincePoll' = sincePoll + 1 /\ UNCHANGED <<probe, fails>>
        /\ sincePoll < (IF probe THEN ReadyMs ELSE IntervalMs)
        /\ stage' = stage
        /\ stage = "delaying" => timer' = timer + 1
    BY <1>6 DEF ServingTick, ShutdownTick, ProbeTick, ClusterTick, Tick, clusterVars, vars
  <2>2. sincePoll' \in 0..IntervalMs /\ (probe' => sincePoll' <= ReadyMs)
    BY <2>1, MonitorAssumption DEF Noticed
  <2>3. fails # Threshold => fails * IntervalMs \in Nat
    BY ShortOfThreshold DEF Noticed
  <2>4. timer \in Nat /\ sincePoll \in Nat
    BY MonitorAssumption DEF IInv, Typed, Noticed
  <2>5. stage' = "delaying" =>
          \/ probe' /\ timer' <= sincePoll'
          \/ ~probe' /\ (fails' = Threshold \/ timer' <= fails' * IntervalMs + sincePoll')
    BY <2>1, <2>3, <2>4 DEF Noticed
  <2>6. QED
    BY <2>1, <2>2, <2>5 DEF Noticed, Listening
<1>7. CASE UNCHANGED readyVars
  BY <1>1, <1>7 DEF readyVars, clusterVars, vars
<1>8. QED
  BY <1>2, <1>3, <1>4, <1>5, <1>6, <1>7 DEF ReadyNext

\* The balancer has taken the worker out before its port closes whenever the
\* drain delay exceeds interval times threshold, although an "ok" may leave
\* after the shutdown began.
THEOREM TakenOutInTime == DelayExceedsPolls => (ReadySpec => []RoutedIsListening)
<1> SUFFICES ASSUME DelayExceedsPolls PROVE ReadySpec => []RoutedIsListening
  OBVIOUS
<1>1. ReadyInit => Noticed
  <2>1. 0 \in 0..IntervalMs /\ 0 \in 0..Threshold
    BY MonitorAssumption
  <2>2. QED
    BY <2>1 DEF ReadyInit, ClusterInit, Init, Noticed, Listening
<1>2. IInv /\ Noticed /\ [ReadyNext]_readyVars => Noticed'
  BY NoticedKeeps
<1>3. Noticed => RoutedIsListening
  BY MonitorAssumption DEF Noticed, RoutedIsListening, Routed
<1>4. QED
  BY <1>1, <1>2, <1>3, ReadinessRefinesCluster, ClusterRefinesWorker, Invariant, PTL DEF ReadySpec
=============================================================================
