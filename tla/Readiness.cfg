SPECIFICATION ReadyLiveSpec
CONSTANTS
    Clients = {c1, c2}
    Jobs = {j1, j2}
    DrainDelayMs = 3
    ForceAfterMs = 2
    JobDrainMs = 2
    PoolDrainMs = 3
    SlackMs = 2
    IntervalMs = 1
    Threshold = 2
    ReadyMs = 1
INVARIANTS TypeOK PoolsOutliveJobs KilledOnlyIfStuck RoutedIsListening
PROPERTY WorkerIsGone
CHECK_DEADLOCK FALSE
