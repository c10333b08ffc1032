SPECIFICATION LiveSpec
CONSTANTS
    WorkerCount = 2
    RespawnMax = 2
    Window = 2
    WaitMs = 1
    MaxDeaths = 4
    MaxTime = 4
INVARIANTS TypeOK OneLeaderProcess RespawnCap
PROPERTY ShutdownEnds
CHECK_DEADLOCK FALSE
