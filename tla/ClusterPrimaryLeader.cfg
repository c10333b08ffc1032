SPECIFICATION Spec
CONSTANTS
    WorkerCount = 2
    RespawnMax = 1
    Window = 2
    WaitMs = 1
    MaxDeaths = 3
    MaxTime = 3
PROPERTY RespawnedPoolHasLeader
CHECK_DEADLOCK FALSE
