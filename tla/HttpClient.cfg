SPECIFICATION LiveSpec
CONSTANTS
    Calls = {c1, c2, c3}
    FailureThreshold = 2
    ResetMs = 2
    TimeoutMs = 1
    Retries = 1
    MaxDelayMs = 1
INVARIANTS TypeOK SingleTrial
PROPERTY Recovers
