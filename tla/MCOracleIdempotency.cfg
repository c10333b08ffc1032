SPECIFICATION Spec
CONSTANTS
    Requests = {r1, r2, r3}
    Keys = {k1}
    Fingerprints = {f1, f2}
    NoRequest = NoRequest
    NoFingerprint = NoFingerprint
    NoKey = NoKey
    NoRow = NoRow
    Ttl = 3
    InProgressTtl = 1
    RequestMax = 1
    TakeoversOverlap = FALSE
    Faults = {"crash", "claim", "complete", "release", "discard"}
    Lost = {"claim", "complete", "discard"}
    MaxFaults = 2
    MaxTime = 5
SYMMETRY Interchangeable
INVARIANTS OneOwner AtMostOncePerTtl ReplayFaithful
PROPERTY ImplementsContract
CHECK_DEADLOCK FALSE
