SPECIFICATION Spec
CONSTANTS
    Requests = {r1, r2, r3}
    Keys = {k1}
    Fingerprints = {f1, f2}
    NoRequest = NoRequest
    NoFingerprint = NoFingerprint
    NoKey = NoKey
    NoRow = NoRow
    Ttl = 3
    InProgressTtl = 1
    RequestMax = 1
    TakeoversOverlap = TRUE
    Faults = {"crash"}
    Lost = {}
    MaxFaults = 1
    MaxTime = 3
SYMMETRY Interchangeable
INVARIANT OneOwner
CHECK_DEADLOCK FALSE
