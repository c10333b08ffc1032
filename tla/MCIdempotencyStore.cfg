SPECIFICATION Spec
CONSTANTS
    Requests = {r1, r2, r3}
    Keys = {k1, k2}
    Fingerprints = {f1, f2}
    NoRequest = NoRequest
    NoFingerprint = NoFingerprint
    NoKey = NoKey
    Absent = Absent
    Ttl = 3
    InProgressTtl = 1
    HandlerMax = 1
    MaxTime = 6
SYMMETRY Interchangeable
INVARIANTS OneRunningHandler AtMostOncePerTtl
PROPERTY ImplementsContract
CHECK_DEADLOCK FALSE
