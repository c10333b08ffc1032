CONSTANTS
    Requests = {r1, r2}
    Keys = {k1}
    Bodies <- TwoBodies
    Asks <- AsksOf
    HandlerErrors <- SomeErrors
    StoreErrors <- BrokenStore
    Limited = TRUE
    NoRequest = NoRequest
    NoFingerprint = NoFingerprint
    NoKey = NoKey
    NoToken = NoToken
SPECIFICATION Spec
INVARIANTS Entitled ReplayIsFresh ToldAsItWent NoticedAndCounted
PROPERTY Settles
