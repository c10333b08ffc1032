SPECIFICATION ForwardLiveSpec
CONSTANTS
    Paths <- AllPaths
    PrefixLists <- SomeLists
    LegacyStatuses = {200, 500}
    LegacyTimeoutMs = 2
    ServerTimeoutMs = 4
    MaxAge = 4
    NoStatus = NoStatus
INVARIANTS WholeOrBroken ForwardedIffListed
PROPERTIES StatusWrittenOnce BothSidesEnd
CHECK_DEADLOCK FALSE
