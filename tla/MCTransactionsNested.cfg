SPECIFICATION Spec
CONSTANTS
    other = other
    bare = bare
    main1 = main1
    other1 = other1
    bare1 = bare1
    ann = ann
    wide = wide
    short = short
    full = full
    glyph = glyph
    Flows = {f1}
    Nesters = {f1}
    Branchers = {}
    Visitors = {}
    Sources = {main, other, bare}
    Main = main
    Conns = {main1, other1, bare1}
    SourceOf <- OneEach
    Enabled = {main, other}
    Enforced = {other, bare}
    Users = {ann, wide}
    UsersOf <- UserOfEach
    Names = {short, full, glyph}
    ClientId <- NamesOf
    QueueTimeoutMs = 1
    NoConn = NoConn
    Nobody = Nobody
    NoChange = NoChange
INVARIANTS FailedUnitLeavesNothing
CHECK_DEADLOCK FALSE
