SPECIFICATION LiveSpec
CONSTANTS
    LongSecrets = {"long"}
    Sizes = {"10m"}
    Paths = {"/metrics"}
    Urls = {"url", "userurl"}
    UserUrls = {"userurl"}
    Pems = {"key.pem"}
    Tables = {"IDEMPOTENCY_KEYS"}
    Zones = {"UTC"}
    Cpus = 2
    Environments <- MCEnvironments
    Tasks = {"s1", "s2", "s3", "s4"}
    Limit = 2
    Placeholders = {"p1"}
    Unknown = {"u1"}
    UserSources = {"s4"}
    Retries = 1
INVARIANTS BootstrapTypeOK BootIsSound AtMostMax OneScheduler ServesAsConfigured ConfigFits
PROPERTIES RefusedBeforeEffects BootEnds
CHECK_DEADLOCK FALSE
