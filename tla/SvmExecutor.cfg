\* Well-formed and malformed slices of every opcode; execute returns, so a
\* finished slice is a terminal state.
SPECIFICATION Spec
CONSTANTS
    Programs <- MCPrograms
    Regs = {1, 2}
    DispatchCap = 2
    VaultPaths <- MCVaultPaths
    NoPath <- MCNoPath
    MaxTime = 2
    MaxVersion = 1
    Ttl = 1         \* one tick is 30 s: cache_ttl, and the HTTP timeout below
    KvTimeout = 1
    KvConfigured = TRUE
    EnvSecret = {"db/password"}
    EnvRaw = {}
INVARIANT TypeOK DispatchAtMostOnce SecretFresh CacheSparesUpstream RetryLaw
PROPERTY Terminates
CHECK_DEADLOCK FALSE
