\* A PARALLEL_SPAWN with no matching PARALLEL_MERGE.
SPECIFICATION Spec
CONSTANTS
    Programs <- MCUnmatched
    Regs = {1, 2}
    DispatchCap = 2
    VaultPaths <- MCVaultPaths
    NoPath <- MCNoPath
    MaxTime = 2
    MaxVersion = 1
    Ttl = 1
    KvTimeout = 1
    KvConfigured = TRUE
    EnvSecret = {"db/password"}
    EnvRaw = {}
INVARIANT DispatchAtMostOnce
CHECK_DEADLOCK FALSE
