\* The LOOP slice of scenario S3.
SPECIFICATION Spec
CONSTANTS
    Programs <- MCPrograms
    Regs = {1, 2}
    DispatchCap = 2
    VaultPaths <- MCVaultPaths
    NoPath <- MCNoPath
    MaxTime = 2
    MaxVersion = 1
    Ttl = 1
    KvTimeout = 1
    KvConfigured = TRUE
    EnvSecret = {"db/password"}
    EnvRaw = {}
PROPERTY LoopRunsBody
CHECK_DEADLOCK FALSE
