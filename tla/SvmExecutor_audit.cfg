\* Every slice of MCPrograms, checking the audit trail of a successful slice.
SPECIFICATION Spec
CONSTANTS
    Programs <- MCPrograms
    Regs = {1, 2}
    DispatchCap = 2
    VaultPaths <- MCVaultPaths
    NoPath <- MCNoPath
    MaxTime = 2
    MaxVersion = 1
    Ttl = 1
    KvTimeout = 1
    KvConfigured = TRUE
    EnvSecret = {"db/password"}
    EnvRaw = {}
INVARIANT AuditCoversCalls
CHECK_DEADLOCK FALSE
