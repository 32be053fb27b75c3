\* Slice results and the audit events they carry.
SPECIFICATION Spec
CONSTANTS
    InitDisk <- MCInitDisk
    MaxSize = 2
    NodeMajor = 1
    ArtifactVersions = {0, 1, 2}
    LoadOk = {TRUE}
    MaxRequests = 2
    MaxSliceEvents = 1
    MaxLinkFails = 2
    MaxCrashes = 1
INVARIANT ResultAuditOwn
CHECK_DEADLOCK FALSE
