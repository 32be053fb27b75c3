\* No crash: a request is left without a result only by the session's own handling.
SPECIFICATION Spec
CONSTANTS
    InitDisk <- MCInitDisk
    MaxSize = 2
    NodeMajor = 1
    ArtifactVersions = {0, 1, 2}
    LoadOk = {TRUE}
    MaxRequests = 2
    MaxSliceEvents = 1
    MaxLinkFails = 2
    MaxCrashes = 0
INVARIANT ResultForEveryRequest
CHECK_DEADLOCK FALSE
