\* Reading the file at start-up may fail (an I/O error, or invalid UTF-8 for read_to_string).
SPECIFICATION Spec
CONSTANTS
    InitDisk <- MCInitDisk
    MaxSize = 2
    NodeMajor = 1
    ArtifactVersions = {0, 1, 2}
    LoadOk = {TRUE, FALSE}
    MaxRequests = 2
    MaxSliceEvents = 1
    MaxLinkFails = 2
    MaxCrashes = 1
INVARIANT NoEnvelopeLost
CHECK_DEADLOCK FALSE
