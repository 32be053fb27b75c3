\* Session, buffer and file with link failures and a crash; the file is
\* readable at start-up.
SPECIFICATION Spec
CONSTANTS
    InitDisk <- MCInitDisk
    MaxSize = 2
    NodeMajor = 1
    ArtifactVersions = {0, 1, 2}
    LoadOk = {TRUE}
    MaxRequests = 2
    MaxSliceEvents = 1
    MaxLinkFails = 2
    MaxCrashes = 1
INVARIANT TypeOK NoEnvelopeLost AuditDeliveredOnce BufferLaw
PROPERTY DeliveryRefinement HealthSeesLinkLoss
\* the session waits in read.next() for central once it has sent everything
CHECK_DEADLOCK FALSE
