SPECIFICATION FairDiskSpec
CONSTANTS
    c1 = c1
    c2 = c2
    Scan = Scan
    Closed = Closed
    Clients <- MCClients
    Jobs <- MCJobs
    MaxSegments = 2
INVARIANTS
    DiskTypeOK
    WithinDisk
    NothingFreedInUse
    PartitionsFound
PROPERTIES
    PartitionsIsolated
    Served
    ImplementsStore
CHECK_DEADLOCK FALSE
