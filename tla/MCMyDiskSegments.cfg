SPECIFICATION FairDiskSpec
CONSTANTS
    c1 = c1
    c2 = c2
    Scan = Scan
    Closed = Closed
    Clients <- MCClients
    Jobs <- DdJobs
    MaxSegments = 2
PROPERTY ImplementsDisk
CHECK_DEADLOCK FALSE
