SPECIFICATION BusSpec
CONSTANTS
    Packets <- MCPackets
    Addresses <- MCAddresses
    Junk = Junk
    Requests <- ClientRequests
    OutData <- MCOutData
    MaxOperations = 2
    AbortAllowed = FALSE
    ResetAllowed = FALSE
    OthersAllowed = FALSE
PROPERTY
    SetupNotNaked
