SPECIFICATION FairBusSpec
CONSTANTS
    Packets <- MCPackets
    Addresses <- MCAddresses
    Junk = Junk
    Requests <- DirtyRequests
    OutData <- MCOutData
    MaxOperations = 3
    AbortAllowed = TRUE
    ResetAllowed = TRUE
    OthersAllowed = TRUE
PROPERTIES
    RequestsInOrder
    SetTakesEffect
