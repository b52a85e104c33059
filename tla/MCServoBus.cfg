SPECIFICATION FairBusSpec
CONSTANTS
    Packets <- MCPackets
    Addresses <- MCAddresses
    Junk = Junk
    Requests <- CleanRequests
    OutData <- MCOutData
    MaxOperations = 3
    AbortAllowed = FALSE
    ResetAllowed = TRUE
    OthersAllowed = TRUE
INVARIANTS
    BusTypeOK
    NoStaleReply
    NothingDropped
    ReplyComplete
    AddressAgreed
PROPERTIES
    SetupNotNaked
    CallsReturn
    ImplementsRegister
