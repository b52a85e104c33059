SPECIFICATION BusSpec
CONSTANTS
    Packets <- MCPackets
    Addresses <- MCAddresses
    Junk = Junk
    Requests <- EightBytes
    OutData <- MCOutData
    MaxOperations = 3
    AbortAllowed = FALSE
    ResetAllowed = FALSE
    OthersAllowed = FALSE
INVARIANT
    AddressAgreed
