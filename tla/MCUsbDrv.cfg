SPECIFICATION Spec
CONSTANTS
    Packets <- MCPackets
    Addresses <- MCAddresses
    Junk = Junk
INVARIANTS
    TypeOK
    MessageIntact
    PacketWhole
    Toggled
    WithinLength
PROPERTIES
    AddressAfterReset
    OnlySetupActs
