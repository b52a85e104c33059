SPECIFICATION ClientsSpec
CONSTANTS
    None = None
    Clients = {"tool", "pointer"}
    Tools = {"tool"}
    Pointers = {"pointer"}
    Devices = {"fader", "locked", "foreign", "disk", "servo"}
    Order <- MCOrder
    Servo = "servo"
    Matching = {"fader", "locked", "foreign", "servo"}
    Accessible = {"fader", "foreign", "servo", "disk"}
    Strings <- MCStrings
    CommandLines <- MCCommandLines
    Iterations = 2
    Positions <- MCPositions
    Aim <- MCAim
    MaxMoves = 1
    MaxUnplugs = 1
CHECK_DEADLOCK FALSE
INVARIANTS
    ClientsTypeOK
    OpensCounterpart
    FindsServo
PROPERTIES
    SetsWhatWasAsked
    PointsAtPointer
