SPECIFICATION Spec
CONSTANTS
    None = None
    Servos = {s1, mute}
    Answering = {s1}
    Processes = {app, other}
    Apps = {app}
    Commands <- MCCommands
INVARIANTS
    IoctlTypeOK
    CodeStays
    ReachesItsServo
PROPERTIES
    CallsReturn
