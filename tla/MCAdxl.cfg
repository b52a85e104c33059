SPECIFICATION Spec
CONSTANTS
    Users = {u1, u2, u3}
    Random = {7, 1024}
    MaxLoads = 2
    MaxFiles = 2
SYMMETRY Alike
CHECK_DEADLOCK FALSE
INVARIANTS
    AdxlTypeOK
    TenBits
    NodesLead
