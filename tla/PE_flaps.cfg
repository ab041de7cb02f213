CONSTANTS
    Osds = {a, b, c, d}
    Members = {a, b, c}
    Nil = Nil
    NWrites = 1
    MaxEpoch = 3
    Faults <- Stopping
    MaxFaults = 1
SPECIFICATION Spec
SYMMETRY Alike
CHECK_DEADLOCK FALSE
PROPERTY MovesToLiving
