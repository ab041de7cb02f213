CONSTANTS
    Osds = {a, b, c, d}
    Members = {a, b, c}
    Nil = Nil
    NWrites = 2
    MaxEpoch = 2
    Faults <- Draining
    MaxFaults = 1
SPECIFICATION Spec
SYMMETRY Alike
CHECK_DEADLOCK FALSE
INVARIANT QuorumsHold
