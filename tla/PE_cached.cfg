CONSTANTS
    Osds = {a, b, c, d}
    Members = {a, b, c}
    Nil = Nil
    NWrites = 2
    MaxEpoch = 2
    Faults <- Apart
    MaxFaults = 2
SPECIFICATION Spec
SYMMETRY Alike
CHECK_DEADLOCK FALSE
INVARIANT CachedReadsFresh
