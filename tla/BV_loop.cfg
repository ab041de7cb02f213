CONSTANTS
    NChunks = 1
    Parts = {p, q}
    Clients = {k1, k2}
    Background <- TheLoop
    Foreground <- Nobody
    Readers <- AReader
    Faults <- PowerFaults
    MaxFaults = 2
    MaxWrites = 2
SYMMETRY Alike
SPECIFICATION Spec
CHECK_DEADLOCK FALSE
INVARIANTS TypeOK CleanIsStored
PROPERTIES DurableDisk ReadsFresh
