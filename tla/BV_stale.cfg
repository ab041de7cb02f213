CONSTANTS
    NChunks = 1
    Parts = {p, q}
    Clients = {k1}
    Background <- TheLoop
    Foreground <- ARequest
    Readers <- Nobody
    Faults <- Nobody
    MaxFaults = 0
    MaxWrites = 2
SYMMETRY Alike
SPECIFICATION Spec
CHECK_DEADLOCK FALSE
INVARIANTS SnapshotHasAll
