CONSTANTS
    NChunks = 2
    Parts = {p, q}
    Clients = {k1}
    Background <- TheLoop
    Foreground <- ARequest
    Readers <- Nobody
    Faults <- ProcessFaults
    MaxFaults = 1
    MaxWrites = 2
SYMMETRY Alike
SPECIFICATION Spec
ACTION_CONSTRAINT InTurn
CHECK_DEADLOCK FALSE
INVARIANTS SnapshotHasAll
PROPERTIES DurableDisk
