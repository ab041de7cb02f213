CONSTANTS
    Copies = {c1, c2, c3}
    Ops <- Three
    Via <- ViaApart
    Kind <- PutPutPut
    Walls <- Slow
    MaxRestamps = 3
    MaxRacing = 3
    Faults <- NoFaults
    MaxFaults = 0
    Recovers = FALSE
SPECIFICATION Spec
SYMMETRY CopySymmetry
CHECK_DEADLOCK FALSE
INVARIANT OverwriteFreesSafe
