CONSTANTS
    Copies = {c1, c2, c3}
    Ops <- Two
    Via <- ViaTwo
    Kind <- PutPut
    Walls <- Slow
    MaxRestamps = 2
    MaxRacing = 3
    Faults <- NoFaults
    MaxFaults = 0
    Recovers = TRUE
SPECIFICATION Spec
SYMMETRY CopySymmetry
CHECK_DEADLOCK FALSE
INVARIANT RecoveryFreesSafe
