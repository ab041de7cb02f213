CONSTANTS
    Copies = {c1, c2, c3}
    Ops <- Two
    Via <- ViaTwo
    Kind <- PutPut
    Walls <- Slow
    MaxRestamps = 2
    MaxRacing = 2
    Faults <- Passing
    MaxFaults = 2
    Recovers = FALSE
SPECIFICATION Spec
SYMMETRY CopySymmetry
CHECK_DEADLOCK FALSE
INVARIANT PassedOverFreesSafe
