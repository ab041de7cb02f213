CONSTANTS
    Copies = {c1, c2, c3}
    Ops <- Two
    Via <- ViaTwo
    Kind <- PutPut
    Walls <- Skewed
    MaxRestamps = 3
    MaxRacing = 3
    Faults <- LateLosses
    MaxFaults = 2
    Recovers = FALSE
SPECIFICATION Spec
SYMMETRY CopySymmetry
CHECK_DEADLOCK FALSE
INVARIANTS TypeOK IInv SettledFreesSafe ReadableIntact NothingLeaks LaterWins
