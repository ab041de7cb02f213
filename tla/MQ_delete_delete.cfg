CONSTANTS
    Copies = {c1, c2, c3}
    Ops <- Three
    Via <- ViaApart
    Kind <- PutDeleteDelete
    Walls <- Skewed
    MaxRestamps = 2
    MaxRacing = 1
    Faults <- JustDown
    MaxFaults = 4
    Recovers = FALSE
SPECIFICATION Spec
SYMMETRY CopySymmetry
CHECK_DEADLOCK FALSE
INVARIANT LastWriterWins
