CONSTANTS
    Copies = {c1, c2, c3}
    Ops <- Three
    Via <- ViaThree
    Kind <- PutUpdateDelete
    Walls <- Skewed
    MaxRestamps = 2
    MaxRacing = 2
    Faults <- Inside
    MaxFaults = 1
    Recovers = FALSE
SPECIFICATION Spec
SYMMETRY CopySymmetry
CHECK_DEADLOCK FALSE
INVARIANTS LaterWins FreshReads AckedFreesSafe
