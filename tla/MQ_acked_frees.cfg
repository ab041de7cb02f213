CONSTANTS
    Copies = {c1, c2}
    Ops <- Three
    Via <- ViaThree
    Kind <- PutPutDelete
    Walls <- Slow
    MaxRestamps = 2
    MaxRacing = 2
    Faults <- Dying
    MaxFaults = 1
    Recovers = TRUE
SPECIFICATION Spec
SYMMETRY CopySymmetry
CHECK_DEADLOCK FALSE
INVARIANT AckedFreesSafe
