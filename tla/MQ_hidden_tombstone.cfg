CONSTANTS
    Copies = {c1, c2, c3}
    Ops <- Two
    Via <- ViaTwo
    Kind <- PutDelete
    Walls <- Slow
    MaxRestamps = 2
    MaxRacing = 1
    Faults <- Crashes
    MaxFaults = 3
    Recovers = TRUE
SPECIFICATION FairSpec
CHECK_DEADLOCK FALSE
PROPERTY Converges
