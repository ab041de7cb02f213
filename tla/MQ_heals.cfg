CONSTANTS
    Copies = {c1, c2, c3}
    Ops <- Two
    Via <- ViaTwo
    Kind <- PutDelete
    Walls <- Slow
    MaxRestamps = 2
    MaxRacing = 1
    Faults <- Outside
    MaxFaults = 2
    Recovers = TRUE
SPECIFICATION FairSpec
CHECK_DEADLOCK FALSE
INVARIANT NoObjectUnderTombstone
PROPERTIES Converges CopiesOnlyAdvance
