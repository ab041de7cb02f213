CONSTANTS
    Copies = {c1, c2, c3}
    Ops <- Two
    Via <- ViaTwo
    Kind <- PutPut
    Walls <- Skewed
    MaxRestamps = 2
    MaxRacing = 2
    Faults <- JustDown
    MaxFaults = 3
    Recovers = FALSE
SPECIFICATION Spec
SYMMETRY CopySymmetry
CHECK_DEADLOCK FALSE
INVARIANT UnappliedIsHeldNowhere
