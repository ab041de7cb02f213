CONSTANTS
    Keys = {"a", "b"}
    Writes <- ThreeWrites
    Keyset <- Overlapping
    Faults <- JustKills
    MaxFaults = 1
    MaxCheckpoints = 2
SPECIFICATION Spec
CHECK_DEADLOCK FALSE
INVARIANT AppliedIsDurable
