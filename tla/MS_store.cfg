CONSTANTS
    Keys = {"a", "b"}
    Writes <- ThreeWrites
    Keyset <- Overlapping
    Faults <- AnyFault
    MaxFaults = 3
    MaxCheckpoints = 2
SPECIFICATION Spec
CHECK_DEADLOCK FALSE
INVARIANTS TypeOK AckedSurvive LabelIsTrue RefusedOnlyAfterPowerCut
