CONSTANTS
    Volumes = {v1}
    Snapshots = {s1}
    Stripes = {a, b}
    Nil = Nil
    NChunks = 2
    Batch = 1
    MaxCuts = 1
    Attaches = TRUE
SYMMETRY Alike
SPECIFICATION Spec
CHECK_DEADLOCK FALSE
INVARIANT DeleteIsVisible
