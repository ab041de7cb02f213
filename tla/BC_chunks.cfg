CONSTANTS
    Volumes = {v1, v2}
    Snapshots = {s1}
    Stripes = {a, b, c}
    Nil = Nil
    NChunks = 2
    Batch = 1
    MaxCuts = 1
    Attaches = TRUE
SYMMETRY Alike
SPECIFICATION Spec
CHECK_DEADLOCK FALSE
INVARIANTS TypeOK LiveIntact ContentKept Accounted
