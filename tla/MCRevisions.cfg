SPECIFICATION Spec
CONSTANTS
    w1 = w1
    w2 = w2
    Writers = {w1, w2}
    s1 = s1
    s2 = s2
    Sweepers = {s1, s2}
    Requests <- Saved
    SnapshotEveryN = 3
    MaxSnapshotAge = 3
    Keep <- KeepOne
    MaxAgeAutosave = 3
    MinKeepAll = 1
    MaxTime = 4
SYMMETRY Symmetry
CHECK_DEADLOCK FALSE
INVARIANTS ChainIntact
PROPERTIES PruneSpares
