SPECIFICATION Spec
CONSTANTS
    Callers = {c1, c2, c3}
    MaxTrips = 2
    MaxInstalls = 2
    MaxMishaps = 2
SYMMETRY CallerSymmetry
INVARIANTS TypeOK TeardownOwnsRow ErrorRecorded NothingOutlivesUninstall
PROPERTY RowMoves
CHECK_DEADLOCK FALSE
