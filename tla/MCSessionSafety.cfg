SPECIFICATION Spec
CONSTANTS
    t1 = t1
    t2 = t2
    t3 = t3
    Tokens = {t1, t2, t3}
    c1 = c1
    c2 = c2
    Clients = {c1, c2}
    AbsTTL = 4
    IdleTTL = 3
    Second = 2
    MaxTime = 4
    LastMint = 1
SYMMETRY Symmetry
CONSTRAINT Bound
CHECK_DEADLOCK FALSE
INVARIANTS TypeOK OneTokenPerLogin Indexed
PROPERTIES NoResurrection
