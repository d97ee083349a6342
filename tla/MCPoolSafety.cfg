SPECIFICATION FairSpec
CONSTANTS
    c1 = c1
    c2 = c2
    c3 = c3
    Callers = {c1, c2, c3}
    i1 = i1
    i2 = i2
    i3 = i3
    Instances = {i1, i2, i3}
    MinInstances = 1
    MaxInstances = 2
    MaxUses = 2
    WarmFirst = TRUE
    MaxFaults = 1
CHECK_DEADLOCK FALSE
INVARIANTS TypeOK OnePlace NoReuse CapRespected NoStranding
PROPERTIES CloseEnds
