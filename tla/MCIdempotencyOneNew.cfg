SPECIFICATION Spec
CONSTANTS
    r1 = r1
    r2 = r2
    r3 = r3
    Requests = {r1, r2, r3}
    hA = hA
    hB = hB
    Hashes = {hA, hB}
    TTL = 1
    MaxTime = 3
    MaxRedisFaults = 1
    MaxHardFaults = 0
SYMMETRY Symmetry
CHECK_DEADLOCK FALSE
PROPERTIES OneClaimNew
