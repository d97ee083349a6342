SPECIFICATION Spec
CONSTANTS
    r1 = r1
    r2 = r2
    r3 = r3
    Requests = {r1, r2, r3}
    hA = hA
    hB = hB
    Hashes = {hA, hB}
    TTL = 2
    MaxTime = 4
    MaxRedisFaults = 1
    MaxHardFaults = 1
SYMMETRY Symmetry
CHECK_DEADLOCK FALSE
INVARIANTS TypeOK RedisClaimExclusive ReplayFidelity
PROPERTIES PlantedClaimHonoured StoredResultFinal
