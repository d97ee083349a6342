SPECIFICATION FairSpec
CONSTANTS
    w1 = w1
    w2 = w2
    Replicas = {w1, w2}
    Schedules = {"minutely", "even"}
    Period <- TwoPeriods
    TTL = 2
    MaxTime = 3
    MaxMishaps = 2
INVARIANTS TypeOK GrantIsOwnership NoDoubleFire
PROPERTIES LeaseNotStolen OnlyOwnerProlongs LeaderAgain
