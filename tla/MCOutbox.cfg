SPECIFICATION FairSpec
CONSTANTS
    Rows = {1, 2}
    Pollers = {p1, p2}
    p1 = p1
    p2 = p2
    BatchSize = 2
    Lease = 1
    BackoffMin = 1
    BackoffMax = 2
    MaxMishaps = 2
INVARIANTS TypeOK NoLoss NoPhantom ClaimDiscipline DeliveryBudget
PROPERTIES ClaimHandover ImplementsContract Drained
