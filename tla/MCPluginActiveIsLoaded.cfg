SPECIFICATION Spec
CONSTANTS
    Callers = {c1, c2}
    MaxTrips = 1
    MaxInstalls = 2
    MaxMishaps = 0
INVARIANT ActiveIsLoaded
CHECK_DEADLOCK FALSE
