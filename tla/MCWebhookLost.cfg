SPECIFICATION Spec
CONSTANTS
    Tasks = {1}
    EventOf <- Enqueued
    Delays = 2
    Configured = 7
    MaxFaults = 1
CHECK_DEADLOCK FALSE
INVARIANTS SuccessMeansDelivered
