SPECIFICATION FairSpec
CONSTANTS
    Tasks = {1, 2, 3}
    EventOf <- Enqueued
    Delays = 2
    Configured = 7
    MaxFaults = 3
CHECK_DEADLOCK FALSE
INVARIANTS OneRequest UnclaimedSuccess DeadIsRecorded
PROPERTIES Settles
