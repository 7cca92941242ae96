CONSTANTS
    Workers = {w1}
    MaxTasks = 2
    MaxRestarts = 1
    MaxFaults = 0
SPECIFICATION FairSpec
PROPERTIES
    PendingRecovered
CHECK_DEADLOCK FALSE
