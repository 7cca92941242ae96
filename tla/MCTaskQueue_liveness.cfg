CONSTANTS
    Workers = {w1, w2}
    MaxTasks = 2
    MaxRestarts = 0
    MaxFaults = 1
SPECIFICATION FairSpec
PROPERTIES
    EveryTaskDelivered
    TaskInHandFinishes
CHECK_DEADLOCK FALSE
