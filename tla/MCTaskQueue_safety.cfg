CONSTANTS
    Workers = {w1, w2}
    MaxTasks = 2
    MaxRestarts = 1
    MaxFaults = 0
SPECIFICATION Spec
INVARIANTS
    QueueInv
    AtMostOnce
    NoSharedTask
    PendingUntilReturned
    StatusTellsOutcome
    SuccessAfterAck
    RepliesAgree
PROPERTIES
    TerminalStatusFinal
    DeliverySpec
SYMMETRY WorkerSymmetry
CHECK_DEADLOCK FALSE
