CONSTANTS
    Workers = {w1}
    Jobs = {j1, j2}
    MaxTasks = 2
    MaxRestarts = 1
    MaxFaults = 0
SPECIFICATION JobSpec
INVARIANTS
    JobInv
    SuccessHasReport
    StatusMatchesRow
PROPERTIES
    TerminalRowFinal
    LifecycleSpec
SYMMETRY JobSymmetry
CHECK_DEADLOCK FALSE
