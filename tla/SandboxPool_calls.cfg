CONSTANTS
    Callers = {c1, c2}
    NumSlots = 2
    Strategies = {"chatty", "writer", "broken", "endless"}
    StdinRoom = 1
    StdoutRoom = 2
    PipeRoom = 1
    MaxCalls = 2
    MaxDeaths = 1
SPECIFICATION FairSpec
INVARIANTS
    PoolInv
    OwnAnswer
    RunsTwiceAtMost
PROPERTIES
    CallReturns
CHECK_DEADLOCK FALSE
