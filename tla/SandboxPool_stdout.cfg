CONSTANTS
    Callers = {c1}
    NumSlots = 1
    Strategies = {"quiet", "writer"}
    StdinRoom = 1
    StdoutRoom = 2
    PipeRoom = 1
    MaxCalls = 2
    MaxDeaths = 0
SPECIFICATION Spec
INVARIANT AnswersMatchRequests
CHECK_DEADLOCK FALSE
