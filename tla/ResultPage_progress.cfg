CONSTANTS
    Gets = {load, poll1, poll2}
    FirstGet = load
    MaxRetries = 1
    MaxRunning = 2
    MaxFaults = 2
SPECIFICATION FairSpec
INVARIANT NeverAhead
PROPERTIES
    PollingShowsEnd
    SocketBringsResult
CHECK_DEADLOCK FALSE
