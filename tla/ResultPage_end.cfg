CONSTANTS
    Gets = {load, poll1}
    FirstGet = load
    MaxRetries = 1
    MaxRunning = 1
    MaxFaults = 0
SPECIFICATION FairSpec
PROPERTY EndIsShown
CHECK_DEADLOCK FALSE
