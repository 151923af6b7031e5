SPECIFICATION FairSpec
CONSTANTS
    CloudJobs = {c1}
    LocalJobs = {}
    None = None
    Workers = {w1}
    Scanners = {}
    Callers = {}
    InitJobs = {c1}
    Ops = {"queue"}
    Intervals = {0, 1}
    DefaultInterval = 2
    Updates <- MCUpdates
    Faults = {}
    MaxCalls = 1
    MaxFaults = 0
    MaxClock = 3
PROPERTIES QueuedJobIsPickedUp
CHECK_DEADLOCK FALSE
