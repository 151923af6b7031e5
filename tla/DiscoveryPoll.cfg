SPECIFICATION FairSpec
CONSTANTS
    CloudJobs = {c1}
    LocalJobs = {l1}
    None = None
    Workers = {w1}
    Scanners = {s1}
    Callers = {h1}
    InitJobs = {}
    Ops = {"create", "update", "delete", "queue", "run"}
    Intervals = {0}
    DefaultInterval = 1
    Updates <- MCUpdates
    Faults = {"fail", "lost", "crash"}
    MaxCalls = 2
    MaxFaults = 1
    MaxClock = 1
INVARIANTS TypeOK NoPhantomScans LastRunMatchesHistory
PROPERTIES DueJobsRun ScansEnd
CHECK_DEADLOCK FALSE
