SPECIFICATION Spec
CONSTANTS
    CloudJobs = {}
    LocalJobs = {l1}
    None = None
    Workers = {}
    Scanners = {s1, s2}
    Callers = {}
    InitJobs = {l1}
    Ops = {"update", "delete", "queue"}
    Intervals = {0}
    DefaultInterval = 2
    Updates <- MCUpdates
    Faults = {"lost", "crash"}
    MaxCalls = 1
    MaxFaults = 1
    MaxClock = 1
SYMMETRY ScannerSymmetry
INVARIANTS EveryScanHasARow
PROPERTIES OnlyOverlapRewrites
CHECK_DEADLOCK FALSE
