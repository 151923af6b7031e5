SPECIFICATION Spec
CONSTANTS
    Batches = {b1}
    Hooks = {h1}
    PageSize = 1
    Actions <- MCActions
    MaxIssues = 2
    MaxConfigs = 2
    MaxChanges = 3
    MaxFaults = 1
INVARIANTS
    TypeOK
    LostOnlyInWindow
    OneIssuePerRun
    NoMixups
PROPERTIES
    RunsAdvance
CHECK_DEADLOCK FALSE
