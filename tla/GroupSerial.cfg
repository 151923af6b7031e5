CONSTANTS
    ann = ann
    bob = bob
    cat = cat
    eng = eng
    leads = leads
    None = None
    Identities <- MCIdentities
    Groups <- MCGroups
    Targets = {eng}
    Handlers = {h1}
    Ops = {"create", "approve", "deny", "cancel", "add", "remove", "update", "sweep", "stale"}
    InitGroups <- SerialGroups
    InitMembers <- LeadsMembers
    GroupUpdates <- SerialUpdates
    Linked = {}
    Expiries <- SomeExpire
    StaleDays = 0
    Crashes = TRUE
    MaxOps = 4
    MaxClock = 1
SPECIFICATION Spec
CHECK_DEADLOCK FALSE
INVARIANTS
    TypeOK
    AtMostOneGrant
PROPERTIES
    FollowsWorkflow
    ApprovedOnlyWhenComplete
    RowsLeaveForAReason
