CONSTANTS
    ann = ann
    bob = bob
    cat = cat
    eng = eng
    leads = leads
    None = None
    Identities <- TwoIdentities
    Groups <- MCGroups
    Targets = {eng}
    Handlers = {h1, h2}
    Ops = {"create", "approve", "deny", "cancel", "stale"}
    InitGroups <- ConcurrentGroups
    InitMembers <- LeadsMembers
    GroupUpdates <- NoUpdates
    Linked = {ann}
    Expiries = {None}
    StaleDays = 0
    Crashes = FALSE
    MaxOps = 4
    MaxClock = 1
SPECIFICATION FairSpec
CHECK_DEADLOCK FALSE
INVARIANTS
    GrantsTraceToApproval
    DecisionsBacked
    PendingPerHandler
    GrantsPerHandler
PROPERTIES
    OnlyInFlightOverwrites
    VoteDecides
