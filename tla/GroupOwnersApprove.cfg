CONSTANTS
    ann = ann
    bob = bob
    cat = cat
    eng = eng
    leads = leads
    None = None
    Identities <- MCIdentities
    Groups <- MCGroups
    Targets = {eng}
    Handlers = {h1}
    Ops = {"create", "approve"}
    InitGroups <- AllModeGroups
    InitMembers <- TwoLeads
    GroupUpdates <- NoUpdates
    Linked = {ann}
    Expiries = {None}
    StaleDays = 0
    Crashes = FALSE
    MaxOps = 4
    MaxClock = 1
SPECIFICATION FairSpec
CHECK_DEADLOCK FALSE
INVARIANT
    OwnersApproved
