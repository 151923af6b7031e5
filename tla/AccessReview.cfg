SPECIFICATION FairSpec
CONSTANTS
    ann = ann
    bob = bob
    eng = eng
    None = None
    Identities = {ann, bob}
    Groups = {eng}
    Callers = {h1, h2}
    Schedulers = {s1}
    Ops = {"create", "decide", "complete", "add", "remove", "schedule", "overdue"}
    InitGroups <- DueGroup
    InitMembers <- OneOrTwice
    Expiries = {9}
    DueDays = 0
    IntervalDays = 1
    Mortal = {h1}
    MaxCalls = 3
    MaxReviews = 1
    MaxMembers = 2
    MaxClock = 1
INVARIANTS
    TypeOK
    CompletedFullyDecided
    ProgressNeverOverstates
    AppliedUnlessLate
PROPERTIES
    OnlyInFlightReopens
    CompletionReschedules
CHECK_DEADLOCK FALSE
