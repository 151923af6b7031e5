SPECIFICATION Spec
CONSTANTS
    ann = ann
    bob = bob
    eng = eng
    None = None
    Identities = {ann, bob}
    Groups = {eng}
    Callers = {h1}
    Schedulers = {s1}
    Ops = {"decide", "complete", "schedule", "overdue"}
    InitGroups <- DueGroup
    InitMembers <- OneMember
    Expiries = {9}
    DueDays = 1
    IntervalDays = 2
    Mortal = {}
    MaxCalls = 2
    MaxReviews = 3
    MaxMembers = 1
    MaxClock = 3
INVARIANTS ReviewsAnIntervalApart
CHECK_DEADLOCK FALSE
