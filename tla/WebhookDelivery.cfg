SPECIFICATION FairSpec
CONSTANTS
    created = created
    TestEvent = TestEvent
    None = None
    Hooks = {w1}
    Events = {created}
    EventSets <- MCEventSets
    Handlers = {h1, h2}
    Mortal = {h2}
    MaxCalls = 6
    MaxDeliveries = 2
INVARIANTS
    TypeOK
    EveryPostCounted
    NoOrphans
PROPERTIES
    DeletedGathersNothing
    DeliveriesSettle
    KeepsPromise
CHECK_DEADLOCK FALSE
