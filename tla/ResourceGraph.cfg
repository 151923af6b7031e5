SPECIFICATION Spec
CONSTANTS
    Handlers = {h1, h2}
    FirstOrgs <- MCOrgs
    FirstEntities <- MCEntities
    Bulks <- MCBulks
    MaxId = 3
    MaxCalls = 4
INVARIANTS
    TypeOK
    ChildrenCameLate
    TwinsOverlapped
    LossesExplained
PROPERTIES
    CyclesStay
SYMMETRY Symmetry
CHECK_DEADLOCK FALSE
