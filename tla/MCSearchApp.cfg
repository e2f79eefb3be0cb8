CONSTANTS
    t1 = t1
    t2 = t2
    e1 = e1
    e2 = e2
    z = z
    Handler <- Handlers
    Example = {e1, e2}
    StateFile = z
    Foreign <- MCForeign
    Visits <- MCVisits
SPECIFICATION Spec
SYMMETRY Threads
CHECK_DEADLOCK FALSE
INVARIANTS
    TypeOK
    PositivesShown
    ExamplesOnDisk
    UploadsClaimable
PROPERTIES
    SavedStateIsWhole
