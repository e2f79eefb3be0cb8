CONSTANTS
    s1 = s1
    i1 = i1
    i2 = i2
    c1 = c1
    c2 = c2
    m1 = m1
    d = d
    e = e
    None = None
    Session <- MCSession
    Instance <- MCInstance
    Caller <- MCCaller
    Monitor <- MCMonitor
    Descriptor <- MCDescriptor
    Indexed <- MCIndexed
    External <- MCExternal
    Mismatched <- MCMismatched
    SavedStates <- MCSavedStates
    Timeout = {1}
    MaxTime = 2
    ExpireEnabled = TRUE
SPECIFICATION FairSpec
INVARIANTS
    TypeOK
    HandlerHasSession
    ServiceMapsAgree
    ResultsOfClassifier
    StaleOnlyAfterLoad
PROPERTIES
    RequestsEnd
