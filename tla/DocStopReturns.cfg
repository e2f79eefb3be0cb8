CONSTANTS
    s1 = s1
    s2 = s2
    i1 = i1
    i2 = i2
    c1 = c1
    c2 = c2
    m1 = m1
    m2 = m2
    None = None
    Session <- MCSession
    Instance <- MCInstance
    Caller <- MCCaller
    Monitor <- MCMonitor
    Timeout = {0, 1}
    MaxTime = 3
    ExpireEnabled = TRUE
SPECIFICATION FairSpec
CHECK_DEADLOCK FALSE
PROPERTIES
    StopReturns
