CONSTANTS
    u1 = u1
    u2 = u2
    u3 = u3
    u4 = u4
    e1 = e1
    e2 = e2
    Uuid <- MCUuid
    Example <- MCExample
    Rankings <- MCRankings
    Shuffles <- MCShuffles
    Saved <- MCSaved
    Visits <- MCVisits
    Step = 2
SPECIFICATION FairSpec
CHECK_DEADLOCK FALSE
INVARIANTS
    TypeOK
    PaneShowsModel
    ExamplesShown
    RandomInOrder
PROPERTIES
    RefineEnds
    LoadIsFollowedUp
