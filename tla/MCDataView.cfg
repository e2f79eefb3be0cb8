CONSTANTS
    v1 = v1
    v2 = v2
    a = a
    View <- MCView
    Element <- MCElement
    ElementOf <- MCElementOf
    Visits <- MCVisits
SPECIFICATION FairSpec
CHECK_DEADLOCK FALSE
INVARIANTS
    TypeOK
    ViewShowsLabel
PROPERTIES
    LoadingEnds
