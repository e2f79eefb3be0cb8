CONSTANTS
    a = a
    b = b
    None = None
    Descriptor <- MCDescriptor
    Indexed <- MCIndexed
    External <- MCExternal
    Neighbors <- MCNeighbors
    AutonegSelectRatio = 2
    Mismatched <- MCMismatched
    SavedStates <- MCSavedStates
    MaxFeedback = 1
    MaxBatch = 1
SPECIFICATION Spec
INVARIANTS
    TypeOK
    LabelsApart
    PoolFromSeeds
    OneRefinement
    CacheCoherent
PROPERTIES
    ImplementsViews
