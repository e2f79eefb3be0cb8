CONSTANTS
    w1 = w1
    w2 = w2
    a = a
    b = b
    i1 = i1
    i2 = i2
    None = None
    Flow <- MCFlow
    File <- MCFile
    Fid <- MCFid
    FidOf <- MCFidOf
    SizeOf <- MCSizeOf
    Visits <- MCVisits
    ChunkSize = 2
    SimultaneousUploads = 2
SPECIFICATION FairSpec
CHECK_DEADLOCK FALSE
INVARIANTS
    TypeOK
    SlotsInUse
    SuccessIsWhole
    FullMapIsTaken
PROPERTIES
    Settles
    UploadsEnd
