CONSTANTS
    BLOCK = 3
    Archives <- SomeArchives
    Names <- AllNames
    p1 = p1
    p2 = p2
    Procs = {p1, p2}
    NUM_FDS = 5
    Lens = {1, 2, 7}
    Ids = {1, 2, 3}
    None = None
SPECIFICATION MCSpec
CHECK_DEADLOCK FALSE
INVARIANT DescriptorsPrivate
INVARIANT ReadsFile
INVARIANT ListingComplete
INVARIANT WalkComplete
