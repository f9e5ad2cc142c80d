CONSTANTS
    NumPages = 28
    physbase = 2
    physfree = 3
    PHYS_VIDEO_MEM = 0
    ENTRIES = 4
    MIN_PAGES = 11
    Sizes = {1, 3}
    p1 = p1
    p2 = p2
    Procs = {p1, p2}
SPECIFICATION MCSpec
CHECK_DEADLOCK FALSE
INVARIANT DirectMapIntact
INVARIANT FramesDisjoint
 
INVARIANT WalkAgrees
PROPERTY PageMapSpec
INVARIANT AreasKeepPages
INVARIANT StackGrowth
