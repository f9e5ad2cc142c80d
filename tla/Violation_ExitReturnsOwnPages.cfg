SPECIFICATION Spec
CONSTANTS
    p1 = p1
    p2 = p2
    p3 = p3
    Procs = {p1, p2, p3}
    VPages = {"data", "stack"}
    NumFrames = 7
    Vals = {"file", "stored"}
    Loaded = "file"
    MIN_PAGES = 2
    Resharing = TRUE
    FirstProc = p1
PROPERTY ExitReturnsOwnPages
CHECK_DEADLOCK FALSE
