SPECIFICATION MCSpec
CONSTANTS
    TERM_BUF_SIZE = 3
    MaxIndex = 4
    MaxAhead = 2
    Lens = {0, 2, 3}
    Inputs <- Keys
    Before = {"other"}
    Paced = TRUE
    NUL = NUL
    Outside = Outside
    None = None
    Pressed = {1, 7, 14, 15, 19, 28, 35, 40, 43, 59, 68, 71}
    MaxWire = 2
INVARIANTS
    
    
    
    LineControl

    
    
