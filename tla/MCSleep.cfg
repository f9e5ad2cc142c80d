SPECIFICATION MCSpec
CONSTANTS
    HZ = 3
    Word = 8
    Arguments <- ArgumentLists
    IntHalf = 128
    HexDigits = 2
    Alphabet = {43, 45, 48, 49, 55, 57}
    MaxLen = 3
CHECK_DEADLOCK FALSE
INVARIANTS
    SleepTakesSeconds
    ConversionsCorrect
PROPERTY SleepEnds
