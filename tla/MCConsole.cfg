SPECIFICATION Spec
CONSTANTS
    VIDEO_MEM_ROWS = 2
    VIDEO_MEM_COLUMNS = 2
    Letters = {"a", "b"}
    MaxWrite = 2
    MaxTyped = 3
INVARIANTS
    CursorOnScreen
    ScreenShowsOutput
    EraseFindsCharacter
