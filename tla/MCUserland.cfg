CONSTANTS
    MAX_P = 8
    MaxThreads = 7
    Syscalls <- AllSyscalls
    Inputs <- SomeInputs
SPECIFICATION USpec
 
INVARIANT ForegroundDone
INVARIANT JobsDoneAtRead
PROPERTY PromptReturns
PROPERTY BackgroundRuns
