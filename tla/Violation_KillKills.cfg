SPECIFICATION MCSpec
CONSTANTS
    MAX_P = 4
    MaxThreads = 4
    Syscalls <- AllSyscalls
PROPERTY KillKills
