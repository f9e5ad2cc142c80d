SPECIFICATION MCSpec
CONSTANTS
    MAX_P = 4
    MaxThreads = 4
    Syscalls <- AllSyscalls
INVARIANTS
    TypeOK
    SchedulerSound
    PidTableExact
    OrphansAdoptedUnlessKilled
PROPERTIES
    NoProcessLost
    
    ZombiesReaped
    RoundRobin
CHECK_DEADLOCK TRUE
