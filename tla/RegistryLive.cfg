\* Fair threads, every setup fault: progress, and the hand-back.
SPECIFICATION FairSpec
CONSTANTS
    T1 = T1
    T2 = T2
    T3 = T3
    NoThread = NoThread
    Threads <- TwoThreads
    SIG_CATCH_COUNT = 2
    HostFns <- MCHostFns
    HostActions <- VariedHost
    Faults <- SetupFaults
PROPERTIES
    GivesBack
    CrashEnds
