\* Every call may fail, putting a disposition back included.
SPECIFICATION FairSpec
CONSTANTS
    T1 = T1
    T2 = T2
    T3 = T3
    NoThread = NoThread
    Threads <- TwoThreads
    SIG_CATCH_COUNT = 2
    HostFns <- MCHostFns
    HostActions <- PlainHost
    Faults <- AllFaults
INVARIANTS
    RefcountExact
    StructureOwned
PROPERTIES
    MutexReleased
