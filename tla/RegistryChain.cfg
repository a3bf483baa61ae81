\* An unclaimed crash and the first setup of another thread.
SPECIFICATION Spec
CONSTANTS
    T1 = T1
    T2 = T2
    T3 = T3
    NoThread = NoThread
    Threads <- TwoThreads
    SIG_CATCH_COUNT = 2
    HostFns <- MCHostFns
    HostActions <- PlainHost
    Faults <- NoFaults
INVARIANTS
    ChainsToHost
