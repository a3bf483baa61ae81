\* Three threads, every setup fault.
SPECIFICATION Spec
CONSTANTS
    T1 = T1
    T2 = T2
    T3 = T3
    NoThread = NoThread
    Threads <- ThreeThreads
    SIG_CATCH_COUNT = 2
    HostFns <- MCHostFns
    HostActions <- PlainHost
    Faults <- SetupFaults
INVARIANTS
    TypeOK
    RefcountExact
    ArmedWhileHeld
    HostRestored
    HandlerHasTable
    StructureOwned
    CatchCrashChains
    RegistryInv
PROPERTIES
    ImplementsRegistry
