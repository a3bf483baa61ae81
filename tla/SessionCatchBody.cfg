\* A block opened inside a COFFEE_CATCH block.
SPECIFICATION Spec
CONSTANTS
    Abrt = Abrt
    Segv = Segv
    Bus = Bus
    Fpe = Fpe
    B1 = B1
    B2 = B2
    NoSignal = NoSignal
    HostStack = HostStack
    NoStruct = NoStruct
    NoContext = NoContext
    SIGABRT = Abrt
    SIGSEGV = Segv
    SIGBUS = Bus
    Signals <- FourSignals
    UnwinderFaults <- StackFaults
    AsyncSignals <- Nothing
    Buffers <- TwoBuffers
    Faults <- SetupFaults
    MaxBlocks = 3
    MaxHandlers = 2
INVARIANTS
    BodyIsProtected
