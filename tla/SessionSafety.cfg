\* Crashes, sent signals, faults of the unwinder, refused alternate stacks.
SPECIFICATION Spec
CONSTANTS
    Abrt = Abrt
    Segv = Segv
    Bus = Bus
    Fpe = Fpe
    B1 = B1
    B2 = B2
    NoSignal = NoSignal
    HostStack = HostStack
    NoStruct = NoStruct
    NoContext = NoContext
    SIGABRT = Abrt
    SIGSEGV = Segv
    SIGBUS = Bus
    Signals <- FourSignals
    UnwinderFaults <- StackFaults
    AsyncSignals <- Sent
    Buffers <- TwoBuffers
    Faults <- StackFailures
    MaxBlocks = 3
    MaxHandlers = 3
INVARIANTS
    TypeOK
    DepthBalanced
    RecoveryTargetLive
    GuardTargetLive
    MaskRestored
    AltStackLive
PROPERTIES
    MessageKept
    PromisesKept
