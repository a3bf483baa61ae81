\* Any stack, any fault, either refusal.
SPECIFICATION FairSpec
CONSTANTS
    Backends <- AnyBackend
    BACKTRACE_FRAMES_MAX = 3
    MaxDepth = 5
    Word = 2
    TopAddress = 6
    SSIZE_MAX = 7
    BufferLen = 10
    SIZE_MAX = 15
    PartLengths <- ShortAndLong
    Refusals <- AnyRefusal
    LocalCapacity = 9
INVARIANTS
    TypeOK
    FramesFaithful
    IndexRight
    MessageFits
    LocalsReleased
    LocalsBounded
    RefsLive
    TraceMatches
    ThrownOnce
PROPERTIES
    WalkAdvances
    WalkEnds
