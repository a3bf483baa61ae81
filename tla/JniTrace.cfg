\* A crash at a NULL program counter, frames from the frame pointers.
SPECIFICATION Spec
CONSTANTS
    Backends <- FramePointers
    BACKTRACE_FRAMES_MAX = 3
    MaxDepth = 5
    Word = 2
    TopAddress = 6
    SSIZE_MAX = 7
    BufferLen = 10
    SIZE_MAX = 15
    PartLengths <- ShortAndLong
    Refusals <- Nothing
    LocalCapacity = 9
INVARIANTS
    TraceFilled
