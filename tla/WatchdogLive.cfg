\* Crashes in the allocator, with a thread that may cancel.
SPECIFICATION FairSpec
CONSTANTS
    T1 = T1
    T2 = T2
    T3 = T3
    Unlocked = Unlocked
    Threads <- ThreeThreads
    Cancellers <- OneCanceller
    MaxCrashes = 3
INVARIANTS
    TypeOK
    WatchedIsTimed
PROPERTIES
    NoHang
\* A process without its alarm may hang: coffeecatch.h, line 203.
CHECK_DEADLOCK FALSE
