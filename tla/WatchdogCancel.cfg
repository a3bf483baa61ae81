\* A cancellation and another thread's crash at the same time.
SPECIFICATION Spec
CONSTANTS
    T1 = T1
    T2 = T2
    T3 = T3
    Unlocked = Unlocked
    Threads <- TwoThreads
    Cancellers <- TwoThreads
    MaxCrashes = 2
PROPERTIES
    CancelsSomething
\* A process without its alarm may hang: coffeecatch.h, line 203.
CHECK_DEADLOCK FALSE
