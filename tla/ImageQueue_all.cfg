\* One block at a time, fewer blocks than threads: blocks come back in any
\* order, there is no deadlock and everybody finishes.
SPECIFICATION FairSpec
CONSTANTS
    t1 = t1
    t2 = t2
    t3 = t3
    NoThread = NoThread
    Foreign = Foreign
    Threads <- ThreeThreads
    QUEUE_SIZE = 2
    MaxHold = 1
    Rounds = 3
    MaxForeign = 1
    MaxSpurious = 1
INVARIANTS FlagsAreHolders HeadTailCount NoStrandedSleeper
PROPERTIES ImplementsPool AllFinish
