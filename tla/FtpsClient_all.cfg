SPECIFICATION FairSpec
CONSTANTS
    N = 3
    MaxSplits = 2
INVARIANTS ReplyInv DoneIsComplete DataClosedOnce
PROPERTIES EverySessionEnds
