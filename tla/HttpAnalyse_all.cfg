SPECIFICATION FairSpec
CONSTANTS
    Conns = {"a", "b"}
    MaxReqs = 2
    IdLen <- LongThenShort
    PipeLimit = 1
INVARIANTS RequestInv OwnUntilFailure ReportedOnce
 
