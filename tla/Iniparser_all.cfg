\* Arrays may not be allocated, in the beginning or when they are doubled;
\* copying a string does not fail.
SPECIFICATION IniSpec
CONSTANTS
    NULL = NULL
    ABSENT = ABSENT
    Keys <- MCKeys
    Vals <- MCVals
    Hash <- MCHash
    DICTMINSZ = 2
    MaxSize = 4
    CallocMayFail = TRUE
    DupMayFail = FALSE
    Files <- MCFiles
    AppVals <- MCAppVals
    LongVals <- MCLong
    Lower <- MCLower
    JOINED <- Joined
INVARIANTS UniqueKeys ProbeTerminates LoadedIsFile DumpLoads
PROPERTIES ImplementsMap
