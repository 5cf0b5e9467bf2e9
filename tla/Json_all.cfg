SPECIFICATION Spec
CONSTANTS
    MaxItems = 4
    MallocMayFail = TRUE
    NameOf <- MCNameOf
    ValueOf <- MCValueOf
    Prebuffers <- MCPrebuffers
    MaxMallocs = 13
INVARIANTS TreesSound PrintsFitAndAgree FailedPrintLeaksNothing
