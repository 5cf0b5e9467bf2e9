SPECIFICATION Spec
CONSTANTS
    MaxItems = 4
    MallocMayFail = TRUE
    NameOf <- MCNameOf
    ValueOf <- MCValueOf
    Prebuffers <- MCPrebuffers
    MaxMallocs = 13
INVARIANT DeleteLeavesSiblings
