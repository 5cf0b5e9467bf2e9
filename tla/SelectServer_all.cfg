SPECIFICATION FairSpec
CONSTANTS
    Programs = {"tcp_select", "tcp_server"}
    NClient = 2
    FirstFd = 3
    LastFd = 6
    MaxConnects = 4
    MaxMsgs = 2
    MaxErrors = 1
INVARIANTS WatchInv TableNamesOpen RoundIsExact
PROPERTIES WatchedIsServed ForgottenForever
