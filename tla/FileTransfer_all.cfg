SPECIFICATION FairSpec
CONSTANTS
    FileLen = 7
    CHUNK = 3
    SockBuf = 4
    MaxShort = 1
INVARIANTS ReceivedIsPrefix CompleteWhenClosed
PROPERTIES ReceiverStops
