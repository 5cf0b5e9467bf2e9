SPECIFICATION Spec
CONSTANTS
    FlagSets <- Kinds
    BufferSize = 2
    IntMax = 15
    StartThresholds <- Thresholds
    AvailMins <- Mins
    StopThreshold = 2
    MaxCount = 3
INVARIANTS TypeOK AreaIsFree TransferWhole OwnsWhatItSays
PROPERTIES CallEnds
