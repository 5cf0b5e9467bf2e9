SPECIFICATION FairSpec
CONSTANTS
    MAX_AUDIO_FRAME_SIZE = 4
    FrameSizes <- Sizes
    MaxFrames = 8
INVARIANTS AudioTypeOK NoOverwrite
PROPERTIES ReadsWhatWasFilled StarvedForever BothExit
