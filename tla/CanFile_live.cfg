CONSTANTS
    MaxFrames = 4
    MaxCopy = 2
    Bytes = 2
    NoFile = NoFile
SPECIFICATION FairSpec
CHECK_DEADLOCK FALSE
INVARIANTS TypeOK BytesAreLatest
PROPERTIES ImplementsFrameLog NoFrameWaits
