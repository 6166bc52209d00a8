SPECIFICATION FairSpec
CONSTANTS
    MaxRx = 2
    MaxFrames = 4
    MaxFaults = 3
INVARIANT TypeOK
PROPERTIES ImplementsFrameFeed FramesArrive BackOnline
