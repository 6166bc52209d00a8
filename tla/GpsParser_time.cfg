SPECIFICATION FairSpec
CONSTANTS
    Lines <- MCLines
    Period = 1
    MaxT = 3
    MaxLines = 4
INVARIANTS TypeOK FramesShowTheirLines TimeIsSent
PROPERTY ParserListens
