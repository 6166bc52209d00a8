SPECIFICATION Spec
CHECK_DEADLOCK FALSE
CONSTANTS
    Texts <- MCTexts
    LengthOf <- MCLength
    Gokart = "gokart/"
    Power = "/power"
    CutKey <- MCCutKey
    Keys <- MCKeys
    MaxLines = 3
INVARIANTS TypeOK LastLineCounts TopicNamesKart StaysInside
