CONSTANTS
    a = a
    b = b
    c = c
    None = None
    Blank = Blank
    Unknown = Unknown
    CanId = {a, b, c}
    Files <- AllFiles
SPECIFICATION Spec
CHECK_DEADLOCK FALSE
INVARIANTS TypeOK OverflowMeansGrown EntriesLoaded
