CONSTANTS
    top = top
    x = x
    y = y
    z = z
    Bits = {top}
    SignBit = top
    Ids = {x, y, z}
    NoId = NoId
    Tables <- BigTables
SPECIFICATION Spec
INVARIANTS TypeOK Decoded KnownIdsAreDecoded
CHECK_DEADLOCK FALSE
