CONSTANTS
    top = top
    x = x
    y = y
    z = z
    Bits = {top}
    SignBit = top
    Ids = {x, y, z}
    NoId = NoId
    Tables <- LittleTables
SPECIFICATION Spec
INVARIANT Decoded
