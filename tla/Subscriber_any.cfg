CONSTANTS
    k1 = k1
    k2 = k2
    pos = pos
    speed = speed
    time = time
    None = None
    Kart = {k1, k2}
    CanId = {pos, speed, time}
    PosId = pos
    MaxSignal = 2
    MaxByte = 3
    MaxMail = 3
    Traffic <- AllTraffic
    Dbc <- OneFile
    Events = {}
SPECIFICATION Spec
CHECK_DEADLOCK FALSE
INVARIANTS TypeOK KartAttribution Provenance RowsInOrder NoneMissing WalksOffEarly
PROPERTIES StoredBeforePop
