\* d1 announces its partition without an ID_SERIAL (or other) property.
CONSTANTS
    Workers <- OneWorker
    Devices = {d1, d2}
    Products = {p1, p2}
    Product <- DistinctProducts
    Signed = {d2}
    Parts <- OnePartition
    Malformed = {d1}
    YubikeyEnabled = FALSE
    ClientMayClose = FALSE
    IoMayFail = FALSE
    InitLockDir = {TRUE}
    MaxPlugs = 1
    MaxForeign = 0
    NoDevice = NoDevice
    w1 = w1
    w2 = w2
    d1 = d1
    d2 = d2
    p1 = p1
    p2 = p2
SPECIFICATION Spec
PROPERTY EventsNeverKillWorker
CHECK_DEADLOCK FALSE
