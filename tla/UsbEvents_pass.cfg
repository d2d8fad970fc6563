\* One UI connection that may close, an unsigned key d1 and a signed key d2
\* of different models, each plugged up to twice, one foreign removal,
\* HMAC challenge on, transfers that return Ok.
CONSTANTS
    Workers <- OneWorker
    Devices = {d1, d2}
    Products = {p1, p2}
    Product <- DistinctProducts
    Signed = {d2}
    Parts <- OnePartition
    Malformed = {}
    YubikeyEnabled = TRUE
    ClientMayClose = TRUE
    IoMayFail = FALSE
    InitLockDir = {TRUE}
    MaxPlugs = 2
    MaxForeign = 1
    NoDevice = NoDevice
    w1 = w1
    w2 = w2
    d1 = d1
    d2 = d2
    p1 = p1
    p2 = p2
SPECIFICATION Spec
INVARIANT TypeOK
PROPERTY PlugServed
\* The loop blocks in ppoll when no udev event is pending; once the bounded
\* environment has plugged its keys, that wait is the expected end state.
CHECK_DEADLOCK FALSE
