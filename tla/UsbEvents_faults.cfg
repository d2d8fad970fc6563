\* Two UI connections, d1 with incomplete udev properties, d2 with partitions 1 and 14,
\* the HMAC challenge on, transfers and the FIDO_DB read that may fail, /var/lock/keysas/
\* present or not at boot.
CONSTANTS
    Workers <- TwoWorkers
    Devices = {d1, d2}
    Products = {p1, p2}
    Product <- DistinctProducts
    Signed = {d2}
    Parts <- CloudImage
    Malformed = {d1}
    YubikeyEnabled = TRUE
    ClientMayClose = TRUE
    IoMayFail = TRUE
    InitLockDir = {TRUE, FALSE}
    MaxPlugs = 1
    MaxForeign = 1
    NoDevice = NoDevice
    w1 = w1
    w2 = w2
    d1 = d1
    d2 = d2
    p1 = p1
    p2 = p2
SPECIFICATION Spec
INVARIANT NoGhostKeys
\* The loop blocks in ppoll when no udev event is pending.
CHECK_DEADLOCK FALSE
