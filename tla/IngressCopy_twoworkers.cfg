\* Two UIs connected: both workers copy the same key, two files with two names, no fault.
CONSTANTS
    Workers <- TwoWorkers
    w1 = w1
    w2 = w2
    Files <- TwoFiles
    Names <- TwoNames
    Name <- TwoDistinct
    BadNames <- NoBad
    Unreadable <- AllReadable
    Chunks = 2
    MountMayFail = FALSE
    LockMayFail = FALSE
    DeviceMayVanish = FALSE
    None = None
    Hole = Hole
    f1 = f1
    f2 = f2
    f3 = f3
    n1 = n1
    n2 = n2
    n3 = n3
SPECIFICATION Spec
\* copy_device_in returns (or its worker panics): the run really stops there.
CHECK_DEADLOCK FALSE
PROPERTY AtomicIngressSpec
