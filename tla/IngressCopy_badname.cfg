\* A file whose path is not valid UTF-8.
CONSTANTS
    Workers <- OneWorker
    w1 = w1
    w2 = w2
    Files <- TwoFiles
    Names <- TwoNames
    Name <- TwoDistinct
    BadNames <- BadF2
    Unreadable <- AllReadable
    Chunks = 2
    MountMayFail = FALSE
    LockMayFail = FALSE
    DeviceMayVanish = FALSE
    None = None
    Hole = Hole
    f1 = f1
    f2 = f2
    f3 = f3
    n1 = n1
    n2 = n2
    n3 = n3
SPECIFICATION Spec
\* copy_device_in returns (or its worker panics): the run really stops there.
CHECK_DEADLOCK FALSE
INVARIANT NoPanic
