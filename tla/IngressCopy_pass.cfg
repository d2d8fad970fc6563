\* Three distinctly named files copied by three threads; the mount may fail
\* and the key may be pulled out at any point of the copy.
CONSTANTS
    Workers <- OneWorker
    w1 = w1
    w2 = w2
    Files <- ThreeFiles
    Names <- ThreeNames
    Name <- DistinctNames
    BadNames <- NoBad
    Unreadable <- AllReadable
    Chunks = 2
    MountMayFail = TRUE
    LockMayFail = FALSE
    DeviceMayVanish = TRUE
    None = None
    Hole = Hole
    f1 = f1
    f2 = f2
    f3 = f3
    n1 = n1
    n2 = n2
    n3 = n3
SPECIFICATION Spec
\* copy_device_in returns (or its worker panics): the run really stops there.
CHECK_DEADLOCK FALSE
INVARIANT TypeOK
INVARIANT LockSpansThreads
PROPERTY AtomicIngressSpec
