\* i1 accepted, i2 rejected by yara with the name of i1, i3 with a bad digest, i4 accepted
\* with the name of i3; a write of SAS_OUT may fail and the key may be pulled out.
CONSTANTS
    Incoming <- FourIn
    Transit <- FourTransit
    Names <- AllNames
    Name <- FourNames
    Length <- FourLength
    Md <- FourMd
    YaraClean = TRUE
    Concurrent = FALSE
    DeviceMayVanish = TRUE
    WriteMayFail = TRUE
    None = None
    i1 = i1
    i2 = i2
    i3 = i3
    i4 = i4
    n1 = n1
    n2 = n2
SPECIFICATION Spec
\* keysas-out blocks in recv once transit has nothing more and the move ends.
CHECK_DEADLOCK FALSE
INVARIANT TypeOK
PROPERTY MoveDeliversAll
