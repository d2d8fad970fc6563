\* Register stations, possibly twice under one name, across a restart of
\* the admin application.
CONSTANTS
    st1 = st1
    st2 = st2
    bad = bad
    ip1 = ip1
    ip2 = ip2
    p1 = p1
    p2 = p2
    Names <- ThreeNames
    Ips <- TwoIps
    Paths <- TwoPaths
    NotFiles <- NotAFile
    Quoted <- QuotedName
    OpenMayFail = TRUE
    MaxRows = 5
    MaxRestarts = 1
SPECIFICATION Spec
INVARIANT LookupIsLastSet
