\* A release build (overflow checks off): a root CA created, then one leaf pair issued
\* for 49710 or 49711 days.
CONSTANTS
    MaxCalls = 2
    MaxLeaves = 1
    MaxSigns = 0
    CheckAlgs <- BothAlgs
    FailPoints <- NoWriteFailure
    Absent = Absent
    ValidityInputs <- AroundU32
    OverflowChecks = FALSE
SPECIFICATION Spec
\* The bounded sequence of calls ends; the library then has nothing to do.
CHECK_DEADLOCK FALSE
INVARIANT ValidityWindow
