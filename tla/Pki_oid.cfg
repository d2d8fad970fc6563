\* A root CA created (key generation may fail, file writes do not), then one leaf pair issued
\* under the CA the caller holds, and no message signed; every issued certificate is checked
\* against the root certificate its signature_algorithm names.
CONSTANTS
    MaxCalls = 3
    MaxLeaves = 1
    MaxSigns = 0
    CheckAlgs <- BothAlgs
    FailPoints <- NoWriteFailure
    Absent = Absent
    ValidityInputs <- TenYears
    OverflowChecks = FALSE
SPECIFICATION Spec
\* The bounded sequence of calls ends; the library then has nothing to do.
CHECK_DEADLOCK FALSE
PROPERTY IssuedVerifies
