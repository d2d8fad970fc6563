\* Up to four calls of create_pki_dir (with a valid or invalid path) and generate_root,
\* each of which may fail at any step.
CONSTANTS
    MaxCalls = 4
    MaxLeaves = 1
    MaxSigns = 1
    CheckAlgs <- BothAlgs
    FailPoints <- AllFailures
    Absent = Absent
    ValidityInputs <- AroundU32
    OverflowChecks = TRUE
SPECIFICATION Spec
\* The bounded sequence of calls ends; the library then has nothing to do.
CHECK_DEADLOCK FALSE
INVARIANT TypeOK
INVARIANT OkIsComplete
