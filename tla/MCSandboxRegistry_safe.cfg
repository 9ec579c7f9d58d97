CONSTANTS
    Visitors = {v1, v2}
    Uploaders = {v1}
    Sweeps = {w1}
    Cron = cron
    Ids = {s1, s2}
    MAX_SANDBOXES = 1
    IDLE = 0
    LIFETIME = 1
    MaxFaults = 1
    NULL = NULL
SPECIFICATION Spec
SYMMETRY Interchangeable
INVARIANT WithinLimit
INVARIANT RefusedOnlyByFault
INVARIANT ServedIsFilled
INVARIANT StorageAccounted
