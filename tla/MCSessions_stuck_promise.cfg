CONSTANTS
    Tabs = {t1}
    Sids = {i1}
    HasLocks = TRUE
    Rotations = 2
    IatSteps = {1}
    MaxChanges = 0
    MaxFaults = 0
    NULL = NULL
SPECIFICATION Spec
INVARIANT RenewalReadsLatest
