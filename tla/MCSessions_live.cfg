CONSTANTS
    Tabs = {t1, t2}
    Sids = {i1}
    HasLocks = TRUE
    Rotations = 1
    IatSteps = {1}
    MaxChanges = 1
    MaxFaults = 1
    NULL = NULL
SPECIFICATION FairSpec
PROPERTY RenewalEnds
PROPERTY DeactivatedIsOut
CHECK_DEADLOCK FALSE
