CONSTANTS
    Tabs = {t1, t2}
    Sids = {i1, i2}
    HasLocks = TRUE
    Rotations = 2
    IatSteps = {0, 1}
    MaxChanges = 1
    MaxFaults = 1
    NULL = NULL
SPECIFICATION Spec
SYMMETRY Interchangeable
INVARIANT RefusedForAReason
INVARIANT OldPasswordGone
