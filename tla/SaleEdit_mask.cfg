SPECIFICATION SaleEditSpec
CONSTANTS
    Texts = {t}
    Banks = {b}
    Cpfs = {c1, c2}
    Blank = Blank
    Absent = Absent
    Masked = Masked
    MaxOthers = 0
    MaxLate = 1
INVARIANT FallsBackToStored
CHECK_DEADLOCK FALSE
