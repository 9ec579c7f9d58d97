SPECIFICATION WebSpec
CONSTANTS
    RoleSets <- EachPermission
    MaxRegrants = 1
    MaxSaleMoves = 2
    NoSale = NoSale
    People = {p, q}
    MaxEdits = 1
    MaxLost = 1
    MaxSold = 2
    NoData = NoData
    Nobody = Nobody
    Texts = {t}
    Banks = {b}
    Cpfs = {c1, c2}
    Blank = Blank
    Absent = Absent
    Masked = Masked
    MaxOthers = 1
    MaxLate = 1
    Ceps = {z1, z2}
    CacheLimit = 1
    MaxLookups = 2
    NoCep = NoCep
    Tabs = {t1, t2}
    MaxArrivals = 2
    MaxReads = 2
    NoCount = NoCount
    Values = {1, 2}
    Windows = {w1, w2}
    MaxDrags = 2
INVARIANTS
    
    NoMixUp
    SoldOnce
    RowConsistent
    SoundsOnce
    ListSettles
PROPERTIES
    FilledForItsCep
    SavedAsShown
CHECK_DEADLOCK FALSE
