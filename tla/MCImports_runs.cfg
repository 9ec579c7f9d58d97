CONSTANTS
    Imports = {i1, i2}
    Reprocesses = {r1}
    Lines <- MCLines
    Blank <- MCBlank
    KeyOf <- MCKeyOf
    Needs <- MCNeeds
    Names <- MCNames
    Files <- MCFiles
    MaxChanges = 1
    MaxFaults = 2
    NULL = NULL
SPECIFICATION FairSpec
INVARIANT StatsExact
INVARIANT RowPerLine
INVARIANT SalesOnce
PROPERTY LockFreed
