CONSTANTS
    Visits <- EachQuery
    Ops <- AllOps
    MaxChanges = 1
    MaxFaults = 1
    MaxMoves = 2
    NULL = NULL
SPECIFICATION FairSpec
PROPERTY PagesCatchUp
PROPERTY NeverOlder
CHECK_DEADLOCK FALSE
