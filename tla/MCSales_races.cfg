CONSTANTS
    u1 = u1  u2 = u2  u3 = u3
    s1 = s1  s2 = s2
    open = open  shut = shut
    p1 = p1  p2 = p2
    r1 = r1  r2 = r2  r3 = r3
    NULL = NULL
    Keep = Keep
    Users = {u1, u2, u3}
    SaleIds = {s1}
    Statuses = {open, shut}
    Canceled = shut
    Plans = {p1, p2}
    PlanMin <- MCPlanMin
    PlanMax <- MCPlanMax
    PlanEdits = {}
    Amounts = {1, 2, 3}
    Requests = {r1, r2, r3}
    Inputs <- RaceInputs
    Perms <- MCPerms
    Watchers = {u3}
    EarlierRows <- MCEarlierRows
    MaxSettings = 0
    MaxFaults = 0
SPECIFICATION Spec
CHECK_DEADLOCK FALSE
SYMMETRY Interchangeable
INVARIANTS HistoryExact CanceledOnce SellerHears
PROPERTY BrscanByAuditors
