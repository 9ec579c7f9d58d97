SPECIFICATION ServerSpec
CONSTANTS
    Calendar <- MonthEnd
    Offsets = {0, 1}
    Watchers = {w}
    Sellers = {s}
    Runs = {r1, r2}
    MaxRuns = 2
    MaxCancels = 1
    Ids = {1}
    Docs = {d1, d2}
    Places = {a, b}
    Requests = {q1, q2}
    MaxRequests = 3
    NoDoc = NoDoc
    Users = {u1, u2}
    Root = Root
    Roles = {role1, role2}
    System = 3
    Calls = {c1, c2}
    MaxCalls = 2
    NoRole = NoRole
    Uploads = {up1, up2, up3}
    Removals = {rm1, rm2}
    Quota = 1
    DemoCustomers = {dc1}
    DemoSellers = {ds1}
    SaleCount = 2
    DaysAgo = {0, 1, 2, 3, 7, 20, 40}
    NowHours = {3, 12, 26}
    Never = Never
    Columns = 2
    SaleColumns = {1}
    Ordinary = {"one", "letter"}
    Digits = {"one"}
    Messages <- NoMessageOrOne
    MaxText = 4
    Months = {1, 2, 6, 7, 8}
    ReportMonths = {7, 8}
    Amounts = {1, 5}
    Plans = {p1, p2}
    MaxBook = 2
    NotInstalled = NotInstalled
    NoReport = NoReport
INVARIANTS
    ToldOnce
    OneDefault
    ReferenceFound
    UploadsAccounted
    DemoHistory
    ComesBack
    ReportAddsUp
PROPERTIES
    RunCovers
    RoleKept
    OwnRightsByOthers
CHECK_DEADLOCK FALSE
