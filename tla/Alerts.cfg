\* Two rules, one of which a request may replace; the last and the first day of a month.
CONSTANTS
    east = east
    west = west
    none = none
    p1 = p1
    p2 = p2
    p3 = p3
    x = x
    y = y
    yBlank = yBlank
    NotFilled = NotFilled
    ProviderAt <- MCProviderAt
    Trimmed <- MCTrimmed
    admin = admin
    operator = operator
    r1 = r1
    r2 = r2
    Users = {admin, operator}
    PrincipalOf <- MCPrincipal
    Projects = {p1, p2, p3}
    ExtOf <- MCExt
    SiteOf <- MCSite
    ProviderOf <- MCProvider
    NoSite = none
    CalendarMonth <- MCMonth
    CalendarYear <- MCYear
    Ledgers <- MCLedgers
    Rules = {r1, r2}
    ShapesOf <- MCShapes
    Todays = {3, 4}
    MaxRequests = 2
SPECIFICATION AlertsSpec
INVARIANTS AlertsTypeOK AlertsAreShown
PROPERTIES AlertsMatchStatus
\* The run ends with its last day.
CHECK_DEADLOCK FALSE
