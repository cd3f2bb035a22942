\* Three requests of anybody; an export of one row a page.
CONSTANTS
    admin = admin
    member = member
    key = key
    s1 = s1
    s2 = s2
    a1 = a1
    a2 = a2
    x = x
    y = y
    p1 = p1
    p2 = p2
    p3 = p3
    none = none
    Users = {admin, member}
    TokenRoles <- MCTokenRoles
    DbRoles <- MCDbRoles
    Keys = {key}
    KeyOf <- MCKeyOf
    Modules = {"dashboard", "billing", "metering"}
    Tabs = {1, 2}
    MaxRequests = 3
    Sources = {s1, s2}
    AccountOf <- MCAccountOf
    ProviderOf <- MCProviderOf
    CategoryOf <- MCCategoryOf
    Items <- MCItems
    Projects = {p1, p2, p3}
    ProjectOf <- MCProjectOf
    Failed = {s2}
    None = none
    MonthLength = 2
    Today = 5
    Chunk = 1
    Questions <- MCQuestions
    Filters <- MCFilters
    FirstRows <- MCFirst
    FirstBill <- MCFirstBill
    Bills <- MCBills
    Yuan = 7
    Trimmed <- MCTrimmed
    MaxCached = 1
SPECIFICATION Spec
INVARIANTS TypeOK FiguresAgree ExportIsWhole OneSessionPerLogin
\* The requests are counted.
CHECK_DEADLOCK FALSE
