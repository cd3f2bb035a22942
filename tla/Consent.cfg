\* Two requests at a time, two commits, six new rows at least beside those at the start.
SPECIFICATION Spec
CONSTANTS
    r1 = r1
    r2 = r2
    n1 = n1
    res = res
    t1 = t1
    u1 = u1
    u2 = u2
    MaxId = 14
    Requests = {r1, r2}
    Names <- MCReserved
    Reserved = res
    Clouds <- MCClouds
    Tenants = {t1}
    Targets = {u1, u2}
    None = none
    Stores <- MCStores
    MaxCommits = 2
\* The run ends when the commits are used up.
CHECK_DEADLOCK FALSE
SYMMETRY Symmetry
INVARIANT TypeOK
PROPERTIES NothingIsCut OneOfEach
