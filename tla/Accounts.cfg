\* Two accounts, two requests at a time, four commits, two customer codes.
SPECIFICATION Spec
CONSTANTS
    a1 = a1
    a2 = a2
    r1 = r1
    r2 = r2
    x1 = x1
    c1 = c1
    c2 = c2
    bucket = bucket
    gcp = gcp
    aws = aws
    e1 = e1
    Accounts = {a1, a2}
    Requests = {r1, r2}
    Sources <- MCSources
    Gcp <- MCGcp
    Bucket = bucket
    Entities <- MCEntities
    Home <- MCHome
    Exts = {x1}
    Codes = {c1, c2}
    None = none
    Own = own
    MaxCommits = 4
    MaxLines = 2
\* The run ends when the commits are used up.
CHECK_DEADLOCK FALSE
SYMMETRY Symmetry
INVARIANT TypeOK
PROPERTIES EntityKept DeletedStaysInactive NoRevival SalesExact
