\* Two server processes, pushes of any age.
CONSTANTS
    l1 = l1
    l2 = l2
    l3 = l3
    l4 = l4
    p1 = p1
    p2 = p2
    p3 = p3
    k1 = k1
    k2 = k2
    m1 = m1
    s1 = s1
    s2 = s2
    Idle = Idle
    Logs = {l1, l2, l3, l4}
    DayOf <- PushDay
    KeyOf <- PushKey
    ModelOf <- KeyModel
    ProjectOf <- KeyProj
    Pushes = {p1, p2, p3}
    BatchOf <- PushBatch
    Servers = {s1, s2}
    MaxTries = 2
    MaxSends = 3
    MaxDay = 3
    Retention = 1
SPECIFICATION Spec
SYMMETRY Symmetry
INVARIANTS TypeOK SingleTruth AckedIsBilled
CHECK_DEADLOCK FALSE
