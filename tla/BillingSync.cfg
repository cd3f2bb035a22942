\* Two sources, one day: the beat's tasks, a manual one and the refresh endpoint.
CONSTANTS
    d1 = d1
    d2 = d2
    t1 = t1
    t2 = t2
    t3 = t3
    t4 = t4
    Nobody = Nobody
    Sources = {d1, d2}
    Days = {1}
    Keys = {"k"}
    Tasks = {t1, t2, t3, t4}
    SourceOf <- DailySource
    RangeOf <- DailyRange
    Kind <- DailyKind
    MaxAmount = 2
SPECIFICATION Spec
INVARIANTS TypeOK DriftIsOwed
PROPERTIES RollingKeeps
CHECK_DEADLOCK FALSE
