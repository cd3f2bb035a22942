\* A daily and a manual sync of one source, with retries.
CONSTANTS
    t1 = t1
    t2 = t2
    d1 = d1
    Tasks = {t1, t2}
    Sources = {d1}
    SourceOf <- OneSource
    MaxAttempts = 2
    TimeLimit = 1
    SweepAge = 1
    AckLoss = FALSE
SPECIFICATION Spec
SYMMETRY Symmetry
INVARIANTS TypeOK NoFalseSweep SuccessIsEarned
PROPERTIES FailedIsFinal SweepSparesSeen
