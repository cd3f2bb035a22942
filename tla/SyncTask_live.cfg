\* Two tasks on one source: nothing stays running.
CONSTANTS
    t1 = t1
    t2 = t2
    d1 = d1
    Tasks = {t1, t2}
    Sources = {d1}
    SourceOf <- OneSource
    MaxAttempts = 1
    TimeLimit = 1
    SweepAge = 1
    AckLoss = TRUE
SPECIFICATION FairSpec
PROPERTIES EveryLogCloses NoSourceStuck RowsAreRuns
