\* Two items and a semaphore of one place: a coroutine waits for another one.
\* Two requests: the start and a retry, which may come while the first job runs.
\* CHECK_DEADLOCK FALSE: once the requests are used up and the keys expired nothing is left.
SPECIFICATION DeployFairSpec
CONSTANTS
    i1 = i1
    i2 = i2
    j1 = j1
    j2 = j2
    Items <- MCItems
    Jobs <- MCJobs
    Concurrency = 1
    MaxRetries = 1
    NoDoc = NoDoc
INVARIANTS DeployTypeOK ProgressIsTrue
PROPERTY JobsEnd
CHECK_DEADLOCK FALSE
