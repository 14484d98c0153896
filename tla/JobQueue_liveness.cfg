SPECIFICATION FairSpec
CONSTANTS
    w1 = w1
    w2 = w2
    w3 = w3
    r1 = r1
    r2 = r2
    j1 = j1
    j2 = j2
    NoWorker = NoWorker
    NoJob = NoJob
    Workers = {w1, w2}
    Requests = {r1}
    Jobs = {j1, j2}
    Ops <- Reviews
    MaxAttempts = 2
    AttemptCap = 3
    Reliable = {w1}
    SlowWorkers = FALSE
    SerialSweeps = TRUE
    SerialRequests = TRUE
PROPERTIES
    JobsSettle
    DocumentedLifecycle
\* All jobs may be settled or every worker dead.
CHECK_DEADLOCK FALSE
