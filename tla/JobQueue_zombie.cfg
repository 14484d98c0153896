SPECIFICATION Spec
CONSTANTS
    w1 = w1
    w2 = w2
    w3 = w3
    r1 = r1
    r2 = r2
    j1 = j1
    j2 = j2
    NoWorker = NoWorker
    NoJob = NoJob
    Workers = {w1, w2, w3}
    Requests = {r1}
    Jobs = {j1}
    Ops <- Reviews
    MaxAttempts = 2
    AttemptCap = 3
    Reliable = {}
    SlowWorkers = TRUE
    SerialSweeps = TRUE
    SerialRequests = TRUE
PROPERTIES
    ZombieHarmless
\* All jobs may be settled or every worker dead.
CHECK_DEADLOCK FALSE
