SPECIFICATION Spec
CONSTANTS
    w1 = w1
    w2 = w2
    r1 = r1
    j1 = j1
    j2 = j2
    Nobody = Nobody
    NoJob = NoJob
    Workers = {w1, w2}
    Requests = {r1}
    Jobs = {j1, j2}
    MaxAttempts = 2
    AttemptCap = 3
    VersionCap = 3
    SerialSweeps = TRUE
    SlowRuns = FALSE
SYMMETRY Interchangeable
INVARIANTS TypeOK OneVersionPerJob AttemptsBounded 
PROPERTIES NeverRunAgain RevocationStands
\* A deleted voice, or one at the version bound, may stop.
CHECK_DEADLOCK FALSE
