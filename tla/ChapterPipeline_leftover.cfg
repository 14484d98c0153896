SPECIFICATION Spec
CONSTANTS
    w1 = w1
    w2 = w2
    t1 = t1
    t2 = t2
    d1 = d1
    d2 = d2
    NoWorker = NoWorker
    None = None
    N = 1
    Silent = {}
    Lexical = {1}
    Texts = {t1, t2}
    Takes = {1}
    Workers = {w1, w2}
    Disks = {d1, d2}
    DiskOf <- OwnDisks
    RevisionCap <- ThreeEach
INVARIANT BookCurrent
\* A canceled job, or one at the revision bound, may stop.
CHECK_DEADLOCK FALSE
