SPECIFICATION Spec
CONSTANTS
    w1 = w1
    w2 = w2
    t1 = t1
    t2 = t2
    d1 = d1
    d2 = d2
    NoWorker = NoWorker
    None = None
    N = 1
    Silent = {}
    Lexical = {1}
    Texts = {t1, t2}
    Takes = {1}
    Workers = {w1}
    Disks = {d1}
    DiskOf <- SharedDisk
    RevisionCap <- FirstTwice
INVARIANT ManifestDescribesBook
\* A canceled job, or one at the revision bound, may stop.
CHECK_DEADLOCK FALSE
