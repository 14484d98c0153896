SPECIFICATION Spec
CONSTANTS
    w1 = w1
    w2 = w2
    t1 = t1
    t2 = t2
    d1 = d1
    d2 = d2
    NoWorker = NoWorker
    None = None
    N = 3
    Silent = {3}
    Lexical = {1}
    Texts = {t1, t2}
    Takes = {1}
    Workers = {w1}
    Disks = {d1}
    DiskOf <- SharedDisk
    RevisionCap <- FirstTwice
SYMMETRY Interchangeable
INVARIANTS DoneDurable OneActive ExportFaithful BookCurrent BookSound BilledOnce PipelineInv
\* A canceled job, or one at the revision bound, may stop.
CHECK_DEADLOCK FALSE
