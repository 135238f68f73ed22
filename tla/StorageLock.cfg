CONSTANTS
    Threads = {t1, t2, t3}
    NoThread = NoThread
SPECIFICATION FairSpec
INVARIANTS MutualExclusion LockInv
PROPERTIES RWSpec WriterGetsLock
