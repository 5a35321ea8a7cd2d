CONSTANTS
    Threads = {t1, t2, t3}
    NoThread = NoThread
    MaxNest = 2
    RecursiveUpdate = FALSE
SPECIFICATION FairSpec
INVARIANT LockInv
INVARIANT NoMissedWakeup
PROPERTY RWSpec
PROPERTY WriterServed
PROPERTY UpgradeServed
