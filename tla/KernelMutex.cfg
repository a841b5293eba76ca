CONSTANTS
    Default = Default
    Fallback = Fallback
    Dummy = Dummy
    Startup = Startup
    NoThread = NoThread
    Extra = {t1, t2, t3}
    Locker <- MCLocker
    Thread <- MCThread
    QueueSize = 2
SPECIFICATION FairSpec
INVARIANTS
    MutualExclusion
PROPERTIES
    ImplementsFairMutex
    ImplementsScheduler
    EveryLockReturns
