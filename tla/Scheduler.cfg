\* Any kernel on top of the scheduler, with three threads of its own.
CONSTANTS
    Default = Default
    Fallback = Fallback
    Dummy = Dummy
    Startup = Startup
    NoThread = NoThread
    Extra = {t1, t2, t3}
    Thread <- MCThread
    QueueSize = 4
SYMMETRY Symmetry
SPECIFICATION Spec
INVARIANTS
    NoVerifyFails
    OnePlace
    OnlyDeadThreadsReaped
    DeadNeverRuns
