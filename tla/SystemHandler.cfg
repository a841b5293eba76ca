\* Two processes: the shell and one that it spawns, and two workers.
CONSTANTS
    Default = Default
    Fallback = Fallback
    Dummy = Dummy
    Startup = Startup
    Handler = Handler
    NoThread = NoThread
    User = {u1, u2}
    Worker = {w1, w2}
    Thread <- MCThread
    Call = {"plain", "posix_spawn", "exit"}
    QueueSize = 3
SPECIFICATION FairSpec
INVARIANTS
    CallerHasOneServant
PROPERTIES
    ImplementsSystemCalls
    ImplementsScheduler
    EveryCallReturns
