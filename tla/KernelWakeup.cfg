\* The shell and a process that it spawns.
CONSTANTS
    Default = Default
    Fallback = Fallback
    Dummy = Dummy
    Startup = Startup
    Handler = Handler
    NoThread = NoThread
    User = {u1, u2}
    Worker = {w1, w2}
    Thread <- MCThread
    Call = {"plain", "posix_spawn", "exit"}
    QueueSize = 3
SPECIFICATION Spec
INVARIANTS
    UnlockWakesAnother
