\* One process that computes for ever after a system call.
CONSTANTS
    Default = Default
    Fallback = Fallback
    Dummy = Dummy
    Startup = Startup
    Handler = Handler
    NoThread = NoThread
    User = {u1}
    Worker = {w1, w2}
    Thread <- MCThread
    Call = {"plain", "exit"}
    QueueSize = 3
SPECIFICATION FairSpec
PROPERTIES
    WorkersAreDestroyed
