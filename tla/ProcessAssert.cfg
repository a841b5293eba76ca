\* One child at a time, as the shell has.
CONSTANTS
    Shell = Shell
    NoProcess = NoProcess
    Process = {Shell, a, b}
    Size = 2
    MaxLive = 1
SPECIFICATION Spec
INVARIANTS
    ExitAssertHolds
CHECK_DEADLOCK FALSE
