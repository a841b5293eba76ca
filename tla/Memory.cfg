CONSTANTS
    Thread = {t1, t2}
    PagePower = 1
    MaxPower = 4
    Wanted = {1, 2}
    HeapStart = 3
    HeapEnd = 15
    HeapSize = 76
    Request = {0, 5, 8, 12}
    Key = {1, 2, 3, 4}
    Data = {7, 8}
    HashOf <- Hashes
    Address = {1, 2, 3}
    Null = Null
    Nothing = 0
    Shell = Shell
    NoProcess = NoProcess
    Process = {Shell, a, b}
    Size = 2
    MaxLive = 1
SPECIFICATION MemorySpec
INVARIANTS
    NothingIsLost
    OnlyExhaustionStops
    Coalesced
PROPERTIES
    EveryCallEnds
    ImplementsHeap
    ImplementsOrderedSet
    ImplementsDictionary
    WaitReturns
CHECK_DEADLOCK FALSE
