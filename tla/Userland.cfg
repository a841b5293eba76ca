CONSTANTS
    Shell = Shell
    NoProcess = NoProcess
    Process = {Shell, a, b}
    Size = 2
    MaxLive = 1
    Letter = {"echo", "stat", "ls", "cat", "cd", "x"}
    Space = " "
    DeleteKey = "DEL"
    Newline = "NL"
    BufferSize = 7
    MaxKeys = 7
    WordCount = 3
    Character = {"x"}
    Undetermined = "?"
    Slack = 5
    MaxLine = 2
    MaxLineno = 2
    MaxFile = 1
    Width = 8
    Client = {p, q}
    Junk = Junk
    MaxBlocks = 3
    MaxCount = 2
    MaxSize = 3
    Name <- Names
    Rank <- Ranks
    Long = {"long"}
    Path <- Paths
    NewFile = {f, g}
    Missing = Missing
    MaxCalls = 3
    MaxDepth = 2
SPECIFICATION UserlandSpec
SYMMETRY Symmetry
INVARIANTS
    QueueHoldsZombies
    ScreenShowsLine
    ChildGetsTheWords
    MovesExactly
    InsertsTheLines
    CountsItsLines
    ReadsBeginning
    FstatTellsTheSize
    ListsDirectory
    WorkingDirectoryIsThere
PROPERTIES
    WaitIsExact
CHECK_DEADLOCK FALSE
