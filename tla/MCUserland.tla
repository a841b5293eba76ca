----------------------------- MODULE MCUserland -----------------------------
(***************************************************************************)
(* The processes, the programs, the memmove() of the LibC, the content of  *)
(* a file and the directories, one at a time: they share nothing that is   *)
(* modelled.  The shell and two more processes are its children one after  *)
(* the other, or child and grandchild.  The order of the names puts "x"    *)
(* in front of "..", "tmp" between "dev" and the last ones, and "long",    *)
(* which does not fit into an entry, behind all; paths lead through files  *)
(* and through directories that are not there.                             *)
(* What is not run and takes part in many states has no state to speak of. *)
(***************************************************************************)
EXTENDS Process, Sequences

CONSTANTS
    Letter, Space, DeleteKey, Newline, BufferSize, MaxKeys,                 \* Shell
    WordCount,                                                              \* Memmove
    Character, Undetermined, Slack, MaxLine, MaxLineno, MaxFile, Width,     \* Editor
    Client,                                                                 \* the last two
    Junk, MaxBlocks, MaxCount, MaxSize,                                     \* MemoryFile
    Name, Rank, Long, Path, NewFile, Missing, MaxCalls, MaxDepth            \* FileSystem

Order == <<".", "x", "..", "sh", "bin", "dev", "tmp", "tty", "long">>
Names == {Order[n] : n \in DOMAIN Order}
Ranks == [name \in Names |-> CHOOSE n \in DOMAIN Order : Order[n] = name]

Absolute(components) == [absolute |-> TRUE, components |-> components]
Relative(components) == [absolute |-> FALSE, components |-> components]
Paths == {Absolute(<<>>), Absolute(<<"x">>), Absolute(<<"x", "tmp">>), Absolute(<<"dev", "tty">>),
          Absolute(<<"long">>), Relative(<<"dev">>), Relative(<<"..", "bin">>), Relative(<<"tmp">>),
          Relative(<<"sh">>)}

\* The clients are alike, and the new files.
TLC == INSTANCE TLC
Symmetry == TLC!Permutations(Client) \cup TLC!Permutations(NewFile)

VARIABLES
    running,                                        \* which of the six is considered
    shellAt, typed, screen, buffer, saveptr, program,
    copy, saveptr_clone, argc, argv, spawned,       \* Shell
    memory, destination, source, count, moveIndex, byte,    \* memmove()
    editorAt, data, used, nlines, offset, file, named, exact, before, inserted, origin,
    blocks, allocated, dataBlock, dataSize, statSize, written, reader, fileCall,
    overlapped, filePanic,                          \* the content of a file
    entry, nodeValue, leftNode, rightNode, parentNode, pathCall, lister, cwd, begun,
    torn, panic                                     \* the directories

processVars == vars
shellVars == <<shellAt, typed, screen, buffer, saveptr, program, copy, saveptr_clone, argc, argv, spawned>>
memmoveVars == <<memory, destination, source, count, moveIndex, byte>>
editorVars == <<editorAt, data, used, nlines, offset, file, named, exact, before, inserted, origin>>
contentVars ==
    <<blocks, allocated, dataBlock, dataSize, statSize, written, reader, fileCall, overlapped, filePanic>>
treeVars ==
    <<entry, nodeValue, leftNode, rightNode, parentNode, pathCall, lister, cwd, begun, torn, panic>>
programVars == <<shellVars, memmoveVars, editorVars, contentVars, treeVars>>

Sh == INSTANCE Shell WITH at <- shellAt
Move == INSTANCE Memmove WITH i <- moveIndex
Ed == INSTANCE Editor WITH at <- editorAt, typed <- inserted
Mf == INSTANCE MemoryFile WITH
            Process <- Client, content <- blocks, used <- allocated,
            m_data <- dataBlock, size <- dataSize, m_size <- statSize, handle <- reader,
            call <- fileCall, log <- written, torn <- overlapped, panic <- filePanic
Fs == INSTANCE FileSystem WITH
            Process <- Client, None <- Missing, value <- nodeValue, left <- leftNode,
            right <- rightNode, parent <- parentNode, call <- pathCall

ASSUME ProcessAssumption /\ MaxLive = 1
ASSUME Sh!ShellAssumption /\ Move!MemmoveAssumption /\ Ed!EditorAssumption
ASSUME Mf!MemoryFileAssumption /\ Fs!FileSystemAssumption

UserlandInit ==
    /\ running \in {"processes", "shell", "memmove", "editor", "content", "directories"}
    /\ Init /\ Sh!Init /\ Ed!Init /\ Mf!Init
    /\ IF running = "directories" THEN Fs!Init
       ELSE /\ entry = <<>> /\ nodeValue = <<>> /\ leftNode = <<>> /\ rightNode = <<>> /\ parentNode = <<>>
            /\ pathCall = <<>> /\ lister = <<>> /\ cwd = <<>> /\ begun = 0 /\ torn = {} /\ panic = "none"
    /\ IF running = "memmove" THEN Move!Init
       ELSE memory = <<>> /\ destination = 0 /\ source = 0 /\ count = 0 /\ moveIndex = 0 /\ byte = 0

Waits == running = "processes" /\ Next /\ UNCHANGED programVars
Shells == running = "shell" /\ Sh!Next /\ UNCHANGED <<memmoveVars, editorVars, contentVars, treeVars>>
Moves == running = "memmove" /\ Move!Next /\ UNCHANGED <<shellVars, editorVars, contentVars, treeVars>>
Edits == running = "editor" /\ Ed!Next /\ UNCHANGED <<shellVars, memmoveVars, contentVars, treeVars>>
ReadsAndWrites ==
    running = "content" /\ Mf!Next /\ UNCHANGED <<shellVars, memmoveVars, editorVars, treeVars>>
LooksUp ==
    running = "directories" /\ Fs!Next /\ UNCHANGED <<shellVars, memmoveVars, editorVars, contentVars>>

UserlandNext ==
    /\ UNCHANGED running
    /\ \/ Waits
       \/ (Shells \/ Moves \/ Edits \/ ReadsAndWrites \/ LooksUp) /\ UNCHANGED processVars

UserlandSpec == UserlandInit /\ [][UserlandNext]_<<running, processVars, programVars>>

\* The shell edits the line that the terminal shows (readline.c:17-43).
ScreenShowsLine == Sh!ScreenShowsLine

\* A program is started with the words of the line (Shell.c:190-200).
ChildGetsTheWords == Sh!ChildGetsTheWords

\* memmove() leaves every byte where it belongs and disturbs no other (abi.c:97-117).
MovesExactly == running = "memmove" => Move!MovesExactly

\* The editor inserts the lines it is given in their order (Editor.c:19-27, 186-219).
InsertsTheLines == Ed!InsertsTheLines

\* The editor counts its lines and so finds the ones it lists (Editor.c:50-93, 242-266).
CountsItsLines == Ed!CountsItsLines

\* A handle that only reads has read the beginning of its file (MemoryFileSystem.hpp:66-76).
ReadsBeginning == Mf!ReadsBeginning

\* fstat() never tells of more bytes than there are (MemoryFileSystem.hpp:47-57).
FstatTellsTheSize == Mf!FstatTellsTheSize

\* A handle on a directory lists every name once (MemoryFileSystem.hpp:115-128).
ListsDirectory == running = "directories" => Fs!ListsDirectory

\* The working directory of a process stays a directory (Thread.cpp:352-359).
WorkingDirectoryIsThere == running = "directories" => Fs!WorkingDirectoryIsThere
=============================================================================
