----------------------------- MODULE FileSystem -----------------------------
(***************************************************************************)
(* The directories (Kernel/FileSystem) and the calls that look paths up,   *)
(* create files, list a directory and change the working directory         *)
(* (Kernel/Threads/Thread.cpp).  The entries of a directory are a HashMap, *)
(* which is a SortedSet, and nothing is ever removed from it.  The calls   *)
(* run in workers with interrupts enabled and take no lock: a step is one  *)
(* load or store that the others can disturb or see.                       *)
(***************************************************************************)
EXTENDS Integers, Sequences

CONSTANTS
    Process,
    Name,           \* file names
    Rank,           \* the order of the names in a directory: by hash, no two having the same
    Long,           \* the names that do not fit into d_name
    Path,           \* what calls are given: [absolute, components]
    NewFile,        \* the MemoryFiles that can be created, and the nodes that are made for them
    None,           \* nullptr, or nothing
    MaxCalls,       \* bound: calls that look a path up
    MaxDepth        \* bound: components of a working directory

Directory == {"/", "/dev", "/bin"}
Console == "/dev/tty"
Flash == "/bin/sh"
File == Directory \cup {Console, Flash} \cup NewFile

\* A node that was there from the start is its directory and its name.
Mounted == {<<"/", ".">>, <<"/", "..">>, <<"/", "dev">>, <<"/", "bin">>,
            <<"/dev", ".">>, <<"/dev", "..">>, <<"/dev", "tty">>,
            <<"/bin", ".">>, <<"/bin", "..">>, <<"/bin", "sh">>}
Node == Mounted \cup NewFile

FileSystemAssumption ==
    /\ {".", "..", "dev", "bin", "tty", "sh"} \subseteq Name /\ None \notin Name /\ Long \subseteq Name
    /\ Rank \in [Name -> Nat] /\ \A n1, n2 \in Name : Rank[n1] = Rank[n2] => n1 = n2
    /\ Rank["."] < Rank[".."]
    /\ \A n \in {"bin", "dev", "tty", "sh"} : Rank[".."] < Rank[n]
    /\ Rank["bin"] < Rank["dev"]
    /\ Path \subseteq [absolute : BOOLEAN, components : Seq(Name)]
    /\ \A path \in Path : path.absolute \/ path.components # <<>>
    /\ None \notin Node /\ None \notin File
    /\ NewFile \cap Mounted = {} /\ NewFile \cap (Directory \cup {Console, Flash}) = {}

VARIABLES
    entry,          \* the directory and the name for which a file was created
    value,          \* the m_value of each node, None while it is cleared
    left, right, parent,            \* the trees
    call,           \* what each process is doing
    lister,         \* the handle on a directory that each process opened last
    cwd,            \* m_working_directory, the components of an absolute path
    begun,          \* the calls that have been made
    torn,           \* history: the directories in which two insertions have overlapped
    panic           \* why the machine stopped

treeVars == <<entry, value, left, right, parent>>
vars == <<treeVars, call, lister, cwd, begun, torn, panic>>

NoEntry == <<None, None>>
Home(node) == IF node \in Mounted THEN node[1] ELSE entry[node][1]
NameOf(node) == IF node \in Mounted THEN node[2] ELSE entry[node][2]
Root(d) == <<d, ".">>
Linked(d) == {n \in Node : n = Root(d) \/ \E m \in Node : Home(m) = d /\ n \in {left[m], right[m]}}

\* path, of which the first components are the working directory's, is followed for i components,
\* which leads to file; name is set when it is the path of the directory for a new file of that
\* name; node, above and side belong to a walk through a tree.
Idle == [at |-> "idle", path |-> <<>>, given |-> 0, i |-> 0, file |-> "/", name |-> None,
         node |-> None, above |-> None, side |-> "equal"]

Becomes(p, c) == call' = [call EXCEPT ![p] = c]
Goes(p, at) == Becomes(p, [call[p] EXCEPT !.at = at])
Stop(why) == panic' = why /\ UNCHANGED <<treeVars, call, lister, cwd, begun, torn>>
Returns(p) == Becomes(p, Idle) /\ UNCHANGED <<treeVars, lister, cwd, begun, torn, panic>>

----------------------------------------------------------------------------
(* Looking a name up in a directory.                                       *)

\* The entry is being replaced, and its key was moved away but not yet replaced.
Damaged(node) == \E p \in Process : call[p].at = "take" /\ call[p].node = node

\* How a name compares with the name of a node.
Compared(name, node) ==
    IF name = NameOf(node) /\ Damaged(node) THEN {"less", "equal", "greater"}
    ELSE IF Rank[name] < Rank[NameOf(node)] THEN {"less"}
    ELSE IF Rank[name] > Rank[NameOf(node)] THEN {"greater"}
    ELSE {"equal"}

Wanted(c) == IF c.at = "search" THEN c.path[c.i + 1] ELSE c.name

\* search_impl(), for get_opt() and for insert_impl()
Search(p) ==
    LET c == call[p]
    IN  /\ c.at \in {"search", "place"} /\ c.node # None
        /\ \E side \in Compared(Wanted(c), c.node) :
              IF side = "equal" THEN Goes(p, IF c.at = "search" THEN "value" ELSE "forget")
              ELSE Becomes(p, [c EXCEPT !.above = c.node,
                                        !.node = IF side = "less" THEN left[c.node] ELSE right[c.node]])
        /\ UNCHANGED <<treeVars, lister, cwd, begun, torn, panic>>

NotThere(p) ==
    /\ call[p].node = None
    /\ \/ call[p].at = "search" /\ Goes(p, "missing")
       \/ call[p].at = "place" /\ Goes(p, "slot")
    /\ UNCHANGED <<treeVars, lister, cwd, begun, torn, panic>>

\* try_lookup() has got to a file.
Arrived(c) ==
    IF c.i = Len(c.path) THEN [c EXCEPT !.at = "found"]
    ELSE IF c.file \notin Directory THEN [c EXCEPT !.at = "notdir"]
    ELSE [c EXCEPT !.at = "search", !.node = Root(c.file)]

Value(p) ==
    LET c == call[p]
        file == value[c.node]
    IN  /\ c.at = "value"
        /\ IF file = None THEN Goes(p, "missing")
           ELSE Becomes(p, Arrived([c EXCEPT !.file = file, !.i = @ + 1, !.node = None, !.above = None]))
        /\ UNCHANGED <<treeVars, lister, cwd, begun, torn, panic>>

\* open() or chdir() is called.  Which of them and the flags matter once the path is looked up.
Lookup(p, path) ==
    LET components == IF path.absolute THEN path.components ELSE cwd[p] \o path.components
    IN  /\ call[p] = Idle /\ begun < MaxCalls
        /\ begun' = begun + 1
        /\ Becomes(p, Arrived([Idle EXCEPT !.path = components,
                                           !.given = IF path.absolute THEN 0 ELSE Len(cwd[p])]))
        /\ UNCHANGED <<treeVars, lister, cwd, torn, panic>>

----------------------------------------------------------------------------
(* open().                                                                 *)

Found(p) == call[p].at = "found" /\ call[p].name = None
Absent(p) == call[p].at = "missing" /\ call[p].name = None

\* A handle on a file is made at once, for one on a directory the first name is looked for.
OpenExisting(p, flags) ==
    LET file == call[p].file
    IN  /\ Found(p)
        /\ "O_DIRECTORY" \in flags => file \in Directory
        /\ "O_TRUNC" \in flags => file \in NewFile
        /\ IF file \notin Directory THEN Returns(p)
           ELSE /\ lister' = [lister EXCEPT ![p] =
                       [directory |-> file, iterator |-> Root(file), listed |-> <<>>,
                        owed |-> Linked(file), sure |-> TRUE]]
                /\ Becomes(p, [Idle EXCEPT !.at = "down"])
                /\ UNCHANGED <<treeVars, cwd, begun, torn, panic>>

\* A device fails the ASSERT for files that are not regular, a file in flash cannot be truncated.
OpenStops(p, flags) ==
    /\ Found(p) /\ flags \cap {"O_TRUNC", "O_DIRECTORY"} = {"O_TRUNC"}
    /\ \/ call[p].file = Console /\ Stop("assert")
       \/ call[p].file = Flash /\ Stop("not reached")

OpenFails(p, flags) ==
    /\ \/ call[p].at = "notdir" /\ call[p].name = None
       \/ Absent(p) /\ "O_CREAT" \notin flags
       \/ Found(p) /\ "O_DIRECTORY" \in flags /\ call[p].file \notin Directory
       \/ Found(p) /\ "O_TRUNC" \in flags /\ call[p].file \in Directory
    /\ Returns(p)

\* Nothing is there: the directory is looked up.
OpenMissing(p, flags) ==
    LET path == call[p].path
    IN  /\ Absent(p) /\ "O_CREAT" \in flags
        /\ Becomes(p, Arrived([Idle EXCEPT !.path = SubSeq(path, 1, Len(path) - 1),
                                           !.given = call[p].given, !.name = path[Len(path)]]))
        /\ UNCHANGED <<treeVars, lister, cwd, begun, torn, panic>>

Creating(p) == call[p].name # None

CreateFails(p) == Creating(p) /\ call[p].at \in {"missing", "notdir"} /\ Returns(p)

\* The cast to a directory yields a null pointer.
CreateStops(p) == Creating(p) /\ call[p].at = "found" /\ call[p].file \notin Directory /\ Stop("null")

Inserting == {"place", "slot", "link", "complete", "forget", "take", "clear", "set"}

\* The entry is set without a look at what open() had found.
Create(p) ==
    LET c == call[p]
        d == c.file
    IN  /\ Creating(p) /\ c.at = "found" /\ d \in Directory
        /\ \E file \in NewFile :
              /\ entry[file] = NoEntry
              /\ entry' = [entry EXCEPT ![file] = <<d, c.name>>]
              /\ Becomes(p, [Idle EXCEPT !.at = "place", !.name = c.name, !.file = file, !.node = Root(d)])
        /\ torn' = IF \E q \in Process : call[q].at \in Inserting /\ Home(call[q].file) = d
                   THEN torn \cup {d} ELSE torn
        /\ UNCHANGED <<value, left, right, parent, lister, cwd, begun, panic>>

\* insert_impl(): the place must be free,
Slot(p) ==
    LET c == call[p]
    IN  /\ c.at = "slot"
        /\ \E side \in Compared(c.name, c.above) :
              \/ /\ \/ side = "less" /\ left[c.above] = None
                    \/ side = "greater" /\ right[c.above] = None
                 /\ Becomes(p, [c EXCEPT !.at = "link", !.side = side])
                 /\ UNCHANGED <<treeVars, lister, cwd, begun, torn, panic>>
              \/ /\ side = "less" => left[c.above] # None
                 /\ side = "greater" => right[c.above] # None
                 /\ Stop("assert")

\* the node is made and linked there,
Link(p) ==
    LET c == call[p]
    IN  /\ c.at = "link"
        /\ value' = [value EXCEPT ![c.file] = c.file]
        /\ left' = IF c.side = "less" THEN [left EXCEPT ![c.above] = c.file] ELSE left
        /\ right' = IF c.side = "less" THEN right ELSE [right EXCEPT ![c.above] = c.file]
        /\ Goes(p, "complete")
        /\ UNCHANGED <<entry, parent, lister, cwd, begun, torn, panic>>

\* and only then m_parent is set.
Complete(p) ==
    /\ call[p].at = "complete"
    /\ parent' = [parent EXCEPT ![call[p].file] = call[p].above]
    /\ Becomes(p, Idle)
    /\ UNCHANGED <<entry, value, left, right, lister, cwd, begun, torn, panic>>

\* An entry of the same name is moved over instead: its key, then its value, each first cleared.
MoveKey(p) ==
    /\ \/ call[p].at = "forget" /\ Goes(p, "take")
       \/ call[p].at = "take" /\ Goes(p, "clear")
    /\ UNCHANGED <<treeVars, lister, cwd, begun, torn, panic>>

MoveValue(p) ==
    LET c == call[p]
    IN  /\ \/ c.at = "clear" /\ value' = [value EXCEPT ![c.node] = None] /\ Goes(p, "set")
           \/ c.at = "set" /\ value' = [value EXCEPT ![c.node] = c.file] /\ Becomes(p, Idle)
        /\ UNCHANGED <<entry, left, right, parent, lister, cwd, begun, torn, panic>>

----------------------------------------------------------------------------
(* read() of a directory, and write().                                     *)

\* *m_iterator++ keeps the node that it was at.
Read(p) ==
    /\ call[p] = Idle /\ lister[p].iterator # None
    /\ Becomes(p, [Idle EXCEPT !.at = "next", !.node = lister[p].iterator])
    /\ UNCHANGED <<treeVars, lister, cwd, begun, torn, panic>>

\* The buffer must have the size of an entry, even at the end; nothing can be written.
CallStops(p) ==
    /\ call[p] = Idle /\ lister[p].directory # None
    /\ Stop("assert") \/ Stop("not reached")

MovesTo(p, node) == lister' = [lister EXCEPT ![p].iterator = node]

\* Mutant: the right child itself is next.
AsRight(p) ==
    /\ call[p].at = "next"
    /\ IF right[lister[p].iterator] # None
       THEN MovesTo(p, right[lister[p].iterator]) /\ Goes(p, "entry")
       ELSE Goes(p, "climb") /\ UNCHANGED lister
    /\ UNCHANGED <<treeVars, cwd, begun, torn, panic>>

\* operator++: the least of the right subtree, or
Advance(p) ==
    /\ call[p].at = "next"
    /\ IF right[lister[p].iterator] # None
       THEN MovesTo(p, right[lister[p].iterator]) /\ Goes(p, "down")
       ELSE Goes(p, "climb") /\ UNCHANGED lister
    /\ UNCHANGED <<treeVars, cwd, begun, torn, panic>>

\* min_impl(), for create_handle() as well
Down(p) ==
    LET node == left[lister[p].iterator]
    IN  /\ call[p].at = "down"
        /\ IF node # None THEN MovesTo(p, node) /\ UNCHANGED call
           ELSE /\ IF call[p].node = None THEN Becomes(p, Idle) ELSE Goes(p, "entry")
                /\ UNCHANGED lister
        /\ UNCHANGED <<treeVars, cwd, begun, torn, panic>>

\* the first node above that lies to the right.  At a node that is linked but has no m_parent yet
\* it is not sure where this ends.
Climb(p) ==
    LET node  == lister[p].iterator
        above == parent[node]
    IN  /\ call[p].at = "climb"
        /\ IF above # None /\ left[above] # node THEN MovesTo(p, above) /\ UNCHANGED call
           ELSE /\ Goes(p, "top")
                /\ lister' = [lister EXCEPT ![p].sure = @ /\ (above # None \/ node = Root(Home(node)))]
        /\ UNCHANGED <<treeVars, cwd, begun, torn, panic>>

Top(p) ==
    /\ call[p].at = "top"
    /\ MovesTo(p, parent[lister[p].iterator])
    /\ Goes(p, "entry")
    /\ UNCHANGED <<treeVars, cwd, begun, torn, panic>>

\* The entry that the iterator was at is copied out.
Entry(p) ==
    LET node == call[p].node
    IN  /\ call[p].at = "entry"
        /\ IF value[node] = None \/ NameOf(node) \in Long THEN Stop("verify")
           ELSE /\ lister' = [lister EXCEPT ![p].listed = Append(@, node),
                                            ![p].sure = @ /\ ~ Damaged(node)]
                /\ Becomes(p, Idle)
                /\ UNCHANGED <<treeVars, cwd, begun, torn, panic>>

----------------------------------------------------------------------------
(* chdir(): the path is kept as it was given, "." and ".." included.       *)

\* Mutant: a file will do.
AnyFile(file) == file \in File

IsDirectory(file) == file \in Directory

Chdir(p) ==
    /\ Found(p) /\ IsDirectory(call[p].file) /\ Len(call[p].path) <= MaxDepth
    /\ cwd' = [cwd EXCEPT ![p] = call[p].path]
    /\ Becomes(p, Idle)
    /\ UNCHANGED <<treeVars, lister, begun, torn, panic>>

ChdirFails(p) == Found(p) /\ ~ IsDirectory(call[p].file) /\ Returns(p)

----------------------------------------------------------------------------
\* What is mounted: the constructors of the three file systems.
MountedFile(node) ==
    CASE node[2] = "tty" -> Console [] node[2] = "sh" -> Flash [] node[2] = "dev" -> "/dev"
      [] node[2] = "bin" -> "/bin" [] node[2] = ".." -> "/" [] node[2] = "." -> node[1]

MountedLeft(node) == IF node = <<"/", "dev">> THEN <<"/", "bin">> ELSE None
MountedRight(node) ==
    CASE node \in NewFile -> None
      [] node = <<"/", "..">> -> <<"/", "dev">>
      [] node = <<"/dev", "..">> -> <<"/dev", "tty">>
      [] node = <<"/bin", "..">> -> <<"/bin", "sh">>
      [] OTHER -> IF node[2] = "." THEN <<node[1], "..">> ELSE None
MountedParent(node) ==
    LET above == {n \in Mounted : node \in {MountedLeft(n), MountedRight(n)} \ {None}}
    IN  IF above = {} THEN None ELSE CHOOSE n \in above : TRUE

Init ==
    /\ entry = [file \in NewFile |-> NoEntry]
    /\ value = [node \in Node |-> IF node \in Mounted THEN MountedFile(node) ELSE None]
    /\ left = [node \in Node |-> MountedLeft(node)]
    /\ right = [node \in Node |-> MountedRight(node)]
    /\ parent = [node \in Node |-> MountedParent(node)]
    /\ call = [p \in Process |-> Idle]
    /\ lister = [p \in Process |->
                    [directory |-> None, iterator |-> None, listed |-> <<>>, owed |-> {}, sure |-> TRUE]]
    /\ cwd = [p \in Process |-> <<>>]
    /\ begun = 0
    /\ torn = {}
    /\ panic = "none"

Next ==
    /\ panic = "none"
    /\ \E p \in Process :
          \/ Search(p) \/ NotThere(p) \/ Value(p)
          \/ CreateFails(p) \/ CreateStops(p) \/ Create(p)
          \/ Slot(p) \/ Link(p) \/ Complete(p) \/ MoveKey(p) \/ MoveValue(p)
          \/ Read(p) \/ CallStops(p) \/ Advance(p) \/ Down(p) \/ Climb(p) \/ Top(p) \/ Entry(p)
          \/ Chdir(p) \/ ChdirFails(p)
          \/ \E path \in Path : Lookup(p, path)
          \/ \E flags \in SUBSET {"O_CREAT", "O_TRUNC", "O_DIRECTORY"} :
                OpenExisting(p, flags) \/ OpenStops(p, flags) \/ OpenFails(p, flags) \/ OpenMissing(p, flags)

Spec == Init /\ [][Next]_vars

----------------------------------------------------------------------------
(* Properties.                                                             *)

Looking == {"search", "value", "found", "missing", "notdir"}
Walking == {"next", "down", "climb", "top", "entry"}

CallType ==
    [at : {"idle"} \cup Looking \cup Inserting \cup Walking, path : Seq(Name), given : Nat, i : Nat,
     file : File, name : Name \cup {None}, node : Node \cup {None}, above : Node \cup {None},
     side : {"less", "equal", "greater"}]
ListerType ==
    [directory : Directory \cup {None}, iterator : Node \cup {None}, listed : Seq(Node),
     owed : SUBSET Node, sure : BOOLEAN]

TypeOK ==
    /\ entry \in [NewFile -> (Directory \X Name) \cup {NoEntry}]
    /\ value \in [Node -> File \cup {None}]
    /\ left \in [Node -> Node \cup {None}] /\ right \in [Node -> Node \cup {None}]
    /\ parent \in [Node -> Node \cup {None}]
    /\ call \in [Process -> CallType] /\ lister \in [Process -> ListerType]
    /\ cwd \in [Process -> Seq(Name)]
    /\ begun \in Nat /\ torn \subseteq Directory

\* A handle on a directory comes to every name that was there when it was opened, and to no name
\* twice, while files are created and replaced (MemoryFileSystem.hpp:115-128), if no two were
\* inserted at a time and it met none that was linked without its m_parent or had no key.
ListsDirectory ==
    \A p \in Process :
        LET l == lister[p]
        IN  l.directory # None /\ l.directory \notin torn /\ l.sure =>
                /\ \A i, j \in DOMAIN l.listed : NameOf(l.listed[i]) = NameOf(l.listed[j]) => i = j
                /\ l.iterator = None /\ call[p].at \notin Walking =>
                      l.owed \subseteq {l.listed[i] : i \in DOMAIN l.listed}

\* The working directory of every process stays one, whatever is inserted and replaced while the
\* path is followed: chdir() keeps the path, not the directory, and every relative path is looked
\* up through it (Thread.cpp:352-359).
WorkingDirectoryIsThere ==
    \A p \in Process :
        LET c == call[p]
        IN  /\ c.at = "missing" => c.i >= c.given
            /\ c.at = "notdir" => c.i > c.given
            /\ (c.at = "found" /\ c.i = c.given) => c.file \in Directory

----------------------------------------------------------------------------
(* The inductive invariant behind the last of them.                        *)

\* The mounted nodes that a search for one of them passes, itself included.
Ahead(node) ==
    {n \in Mounted : /\ n[1] = node[1]
                     /\ \/ n = node \/ n[2] = "."
                        \/ n[2] = ".." /\ node[2] # "."
                        \/ n[2] = "dev" /\ node[2] = "bin"}

\* What is mounted stays where it is.
MountInv ==
    /\ \A n \in Mounted :
          /\ value[n] = MountedFile(n)
          /\ MountedLeft(n) # None => left[n] = MountedLeft(n)
          /\ MountedRight(n) # None => right[n] = MountedRight(n)
    /\ \A n \in NewFile : value[n] \in NewFile \cup {None} /\ entry[n] \notin Mounted

\* The nodes of a directory lead to each other.
HomeInv ==
    \A n \in Node :
        /\ left[n] # None => Home(n) # None /\ Home(left[n]) = Home(n)
        /\ right[n] # None => Home(n) # None /\ Home(right[n]) = Home(n)

MountedDirectory == {m \in Mounted : MountedFile(m) \in Directory}

\* The first k components of a path lead through the mounted directories f.
Follows(f, path, k) ==
    /\ f[0] = "/"
    /\ \A j \in 1 .. k : <<f[j - 1], path[j]>> \in MountedDirectory /\ f[j] = MountedFile(<<f[j - 1], path[j]>>)

CwdInv == \A p \in Process : \E f \in [0 .. Len(cwd[p]) -> Directory] : Follows(f, cwd[p], Len(cwd[p]))

\* A path that is looked up leads through k mounted directories, the working directory's among
\* them, and from there to no directory.  What is to be created is not there.
PathInv(c) ==
    \E f \in [0 .. Len(c.path) -> Directory], k \in c.given .. Len(c.path) :
        /\ Follows(f, c.path, k)
        /\ IF c.i <= k THEN c.file = f[c.i] ELSE c.file \notin Directory
        /\ c.name # None => <<f[k], IF k = Len(c.path) THEN c.name ELSE c.path[k + 1]>> \notin Mounted

LookInv(c) ==
    c.at \in Looking =>
        /\ c.i \in 0 .. Len(c.path) /\ PathInv(c)
        /\ IF c.at = "found" THEN c.i = Len(c.path) ELSE c.i < Len(c.path)
        /\ IF c.at = "notdir" THEN c.file \notin Directory ELSE (c.at # "found" => c.file \in Directory)
        /\ c.at = "missing" => <<c.file, c.path[c.i + 1]>> \notin Mounted
        /\ c.at \in {"search", "value"} =>
              /\ c.node # None => Home(c.node) = c.file
              /\ <<c.file, c.path[c.i + 1]>> \in Mounted => c.node \in Ahead(<<c.file, c.path[c.i + 1]>>)
        /\ c.at = "value" => c.node # None /\ NameOf(c.node) = c.path[c.i + 1]

\* A new node goes where nothing mounted is, and replaces nothing that is mounted.
InsertInv(c) ==
    c.at \in Inserting =>
        /\ c.file \in NewFile /\ Home(c.file) # None /\ NameOf(c.file) = c.name
        /\ c.node # None => Home(c.node) = Home(c.file)
        /\ c.above # None => Home(c.above) = Home(c.file)
        /\ (c.at \in {"slot", "link", "complete"} \/ c.node = None) => c.above # None
        /\ (c.at = "link" /\ c.side = "less") => MountedLeft(c.above) = None
        /\ (c.at = "link" /\ c.side # "less") => MountedRight(c.above) = None
        /\ c.at \in {"forget", "take", "clear", "set"} => c.node \in NewFile

\* A walk has an iterator to move and a node to list.
WalkInv(c, l) ==
    /\ c.at \in {"next", "down", "climb", "top"} => l.iterator # None
    /\ c.at \in {"next", "climb", "top", "entry"} => c.node # None

Inv ==
    /\ TypeOK /\ MountInv /\ HomeInv /\ CwdInv
    /\ \A p \in Process : LookInv(call[p]) /\ InsertInv(call[p]) /\ WalkInv(call[p], lister[p])
=============================================================================
