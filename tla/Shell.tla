------------------------------- MODULE Shell -------------------------------
(***************************************************************************)
(* The shell (Userland/Shell.c) with what it uses of the LibC: readline(), *)
(* strtok_r() and the calls that open and read files.  The                 *)
(* answers of the kernel are nondeterministic.  The name of a built-in     *)
(* command is abbreviated to one character.                                *)
(***************************************************************************)
EXTENDS Naturals, Sequences, SequencesExt

CONSTANTS
    Letter,         \* the characters of words; a built-in command counts as one
    Space, DeleteKey, Newline,
    BufferSize,     \* the size of the buffer that readline() allocates
    MaxKeys         \* bound: the keys typed for one line

Builtin == {"echo", "stat", "ls", "cat", "cd", "touch"}

ShellAssumption ==
    /\ {Space, DeleteKey, Newline} \cap Letter = {} /\ Space # DeleteKey
    /\ BufferSize \in Nat \ {0} /\ MaxKeys \in Nat

VARIABLES
    at,
    typed,          \* the keys since the prompt
    screen,         \* what the terminal shows behind the prompt
    buffer,         \* the buffer of readline() up to index, then the line
    saveptr,        \* the offset of strtok_r() in the line
    program,        \* the first word of the line
    copy,           \* what strdup() made of the rest of the line
    saveptr_clone,  \* the offset of strtok_r() in the copy
    argc,           \* the words counted, the program included
    argv,           \* the arguments as far as they are filled in
    spawned         \* the arguments of the running posix_spawn()

lineVars == <<typed, screen, buffer>>
wordVars == <<saveptr, program, copy, saveptr_clone, argc, argv>>
vars == <<at, lineVars, wordVars, spawned>>

NoWord == <<>>

-----------------------------------------------------------------------------
(* readline() *)

Key(ch) ==
    /\ at = "readline" /\ Len(typed) < MaxKeys
    /\ typed' = Append(typed, ch)

\* Mutant: the character is erased from the screen only.
EraseScreen ==
    /\ Key(DeleteKey) /\ buffer # <<>>
    /\ screen' = Front(screen)
    /\ UNCHANGED <<at, buffer, wordVars, spawned>>

Erase ==
    /\ Key(DeleteKey) /\ buffer # <<>>
    /\ screen' = Front(screen)
    /\ buffer' = Front(buffer)
    /\ UNCHANGED <<at, wordVars, spawned>>

EraseNothing ==
    /\ Key(DeleteKey) /\ buffer = <<>>
    /\ UNCHANGED <<at, screen, buffer, wordVars, spawned>>

\* A buffer without a newline is full: abort().
TypeCharacter(ch) ==
    /\ Key(ch)
    /\ buffer' = Append(buffer, ch)
    /\ screen' = Append(screen, ch)
    /\ at' = IF Len(buffer) + 1 = BufferSize THEN "aborted" ELSE "readline"
    /\ UNCHANGED <<wordVars, spawned>>

\* assert(index < buffer_size): the newline has to leave one byte.
Enter ==
    /\ Key(Newline)
    /\ at' = IF Len(buffer) + 1 < BufferSize THEN "parse" ELSE "aborted"
    /\ UNCHANGED <<screen, buffer, wordVars, spawned>>

-----------------------------------------------------------------------------
(* strtok_r(NULL, " ", &saveptr) on a text, from offset p. *)

IsSpace(text, i) == i <= Len(text) /\ text[i] = Space

\* Where the word begins, and where one that begins at b ends.
Begin(text, p) ==
    CHOOSE i \in p .. Len(text) + 1 : ~IsSpace(text, i) /\ \A j \in p .. i - 1 : IsSpace(text, j)
End(text, b) ==
    CHOOSE i \in b .. Len(text) + 1 :
        (i > Len(text) \/ IsSpace(text, i)) /\ \A j \in b .. i - 1 : ~IsSpace(text, j)

\* The word, NoWord at the end of the text.
Token(text, p) == SubSeq(text, Begin(text, p), End(text, Begin(text, p)) - 1)

\* The offset behind the word and the delimiter that was overwritten.
After(text, p) ==
    LET end == End(text, Begin(text, p)) IN IF end > Len(text) THEN end ELSE end + 1

-----------------------------------------------------------------------------
(* main() *)

\* The next prompt: readline() allocates its buffer, and the variables of the loop
\* are new ones.
Prompt ==
    /\ at' = "readline"
    /\ typed' = <<>> /\ screen' = <<>> /\ buffer' = <<>>
    /\ saveptr' = 1 /\ program' = NoWord
    /\ copy' = <<>> /\ saveptr_clone' = 1 /\ argc' = 1 /\ argv' = <<>>
    /\ spawned' = <<>>

Parse ==
    /\ at = "parse"
    /\ IF Token(buffer, saveptr) = NoWord THEN Prompt
       ELSE /\ program' = Token(buffer, saveptr)
            /\ saveptr' = After(buffer, saveptr)
            /\ at' = "command"
            /\ UNCHANGED <<lineVars, copy, saveptr_clone, argc, argv, spawned>>

Command == IF Len(program) = 1 /\ program[1] \in Builtin THEN program[1] ELSE "external"

\* A word is printed.
Echo ==
    /\ at = "command" /\ Command = "echo" /\ Token(buffer, saveptr) # NoWord
    /\ saveptr' = After(buffer, saveptr)
    /\ UNCHANGED <<at, lineVars, program, copy, saveptr_clone, argc, argv, spawned>>

EchoEnds ==
    /\ at = "command" /\ Command = "echo" /\ Token(buffer, saveptr) = NoWord
    /\ Prompt

Trailing == Token(buffer, After(buffer, saveptr)) # NoWord

\* The built-in commands with an operand, which only ls can do without.  An error
\* leads back to the prompt.
Operand ==
    /\ at = "command" /\ Command \in Builtin \ {"echo"}
    /\ IF Trailing \/ (Token(buffer, saveptr) = NoWord /\ Command # "ls")
       THEN Prompt
       ELSE /\ at' = IF Command = "cd" THEN "chdir" ELSE "open"
            /\ saveptr' = After(buffer, After(buffer, saveptr))
            /\ UNCHANGED <<lineVars, program, copy, saveptr_clone, argc, argv, spawned>>

\* chdir(), whatever it answers.
ChangeDirectory == at = "chdir" /\ Prompt

\* open(), opendir(), and the open() in stat().
OpenFails == at = "open" /\ Prompt

Open ==
    /\ at = "open"
    /\ at' = IF Command \in {"ls", "cat"} THEN "read" ELSE "close"
    /\ UNCHANGED <<lineVars, wordVars, spawned>>

\* The last read() or readdir(); what those before it return goes to the terminal.  When
\* readdir() fails it has set errno to a positive number, which ls takes for the end.
ReadEnds ==
    /\ at = "read"
    /\ at' = "close"
    /\ UNCHANGED <<lineVars, wordVars, spawned>>

\* cat leaves the loop and the handle behind.
ReadFails == at = "read" /\ Command = "cat" /\ Prompt

Close == at = "close" /\ Prompt

-----------------------------------------------------------------------------
(* The arguments of a program.                                             *)

\* strdup(saveptr)
Duplicate ==
    /\ at = "command" /\ Command = "external"
    /\ copy' = SubSeq(buffer, saveptr, Len(buffer))
    /\ saveptr_clone' = 1 /\ argc' = 1
    /\ at' = "count"
    /\ UNCHANGED <<lineVars, saveptr, program, argv, spawned>>

\* Mutant: the words of the line are counted, which takes them.
CountOnLine ==
    /\ at = "count" /\ Token(buffer, saveptr) # NoWord
    /\ saveptr' = After(buffer, saveptr)
    /\ saveptr_clone' = saveptr_clone + After(buffer, saveptr) - saveptr
    /\ argc' = argc + 1
    /\ UNCHANGED <<at, lineVars, program, copy, argv, spawned>>

\* A word of the copy is counted.
Count ==
    /\ at = "count" /\ Token(copy, saveptr_clone) # NoWord
    /\ saveptr_clone' = After(copy, saveptr_clone)
    /\ argc' = argc + 1
    /\ UNCHANGED <<at, lineVars, saveptr, program, copy, argv, spawned>>

\* argv is allocated for as many as were counted.
Allocate ==
    /\ at = "count" /\ Token(copy, saveptr_clone) = NoWord
    /\ argv' = <<program>>
    /\ at' = "collect"
    /\ UNCHANGED <<lineVars, saveptr, program, copy, saveptr_clone, argc, spawned>>

\* The next one is taken from the line.  NoWord would be a null pointer among the arguments.
Collect ==
    /\ at = "collect" /\ Len(argv) < argc
    /\ argv' = Append(argv, Token(buffer, saveptr))
    /\ saveptr' = After(buffer, saveptr)
    /\ UNCHANGED <<at, lineVars, program, copy, saveptr_clone, argc, spawned>>

\* find_executable(): access() looks the only directory of PATH up with stat().
NotFound == at = "collect" /\ Len(argv) = argc /\ Prompt

\* posix_spawn() with the words of the line.
Spawn ==
    /\ at = "collect" /\ Len(argv) = argc
    /\ spawned' = argv
    /\ at' = "wait"
    /\ UNCHANGED <<lineVars, wordVars>>

\* posix_spawn() or wait() has answered with an error, or the child has terminated.
Wait == at = "wait" /\ Prompt

Init ==
    /\ at = "readline"
    /\ typed = <<>> /\ screen = <<>> /\ buffer = <<>>
    /\ saveptr = 1 /\ program = NoWord
    /\ copy = <<>> /\ saveptr_clone = 1 /\ argc = 1 /\ argv = <<>>
    /\ spawned = <<>>

Next ==
    \/ Erase \/ EraseNothing \/ Enter
    \/ \E ch \in Letter \cup {Space} : TypeCharacter(ch)
    \/ Parse \/ Echo \/ EchoEnds \/ Operand \/ ChangeDirectory
    \/ OpenFails \/ Open \/ ReadEnds \/ ReadFails \/ Close
    \/ Duplicate \/ Count \/ Allocate \/ Collect \/ NotFound \/ Spawn \/ Wait

Spec == Init /\ [][Next]_vars

-----------------------------------------------------------------------------
(* Properties *)

TypeOK ==
    /\ at \in {"readline", "aborted", "parse", "command", "chdir", "open", "read", "close",
               "count", "collect", "wait"}
    /\ typed \in Seq(Letter \cup {Space, DeleteKey, Newline})
    /\ buffer \in Seq(Letter \cup {Space}) /\ Len(buffer) <= BufferSize
    /\ program \in Seq(Letter) /\ argv \in Seq(Seq(Letter))
    /\ copy \in Seq(Letter \cup {Space}) /\ argc \in Nat

\* What is left of the keys when each DeleteKey takes the character before it.
Edited(keys) ==
    LET Left[n \in 0 .. Len(keys)] ==
            IF n = 0 THEN <<>>
            ELSE IF keys[n] # DeleteKey THEN Append(Left[n - 1], keys[n])
            ELSE IF Left[n - 1] = <<>> THEN <<>> ELSE Front(Left[n - 1])
    IN  Left[Len(keys)]

\* The line that is edited is what the terminal shows and what the keys say
\* (readline.c:17-43).
ScreenShowsLine == at = "readline" => buffer = screen /\ buffer = Edited(typed)

\* The words of a text are the runs of characters between the spaces; these are the ones that
\* begin before place p, in their order.
Starts(text) == {n \in 1 .. Len(text) : text[n] # Space /\ (n = 1 \/ text[n - 1] = Space)}

Word(text, first) ==
    SubSeq(text, first, CHOOSE last \in first .. Len(text) :
                            /\ \A n \in first .. last : text[n] # Space
                            /\ last = Len(text) \/ text[last + 1] = Space)

AreWords(words, text, p) ==
    \E from \in [1 .. Len(words) -> 1 .. Len(text)] :
        /\ \A m, n \in 1 .. Len(words) : m < n => from[m] < from[n]
        /\ {from[n] : n \in 1 .. Len(words)} = {first \in Starts(text) : first < p}
        /\ \A n \in 1 .. Len(words) : words[n] = Word(text, from[n])

\* A program is started with the words of the line as its arguments, none missing and none a
\* null pointer: as many are counted on the copy of the line as are to be taken from the line
\* itself afterwards, although each walk overwrites the delimiters of its text (Shell.c:190-200).
ChildGetsTheWords ==
    at = "wait" => Len(spawned) = argc /\ AreWords(spawned, buffer, Len(buffer) + 1)

-----------------------------------------------------------------------------
(* The inductive invariant behind them.                                    *)

\* strtok_r() goes on at the beginning of the text, behind a space, or at the end.
Boundary(text, p) == p = 1 \/ p = Len(text) + 1 \/ IsSpace(text, p - 1)

\* The words that were taken from the line are the first ones.
WordInv ==
    /\ saveptr \in 1 .. Len(buffer) + 1 /\ Boundary(buffer, saveptr)
    /\ at \in {"readline", "aborted", "parse"} => saveptr = 1
    /\ at = "command" /\ Command = "external" => AreWords(<<program>>, buffer, saveptr)
    /\ at = "count" => AreWords(<<program>>, buffer, saveptr)
    /\ at = "collect" => AreWords(argv, buffer, saveptr)

\* The program and the words of the copy that were counted are the first words of the line.
CountInv ==
    /\ at = "count" =>
          /\ copy = SubSeq(buffer, saveptr, Len(buffer))
          /\ saveptr_clone \in 1 .. Len(copy) + 1
          /\ Boundary(buffer, saveptr + saveptr_clone - 1)
          /\ \E words \in Seq(Seq(Letter)) :
                Len(words) = argc /\ AreWords(words, buffer, saveptr + saveptr_clone - 1)
    /\ at = "collect" =>
          /\ Len(argv) <= argc
          /\ \E words \in Seq(Seq(Letter)) :
                Len(words) = argc /\ AreWords(words, buffer, Len(buffer) + 1)

\* The buffer of readline() has a free place before each key.
RoomInv == at = "readline" => Len(buffer) < BufferSize

Inv == TypeOK /\ ScreenShowsLine /\ ChildGetsTheWords /\ RoomInv /\ WordInv /\ CountInv
=============================================================================
