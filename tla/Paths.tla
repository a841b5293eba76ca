------------------------------- MODULE Paths -------------------------------
(***************************************************************************)
(* Std::Path and the Lexer that takes it apart.  A text is a sequence of   *)
(* characters, one of which is the slash; a component is a text without    *)
(* one.  The constructor is followed step by step; then the program may    *)
(* ask for the parent, append a relative path, or write the path as a text *)
(* and read that again, as a process does with its working directory.      *)
(***************************************************************************)
EXTENDS Naturals, Sequences, SequencesExt

CONSTANTS
    Letter, Slash,
    MaxText         \* bound: the characters of a text

PathsAssumption == Slash \notin Letter /\ MaxText \in Nat \ {0}

VARIABLES
    text,           \* the input of the lexer
    m_offset,
    m_is_absolute, m_components,
    start,          \* where consume_until() began
    at              \* "absolute", "loop", "consume", "slash" or "done"

path == <<m_is_absolute, m_components>>
vars == <<text, m_offset, path, start, at>>

Texts == UNION {[1 .. n -> Letter \cup {Slash}] : n \in 1 .. MaxText}

-----------------------------------------------------------------------------
(* Lexer *)

eof == m_offset >= Len(text)
Peeks(c) == ~eof /\ text[m_offset + 1] = c

\* substr(start, m_offset)
Substr == SubSeq(text, start + 1, m_offset)

-----------------------------------------------------------------------------
(* Path(StringView) *)

Construct(input) ==
    /\ text' = input
    /\ m_offset' = 0 /\ start' = 0
    /\ m_components' = <<>> /\ m_is_absolute' = FALSE
    /\ at' = "absolute"

\* m_is_absolute = lexer.try_consume('/')
Absolute ==
    /\ at = "absolute"
    /\ m_is_absolute' = Peeks(Slash)
    /\ m_offset' = IF Peeks(Slash) THEN m_offset + 1 ELSE m_offset
    /\ at' = "loop"
    /\ UNCHANGED <<text, m_components, start>>

Loop ==
    /\ at = "loop"
    /\ at' = IF eof THEN "done" ELSE "consume"
    /\ start' = m_offset
    /\ UNCHANGED <<text, m_offset, path>>

\* Mutant: the slash is looked for behind the first character.
StopsBehind == eof \/ (Peeks(Slash) /\ m_offset > start)

\* consume_until('/') is at its end.
Stops == eof \/ Peeks(Slash)

Consume ==
    /\ at = "consume" /\ ~Stops
    /\ m_offset' = m_offset + 1
    /\ UNCHANGED <<text, path, start, at>>

Component ==
    /\ at = "consume" /\ Stops
    /\ m_components' = Append(m_components, Substr)
    /\ at' = "slash"
    /\ UNCHANGED <<text, m_offset, m_is_absolute, start>>

SkipSlash ==
    /\ at = "slash"
    /\ m_offset' = IF Peeks(Slash) THEN m_offset + 1 ELSE m_offset
    /\ at' = "loop"
    /\ UNCHANGED <<text, path, start>>

-----------------------------------------------------------------------------
(* The methods of a path *)

\* string()
String(p) ==
    IF p[1] /\ p[2] = <<>> THEN <<Slash>>
    ELSE FlattenSeq([i \in 1 .. Len(p[2]) |->
             (IF p[1] \/ i > 1 THEN <<Slash>> ELSE <<>>) \o p[2][i]])

\* Mutant: one component more is dropped.
AllButTwo(components) == SubSeq(components, 1, Len(components) - 2)
AllButLast(components) == SubSeq(components, 1, Len(components) - 1)

Parent ==
    /\ at = "done" /\ m_components # <<>>
    /\ m_components' = AllButLast(m_components)
    /\ UNCHANGED <<text, m_offset, m_is_absolute, start, at>>

\* operator/ with the path that the relative text stands for.
Divide(component) ==
    /\ at = "done"
    /\ m_components' = Append(m_components, component)
    /\ UNCHANGED <<text, m_offset, m_is_absolute, start, at>>

\* The text of the path becomes the argument of a system call: an empty text fails
\* VERIFY(path.size() >= 1) and is not passed.
ReadAgain ==
    /\ at = "done" /\ String(path) # <<>>
    /\ Construct(String(path))

Init ==
    \E input \in Texts :
        /\ text = input
        /\ m_offset = 0 /\ start = 0
        /\ m_components = <<>> /\ m_is_absolute = FALSE
        /\ at = "absolute"

Next ==
    \/ Absolute \/ Loop \/ Consume \/ Component \/ SkipSlash
    \/ Parent \/ ReadAgain
    \/ \E c \in Letter : Len(String(path)) < MaxText /\ Divide(<<c>>)

Spec == Init /\ [][Next]_vars

-----------------------------------------------------------------------------
(* Properties *)

\* What the text says, put together instead of taken apart: the components between
\* the slashes, the last of which is dropped when nothing follows a slash.
Means(p, t) ==
    LET joined == FlattenSeq([i \in 1 .. Len(p[2]) |-> <<Slash>> \o p[2][i]])
        absolute == IF Head(t) = Slash THEN t ELSE <<Slash>> \o t
    IN  /\ p[1] <=> Head(t) = Slash
        /\ \A i \in 1 .. Len(p[2]) : ~Contains(p[2][i], Slash)
        /\ absolute \in {joined, Append(joined, Slash)}

\* Where no component was lost: the text is longer by a slash only after a component.
Exact(p, t) == Last(t) # Slash \/ t = <<Slash>> \/ Len(t) = Len(String(p)) + 1

\* When the constructor returns, the components are the ones of the text, with the
\* empty ones between two slashes, and nothing is left out (Path.hpp:15-30).
ReadsWhatIsThere == Loop /\ at' = "done" => Means(path, text) /\ Exact(path, text)

\* The text of a path without empty components, which is not the empty relative
\* path, stands for that path again (Path.hpp:63-85).
StringReadsBack ==
    (at = "done" /\ (m_is_absolute \/ m_components # <<>>)
        /\ \A i \in 1 .. Len(m_components) : m_components[i] # <<>>)
    => /\ Means(path, String(path))
       /\ Last(String(path)) = Slash => m_components = <<>>

\* The text of a directory, up to the name of an entry in it.
Prefix(p) == IF p = <<TRUE, <<>>>> \/ p = <<FALSE, <<>>>> THEN String(p) ELSE Append(String(p), Slash)

\* parent() and filename() cut a path where a system call that creates a file needs
\* it cut: together they name the same file (Path.hpp:44-61, Thread.cpp:180-196).
ParentAndFilename == Parent => String(path) = Prefix(path)' \o Last(m_components)

\* A path stands for the text that it was read from, and for the one that it is written as,
\* at every step of the constructor and of the methods (Path.hpp:15-94).
PathsSayTheSame == [][ReadsWhatIsThere /\ ParentAndFilename /\ StringReadsBack']_vars
=============================================================================
