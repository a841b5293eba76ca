------------------------------- MODULE Editor -------------------------------
(***************************************************************************)
(* The line editor (Userland/Editor.c).  A buffer of a fixed size holds the*)
(* text; what is behind the text in the buffer is left over from earlier.  *)
(* Access behind the buffer is undefined, a failed assertion ends the      *)
(* program.                                                                *)
(***************************************************************************)
EXTENDS Integers, Sequences, FiniteSets

CONSTANTS
    Character, Newline,
    Undetermined,   \* the content of memory that malloc() returns
    Slack,          \* the size of a new buffer beyond that of the file, 0x200
    MaxLine,        \* bound: the characters of a line that is typed
    MaxLineno,      \* bound: the numbers in a command
    MaxFile,        \* bound: the characters of a file
    Width           \* the number of values of a size_t

EditorAssumption ==
    /\ Newline \notin Character /\ Undetermined \notin Character \cup {Newline}
    /\ Slack \in Nat \ {0} /\ MaxLine \in Nat \ {0} /\ MaxLineno \in Nat
    /\ Width \in Nat /\ Width > MaxLineno /\ MaxFile \in Nat /\ Width > MaxFile + Slack

VARIABLES
    at,
    data, used, nlines,     \* struct buffer, with its size as the length of data
    offset,                 \* where "a" inserts next
    file,                   \* the content of the file
    named,                  \* default_filename is set
    exact,                  \* (history) nlines began as the number of lines, and no
                            \* deletion left more behind it, or the offset behind the text
    before, typed, origin   \* (history) of the running "a": the text, what is inserted, where

bufferVars == <<data, used, nlines>>
historyVars == <<exact, before, typed, origin>>
vars == <<at, bufferVars, offset, file, named, historyVars>>

None == -1
Texts == UNION {[1 .. n -> Character] : n \in 0 .. MaxLine}
Text == SubSeq(data, 1, used)

-----------------------------------------------------------------------------
(* The buffer *)

\* memmove(), when all of it is in the buffer.
Moved(to, from, count) ==
    [i \in 1 .. Len(data) |-> IF i \in to + 1 .. to + count THEN data[i - to + from] ELSE data[i]]

\* Mutant: memmove() is given the first offset twice.
InsertedOver(piece) ==
    [i \in 1 .. Len(data) |->
        IF i \in offset + 1 .. offset + Len(piece) THEN piece[i - offset] ELSE data[i]]

\* The buffer with the text behind the offset moved and the piece copied to the gap.
Inserted(piece) ==
    [i \in 1 .. Len(data) |->
        IF i \in offset + 1 .. offset + Len(piece) THEN piece[i - offset]
        ELSE Moved(offset + Len(piece), offset, used)[i]]

\* buffer_append_at_offset(): memmove() is asked for `used` bytes, wherever it begins.
AppendAtOffset(piece, next) ==
    /\ at' = IF used + Len(piece) > Len(data) THEN "aborted"
             ELSE IF offset + Len(piece) + used > Len(data) THEN "undefined" ELSE next
    /\ IF at' = next
       THEN /\ data' = Inserted(piece) /\ used' = used + Len(piece)
            /\ offset' = offset + Len(piece)
            /\ typed' = typed \o piece
       ELSE UNCHANGED <<data, used, offset, typed>>

\* buffer_get_line_offset() from the line with this number: None is -1.  Left is its lineno behind
\* each character; the loop ends at the first offset where it is zero.
LineOffset(lineno) ==
    LET Left[o \in 0 .. used] ==
            IF o = 0 THEN lineno - 1
            ELSE IF Left[o - 1] > 0 /\ data[o] = Newline THEN Left[o - 1] - 1 ELSE Left[o - 1]
        Found == {o \in 0 .. used : Left[o] = 0}
    IN  IF Found = {} THEN None ELSE CHOOSE o \in Found : \A other \in Found : o <= other

\* assert(lineno >= 1), and the assertions of the callers on the result.
IsFound(lineno) == lineno >= 1 /\ LineOffset(lineno) # None

\* buffer_delete_range(): memmove() moves as many bytes as are deleted, not the ones behind.
DeleteRange(first, last, next) ==
    LET from == LineOffset(first)
        to == LineOffset(last + 1)
    IN  /\ at' = IF first > last \/ ~ IsFound(first) \/ ~ IsFound(last + 1) THEN "aborted"
                 ELSE IF to + (to - from) > Len(data) THEN "undefined" ELSE next
        /\ IF at' = next
           THEN /\ data' = Moved(from, to, to - from)
                /\ used' = used - (to - from)
                /\ nlines' = (nlines - (last - first + 1)) % Width
                /\ exact' = (exact /\ used - to <= to - from /\ offset' <= used')
           ELSE UNCHANGED <<bufferVars, exact>>

-----------------------------------------------------------------------------
(* main() *)

\* The text of the file, nothing without one, in a new buffer.  The lines of the file
\* are not counted.
Load(content) ==
    /\ at = "start" /\ at' = "prompt"
    /\ data' = content \o [i \in 1 .. Slack |-> Undetermined]
    /\ used' = Len(content)
    /\ nlines' = 0
    /\ exact' = (content = <<>>)
    /\ UNCHANGED <<offset, file, before, typed, origin>>

StartWithFile == Load(file) /\ named' = TRUE

StartWithoutFile == Load(<<>>) /\ named' = FALSE

\* parse_integer() at most twice: no number, one, or two of them.
Selections == {<<None, None>>} \cup (0 .. MaxLineno) \X ({None} \cup 0 .. MaxLineno)

\* A selection before "w" or "q", an unreadable file, a failed write.
Abort ==
    /\ at \in {"start", "prompt"} /\ at' = "aborted"
    /\ UNCHANGED <<bufferVars, offset, file, named, historyVars>>

\* "w" with a name, or without one.  If there never was one open() is given the null
\* pointer, which names some other file or none.
Write(name) ==
    /\ at = "prompt" /\ used <= MaxFile
    /\ named' = (named \/ name)
    /\ file' = IF named' THEN Text ELSE file
    /\ UNCHANGED <<at, bufferVars, offset, historyVars>>

Quit ==
    /\ at = "prompt" /\ at' = "start"
    /\ data' = <<>> /\ used' = 0 /\ nlines' = 0 /\ named' = FALSE /\ exact' = TRUE
    /\ UNCHANGED <<offset, file, before, typed, origin>>

\* "a": the offset is determined before a range is deleted.
AppendLines(start, end) ==
    /\ at = "prompt"
    /\ IF start # None /\ ~ IsFound(start + 1)
       THEN at' = "aborted" /\ UNCHANGED <<bufferVars, offset, historyVars>>
       ELSE /\ offset' = IF start = None THEN used ELSE LineOffset(start + 1)
            /\ IF end = None
               THEN at' = "append" /\ UNCHANGED <<bufferVars, exact>>
               ELSE DeleteRange(start, end, "append")
            /\ before' = SubSeq(data', 1, used') /\ typed' = <<>> /\ origin' = offset'
    /\ UNCHANGED <<file, named>>

\* An empty line fails an assertion.
PutLine(line) ==
    /\ at = "append"
    /\ IF line = <<>> THEN at' = "aborted" /\ UNCHANGED <<data, used, offset, typed>>
       ELSE AppendAtOffset(line, "newline")
    /\ UNCHANGED <<nlines, file, named, exact, before, origin>>

\* Mutant: the line is not counted.
PutUncounted ==
    /\ at = "newline"
    /\ AppendAtOffset(<<Newline>>, "append")
    /\ UNCHANGED <<nlines, file, named, exact, before, origin>>

PutNewline ==
    /\ at = "newline"
    /\ AppendAtOffset(<<Newline>>, "append")
    /\ nlines' = (nlines + 1) % Width
    /\ UNCHANGED <<file, named, exact, before, origin>>

\* The line with the single dot.
EndAppend ==
    /\ at = "append" /\ at' = "prompt"
    /\ before' = <<>> /\ typed' = <<>> /\ origin' = 0 /\ offset' = 0
    /\ UNCHANGED <<bufferVars, file, named, exact>>

\* "p": the assertions on the lines at both ends.
CanPrint(start, end) ==
    /\ start # None => IsFound(start) /\ IsFound(start + 1)
    /\ end # None => IsFound(end + 1) /\ LineOffset(end + 1) >= LineOffset(start)

\* "l": the lines one by one, all of them without a selection.
CanList(start, end) ==
    LET first == IF start = None THEN 1 ELSE start
        behind == IF end # None THEN end + 1
                  ELSE IF start # None THEN start + 1 ELSE (nlines + 1) % Width
    IN  \A lineno \in first .. behind - 1 : IsFound(lineno) /\ IsFound(lineno + 1)

\* Nothing but the terminal changes, unless an assertion fails.
Show(start, end) ==
    /\ at = "prompt" /\ ~ (CanPrint(start, end) /\ CanList(start, end))
    /\ at' = "aborted"
    /\ UNCHANGED <<bufferVars, offset, file, named, historyVars>>

\* "d", which without a selection begins with line 0.
Delete(start, end) ==
    /\ at = "prompt"
    /\ offset' = 0
    /\ IF start = None THEN DeleteRange(0, nlines + 1, "prompt")
       ELSE DeleteRange(start, IF end = None THEN start ELSE end, "prompt")
    /\ UNCHANGED <<file, named, before, typed, origin>>

Init ==
    /\ at = "start"
    /\ data = <<>> /\ used = 0 /\ nlines = 0 /\ offset = 0
    /\ file = <<>> /\ named = FALSE
    /\ exact = TRUE /\ before = <<>> /\ typed = <<>> /\ origin = 0

Next ==
    \/ StartWithFile \/ StartWithoutFile \/ Abort \/ Quit
    \/ \E name \in BOOLEAN : Write(name)
    \/ \E s \in Selections : AppendLines(s[1], s[2]) \/ Show(s[1], s[2]) \/ Delete(s[1], s[2])
    \/ \E line \in Texts : PutLine(line)
    \/ PutNewline \/ EndAppend

Spec == Init /\ [][Next]_vars

-----------------------------------------------------------------------------
(* Properties *)

Memory == Character \cup {Newline, Undetermined}

TypeOK ==
    /\ at \in {"start", "prompt", "append", "newline", "aborted", "undefined"}
    /\ data \in Seq(Memory) /\ Len(data) <= MaxFile + Slack
    /\ used \in 0 .. Len(data) /\ nlines \in 0 .. Width - 1 /\ offset \in 0 .. Len(data)
    /\ file \in Seq(Memory) /\ Len(file) <= MaxFile /\ named \in BOOLEAN
    /\ exact \in BOOLEAN /\ before \in Seq(Memory) /\ typed \in Seq(Memory) /\ origin \in Nat

Newlines(text, n) == Cardinality({i \in 1 .. n : text[i] = Newline})

\* While lines are appended the text is the one before with the new lines in it, in the
\* order in which they are typed (Editor.c:19-27, 201-219); with a range the offset may
\* lie behind what the deletion left.
InsertsTheLines ==
    at \in {"append", "newline"} /\ origin <= Len(before) =>
        Text = SubSeq(before, 1, origin) \o typed \o SubSeq(before, origin + 1, Len(before))

\* The lines are counted as they come and go, so that "l" finds each one that it lists
\* (Editor.c:243-260), as long as no deletion moved less than what is behind it.
CountsItsLines ==
    at = "prompt" /\ exact =>
        /\ nlines = Newlines(data, used)
        /\ CanList(None, None)

-----------------------------------------------------------------------------
(* The inductive invariant behind them. *)

\* "a" has no offset left when it ends.
OffsetInv == at \in {"start", "prompt"} => offset = 0

\* Each character of the text is one of before, or one that was typed.
InsertInv ==
    at \in {"append", "newline"} /\ origin <= Len(before) =>
        /\ offset = origin + Len(typed) /\ used = Len(before) + Len(typed)
        /\ \A i \in 1 .. used :
              data[i] = IF i <= origin THEN before[i]
                        ELSE IF i <= offset THEN typed[i - origin] ELSE before[i - Len(typed)]

CountInv ==
    exact /\ at \in {"start", "prompt", "append", "newline"} =>
        nlines = Newlines(data, used) /\ offset <= used

Inv == TypeOK /\ OffsetInv /\ InsertInv /\ CountInv
=============================================================================
