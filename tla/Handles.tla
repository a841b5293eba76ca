------------------------------ MODULE Handles ------------------------------
(***************************************************************************)
(* What owning pointers promise: an object exists exactly as long as a     *)
(* handle reaches it.  A cell is a variable, or the pointer inside of an   *)
(* object; an assignment to a cell changes that cell (a move empties the   *)
(* source as well), and what is no longer reached is gone with it.         *)
(***************************************************************************)
EXTENDS Naturals, FiniteSets

CONSTANTS Object, Variable, NoObject

VARIABLES
    handle,     \* the object that each cell refers to
    existing,   \* the objects that exist
    used        \* the objects that existed at some time

vars == <<handle, existing, used>>

\* The objects that the cells of roots reach in the graph p, not through without.
Reach(p, roots, without) ==
    LET Within[n \in 0 .. Cardinality(Object)] ==
            IF n = 0 THEN {}
            ELSE {p[c] : c \in (roots \cup Within[n - 1]) \ {without}} \ {NoObject}
    IN  Within[Cardinality(Object)]

\* The cells become p, and what they do not reach disappears.
Becomes(p) ==
    LET reached == Reach(p, Variable, NoObject)
    IN  /\ existing' = reached
        /\ handle' = [c \in DOMAIN p |-> IF c \in Variable \cup reached THEN p[c] ELSE NoObject]

Cell == Variable \cup existing

Init ==
    /\ handle = [c \in Variable \cup Object |-> NoObject]
    /\ existing = {}
    /\ used = {}

Construct(c, o) ==
    /\ o \notin used
    /\ used' = used \cup {o}
    /\ Becomes([handle EXCEPT ![c] = o])

Copy(c, b) == Becomes([handle EXCEPT ![c] = handle[b]]) /\ UNCHANGED used

Move(c, b) == Becomes([handle EXCEPT ![c] = handle[b], ![b] = NoObject]) /\ UNCHANGED used

Clear(c) == Becomes([handle EXCEPT ![c] = NoObject]) /\ UNCHANGED used

Next ==
    \E c \in Cell :
        \/ \E o \in Object : Construct(c, o)
        \/ \E b \in Cell \ {c} : Copy(c, b) \/ Move(c, b)
        \/ Clear(c)

Spec == Init /\ [][Next]_vars
=============================================================================
