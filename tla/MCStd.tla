------------------------------- MODULE MCStd -------------------------------
(***************************************************************************)
(* The sequences, the owning pointers and the paths of Std, one at a time: *)
(* they share nothing.                                                     *)
(***************************************************************************)
EXTENDS CircularQueue, TLC

CONSTANTS
    Object, NoObject, Variable, Optionals, Temporary,           \* Ownership
    Vec, Element, Raw, NoBlock, Outside, Block, InlineSize, MaxSize,    \* Vector
    Letter, Slash, MaxText                                      \* Paths

VARIABLES
    considered,
    m_pointer, m_is_valid, m_refcount, life, todo, before,
    vectorSize, m_capacity, vectorData, m_use_inline_data, memory, extent, calls, lists,
    text, lexerOffset, m_is_absolute, m_components, start, at

queueVars == vars
pointerVars == <<m_pointer, m_is_valid, m_refcount, life, todo, before>>
vectorVars == <<vectorSize, m_capacity, vectorData, m_use_inline_data, memory, extent,
                calls, lists>>
pathVars == <<text, lexerOffset, m_is_absolute, m_components, start, at>>

Refs == INSTANCE Ownership WITH Counted <- TRUE
Owns == INSTANCE Ownership WITH Counted <- FALSE
V == INSTANCE Vector
    WITH Value <- Element, m_size <- vectorSize, m_data <- vectorData,
         todo <- calls, before <- lists
Path == INSTANCE Paths WITH m_offset <- lexerOffset

ASSUME Refs!OwnershipAssumption /\ Owns!OwnershipAssumption
ASSUME V!VectorAssumption /\ Path!PathsAssumption

\* What fresh memory holds makes a difference to the queues only when they are considered.
StdInit ==
    /\ considered \in {"queues", "refptr", "ownptr", "vector", "path"}
    /\ Init /\ Refs!Init /\ V!Init /\ Path!Init
    /\ considered # "path" => text = <<Slash>>
    /\ LET value == CHOOSE v \in Value : TRUE
       IN  considered # "queues" =>
               returned = value /\ m_data = [q \in Queue |-> [n \in 0 .. Size - 1 |-> value]]

Queueing == considered = "queues" /\ Next
Sharing == considered = "refptr" /\ Refs!Next
Owning == considered = "ownptr" /\ Owns!Next
Growing == considered = "vector" /\ V!Next
Reading == considered = "path" /\ Path!Next

StdNext ==
    /\ UNCHANGED considered
    /\ \/ Queueing /\ UNCHANGED <<pointerVars, vectorVars, pathVars>>
       \/ (Sharing \/ Owning) /\ UNCHANGED <<queueVars, vectorVars, pathVars>>
       \/ Growing /\ UNCHANGED <<queueVars, pointerVars, pathVars>>
       \/ Reading /\ UNCHANGED <<queueVars, pointerVars, vectorVars>>

StdSpec == StdInit /\ [][StdNext]_<<considered, queueVars, pointerVars, vectorVars, pathVars>>

Symmetric == Permutations(Object) \cup Permutations(Block)

\* An object is destroyed with its last pointer and never used afterwards (RefPtr.hpp:120-150),
\* and an OwnPtr is the only one to its object (OwnPtr.hpp:86-129); the vectors own each block
\* and each element once (Vector.hpp:150-250).
EverythingIsOwned ==
    /\ Refs!TouchesTheLiving /\ Refs!CountIsExact
    /\ V!ElementsAreOwned /\ V!BlocksAreOwned

\* Pointers assigned, moved, cleared and dropped behave as handles (RefPtr.hpp, OwnPtr.hpp).
ImplementsHandles == Refs!ImplementsHandles

\* Vectors behave as sequences, through every reallocation (Vector.hpp).
ImplementsLists == V!ImplementsLists

\* The constructor reads what the text says, string() is read as the same path again, and
\* parent() and filename() cut it where the entry of a directory is named (Path.hpp:15-94).
PathsSayTheSame == Path!PathsSayTheSame
=============================================================================
