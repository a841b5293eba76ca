----------------------------- MODULE Ownership -----------------------------
(***************************************************************************)
(* The owning pointers of Std: RefPtr with RefCounted, OwnPtr, and the     *)
(* Optional that holds one of them.  A method is the sequence of the       *)
(* steps that it makes on the cells and the objects; the step that drops   *)
(* the last reference continues with the destructor of the object, which   *)
(* holds a pointer itself, as a Thread holds its Process.                  *)
(*                                                                         *)
(* Two preconditions are the caller's: the source of an assignment is      *)
(* neither the destination nor inside of an object that only the           *)
(* destination keeps (clear() runs before the source is read), and the     *)
(* pointers form no cycle.                                                 *)
(***************************************************************************)
EXTENDS Naturals, Sequences, FiniteSets

CONSTANTS
    Object, NoObject,
    Variable,       \* the pointers that are not inside of an object
    Optionals,      \* the ones that are the value of an Optional
    Temporary,      \* one that is a temporary object in the code
    Counted         \* TRUE for RefPtr, FALSE for OwnPtr

OwnershipAssumption ==
    /\ NoObject \notin Object \cup Variable /\ Object \cap Variable = {}
    /\ Optionals \subseteq Variable /\ Temporary \in Variable \ Optionals
    /\ Counted \in BOOLEAN
    /\ IsFiniteSet(Object) /\ IsFiniteSet(Variable)

VARIABLES
    m_pointer,      \* of each variable and of the cell inside of each object
    m_is_valid,     \* of each Optional
    m_refcount,
    life,           \* of each object
    todo,           \* the steps that the running method still has to make
    before          \* (history) m_pointer and the living objects when it began

vars == <<m_pointer, m_is_valid, m_refcount, life, todo, before>>

Living == {o \in Object : life[o] = "live"}

\* A shared object exists for the outside while no method is at work.
Settled == IF todo = <<>> THEN [pointer |-> m_pointer, living |-> Living] ELSE before

H == INSTANCE Handles WITH
    handle <- Settled.pointer,
    existing <- Settled.living,
    used <- {o \in Object : life[o] # "unused" /\ (todo = <<>> \/ o \notin before.constructed)}

-----------------------------------------------------------------------------
(* The methods: what each of them does, in this order *)

Step(do, cell) == [do |-> do, cell |-> cell, from |-> cell]
StepFrom(do, cell, from) == [do |-> do, cell |-> cell, from |-> from]

\* clear(), which is also the destructor.
Clear(c) == <<Step("release", c), Step("reset", c)>>

\* Mutant: the new pointer is not counted.
CopyUncounted(c, b) == <<StepFrom("copy", c, b)>>

CopyConstruct(c, b) == <<StepFrom("copy", c, b), Step("ref", c)>>
MoveConstruct(c, b) == <<StepFrom("take", c, b)>>

MoveOver(c, b) == MoveConstruct(c, b)

CopyAssign(c, b) == Clear(c) \o CopyConstruct(c, b)
MoveAssign(c, b) == Clear(c) \o MoveConstruct(c, b)

OptionalClear(c) == IF m_is_valid[c] THEN <<Step("invalidate", c)>> \o Clear(c) ELSE <<>>

\* Assignments of a pointer to an Optional.
OptionalCopyValue(c, b) == OptionalClear(c) \o <<Step("validate", c)>> \o CopyConstruct(c, b)
OptionalMoveValue(c, b) == OptionalClear(c) \o <<Step("validate", c)>> \o MoveConstruct(c, b)

\* Assignments of an Optional to an Optional.
OptionalCopy(c, b) ==
    OptionalClear(c) \o
        (IF m_is_valid[b] THEN <<Step("validate", c)>> \o CopyConstruct(c, b) ELSE <<>>)

OptionalMove(c, b) ==
    OptionalClear(c) \o
        (IF m_is_valid[b]
         THEN <<Step("validate", c)>> \o MoveConstruct(c, b) \o OptionalClear(b) ELSE <<>>)

\* c = move(b).must()
MustMove(c, b) ==
    MoveConstruct(Temporary, b) \o OptionalClear(b) \o MoveAssign(c, Temporary) \o Clear(Temporary)

-----------------------------------------------------------------------------
(* The steps *)

\* ref(): VERIFY(m_refcount >= 1).  unref(): VERIFY(m_refcount > 0).
Touches(step) ==
    LET o == m_pointer[step.cell]
    IN  /\ {step.cell, step.from} \subseteq Variable \cup Living
        /\ step.do \in {"release", "ref"} /\ o # NoObject => life[o] = "live" /\ m_refcount[o] >= 1

\* The reference that is dropped is the last one.
Last(o) == ~Counted \/ m_refcount[o] = 1

\* The destructor of the object, and its memory.
Delete(o) == Clear(o) \o <<Step("free", o)>>

Release(c) ==
    LET o == m_pointer[c]
    IN  /\ IF o = NoObject THEN UNCHANGED m_refcount
           ELSE m_refcount' = [m_refcount EXCEPT ![o] = @ - 1]
        /\ todo' = (IF o # NoObject /\ Last(o) THEN Delete(o) ELSE <<>>) \o Tail(todo)
        /\ UNCHANGED <<m_pointer, m_is_valid, life, before>>

Ref(c) ==
    LET o == m_pointer[c]
    IN  /\ IF o = NoObject THEN UNCHANGED m_refcount
           ELSE m_refcount' = [m_refcount EXCEPT ![o] = @ + 1]
        /\ todo' = Tail(todo)
        /\ UNCHANGED <<m_pointer, m_is_valid, life, before>>

Store(step) ==
    /\ m_pointer' =
          CASE step.do = "reset" -> [m_pointer EXCEPT ![step.cell] = NoObject]
            [] step.do = "copy" -> [m_pointer EXCEPT ![step.cell] = m_pointer[step.from]]
            [] step.do = "take" ->
                  [m_pointer EXCEPT ![step.cell] = m_pointer[step.from], ![step.from] = NoObject]
    /\ todo' = Tail(todo)
    /\ UNCHANGED <<m_is_valid, m_refcount, life, before>>

Mark(c, valid) ==
    /\ m_is_valid' = [m_is_valid EXCEPT ![c] = valid]
    /\ todo' = Tail(todo)
    /\ UNCHANGED <<m_pointer, m_refcount, life, before>>

Free(o) ==
    /\ life' = [life EXCEPT ![o] = "deleted"]
    /\ todo' = Tail(todo)
    /\ UNCHANGED <<m_pointer, m_is_valid, m_refcount, before>>

Work ==
    /\ todo # <<>> /\ Touches(Head(todo))
    /\ LET step == Head(todo)
       IN  \/ step.do = "release" /\ Release(step.cell)
           \/ step.do = "ref" /\ Ref(step.cell)
           \/ step.do \in {"reset", "copy", "take"} /\ Store(step)
           \/ step.do = "validate" /\ Mark(step.cell, TRUE)
           \/ step.do = "invalidate" /\ Mark(step.cell, FALSE)
           \/ step.do = "free" /\ Free(step.cell)

-----------------------------------------------------------------------------
(* The program *)

\* What the program holds in its hands: its variables and the objects they reach.
Pointer == (Variable \ (Optionals \cup {Temporary})) \cup Living

Call(method) ==
    /\ todo = <<>>
    /\ todo' = method
    /\ before' = [pointer |-> m_pointer, living |-> Living, constructed |-> {}]
    /\ UNCHANGED <<m_pointer, m_is_valid, m_refcount, life>>

Assignable(c, b) ==
    /\ c # b
    /\ b \in Variable \cup H!Reach(m_pointer, Variable, c)
    /\ c \notin H!Reach(m_pointer, {b}, NoObject)

\* construct(), whose result is moved into c.
Construct(c, o) ==
    /\ todo = <<>> /\ life[o] = "unused"
    /\ life' = [life EXCEPT ![o] = "live"]
    /\ m_refcount' = [m_refcount EXCEPT ![o] = 1]
    /\ m_pointer' = [m_pointer EXCEPT ![Temporary] = o]
    /\ todo' = MoveAssign(c, Temporary) \o Clear(Temporary)
    /\ before' = [pointer |-> m_pointer, living |-> Living, constructed |-> {o}]
    /\ UNCHANGED m_is_valid

Assign(c, b) ==
    /\ Assignable(c, b)
    /\ \/ c \in Pointer /\ b \in Pointer /\ Counted /\ Call(CopyAssign(c, b))
       \/ c \in Pointer /\ b \in Pointer /\ Call(MoveAssign(c, b))
       \/ c \in Optionals /\ b \in Pointer /\ Counted /\ Call(OptionalCopyValue(c, b))
       \/ c \in Optionals /\ b \in Pointer /\ Call(OptionalMoveValue(c, b))
       \/ c \in Optionals /\ b \in Optionals /\ Counted /\ Call(OptionalCopy(c, b))
       \/ c \in Optionals /\ b \in Optionals /\ Call(OptionalMove(c, b))
       \/ c \in Pointer /\ b \in Optionals /\ m_is_valid[b] /\ Call(MustMove(c, b))

Drop(c) ==
    \/ c \in Pointer /\ Call(Clear(c))
    \/ c \in Optionals /\ m_is_valid[c] /\ Call(OptionalClear(c))

Init ==
    /\ m_pointer = [c \in Variable \cup Object |-> NoObject]
    /\ m_is_valid = [c \in Optionals |-> FALSE]
    /\ m_refcount = [o \in Object |-> 0]
    /\ life = [o \in Object |-> "unused"]
    /\ todo = <<>>
    /\ before = [pointer |-> m_pointer, living |-> {}, constructed |-> {}]

Next ==
    \/ Work
    \/ \E c \in Pointer, o \in Object : Construct(c, o)
    \/ \E c, b \in Pointer \cup Optionals : Assign(c, b)
    \/ \E c \in Pointer \cup Optionals : Drop(c)

Spec == Init /\ [][Next]_vars

-----------------------------------------------------------------------------
(* Properties *)

TypeOK ==
    /\ m_pointer \in [Variable \cup Object -> Object \cup {NoObject}]
    /\ m_is_valid \in [Optionals -> BOOLEAN]
    /\ m_refcount \in [Object -> 0 .. Cardinality(Variable \cup Object)]
    /\ life \in [Object -> {"unused", "live", "deleted"}]

\* Between two methods the count of an object is the number of the pointers to it
\* that still exist, however they were copied, moved and wrapped (RefPtr.hpp:132-146).
CountIsExact ==
    todo = <<>> =>
        \A o \in Living : m_refcount[o] = Cardinality({c \in Variable \cup Living : m_pointer[c] = o})

\* No step reads or writes a pointer inside of a deleted object or counts one, in
\* the middle of the destructors that delete each other either; with it the VERIFYs
\* of ref() and unref() hold (RefPtr.hpp:134, 140).
TouchesTheLiving == todo # <<>> => Touches(Head(todo))

\* Seen from outside, each method is one assignment, which leaves in the
\* destination what the source held, and the objects that exist are the ones that
\* some pointer reaches: nothing is leaked, nothing is deleted early
\* (RefPtr.hpp:56-83, OwnPtr.hpp:86-129, Optional.hpp:53-122).
ImplementsHandles == H!Spec
=============================================================================
