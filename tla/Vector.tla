------------------------------- MODULE Vector -------------------------------
(***************************************************************************)
(* Std::Vector: a sequence in storage inside of the object, which moves to *)
(* a block of the heap when it outgrows that, and to a larger block each   *)
(* time it outgrows one.  A method is the sequence of the smaller methods  *)
(* that it calls.  The elements have constructors and destructors: a cell  *)
(* of storage that holds no element is Raw.                                *)
(*                                                                         *)
(* Two preconditions are the caller's: a vector is not assigned to itself, *)
(* and the value that is appended does not lie in the vector itself        *)
(* (ensure_capacity() frees its storage before it is copied).              *)
(***************************************************************************)
EXTENDS Naturals, Sequences

CONSTANTS
    Vec, Value,
    Raw,            \* the content of a cell outside of the life of an element
    NoBlock,        \* the null pointer
    Outside,        \* the place of the values that are in no vector
    Block,          \* the blocks that operator new may return
    InlineSize,
    MaxSize         \* bound: the elements of a vector

\* round_to_power_of_two(): exact powers are doubled.
RoundToPowerOfTwo(n) == CHOOSE p \in {2^k : k \in 1 .. n} : p > n /\ p <= 2 * n

VectorAssumption ==
    /\ InlineSize \in Nat /\ MaxSize \in Nat \ {0}
    /\ Vec \cap Block = {} /\ NoBlock \notin Block /\ Outside \notin Vec \cup Block
    /\ Raw \notin Value

Cell == 0 .. RoundToPowerOfTwo(MaxSize) - 1

VARIABLES
    m_size, m_capacity, m_data, m_use_inline_data,  \* of each vector
    memory,         \* the cells of the inline storage of each vector and of each block
    extent,         \* the number of cells of each block, 0 when it is free
    todo,           \* the methods that the running method still has to call
    before          \* (history) the sequences when it began

fields == <<m_size, m_capacity, m_data, m_use_inline_data>>
vars == <<fields, memory, extent, todo, before>>

\* data()
Storage(v) == IF m_use_inline_data[v] THEN v ELSE m_data[v]

Content(v) == [i \in 1 .. m_size[v] |-> memory[Storage(v)][i - 1]]

L == INSTANCE Lists WITH
    list <- IF todo = <<>> THEN [v \in Vec |-> Content(v)] ELSE before

-----------------------------------------------------------------------------
(* The methods that call others *)

GrowBy(v, n) == [do |-> "grow", vec |-> v, n |-> n]
AppendFrom(v, place, i) == [do |-> "append", vec |-> v, place |-> place, i |-> i]
ClearOf(v) == [do |-> "clear", vec |-> v]
Steal(v, w) == [do |-> "steal", vec |-> v, from |-> w]

\* Mutant: the loop reads the first element each time.
ExtendByFirst(v, w) ==
    <<GrowBy(v, m_size[w])>> \o [i \in 1 .. m_size[w] |-> AppendFrom(v, Storage(w), 0)]

ExtendBy(v, w) ==
    <<GrowBy(v, m_size[w])>> \o [i \in 1 .. m_size[w] |-> AppendFrom(v, Storage(w), i - 1)]

CopyAssign(v, w) == <<ClearOf(v)>> \o ExtendBy(v, w)

MoveAssign(v, w) ==
    <<ClearOf(v)>> \o
        (IF m_use_inline_data[w] THEN ExtendBy(v, w) \o <<ClearOf(w)>> ELSE <<Steal(v, w)>>)

Destroy(v) == <<ClearOf(v), [do |-> "free", vec |-> v]>>

-----------------------------------------------------------------------------
(* The methods that touch the storage *)

Erased == [i \in Cell |-> Raw]

\* operator delete[] of m_data: nothing happens to a null pointer.
Released(v, places) == [b \in DOMAIN places |-> IF b = m_data[v] THEN 0 ELSE places[b]]

\* Mutant: the size is compared, and not the size with the new element.
Fits(v, n) == m_capacity[v] + 1 >= n
Enough(v, n) == m_capacity[v] >= n

\* The elements are moved to the new block one by one, and destroyed in the old one.
Moved(v) == [i \in Cell |-> IF i < m_size[v] THEN memory[Storage(v)][i] ELSE Raw]

\* ensure_capacity()
EnsureCapacity(v, n, next) ==
    /\ todo' = next
    /\ IF Enough(v, n) THEN UNCHANGED <<fields, memory, extent>>
       ELSE \E b \in {c \in Block : extent[c] = 0} :
            LET capacity == RoundToPowerOfTwo(n)
            IN  /\ memory' = [memory EXCEPT ![Storage(v)] = Erased, ![b] = Moved(v)]
                /\ extent' = [Released(v, extent) EXCEPT ![b] = capacity]
                /\ m_data' = [m_data EXCEPT ![v] = b]
                /\ m_capacity' = [m_capacity EXCEPT ![v] = capacity]
                /\ m_use_inline_data' = [m_use_inline_data EXCEPT ![v] = FALSE]
                /\ UNCHANGED m_size

\* append(), when there is room.
Construct(v, place, i) ==
    /\ memory' = [memory EXCEPT ![Storage(v)][m_size[v]] =
                     IF place = Outside THEN i ELSE memory[place][i]]
    /\ m_size' = [m_size EXCEPT ![v] = @ + 1]
    /\ todo' = Tail(todo)
    /\ UNCHANGED <<m_capacity, m_data, m_use_inline_data, extent>>

Clear(v) ==
    /\ memory' = [memory EXCEPT ![Storage(v)] =
                     [i \in Cell |-> IF i < m_size[v] THEN Raw ELSE @[i]]]
    /\ m_size' = [m_size EXCEPT ![v] = 0]
    /\ todo' = Tail(todo)
    /\ UNCHANGED <<m_capacity, m_data, m_use_inline_data, extent>>

\* What the source of a move is left with.
Left(w, field, default) == default

\* A vector takes over the block of another one, which returns to its inline storage.
TakeOver(v, w) ==
    /\ extent' = Released(v, extent)
    /\ m_data' = [m_data EXCEPT ![v] = m_data[w], ![w] = Left(w, m_data, NoBlock)]
    /\ m_size' = [m_size EXCEPT ![v] = m_size[w], ![w] = Left(w, m_size, 0)]
    /\ m_capacity' = [m_capacity EXCEPT ![v] = m_capacity[w], ![w] = Left(w, m_capacity, InlineSize)]
    /\ m_use_inline_data' = [m_use_inline_data EXCEPT ![v] = FALSE, ![w] = TRUE]
    /\ todo' = Tail(todo)
    /\ UNCHANGED memory

\* The destructor gives back the block; the vector is then constructed anew.
Free(v) ==
    /\ extent' = Released(v, extent)
    /\ m_data' = [m_data EXCEPT ![v] = NoBlock]
    /\ m_capacity' = [m_capacity EXCEPT ![v] = InlineSize]
    /\ m_use_inline_data' = [m_use_inline_data EXCEPT ![v] = TRUE]
    /\ todo' = Tail(todo)
    /\ UNCHANGED <<m_size, memory>>

Work ==
    /\ todo # <<>>
    /\ LET call == Head(todo)
           v == call.vec
       IN  \/ call.do = "grow" /\ EnsureCapacity(v, m_size[v] + call.n, Tail(todo))
           \/ /\ call.do = "append" /\ ~Enough(v, m_size[v] + 1)
              /\ EnsureCapacity(v, m_size[v] + 1, todo)
           \/ /\ call.do = "append" /\ Enough(v, m_size[v] + 1)
              /\ Construct(v, call.place, call.i)
           \/ call.do = "clear" /\ Clear(v)
           \/ call.do = "steal" /\ TakeOver(v, call.from)
           \/ call.do = "free" /\ Free(v)
    /\ UNCHANGED before

-----------------------------------------------------------------------------
(* The program *)

Call(method) ==
    /\ todo = <<>>
    /\ todo' = method
    /\ before' = [v \in Vec |-> Content(v)]
    /\ UNCHANGED <<fields, memory, extent>>

AppendValue(v, x) == m_size[v] < MaxSize /\ Call(<<AppendFrom(v, Outside, x)>>)

Extend(v, w) == m_size[v] + m_size[w] <= MaxSize /\ Call(ExtendBy(v, w))

Init ==
    /\ m_size = [v \in Vec |-> 0]
    /\ m_capacity = [v \in Vec |-> InlineSize]
    /\ m_data = [v \in Vec |-> NoBlock]
    /\ m_use_inline_data = [v \in Vec |-> TRUE]
    /\ memory = [p \in Vec \cup Block |-> Erased]
    /\ extent = [b \in Block |-> 0]
    /\ todo = <<>>
    /\ before = [v \in Vec |-> <<>>]

Next ==
    \/ Work
    \/ \E v \in Vec :
          \/ \E x \in Value : AppendValue(v, x)
          \/ \E w \in Vec \ {v} : Extend(v, w) \/ Call(CopyAssign(v, w)) \/ Call(MoveAssign(v, w))
          \/ Call(<<ClearOf(v)>>) \/ Call(Destroy(v))

Spec == Init /\ [][Next]_vars

-----------------------------------------------------------------------------
(* Properties *)

TypeOK ==
    /\ m_size \in [Vec -> 0 .. MaxSize]
    /\ m_capacity \in [Vec -> Nat]
    /\ m_data \in [Vec -> Block \cup {NoBlock}]
    /\ m_use_inline_data \in [Vec -> BOOLEAN]
    /\ memory \in [Vec \cup Block -> [Cell -> Value \cup {Raw}]]
    /\ extent \in [Block -> Nat]
    /\ before \in [Vec -> Seq(Value)]

\* Every element that was constructed is in the first m_size cells of the vector
\* that owns it, so that it is destroyed once, and no element is constructed
\* outside of the storage (Vector.hpp:43-57, 66-95, 122-158).
ElementsAreOwned ==
    /\ \A v \in Vec :
          /\ m_size[v] <= m_capacity[v]
          /\ m_capacity[v] = IF m_use_inline_data[v] THEN InlineSize ELSE extent[m_data[v]]
    /\ \A p \in Vec \cup Block, i \in Cell :
          memory[p][i] # Raw <=> \E v \in Vec : p = Storage(v) /\ i < m_size[v]

\* Every block that was allocated is the storage of one vector, which will free it
\* (Vector.hpp:19-27, 92-94, 130-158).
BlocksAreOwned ==
    /\ {b \in Block : extent[b] > 0} = {m_data[v] : v \in Vec} \ {NoBlock}
    /\ \A v, w \in Vec : v # w /\ m_data[v] = m_data[w] => m_data[v] = NoBlock

\* Each method does to the sequences what its name says, whatever moves in between.
ImplementsLists == L!Spec

-----------------------------------------------------------------------------
(* The inductive invariant behind them. *)

\* A vector has a block or uses its inline storage.
StorageInv ==
    /\ TypeOK /\ ElementsAreOwned /\ BlocksAreOwned
    /\ \A v \in Vec : m_use_inline_data[v] <=> m_data[v] = NoBlock

\* The vector has this content, and the others have theirs still.
Holds(v, content) == \A u \in Vec : Content(u) = IF u = v THEN content ELSE before[u]

FreeOf(v) == [do |-> "free", vec |-> v]

\* append() of one value, before and after it has grown.
Appending(v, x) ==
    /\ todo = <<AppendFrom(v, Outside, x)>> /\ Holds(v, before[v])
    /\ m_size[v] < MaxSize

\* What may follow a clear(), and does not begin with append().
Endings(v) == {<<FreeOf(v)>>} \cup {<<Steal(v, w)>> : w \in {u \in Vec \ {v} : ~ m_use_inline_data[u]}}

\* What may follow when all of the other vector is appended.
Tails(w) == {<<>>, <<ClearOf(w)>>}

Rests(v) ==
    {<<>>} \cup Endings(v)
        \cup UNION {{ExtendBy(v, w) \o rest : rest \in Tails(w)} : w \in Vec \ {v}}

Clearing(v) == Holds(v, before[v]) /\ \E rest \in Rests(v) : todo = <<ClearOf(v)>> \o rest

Ending(v) == todo \in Endings(v) /\ Holds(v, <<>>)

\* The calls of append() for the elements of w from k on.
Appends(v, w, k) == [i \in 1 .. m_size[w] - k |-> AppendFrom(v, Storage(w), k + i - 1)]

\* extend() of v, which holds base, by w.
Extending(v, w, base, rest) ==
    /\ base = before[v] => rest = <<>> \/ base = <<>>
    /\ Len(base) + m_size[w] <= MaxSize
    /\ \/ todo = ExtendBy(v, w) \o rest /\ Holds(v, base)
       \/ \E k \in 0 .. m_size[w] :
             todo = Appends(v, w, k) \o rest /\ Holds(v, base \o SubSeq(before[w], 1, k))

WorkInv ==
    todo # <<>> =>
        \E v \in Vec :
            \/ \E x \in Value : Appending(v, x)
            \/ Clearing(v)
            \/ Ending(v)
            \/ \E w \in Vec \ {v} : \E base \in {<<>>, before[v]}, rest \in Tails(w) :
                  Extending(v, w, base, rest)

Inv == StorageInv /\ WorkInv
=============================================================================
