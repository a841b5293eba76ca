----------------------------- MODULE SortedSet -----------------------------
(***************************************************************************)
(* Std/SortedSet.hpp: a binary search tree whose nodes know their parents, *)
(* and the iterator that climbs along them.  Memory is explicit: a deleted *)
(* node keeps its content until its address is used again, which is what a *)
(* stale link sees.  A call is one action, except that operator++ takes a  *)
(* step for each parent it climbs to.                                      *)
(***************************************************************************)
EXTENDS Integers, FiniteSets

CONSTANTS
    Value,          \* what is inserted
    Less(_, _),     \* operator< of the values
    Address,        \* where nodes can be allocated, in the order of the heap
    Null

AddressAssumption == Address \subseteq Nat /\ Null \notin Address /\ Null \notin Value

VARIABLES
    m_root,
    m_size,
    node,           \* the memory: the content of the node at each address
    allocated,      \* the addresses in use
    current,        \* m_current of the iterator
    climbing,       \* operator++ is in its loop, and current is the node it has reached
    visited         \* the member that *iterator yielded last, Null before and after a walk

vars == <<m_root, m_size, node, allocated, current, climbing, visited>>
tree == <<m_root, m_size, node, allocated>>
walk == <<current, climbing, visited>>

Link == Address \cup {Null}

----------------------------------------------------------------------------
(* search_impl() and min_impl().                                           *)

\* A node, or the end of the tree, and the node from which it hangs.
Place == [node : Link, parent : Link]

LeftOf(a) == [node |-> node[a].left, parent |-> a]
RightOf(a) == [node |-> node[a].right, parent |-> a]

\* Where a value is, or would hang.
Found(v) ==
    LET From[at \in Place] ==
            IF at.node = Null THEN at
            ELSE IF Less(v, node[at.node].value) THEN From[LeftOf(at.node)]
            ELSE IF Less(node[at.node].value, v) THEN From[RightOf(at.node)]
            ELSE at
    IN  From[[node |-> m_root, parent |-> Null]]

\* The leftmost node below one, and its parent; parent is what the caller passed if the walk
\* does not leave the subtree's root.
Min(subtree, above) ==
    LET From[at \in Place] ==
            IF at.node = Null \/ node[at.node].left = Null THEN at ELSE From[LeftOf(at.node)]
    IN  From[[node |-> subtree, parent |-> above]]

----------------------------------------------------------------------------
(* insert().                                                               *)

\* A new node, hanging from its parent on the side where its value belongs.
Linked(memory, a, v, parent) ==
    LET new == [memory EXCEPT ![a] = [value |-> v, left |-> Null, right |-> Null, parent |-> parent]]
    IN  IF parent = Null THEN new
        ELSE [new EXCEPT ![parent][IF Less(v, new[parent].value) THEN "left" ELSE "right"] = a]

\* The heap is first fit.
FirstFree == CHOOSE a \in Address \ allocated : \A b \in Address \ allocated : a <= b

\* Nobody else runs while operator++ does.
Insert(v) ==
    LET at == Found(v)
    IN  /\ ~ climbing
        /\ IF at.node # Null
           THEN /\ node' = [node EXCEPT ![at.node].value = v]
                /\ UNCHANGED <<m_root, m_size, allocated>>
           ELSE /\ allocated # Address
                /\ node' = Linked(node, FirstFree, v, at.parent)
                /\ allocated' = allocated \cup {FirstFree}
                /\ m_root' = IF at.parent = Null THEN FirstFree ELSE m_root
                /\ m_size' = m_size + 1
        /\ visited' = IF current # Null /\ at.node = current THEN v ELSE visited
        /\ UNCHANGED <<current, climbing>>

----------------------------------------------------------------------------
(* remove() and clear().                                                   *)

ReplacedChild(memory, parent, old, new) ==
    LET side    == IF memory[parent].left = old THEN "left" ELSE "right"
        without == [memory EXCEPT ![old].parent = Null, ![parent][side] = new]
    IN  IF new = Null THEN without ELSE [without EXCEPT ![new].parent = parent]

\* Mutant: a child on the left is lost.
UnlinkRight(memory, a, parent) ==
    LET child   == memory[a].right
        without == IF parent = Null THEN memory ELSE ReplacedChild(memory, parent, a, child)
    IN  /\ node' = [without EXCEPT ![a] = [@ EXCEPT !.left = Null, !.right = Null, !.parent = Null]]
        /\ m_root' = IF parent = Null THEN child ELSE m_root
        /\ allocated' = allocated \ {a}
        /\ m_size' = m_size - 1

\* remove_impl(), for a node with at most one child.  A child that becomes the root keeps its
\* m_parent.
Unlink(memory, a, parent) ==
    LET child   == IF memory[a].left = Null THEN memory[a].right ELSE memory[a].left
        without == IF parent = Null THEN memory ELSE ReplacedChild(memory, parent, a, child)
    IN  /\ node' = [without EXCEPT ![a] = [@ EXCEPT !.left = Null, !.right = Null, !.parent = Null]]
        /\ m_root' = IF parent = Null THEN child ELSE m_root
        /\ allocated' = allocated \ {a}
        /\ m_size' = m_size - 1

\* Mutant: the parent of the minimum is not remembered.
MinParentLost(a) == Min(node[a].right, Null)

\* The node whose value takes the place of that of a node with two children.
MinInRight(a) == Min(node[a].right, a)

\* An iterator is not used after a removal.
Remove(v) ==
    LET at  == Found(v)
        a   == at.node
        min == MinInRight(a)
    IN  /\ current = Null
        /\ IF a = Null THEN UNCHANGED tree
           ELSE IF node[a].left = Null \/ node[a].right = Null THEN Unlink(node, a, at.parent)
           ELSE Unlink([node EXCEPT ![a].value = node[min.node].value], min.node, min.parent)
        /\ UNCHANGED walk

\* ~Node() deletes both subtrees.
Clear ==
    /\ current = Null
    /\ m_root' = Null
    /\ m_size' = 0
    /\ allocated' = {}
    /\ UNCHANGED <<node, current, climbing, visited>>

----------------------------------------------------------------------------
(* inorder() and the iterator.                                             *)

GoTo(a) ==
    /\ current' = a
    /\ climbing' = FALSE
    /\ visited' = IF a = Null THEN Null ELSE node[a].value
    /\ UNCHANGED tree

Begin == current = Null /\ GoTo(Min(m_root, Null).node)

\* Mutant: only the child on the right is left behind.
DescendSkips == current # Null /\ ~ climbing /\ node[current].right # Null
                /\ GoTo(node[current].right)

\* operator++ of a node with a right child.
Descend ==
    /\ current # Null
    /\ ~ climbing
    /\ node[current].right # Null
    /\ GoTo(Min(node[current].right, Null).node)

\* The node is not the left child of its parent: one more round of the loop.
ClimbOn(parent) ==
    /\ current' = parent
    /\ climbing' = TRUE
    /\ UNCHANGED <<visited, tree>>

\* operator++ of a node without a right child.
Climb ==
    LET parent == node[current].parent
    IN  /\ current # Null
        /\ climbing \/ node[current].right = Null
        /\ IF parent # Null /\ node[parent].left # current THEN ClimbOn(parent) ELSE GoTo(parent)

Walk == Begin \/ Descend \/ Climb

----------------------------------------------------------------------------
Init ==
    /\ m_root = Null
    /\ m_size = 0
    /\ node = [a \in Address |-> [value |-> CHOOSE v \in Value : TRUE, left |-> Null, right |-> Null, parent |-> Null]]
    /\ allocated = {}
    /\ current = Null
    /\ climbing = FALSE
    /\ visited = Null

Inserting == \E v \in Value : Insert(v)
Removing == Clear \/ \E v \in Value : Remove(v)

Spec == Init /\ [][Inserting \/ Removing \/ Walk]_vars

----------------------------------------------------------------------------
(* Properties.                                                             *)

\* Each node, and the ones below it.
Below[a \in Link] == IF a = Null THEN {} ELSE {a} \cup Below[node[a].left] \cup Below[node[a].right]

\* The nodes that are reached from the root.
Reached == Below[m_root]

\* The links are addresses.
TypeOK ==
    /\ node \in [Address -> [value : Value, left : Link, right : Link, parent : Link]]
    /\ m_root \in Link /\ current \in Link /\ climbing \in BOOLEAN
    /\ visited \in Value \cup {Null}
    /\ m_size \in Nat

\* What is reached from the root is exactly what is allocated: remove() (SortedSet.hpp:319-347)
\* and insert() neither leak a node nor leave a link to a deleted one, and size() counts them.
NothingLeaks == Reached = allocated /\ m_size = Cardinality(Reached)

\* A node other than the root points back to the node from which it hangs; the iterator climbs
\* along these links (SortedSet.hpp:133).  The root is left out: remove() does not reset its link.
ParentLinks ==
    \A a \in Reached : \A side \in {"left", "right"} :
        node[a][side] # Null => node[node[a][side]].parent = a

\* The tree is a set, and the iterator visits its members in order, each once, whatever is
\* inserted meanwhile.
Ordered == INSTANCE OrderedSet
    WITH content <- {node[a].value : a \in Reached}, cursor <- visited, Nothing <- Null
ImplementsOrderedSet == Ordered!Spec

----------------------------------------------------------------------------
(* The invariant.                                                          *)

\* Different values may be equal, but then they compare to others alike.
StrictOrder(values) ==
    \A u, v, w \in values :
        /\ ~ Less(u, u)
        /\ Less(u, v) /\ Less(v, w) => Less(u, w)
        /\ Less(u, w) => Less(u, v) \/ Less(v, w)

\* Whoever follows links downwards arrives at a leaf, in memory that is not in use too.
Acyclic ==
    \A S \in SUBSET Address :
        S # {} => \E a \in S : node[a].left \notin S /\ node[a].right \notin S

\* Each node hangs from its parent on one side.
OneSide == \A a \in allocated : node[a].left # Null => node[a].left # node[a].right

SearchOrder ==
    \A a \in allocated :
        /\ \A b \in Below[node[a].left] : Less(node[b].value, node[a].value)
        /\ \A b \in Below[node[a].right] : Less(node[a].value, node[b].value)

\* The loop of operator++ leaves behind what is not greater than the last member.
WalkInv ==
    IF current = Null THEN visited = Null /\ ~ climbing
    ELSE /\ current \in allocated
         /\ IF climbing
            THEN /\ \E b \in Below[current] : visited = node[b].value
                 /\ \A b \in Below[current] : ~ Less(visited, node[b].value)
            ELSE visited = node[current].value

\* Not so after a removal.
RootIsOnTop == m_root # Null => node[m_root].parent = Null

Inv ==
    /\ TypeOK /\ allocated \subseteq Address /\ IsFiniteSet(allocated)
    /\ Acyclic /\ NothingLeaks /\ ParentLinks /\ OneSide /\ SearchOrder /\ WalkInv
=============================================================================
