------------------------------ MODULE HashMap ------------------------------
(***************************************************************************)
(* Std/HashMap.hpp on Std/HashTable.hpp on SortedSet: the nodes of the tree*)
(* carry the hash of the key, the key and the value, and are ordered by    *)
(* the hash and, where hashes collide, by the key.  A key is looked up with*)
(* a node that has no value.                                               *)
(***************************************************************************)
EXTENDS Integers, FiniteSets

CONSTANTS
    Key,            \* numbers, for operator<
    Data,           \* what is stored
    HashOf,         \* Hash<Key>::compute()
    Address, Null,
    Nothing         \* no value, in a node that is only used to look up a key

KeyAssumption == Key \subseteq Int /\ Key # {} /\ Data # {}
HashAssumption == HashOf \in [Key -> Nat]
NothingAssumption == Nothing \notin Data

VARIABLES
    m_root, m_size, node, allocated,
    current, climbing, visited,
    found           \* what get() or get_opt() returned last

tree == <<m_root, m_size, node, allocated, current, climbing, visited>>
vars == <<tree, found>>

\* HashMap::Node
Entry(key, data) == [key |-> key, data |-> data]

\* What a HashTable stores, and looks up, of a node of a HashMap.
Hashed(entry) == [hash |-> HashOf[entry.key], key |-> entry.key, data |-> entry.data]

NodeOf(key, data) == Hashed(Entry(key, data))

\* Mutant: keys are not compared.
BeforeByHash(n1, n2) == n1.hash < n2.hash

\* HashTable::Node::operator<, which asks HashMap::Node::operator<.
Before(n1, n2) == n1.hash < n2.hash \/ (n1.hash = n2.hash /\ n1.key < n2.key)

\* What is stored in the tree.
Entries == {NodeOf(key, data) : key \in Key, data \in Data}

Tree == INSTANCE SortedSet WITH Value <- Entries, Less <- Before

----------------------------------------------------------------------------
Set(key, data) == Tree!Insert(NodeOf(key, data)) /\ UNCHANGED found

Remove(key) == Tree!Remove(NodeOf(key, Nothing)) /\ UNCHANGED found

Get(key) ==
    LET a == Tree!Found(NodeOf(key, Nothing)).node
    IN  /\ found' = IF a = Null THEN Nothing ELSE node[a].value.data
        /\ UNCHANGED tree

Init == Tree!Init /\ found = Nothing

Next == \E key \in Key : Remove(key) \/ Get(key) \/ \E data \in Data : Set(key, data)

Spec == Init /\ [][Next]_vars

----------------------------------------------------------------------------
(* Properties.                                                             *)

Content == {node[a].value : a \in Tree!Reached}

\* set(), get() and remove() are those of a function, also for keys with the same hash: such a
\* key is another node (HashTable.hpp:113-132), and a value that is set again replaces the old.
Map == INSTANCE Dictionary
    WITH content <- [key \in {n.key : n \in Content} |-> (CHOOSE n \in Content : n.key = key).data],
         answer <- found
ImplementsDictionary == Map!Spec

=============================================================================
