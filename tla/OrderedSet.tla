----------------------------- MODULE OrderedSet -----------------------------
(***************************************************************************)
(* What SortedSet promises: a set, and a cursor that visits its members in *)
(* ascending order while others are inserted.                              *)
(***************************************************************************)
CONSTANTS
    Value,          \* what may be a member
    Less(_, _),     \* a strict order of the values, in which different values may be equal
    Nothing         \* the place of a cursor that is not on a member

VARIABLES content, cursor

vars == <<content, cursor>>

Equal(v, w) == ~ Less(v, w) /\ ~ Less(w, v)

\* A member that is equal to the new one gives way.
Insert(v) ==
    /\ content' = {w \in content : ~ Equal(v, w)} \cup {v}
    /\ cursor' = IF cursor # Nothing /\ Equal(v, cursor) THEN v ELSE cursor

Remove(v) ==
    /\ cursor = Nothing
    /\ content' = {w \in content : ~ Equal(v, w)}
    /\ UNCHANGED cursor

Clear == cursor = Nothing /\ content' = {} /\ UNCHANGED cursor

\* The cursor goes to the least of some members, and to Nothing if there are none.
MovesTo(members) ==
    /\ IF members = {} THEN cursor' = Nothing
       ELSE cursor' \in {v \in members : \A w \in members : ~ Less(w, v)}
    /\ UNCHANGED content

Begin == cursor = Nothing /\ MovesTo(content)
Advance == cursor # Nothing /\ MovesTo({v \in content : Less(cursor, v)})

Init == content = {} /\ cursor = Nothing

Next ==
    \/ \E v \in Value : Insert(v) \/ Remove(v)
    \/ Clear \/ Begin \/ Advance

Spec == Init /\ [][Next]_vars
=============================================================================
