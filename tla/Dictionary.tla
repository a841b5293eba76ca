----------------------------- MODULE Dictionary -----------------------------
(***************************************************************************)
(* What a HashMap promises: a function from keys to values.                *)
(***************************************************************************)
CONSTANTS
    Key, Data,
    Nothing         \* what get() returns for a key that is not there

VARIABLES
    content,        \* a function on the keys that are there
    answer          \* what the last call of get() returned

vars == <<content, answer>>

Set(key, data) ==
    /\ content' = [k \in DOMAIN content \cup {key} |-> IF k = key THEN data ELSE content[k]]
    /\ UNCHANGED answer

Remove(key) ==
    /\ content' = [k \in DOMAIN content \ {key} |-> content[k]]
    /\ UNCHANGED answer

Get(key) ==
    /\ answer' = IF key \in DOMAIN content THEN content[key] ELSE Nothing
    /\ UNCHANGED content

Init ==
    /\ content \in [{} -> Data]
    /\ answer = Nothing

Next == \E key \in Key : Remove(key) \/ Get(key) \/ \E data \in Data : Set(key, data)

Spec == Init /\ [][Next]_vars
=============================================================================
