------------------------------- MODULE Lists -------------------------------
(***************************************************************************)
(* What the users of Vector rely on: every vector is a sequence of its own *)
(* that other vectors do not share.                                        *)
(***************************************************************************)
EXTENDS Naturals, Sequences

CONSTANTS Vec, Value

VARIABLE list   \* the sequence in each vector

Init == list = [v \in Vec |-> <<>>]

Append1(v, x) == list' = [list EXCEPT ![v] = Append(@, x)]
Extend(v, w) == list' = [list EXCEPT ![v] = @ \o list[w]]
Copy(v, w) == list' = [list EXCEPT ![v] = list[w]]
Move(v, w) == list' = [list EXCEPT ![v] = list[w], ![w] = <<>>]
Clear(v) == list' = [list EXCEPT ![v] = <<>>]

Next ==
    \E v \in Vec :
        \/ \E x \in Value : Append1(v, x)
        \/ \E w \in Vec \ {v} : Extend(v, w) \/ Copy(v, w) \/ Move(v, w)
        \/ Clear(v)

Spec == Init /\ [][Next]_list
=============================================================================
