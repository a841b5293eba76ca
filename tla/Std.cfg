CONSTANTS
    Queue = {q1, q2}
    Value = {v1, v2}
    Size = 3
    Object = {o1, o2, o3}
    NoObject = NoObject
    Variable = {x, m, n, tmp}
    Optionals = {m, n}
    Temporary = tmp
    Vec = {v, w}
    Element = {1, 2}
    Raw = Raw
    NoBlock = NoBlock
    Outside = Outside
    Block = {b1, b2, b3}
    InlineSize = 1
    MaxSize = 4
    Letter = {"x", "y"}
    Slash = "/"
    MaxText = 5
SPECIFICATION StdSpec
SYMMETRY Symmetric
INVARIANTS EverythingIsOwned
PROPERTIES
    ImplementsDeque
    ImplementsHandles
    ImplementsLists
    PathsSayTheSame
CHECK_DEADLOCK FALSE
