\* Edits of single rows of a stream that nobody appends to in the meantime.
CONSTANTS
    p1 = p1
    p2 = p2
    p3 = p3
    a1 = a1
    a2 = a2
    Columns = {p1, p2, p3}
    Joined <- Texts
    Anchorings = {a1, a2}
    MaxVersion = 3
    MaxDamage = 1
    NoHash = NoHash
SPECIFICATION Spec
INVARIANT AnySingleEditIsFound
\* the stream may be full and every anchoring over
CHECK_DEADLOCK FALSE
