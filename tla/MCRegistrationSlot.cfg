CONSTANTS
    Procs = {p1, p2}
    Uids = {root, u1, u2}
    Root = root
    Sides = {left, right}
    Names = {n1, n2}
    NoName = NoName
    c1 = c1
    c2 = c2
    c3 = c3
    Codes = {c1, c2, c3}
    StringOf <- MCStringOf
    Legacy = {c3}
    MaxCrashes = 0
SPECIFICATION Spec
INVARIANTS
    SlotUnique
SYMMETRY Symmetry
CHECK_DEADLOCK FALSE
