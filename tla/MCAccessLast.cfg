CONSTANTS
    Procs = {p1, p2}
    Sids = {s1, s2}
    Names = {n1, n2}
    Passwords = {w1}
    MaxId = 2
SPECIFICATION Spec
INVARIANT FullAccessKept
CHECK_DEADLOCK FALSE
