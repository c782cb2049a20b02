CONSTANTS
    Procs = {p1, p2}
    Members = {m1, m2}
    NoOne = NoOne
    Ids = {1, 2, 3, 4, 5}
    Tiers = {10, 20}
    Keys = {k1, k2}
    Batch <- MCBatch
    SetSize = 2
    MaxRequests = 3
    MaxMonths = 1
SPECIFICATION Spec
INVARIANTS
    CodesOnce
    UsedOnceByHolder
    SetsKept
    RedeemedEarned
SYMMETRY Symmetry
CHECK_DEADLOCK FALSE
