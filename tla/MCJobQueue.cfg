CONSTANTS
    Ticks = {t1, t2}
    Assets = {a1}
    MaxAttempts = 2
    MaxSweeps = 2
    MaxBoots = 2
    MaxFaults = 1
SPECIFICATION Spec
INVARIANTS
    ExclusiveLease
    ChainAlive
    RecordedKept
SYMMETRY Symmetry
CHECK_DEADLOCK FALSE
