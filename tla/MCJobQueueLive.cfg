CONSTANTS
    Ticks = {t1}
    Assets = {a1}
    MaxAttempts = 2
    MaxSweeps = 3
    MaxBoots = 1
    MaxFaults = 1
SPECIFICATION FairSpec
PROPERTIES
    LeaseEnds
    NoLeak
CHECK_DEADLOCK FALSE
