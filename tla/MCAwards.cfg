CONSTANTS
    Procs = {p1, p2}
    Members = {1, 2, 3, 4, 5}
    NoOne = NoOne
    Sponsor <- MCSponsor
    Leg <- MCLeg
    Required <- MCRequired
    Buyers = {4, 5}
    Amounts = {2}
    MaxEvents = 2
    Refreshed = {1, 2, 3}
    Fulfilled = {2}
    MaxRefreshes = 2
    Suspects = {2}
    MaxExclusions = 1
    Earners = {m1, m2}
    Accounts <- MCAccounts
    FirstAccount <- MCFirstAccount
    FirstRank <- MCFirstRank
    RankLevels = {9, 10}
    Sales = {350}
    ManualPortions = {2}
    MaxChanges = 1
    MaxEdits = 2
    MaxPayouts = 2
SPECIFICATION AwardsSpec
INVARIANTS
    PaidInFull
    SequenceOrdered
    ShadowReconciles
    PoolSpent
PROPERTY BlockedUnpaid
SYMMETRY Symmetry
CHECK_DEADLOCK FALSE
