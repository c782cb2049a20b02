CONSTANTS
    Members = {1, 2, 3, 4}
    Root = 1
    Nobody = Nobody
    Types = {1, 2}
    Package <- MCPackage
    Codes <- MCCodes
    Sponsors <- MCSponsors
    Chooser = {3}
    Points <- MCPoints
    WeekCap <- MCWeekCap
    MonthCap <- MCMonthCap
    Reach <- MCReach
    FirstWeekday = 1
    LastDay = 1
    Upgraders = {2}
    UpgradeCodes = {"CD"}
    Losers = {3}
    Earners = {1, 2}
    Forgiven = {1}
    Owners = {1}
    Buyers = {3, 4}
    Volume = 200
SPECIFICATION Spec
INVARIANTS
    PairsAgree
    PaidBacked
    UnilevelAgrees
    LockedUncredited
CHECK_DEADLOCK FALSE
