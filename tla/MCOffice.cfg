CONSTANTS
    Procs = {p1, p2}
    Replies = {s1, s2}
    MaxFaults = 1
    Amounts = {8000, 40002}
    Incomes = {80004}
    Charges = {45000}
    Debts = {15000}
    RequestIds = {s1, s2}
    LegacyUpgrade = FALSE
    MaxRows = 3
    MaxUpgrades = 1
    MaxDay = 2
    Script <- Files
    Imports <- Dumps
    Features = {"profile", "support"}
    Needs <- FeatureNeeds
    Cached = {"support"}
    MaxMembers = 3
    Sids = {s1, s2}
    Names = {s1, s2}
    Passwords = {w1, w2}
    MaxId = 3
    People <- Applicants
    Tokens = {s1, s2}
    Slugs = {g1}
    MaxSlots = 3
    Chosen = {1, 2}
SPECIFICATION Spec
INVARIANTS
    ThreadTells
    ReportsAgree
    CdSettled
    ClaimsHold
    SessionsSound
    AccountsSound
    InviteClosed
    
SYMMETRY Symmetry
CHECK_DEADLOCK FALSE
