CONSTANTS
    Procs = {p1, p2}
    Vids = {v1, v2}
    Avails = {a1}
    Tiers = {1, 2}
    Face <- MCFace
    Amounts = {1}
    StartWallet = 1
    MaxCredits = 1
    MaxDates = 1
SPECIFICATION Spec
INVARIANTS
    BalancesReconcile
    OneVoucherPerTier
    NoWaitCycle
PROPERTY ImplementsBook
SYMMETRY Symmetry
