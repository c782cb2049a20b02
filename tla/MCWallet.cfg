CONSTANTS
    Procs = {p1, p2}
    NoProc = NoProc
    Claims = {k1}
    Payout <- MCPayout
    LegacyHiFive = 1
    Amounts = {1}
    MaxEntitled <- MCEntitled
    MaxMonth = 2
    StatusReadMayFail = FALSE
SPECIFICATION WalletSpec
INVARIANTS
    BalanceReconciles
    NoDoubleCredit
    UnilevelOncePerMonth
SYMMETRY Symmetry
