CONSTANTS
    Period = 1
    Limits <- MCLimits
    TreeSize = 1
    Operators = {o1, fb}
    FallbackOperator = fb
    SixMonths = 2
    ProofTypes = {p}
    PauseTypes <- MCPauseTypes
    Deposits <- MCDeposits
    Withdrawals <- MCWithdrawals
    Submissions <- FewSubmissions
    LegacyMessages <- MCLegacy
    MaxL1Messages = 1
    MaxSubmissions = 1
    MaxL2Blocks = 1
    MaxTime = 3
SPECIFICATION Spec
PROPERTY PauseFreezes
CHECK_DEADLOCK FALSE
