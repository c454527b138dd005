CONSTANTS
    Period = 9
    Limits = {9}
    TreeSize = 1
    Operators = {o1, fb}
    FallbackOperator = fb
    SixMonths = 9
    ProofTypes = {p}
    PauseTypes = {}
    Deposits <- MCDeposits
    Submissions <- MCSubmissions
    LegacyMessages <- MCLegacy
    MaxL1Messages = 1
    MaxSubmissions = 1
    L2Period = 9
    L2Limits = {9}
    Sends <- MCSends
    InitialMinimumFee = 1
    MinimumFees = {0, 1}
    L2PauseTypes <- MCPauseTypes
    MaxAnchored = 1
    MaxSent = 1
    MaxL2Blocks = 1
    MaxAnchoring = 2
    MaxTime = 3
SPECIFICATION Spec
INVARIANT EscrowCoversFinalized
PROPERTY L2PauseFreezes
CHECK_DEADLOCK FALSE
