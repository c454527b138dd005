CONSTANTS
    Period = 1
    Limits <- MCLimits
    TreeSize = 1
    Operators = {o1, fb}
    FallbackOperator = fb
    SixMonths = 2
    ProofTypes = {p}
    PauseTypes = {}
    Deposits <- MCDeposits
    Withdrawals <- MCWithdrawals
    Submissions <- MCSubmissions
    LegacyMessages <- NoLegacy
    MaxL1Messages = 2
    MaxSubmissions = 2
    MaxL2Blocks = 2
    MaxTime = 4
SPECIFICATION TrafficSpec
INVARIANTS TypeOK FinalizedIsL2Prefix FinalizedAnchoringIsL1Prefix ClaimableIsFinalized
PROPERTIES FinalizationMovesForward FallbackOnlyIfFinalizedIsOld
CHECK_DEADLOCK FALSE
