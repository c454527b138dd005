CONSTANTS
    Period = 9
    Limits = {9}
    TreeSize = 1
    Operators = {o1, fb}
    FallbackOperator = fb
    SixMonths = 9
    ProofTypes = {p}
    PauseTypes = {}
    Deposits <- MCDeposits
    Submissions <- MCSubmissions
    LegacyMessages = {}
    MaxL1Messages = 2
    MaxSubmissions = 2
    L2Period = 9
    L2Limits = {9}
    Sends <- MCSends
    InitialMinimumFee = 1
    MinimumFees = {}
    L2PauseTypes = {}
    MaxAnchored = 2
    MaxSent = 1
    MaxL2Blocks = 2
    MaxAnchoring = 2
    MaxTime = 3
SPECIFICATION TrafficSpec
INVARIANTS TypeOK InboxIsRollingHash FinalizedClaimsWereSent EscrowCoversFinalized
PROPERTIES InboxMovesForward
CHECK_DEADLOCK FALSE
