CONSTANTS
    Period = 2
    Limits <- MCLimits
    Amounts <- MCAmounts
    MaxTime = 6
    MaxSpent = 6
    MaxLedger = 4
SPECIFICATION Spec
INVARIANTS TypeOK CounterIsHonest WindowBound
CHECK_DEADLOCK FALSE
