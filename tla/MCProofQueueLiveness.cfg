CONSTANTS
    e1 = e1
    a2 = a2
    n1 = n1
    L = L
    NoFile = NoFile
    Controllers = {n1, L}
    LargeControllers = {L}
    Jobs = {e1}
    KindOf <- MCKindOf
    EndOf <- MCEndOf
    Codes = {0, 77, 137}
    DeferCodes = {137}
    RetryCodes = {77}
    MaxIncidents = 2
    Patterns = {TRUE, FALSE}
SPECIFICATION FairSpec
INVARIANTS LocksAreExclusive
PROPERTIES RequestsAreDecided ExecutionProofsArrive ExecutionsAreServed
CHECK_DEADLOCK FALSE
