CONSTANTS
    e1 = e1
    a2 = a2
    n1 = n1
    L = L
    NoFile = NoFile
    Controllers = {n1, L}
    LargeControllers = {L}
    Jobs = {e1}
    KindOf <- MCKindOf
    EndOf <- MCEndOf
    Codes = {0, 77, 137}
    DeferCodes = {137}
    RetryCodes = {77}
    MaxIncidents = 1
    Patterns = {TRUE, FALSE}
SPECIFICATION Spec
PROPERTY CleanupPrecedesRequests
CHECK_DEADLOCK FALSE
