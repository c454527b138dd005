CONSTANTS
    e1 = e1
    a2 = a2
    n1 = n1
    L = L
    NoFile = NoFile
    Controllers = {n1, L}
    LargeControllers = {L}
    Jobs = {e1, a2}
    KindOf <- MCKindOf
    EndOf <- MCEndOf
    Codes = {0, 137}
    DeferCodes = {137}
    RetryCodes = {137}
    MaxIncidents = 2
    Patterns = {TRUE}
SPECIFICATION Spec
INVARIANTS TypeOK LocksAreExclusive ResponsesAreWhole SuccessHasResponse EachIncidentStrandsOne
CHECK_DEADLOCK FALSE
