CONSTANTS
    Callers = {c1}
    Amounts = {9, 10}
    Sessions = {s1, s2}
    NoSession = NoSession
    MaxCrashes = 2
SPECIFICATION FairSpec
PROPERTIES
    KnownOrderIsReconciled
    ExposedIsDecided
    OwedIsClaimed
    ApprovalIsSpent
CHECK_DEADLOCK FALSE
