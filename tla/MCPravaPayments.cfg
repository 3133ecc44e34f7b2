SPECIFICATION FairSpec
CONSTANTS
    Tasks = {t1, t2}
    Sessions = {s1, s2}
    NoSession = NoSession
    Terms = {x}
    NoTerms = NoTerms
    MaxCancels = 1
    MaxRefunds = 2
INVARIANTS ReceiptsAreTrue SettledOnce
PROPERTIES PendingEnds
CHECK_DEADLOCK FALSE
