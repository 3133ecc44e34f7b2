SPECIFICATION FairSpec
CONSTANTS
    Callers = {c1, c2}
    Amounts = {9, 10}
    Sessions = {s1, s2}
    NoSession = NoSession
    MaxCrashes = 1
INVARIANT PaidOnce
PROPERTIES KeepsThePromise OwedIsClaimed
