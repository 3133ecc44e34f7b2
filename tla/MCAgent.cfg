SPECIFICATION Spec
CONSTANTS
    Sessions = {s1, s2}
    NoSession = NoSession
    References = {c1, c2}
    NoReference = NoReference
    Threads = {t1, t2}
    i1 = i1
    Items = {i1}
    NoItem = NoItem
    Price <- MCPrice
    MonthlyCap = 1
    MaxFaults = 1
SYMMETRY Symmetry
INVARIANTS LeasedOnce OneApprovedOrder CapHoldsUnlessCrowded
PROPERTIES OutcomeIsFinal
CHECK_DEADLOCK FALSE
