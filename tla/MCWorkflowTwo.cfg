CONSTANTS
    Callers = {c1, c2}
    Amounts = {10}
    Sessions = {s1, s2}
    NoSession = NoSession
    MaxCrashes = 1
SYMMETRY Symmetry
SPECIFICATION Spec
INVARIANTS
    SubmittedWasApproved
    BookedIsPaid
    PaidRunStaysOpen
    NotApprovedIsNotPaid
CHECK_DEADLOCK FALSE
