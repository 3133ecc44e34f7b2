SPECIFICATION Spec
CONSTANTS
    Runs = {a, b}
    NoRun = NoRun
    Requests = {q1, q2}
    NoOwner = NoOwner
    Prices = {9, 10}
    MaxFaults = 1
SYMMETRY Symmetry
INVARIANTS OneCartAtATime OwnBasket PaidWithinApproval
PROPERTIES PendingKeepsCart
CHECK_DEADLOCK FALSE
