SPECIFICATION BudgetSpec
CONSTANTS
    Callers = {c1, c2}
    Runs = {r1, r2}
    NoRun = NoRun
    Nobody = Nobody
    Dead = Dead
    Amounts = {1, 2}
    Cap = 3
    MaxExpiries = 1
    MaxCrashes = 1
SYMMETRY Symmetry
INVARIANT CapHoldsUnlessSlipped
CHECK_DEADLOCK FALSE
