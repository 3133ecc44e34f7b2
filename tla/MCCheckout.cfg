CONSTANTS
    Callers = {c1, c2}
    Amounts = {9, 10}
    Sessions = {s1, s2}
    NoSession = NoSession
    MaxCrashes = 2
SYMMETRY Symmetry
SPECIFICATION Spec
INVARIANTS
    AtMostOnce
PROPERTIES
    KeepsThePromise
