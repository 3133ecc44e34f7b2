SPECIFICATION ConnectionSpec
CONSTANTS
    Requests = {r1, r2, r3}
    Flows = {f1, f2}
    NoFlow = NoFlow
    MaxGeneration = 3
    MaxDeaths = 1
SYMMETRY Symmetry
INVARIANTS TokensAtRest TokenOfLastConsent StoredTokenIsLive
CHECK_DEADLOCK FALSE
