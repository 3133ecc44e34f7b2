SPECIFICATION FairScanSpec
CONSTANTS
    Items = {milk, tea}
    Runs = {r1, r2}
    Scanners = {route, worker}
    Workers = {worker}
    Renewals = {}
    PriceMet = {tea}
    ColdItems = {tea}
    Cadence = 40
    TriggerWindow = 2
    MaxDay = 2
    Mortal = {worker}
    NoOwner = NoOwner
    Gone = Gone
    NoItem = NoItem
    NoRun = NoRun
    NoRow = NoRow
INVARIANT LearnsInOrder
PROPERTIES
    OpenedWhenDue
    EffectsAreReplayed
    EveryDueItemIsAsked
