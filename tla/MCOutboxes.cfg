SPECIFICATION FairSpec
CONSTANTS
    Notices = {n1}
    Dispatchers = {d1, d2}
    Leads = {l1}
    Mailers = {m1, m2}
    Nobody = Nobody
    Nothing = Nothing
    Limit = 1
    MaxAttempts = 3
INVARIANTS OneVisibleMessage RequestsArePaid
PROPERTY EveryLeadIsServed
CHECK_DEADLOCK FALSE
