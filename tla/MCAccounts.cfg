CONSTANTS
    Users = {u1, u2}
    NoUser = NoUser
    Provisioned = {u2}
    Subjects = {g1}
    Invitations = {i1}
    Threads = {t1, t2}
    Positive = {"approve"}
    Required = 2
SYMMETRY Symmetry
SPECIFICATION Spec
INVARIANTS OneAccountPerSubject MembersWereInvited ConsentOfMembers ThresholdIsHeard
PROPERTIES ObservedWithConsent
CHECK_DEADLOCK FALSE
