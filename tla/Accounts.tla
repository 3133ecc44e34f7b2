------------------------------ MODULE Accounts ------------------------------
(***************************************************************************)
(* storage/repository.py and ui/api.py: the accounts that Google subjects  *)
(* sign in to, one shared tenant with its members and invitations, the     *)
(* consents and forecast observations of its members, the decisions of its *)
(* approvers on one run, and privacy deletion.                             *)
(*                                                                         *)
(* An operation checks the caller's membership in one transaction and      *)
(* writes in another; transactions read what is committed, and constraints *)
(* decide between two inserts.  Requests run in threads.  A session token  *)
(* is not revoked by a deletion, so any account may call at any time.      *)
(***************************************************************************)
EXTENDS Naturals, FiniteSets

CONSTANTS
    Users,        \* user ids that may be drawn
    NoUser,
    Provisioned,  \* accounts scripts/provision_reviewer.py may make, with a password
    Subjects,     \* Google subjects
    Invitations,  \* invitation tokens that may be drawn
    Threads,
    Positive,     \* the decisions other than a skip
    Required      \* required_approvals, which each decision request brings

ASSUME UsersAssumption == IsFiniteSet(Users)
ASSUME NoUserAssumption == NoUser \notin Users
ASSUME ProvisionedAssumption == Provisioned \subseteq Users
ASSUME PositiveAssumption == Positive \subseteq {"approve", "renew_as_is", "switch_plan"}
ASSUME RequiredAssumption == Required \in Nat \ {0}

VARIABLES
    accounts,    \* users
    identity,    \* auth_identities, by subject
    creator,     \* the tenant's created_by_user_id, once there is a tenant
    role,        \* memberships of the tenant
    invitation,  \* invitations
    consent,     \* consents to forecasting
    observed,    \* users with forecast observations
    decision,    \* approval decisions on the run
    thread,      \* where each request is
    sessions,    \* history: the accounts each subject was signed in to
    admitted,    \* history: the users each invitation made members
    heard,       \* history: positive outcomes approvers were told
    contested,   \* history: invitations two acceptances held at once
    overtaken,   \* history: users whose checks a deletion or withdrawal overtook
    overlapped   \* history: two decisions were counted at once
tenantVars == <<creator, role, invitation>>
dataVars == <<consent, observed, decision>>
historyVars == <<sessions, admitted, heard, contested, overtaken, overlapped>>
vars == <<accounts, identity, tenantVars, dataVars, thread, historyVars>>

InvitedRoles == {"admin", "approver", "member"}
Roles == InvitedRoles \cup {"owner"}
Decisions == Positive \cup {"skip"}
Choices == {"granted", "withdrawn"}

Thread ==
    [pc : {"idle", "provision", "invite", "accept", "consent", "observe",
           "decide", "decided"},
     user : Users \cup {NoUser},
     arg : {"none"} \cup Subjects \cup Invitations \cup Roles \cup Decisions \cup Choices,
     outcome : {"none", "pending", "vetoed"} \cup Positive]
Idle == [pc |-> "idle", user |-> NoUser, arg |-> "none", outcome |-> "none"]

TypeOK ==
    /\ accounts \subseteq Users
    /\ identity \in [Subjects -> Users \cup {NoUser}]
    /\ creator \in Users \cup {NoUser}
    /\ role \in [Users -> Roles \cup {"none"}]
    /\ invitation \in [Invitations -> [role : Roles \cup {"none"},
                                       state : {"none", "open", "expired", "used"}]]
    /\ consent \in [Users -> Choices \cup {"none"}]
    /\ observed \subseteq Users
    /\ decision \in [Users -> Decisions \cup {"none"}]
    /\ thread \in [Threads -> Thread]
    /\ sessions \in [Subjects -> SUBSET Users]
    /\ admitted \in [Invitations -> SUBSET Users]
    /\ heard \subseteq Positive
    /\ contested \subseteq Invitations
    /\ overtaken \subseteq Users
    /\ overlapped \in BOOLEAN

Init ==
    /\ accounts \in SUBSET Provisioned
    /\ identity = [s \in Subjects |-> NoUser]
    /\ creator = NoUser
    /\ role = [u \in Users |-> "none"]
    /\ invitation = [i \in Invitations |-> [role |-> "none", state |-> "none"]]
    /\ consent = [u \in Users |-> "none"]
    /\ observed = {}
    /\ decision = [u \in Users |-> "none"]
    /\ thread = [t \in Threads |-> Idle]
    /\ sessions = [s \in Subjects |-> {}]
    /\ admitted = [i \in Invitations |-> {}]
    /\ heard = {}
    /\ contested = {}
    /\ overtaken = {}
    /\ overlapped = FALSE

Member(u, roles) == role[u] \in roles

\* A request of u passes its check and goes on at pc.
Enters(t, pc, u, arg) ==
    thread[t] = Idle
    /\ thread' = [thread EXCEPT ![t] = [Idle EXCEPT !.pc = pc, !.user = u, !.arg = arg]]
At(t, pc) == thread[t].pc = pc
Leaves(t) == thread' = [thread EXCEPT ![t] = Idle]

-----------------------------------------------------------------------------
(* Sign-in                                                                 *)

Issued(s, u) == sessions' = [sessions EXCEPT ![s] = @ \cup {u}]

\* A known subject gets its account, a deleted one too; an unknown one is to be
\* provisioned.
SignIn(t, s) ==
    /\ IF identity[s] = NoUser
       THEN Enters(t, "provision", NoUser, s) /\ UNCHANGED sessions
       ELSE Issued(s, identity[s]) /\ UNCHANGED thread
    /\ UNCHANGED <<accounts, identity, tenantVars, dataVars, admitted, heard, contested,
                   overtaken, overlapped>>

\* Mutant: what the loser of the race has made of itself is not rolled back.
ProvisionAnyway(t) ==
    LET s == thread[t].arg IN
    /\ At(t, "provision") /\ Leaves(t)
    /\ \E u \in Users :
         /\ u \notin accounts
         /\ accounts' = accounts \cup {u}
         /\ identity' = [identity EXCEPT ![s] = IF @ = NoUser THEN u ELSE @]
         /\ Issued(s, u)
    /\ UNCHANGED <<creator, role, invitation, dataVars, admitted, heard, contested,
                   overtaken, overlapped>>

\* User and identity in one transaction (and the user's personal tenant, which has
\* no other member); the loser of the unique constraint takes the winner's account.
Provision(t) ==
    LET s == thread[t].arg IN
    /\ At(t, "provision") /\ Leaves(t)
    /\ IF identity[s] = NoUser
       THEN \E u \in Users :
              /\ u \notin accounts
              /\ accounts' = accounts \cup {u}
              /\ identity' = [identity EXCEPT ![s] = u]
              /\ Issued(s, u)
       ELSE Issued(s, identity[s]) /\ UNCHANGED <<accounts, identity>>
    /\ UNCHANGED <<creator, role, invitation, dataVars, admitted, heard, contested,
                   overtaken, overlapped>>

\* link_auth_identity: a subject of nobody, for a user without another subject,
\* under the lock of the user; the unique constraints decide as its checks do.
Link(u, s) ==
    /\ u \in accounts
    /\ identity[s] = NoUser /\ \A r \in Subjects : identity[r] # u
    /\ identity' = [identity EXCEPT ![s] = u]
    /\ UNCHANGED <<accounts, tenantVars, dataVars, thread, historyVars>>

-----------------------------------------------------------------------------
(* Tenants and invitations                                                 *)

CreateTenant(u) ==
    /\ u \in accounts /\ creator = NoUser
    /\ creator' = u
    /\ role' = [role EXCEPT ![u] = "owner"]
    /\ UNCHANGED <<accounts, identity, invitation, dataVars, thread, historyVars>>

\* invite_member refuses any other role.
Invitable(r) == r \in InvitedRoles

InviteMember(t, u, r) ==
    /\ Member(u, {"owner", "admin"}) /\ Invitable(r)
    /\ Enters(t, "invite", u, r)
    /\ UNCHANGED <<accounts, identity, tenantVars, dataVars, historyVars>>

Invite(t) ==
    /\ At(t, "invite") /\ Leaves(t)
    /\ \E i \in Invitations :
         /\ invitation[i].state = "none"
         /\ invitation' = [invitation EXCEPT ![i] = [role |-> thread[t].arg,
                                                     state |-> "open"]]
    /\ UNCHANGED <<accounts, identity, creator, role, dataVars, historyVars>>

Expire(i) ==
    /\ invitation[i].state = "open"
    /\ invitation' = [invitation EXCEPT ![i].state = "expired"]
    /\ UNCHANGED <<accounts, identity, creator, role, dataVars, thread,
                   historyVars>>

\* Mutant: accepted_at is not looked at.
AcceptableAgain(i) == invitation[i].state \in {"open", "used"}

\* accept_invitation reads the invitation, whoever its mail was for ...
Acceptable(i) == invitation[i].state = "open"

AcceptInvitation(t, u, i) ==
    /\ u \in accounts /\ Acceptable(i)
    /\ Enters(t, "accept", u, i)
    /\ contested' = IF \E w \in Threads : At(w, "accept") /\ thread[w].arg = i
                    THEN contested \cup {i} ELSE contested
    /\ UNCHANGED <<accounts, identity, tenantVars, dataVars, sessions, admitted, heard,
                   overtaken, overlapped>>

\* ... and writes it and the membership, without looking again; a member's
\* second membership is a conflict that undoes both.
Accept(t) ==
    LET u == thread[t].user  i == thread[t].arg IN
    /\ At(t, "accept") /\ Leaves(t)
    /\ IF role[u] = "none"
       THEN /\ invitation' = [invitation EXCEPT ![i].state = "used"]
            /\ role' = [role EXCEPT ![u] = invitation[i].role]
            /\ admitted' = [admitted EXCEPT ![i] = @ \cup {u}]
       ELSE UNCHANGED <<invitation, role, admitted>>
    /\ UNCHANGED <<accounts, identity, creator, dataVars, sessions, heard,
                   contested, overtaken, overlapped>>

-----------------------------------------------------------------------------
(* Consents, observations, decisions                                       *)

SetConsent(t, u, choice) ==
    /\ Member(u, Roles)
    /\ Enters(t, "consent", u, choice)
    /\ UNCHANGED <<accounts, identity, tenantVars, dataVars, historyVars>>

\* Effects of u whose transaction has read a granted consent.
Observing(u) == \E t \in Threads : At(t, "observe") /\ thread[t].user = u

WriteConsent(t) ==
    LET u == thread[t].user IN
    /\ At(t, "consent") /\ Leaves(t)
    /\ consent' = [consent EXCEPT ![u] = thread[t].arg]
    /\ overtaken' = IF thread[t].arg = "withdrawn" /\ Observing(u)
                    THEN overtaken \cup {u} ELSE overtaken
    /\ UNCHANGED <<accounts, identity, tenantVars, observed, decision, sessions,
                   admitted, heard, contested, overlapped>>

\* Mutant: a consent row is enough.
HasConsentRow(u) == consent[u] # "none"

\* What apply_completion_effects looks for: a row that grants it.
HasConsent(u) == consent[u] = "granted"

\* The effects of a completed purchase of u are applied, by a request or a worker
\* that asks for no membership: the consent is read, and not locked, in the
\* transaction that ...
ApplyEffects(t, u) ==
    /\ HasConsent(u)
    /\ Enters(t, "observe", u, "none")
    /\ UNCHANGED <<accounts, identity, tenantVars, dataVars, historyVars>>

\* ... inserts the forecast observation and commits it, or is rolled back.
CommitEffects(t) ==
    /\ At(t, "observe") /\ Leaves(t)
    /\ observed' \in {observed, observed \cup {thread[t].user}}
    /\ UNCHANGED <<accounts, identity, tenantVars, consent, decision, historyVars>>

DeleteObservations(u) ==
    /\ Member(u, Roles) /\ u \in observed
    /\ observed' = observed \ {u}
    /\ UNCHANGED <<accounts, identity, tenantVars, consent, decision, thread, historyVars>>

\* record_approval_decision: an approver of the tenant ...
DecideRun(t, u, d) ==
    /\ Member(u, {"owner", "admin", "approver"})
    /\ Enters(t, "decide", u, d)
    /\ UNCHANGED <<accounts, identity, tenantVars, dataVars, historyVars>>

Decided == {u \in Users : decision[u] # "none"}
Outcome(seen, by) ==
    LET decided == {decision[u] : u \in seen} \cup by IN
    IF "skip" \in decided THEN "vetoed"
    ELSE IF Cardinality(seen) + Cardinality(by) >= Required /\ Cardinality(decided) = 1
         THEN CHOOSE d \in decided : TRUE ELSE "pending"

\* Mutant: the decision that is being made is not counted.
CountOthers(d) == Outcome(Decided, {})

\* A skip vetoes; enough decisions, all the same, are the outcome.
Count(d) == Outcome(Decided, {d})

\* ... inserts the one decision of that user, once no other insert of it is
\* open, and counts it with those that are committed ...
Decide(t) ==
    LET u == thread[t].user IN
    /\ At(t, "decide")
    /\ ~\E w \in Threads : At(w, "decided") /\ thread[w].user = u
    /\ IF decision[u] # "none"
       THEN Leaves(t) /\ UNCHANGED overlapped
       ELSE /\ thread' = [thread EXCEPT ![t].pc = "decided",
                                        ![t].outcome = Count(thread[t].arg)]
            /\ overlapped' = (overlapped \/ \E w \in Threads : At(w, "decided"))
    /\ UNCHANGED <<accounts, identity, tenantVars, dataVars, sessions, admitted, heard,
                   contested, overtaken>>

\* ... and commits, and tells the outcome.
CommitDecision(t) ==
    /\ At(t, "decided") /\ Leaves(t)
    /\ decision' = [decision EXCEPT ![thread[t].user] = thread[t].arg]
    /\ heard' = heard \cup ({thread[t].outcome} \cap Positive)
    /\ UNCHANGED <<accounts, identity, tenantVars, consent, observed, sessions, admitted,
                   contested, overtaken, overlapped>>

-----------------------------------------------------------------------------
(* Privacy deletion                                                        *)

\* Mutant: the consents are forgotten.
ErasedKeepsConsent(u) == consent

\* delete_user_data erases consents ...
Erased(u) == [consent EXCEPT ![u] = "none"]

\* ... and memberships; the account, nameless, its identity, its observations and
\* its decisions stay.
DeleteUserData(u) ==
    /\ u \in accounts
    /\ role' = [role EXCEPT ![u] = "none"]
    /\ consent' = Erased(u)
    /\ overtaken' = IF \E t \in Threads : thread[t].user = u
                                          /\ thread[t].pc \in {"consent", "observe"}
                    THEN overtaken \cup {u} ELSE overtaken
    /\ UNCHANGED <<accounts, identity, creator, invitation, observed, decision, thread,
                   sessions, admitted, heard, contested, overlapped>>

Next ==
    \/ \E s \in Subjects : (\E t \in Threads : SignIn(t, s)) \/ (\E u \in Users : Link(u, s))
    \/ \E u \in Users :
         \/ CreateTenant(u) \/ DeleteObservations(u) \/ DeleteUserData(u)
         \/ \E t \in Threads :
              \/ \E r \in Roles : InviteMember(t, u, r)
              \/ \E i \in Invitations : AcceptInvitation(t, u, i)
              \/ \E choice \in Choices : SetConsent(t, u, choice)
              \/ \E d \in Decisions : DecideRun(t, u, d)
              \/ ApplyEffects(t, u)
    \/ \E t \in Threads :
         \/ Provision(t) \/ Invite(t) \/ Accept(t) \/ WriteConsent(t) \/ CommitEffects(t)
         \/ Decide(t) \/ CommitDecision(t)
    \/ \E i \in Invitations : Expire(i)

Spec == Init /\ [][Next]_vars

-----------------------------------------------------------------------------
(* Properties                                                              *)

\* A subject is signed in to one account, however its first sign-ins race, and
\* no sign-in leaves an account behind that no subject leads to
\* (provision_auth_identity: "its transaction is authoritative and the losing
\* transaction rolled back its temporary user, tenant, and membership together").
OneAccountPerSubject ==
    /\ \A s \in Subjects : sessions[s] \subseteq {identity[s]}
    /\ \A u \in accounts :
         LET own == {s \in Subjects : identity[s] = u} IN
         Cardinality(own) = 1 \/ (own = {} /\ u \in Provisioned)

\* The owner is who made the tenant; every other member has the role of an
\* invitation it accepted, and an invitation makes one member, unless two
\* acceptances read it before either wrote it.
MembersWereInvited ==
    /\ \A u \in Users :
         \/ role[u] = "none"
         \/ role[u] = "owner" /\ creator = u
         \/ role[u] # "owner" /\ \E i \in Invitations : u \in admitted[i]
                                                      /\ invitation[i].role = role[u]
    /\ \A i \in Invitations \ contested : Cardinality(admitted[i]) <= 1

\* A privacy deletion leaves no consent of the user behind, unless a request
\* that had passed its membership check writes one afterwards.
ConsentOfMembers ==
    \A u \in Users \ overtaken : consent[u] # "none" => role[u] # "none"

\* No completed purchase leaves an observation of a user whose consent is not
\* granted by then, unless it was withdrawn, or the user deleted, between the look
\* at it and the commit.
ObservedWithConsent ==
    [][\A u \in (observed' \ observed) \ overtaken : consent[u] = "granted"]_vars

\* Once enough approvers have made the same decision and none has skipped, one
\* of them was told so, unless two decisions were counted at once: then each may
\* be told that it is pending, and neither can decide again.
ThresholdIsHeard ==
    /\ Cardinality(Decided) >= Required
    /\ \E d \in Positive : \A u \in Decided : decision[u] = d
    => overlapped \/ heard # {}
=============================================================================
