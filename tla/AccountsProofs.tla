---------------------------- MODULE AccountsProofs ----------------------------
(***************************************************************************)
(* Theorems of module Accounts, for any number of users, subjects,         *)
(* invitations and request threads and any required number of approvals,   *)
(* and of module MerchantConnection, the connection of one such user.      *)
(***************************************************************************)
EXTENDS Accounts, MerchantConnection, FiniteSetTheorems, TLAPS

-----------------------------------------------------------------------------
(* The inductive invariant                                                 *)

\* What a request carries from its check to its write.
ThreadInv ==
    \A t \in Threads :
        LET pc == thread[t].pc IN
        /\ pc \in {"accept", "consent", "observe", "decide", "decided"} =>
             thread[t].user \in Users
        /\ pc = "provision" => thread[t].arg \in Subjects
        /\ pc = "invite" => thread[t].arg \in InvitedRoles
        /\ pc = "accept" => thread[t].arg \in Invitations
        /\ pc = "consent" => thread[t].arg \in Choices
        /\ pc \in {"decide", "decided"} => thread[t].arg \in Decisions

\* An identity is of an account, of one subject each; only a provisioned account
\* has none.
IdentityInv ==
    /\ \A s \in Subjects : identity[s] # NoUser => identity[s] \in accounts
    /\ \A r, s \in Subjects : identity[r] # NoUser /\ identity[r] = identity[s] => r = s
    /\ \A u \in accounts \ Provisioned : \E s \in Subjects : identity[s] = u
    /\ \A s \in Subjects : sessions[s] \subseteq {identity[s]}

\* Who is a member, and what an invitation is worth that nobody contests.
MemberInv ==
    /\ \A u \in Users :
         \/ role[u] = "none"
         \/ role[u] = "owner" /\ creator = u
         \/ role[u] # "owner" /\ \E i \in Invitations : u \in admitted[i]
                                                      /\ invitation[i].role = role[u]
    /\ \A i \in Invitations :
         /\ invitation[i].state # "none" => invitation[i].role \in InvitedRoles
         /\ invitation[i].state = "none" => admitted[i] = {}

\* Request t has read invitation i and is to accept it.
Accepting(t, i) == thread[t].pc = "accept" /\ thread[t].arg = i
Alone(i) == \A t, w \in Threads : Accepting(t, i) /\ Accepting(w, i) => t = w
Spent(i) == /\ \E u \in Users : admitted[i] = {u}
            /\ invitation[i].state = "used"
            /\ \A t \in Threads : ~Accepting(t, i)

InvitationInv ==
    /\ \A t \in Threads : thread[t].pc = "accept" => invitation[thread[t].arg].state # "none"
    /\ \A i \in Invitations \ contested : Alone(i) /\ (admitted[i] = {} \/ Spent(i))

\* What has been checked still holds, unless a deletion or withdrawal overtook it.
ConsentInv ==
    /\ \A u \in Users \ overtaken : consent[u] # "none" => role[u] # "none"
    /\ \A t \in Threads : thread[t].user \notin overtaken =>
         /\ thread[t].pc = "consent" => role[thread[t].user] # "none"
         /\ thread[t].pc = "observe" => consent[thread[t].user] = "granted"

\* A decision that is counted alone is counted right.
DecisionInv ==
    ~overlapped =>
        /\ \A t, w \in Threads : thread[t].pc = "decided" /\ thread[w].pc = "decided" => t = w
        /\ \A t \in Threads : thread[t].pc = "decided" =>
             /\ decision[thread[t].user] = "none"
             /\ \A e \in Decisions : e = thread[t].arg => thread[t].outcome = Count(e)

Inv == /\ ThreadInv /\ IdentityInv /\ MemberInv /\ InvitationInv /\ ConsentInv
       /\ DecisionInv /\ ThresholdIsHeard
IInv == TypeOK /\ Inv

-----------------------------------------------------------------------------
(* Threads and types                                                       *)

Pcs == {"idle", "provision", "invite", "accept", "consent", "observe", "decide", "decided"}
Args == {"none"} \cup Subjects \cup Invitations \cup Roles \cup Decisions \cup Choices
Outcomes == {"none", "pending", "vetoed"} \cup Positive

\* What a step of one thread leaves of the others.
Others(t) == \A w \in Threads \ {t} : thread'[w] = thread[w]

LEMMA Entered ==
    ASSUME TypeOK, NEW t \in Threads, NEW pc \in Pcs, NEW u \in Users \cup {NoUser},
           NEW arg \in Args, Enters(t, pc, u, arg)
    PROVE  /\ thread' \in [Threads -> Thread] /\ Others(t)
           /\ thread[t].pc = "idle"
           /\ thread'[t].pc = pc /\ thread'[t].user = u /\ thread'[t].arg = arg
<1> DEFINE new == [Idle EXCEPT !.pc = pc, !.user = u, !.arg = arg]
<1>1. thread' = [thread EXCEPT ![t] = new] /\ thread[t] = Idle
  BY DEF Enters
<1>2. new \in Thread /\ new.pc = pc /\ new.user = u /\ new.arg = arg
  BY DEF Idle, Thread, Pcs, Args
<1>3. Idle.pc = "idle"
  BY DEF Idle
<1> HIDE DEF new
<1>4. QED
  BY <1>1, <1>2, <1>3 DEF TypeOK, Others

LEMMA Left ==
    ASSUME TypeOK, NEW t \in Threads, Leaves(t)
    PROVE  thread' \in [Threads -> Thread] /\ Others(t) /\ thread'[t].pc = "idle"
<1>1. Idle \in Thread /\ Idle.pc = "idle"
  BY DEF Idle, Thread
<1>2. thread' = [thread EXCEPT ![t] = Idle]
  BY DEF Leaves
<1>3. QED
  BY <1>1, <1>2 DEF TypeOK, Others

LEMMA Counts ==
    ASSUME TypeOK, NEW d \in Decisions
    PROVE  /\ Count(d) \in Outcomes
           /\ \A e \in Positive :
                /\ d = e
                /\ \A u \in Decided : decision[u] = e
                /\ Cardinality(Decided) + 1 >= Required
                => Count(d) = e
<1> DEFINE decided == {decision[u] : u \in Decided} \cup {d}
<1>1. Count(d) = IF "skip" \in decided THEN "vetoed"
                 ELSE IF Cardinality(Decided) + 1 >= Required /\ Cardinality(decided) = 1
                      THEN CHOOSE x \in decided : TRUE ELSE "pending"
  BY FS_Singleton DEF Count, Outcome
<1>2. decided \subseteq Decisions
  BY DEF TypeOK, Decided
<1>3. "skip" \notin decided => (CHOOSE x \in decided : TRUE) \in Positive
  BY <1>2 DEF Decisions
<1>4. Count(d) \in Outcomes
  <2> HIDE DEF decided
  <2>1. QED
    BY <1>1, <1>3 DEF Outcomes
<1>5. ASSUME NEW e \in Positive, d = e, \A u \in Decided : decision[u] = e,
             Cardinality(Decided) + 1 >= Required
      PROVE  Count(d) = e
  <2>1. decided = {e}
    BY <1>5
  <2>2. Cardinality({e}) = 1
    BY FS_Singleton
  <2>3. "skip" \notin {e}
    BY PositiveAssumption
  <2>4. QED
    BY <1>1, <1>5, <2>1, <2>2, <2>3
<1>6. QED
  BY <1>4, <1>5

LEMMA TypeInit == Init => TypeOK
<1> SUFFICES ASSUME Init PROVE TypeOK
  OBVIOUS
<1>1. thread \in [Threads -> Thread]
  BY DEF Init, Idle, Thread
<1>2. accounts \subseteq Users
  BY ProvisionedAssumption DEF Init
<1>3. QED
  BY <1>1, <1>2 DEF Init, TypeOK

LEMMA TypeStep ==
    ASSUME TypeOK, ThreadInv, [Next]_vars
    PROVE  TypeOK'
<1>1. CASE UNCHANGED vars
  BY <1>1 DEF vars, tenantVars, dataVars, historyVars, TypeOK
<1>2. ASSUME NEW t \in Threads, NEW s \in Subjects, SignIn(t, s) PROVE TypeOK'
  <2>1. CASE identity[s] = NoUser
    <3>1. thread' \in [Threads -> Thread]
      BY <1>2, <2>1, Entered DEF SignIn, Pcs, Args
    <3>2. QED
      BY <1>2, <2>1, <3>1 DEF SignIn, TypeOK, tenantVars, dataVars
  <2>2. CASE identity[s] # NoUser
    BY <1>2, <2>2 DEF SignIn, Issued, TypeOK, tenantVars, dataVars
  <2>3. QED
    BY <2>1, <2>2
<1>3. ASSUME NEW u \in Users, NEW s \in Subjects, Link(u, s) PROVE TypeOK'
  BY <1>3 DEF Link, TypeOK, tenantVars, dataVars, historyVars
<1>4. ASSUME NEW u \in Users, CreateTenant(u) PROVE TypeOK'
  BY <1>4 DEF CreateTenant, TypeOK, Roles, dataVars, historyVars
<1>5. ASSUME NEW u \in Users, DeleteObservations(u) PROVE TypeOK'
  BY <1>5 DEF DeleteObservations, TypeOK, tenantVars, historyVars
<1>6. ASSUME NEW u \in Users, DeleteUserData(u) PROVE TypeOK'
  BY <1>6 DEF DeleteUserData, Erased, TypeOK
<1>7. ASSUME NEW u \in Users, NEW t \in Threads, NEW r \in Roles, InviteMember(t, u, r)
      PROVE  TypeOK'
  <2>1. thread' \in [Threads -> Thread]
    BY <1>7, Entered DEF InviteMember, Pcs, Args
  <2>2. QED
    BY <1>7, <2>1 DEF InviteMember, TypeOK, tenantVars, dataVars, historyVars
<1>8. ASSUME NEW u \in Users, NEW t \in Threads, NEW i \in Invitations, AcceptInvitation(t, u, i)
      PROVE  TypeOK'
  <2>1. thread' \in [Threads -> Thread]
    BY <1>8, Entered DEF AcceptInvitation, Pcs, Args
  <2>2. contested' \subseteq Invitations
    BY <1>8 DEF AcceptInvitation, TypeOK
  <2>3. QED
    BY <1>8, <2>1, <2>2 DEF AcceptInvitation, TypeOK, tenantVars, dataVars
<1>9. ASSUME NEW u \in Users, NEW t \in Threads, NEW c \in Choices, SetConsent(t, u, c)
      PROVE  TypeOK'
  <2>1. thread' \in [Threads -> Thread]
    BY <1>9, Entered DEF SetConsent, Pcs, Args
  <2>2. QED
    BY <1>9, <2>1 DEF SetConsent, TypeOK, tenantVars, dataVars, historyVars
<1>10. ASSUME NEW u \in Users, NEW t \in Threads, NEW d \in Decisions, DecideRun(t, u, d)
      PROVE  TypeOK'
  <2>1. thread' \in [Threads -> Thread]
    BY <1>10, Entered DEF DecideRun, Pcs, Args
  <2>2. QED
    BY <1>10, <2>1 DEF DecideRun, TypeOK, tenantVars, dataVars, historyVars
<1>11. ASSUME NEW u \in Users, NEW t \in Threads, ApplyEffects(t, u) PROVE TypeOK'
  <2>1. thread' \in [Threads -> Thread]
    BY <1>11, Entered DEF ApplyEffects, Pcs, Args
  <2>2. QED
    BY <1>11, <2>1 DEF ApplyEffects, TypeOK, tenantVars, dataVars, historyVars
<1>12. ASSUME NEW t \in Threads, Provision(t) PROVE TypeOK'
  <2>1. thread' \in [Threads -> Thread] /\ thread[t].arg \in Subjects
    BY <1>12, Left DEF Provision, At, ThreadInv
  <2>2. accounts' \subseteq Users /\ identity' \in [Subjects -> Users \cup {NoUser}]
    <3>1. CASE identity[thread[t].arg] = NoUser
      BY <1>12, <2>1, <3>1 DEF Provision, TypeOK
    <3>2. CASE identity[thread[t].arg] # NoUser
      BY <1>12, <2>1, <3>2 DEF Provision, TypeOK
    <3>3. QED
      BY <3>1, <3>2
  <2>3. sessions' \in [Subjects -> SUBSET Users]
    <3>1. CASE identity[thread[t].arg] = NoUser
      BY <1>12, <2>1, <3>1 DEF Provision, Issued, TypeOK
    <3>2. CASE identity[thread[t].arg] # NoUser
      BY <1>12, <2>1, <3>2 DEF Provision, Issued, TypeOK
    <3>3. QED
      BY <3>1, <3>2
  <2>4. QED
    BY <1>12, <2>1, <2>2, <2>3 DEF Provision, TypeOK, dataVars
<1>13. ASSUME NEW t \in Threads, Invite(t) PROVE TypeOK'
  <2>1. thread' \in [Threads -> Thread] /\ thread[t].arg \in InvitedRoles
    BY <1>13, Left DEF Invite, At, ThreadInv
  <2>2. PICK i \in Invitations :
          invitation' = [invitation EXCEPT ![i] = [role |-> thread[t].arg, state |-> "open"]]
    BY <1>13 DEF Invite
  <2>3. invitation' \in [Invitations -> [role : Roles \cup {"none"},
                                         state : {"none", "open", "expired", "used"}]]
    BY <2>1, <2>2 DEF TypeOK, Roles
  <2>4. QED
    BY <1>13, <2>1, <2>3 DEF Invite, TypeOK, dataVars, historyVars
<1>14. ASSUME NEW t \in Threads, Accept(t) PROVE TypeOK'
  <2>1. /\ thread' \in [Threads -> Thread]
        /\ thread[t].user \in Users /\ thread[t].arg \in Invitations
    BY <1>14, Left DEF Accept, At, ThreadInv
  <2>2. /\ role' \in [Users -> Roles \cup {"none"}]
        /\ invitation' \in [Invitations -> [role : Roles \cup {"none"},
                                            state : {"none", "open", "expired", "used"}]]
        /\ admitted' \in [Invitations -> SUBSET Users]
    <3> SUFFICES ASSUME NEW u \in Users, NEW i \in Invitations,
                        u = thread[t].user, i = thread[t].arg
                 PROVE  /\ role' \in [Users -> Roles \cup {"none"}]
                        /\ invitation' \in [Invitations -> [role : Roles \cup {"none"},
                                             state : {"none", "open", "expired", "used"}]]
                        /\ admitted' \in [Invitations -> SUBSET Users]
      BY <2>1
    <3>1. CASE role[u] = "none"
      <4>1. /\ invitation' = [invitation EXCEPT ![i].state = "used"]
            /\ role' = [role EXCEPT ![u] = invitation[i].role]
            /\ admitted' = [admitted EXCEPT ![i] = @ \cup {u}]
        BY <1>14, <3>1 DEF Accept
      <4>2. QED
        BY <4>1 DEF TypeOK
    <3>2. CASE role[u] # "none"
      BY <1>14, <3>2 DEF Accept, TypeOK
    <3>3. QED
      BY <3>1, <3>2
  <2>3. QED
    BY <1>14, <2>1, <2>2 DEF Accept, TypeOK, dataVars
<1>15. ASSUME NEW t \in Threads, WriteConsent(t) PROVE TypeOK'
  <2>1. /\ thread' \in [Threads -> Thread]
        /\ thread[t].user \in Users /\ thread[t].arg \in Choices
    BY <1>15, Left DEF WriteConsent, At, ThreadInv
  <2>2. consent' \in [Users -> Choices \cup {"none"}] /\ overtaken' \subseteq Users
    BY <1>15, <2>1 DEF WriteConsent, TypeOK
  <2>3. QED
    BY <1>15, <2>1, <2>2 DEF WriteConsent, TypeOK, tenantVars
<1>16. ASSUME NEW t \in Threads, CommitEffects(t) PROVE TypeOK'
  <2>1. thread' \in [Threads -> Thread] /\ thread[t].user \in Users
    BY <1>16, Left DEF CommitEffects, At, ThreadInv
  <2>2. QED
    BY <1>16, <2>1 DEF CommitEffects, TypeOK, tenantVars, historyVars
<1>17. ASSUME NEW t \in Threads, Decide(t) PROVE TypeOK'
  <2>1. thread[t].user \in Users /\ thread[t].arg \in Decisions
    BY <1>17 DEF Decide, At, ThreadInv
  <2>2. thread' \in [Threads -> Thread]
    <3>1. CASE Leaves(t)
      BY <3>1, Left
    <3>2. CASE thread' = [thread EXCEPT ![t].pc = "decided",
                                        ![t].outcome = Count(thread[t].arg)]
      <4> DEFINE new == [thread[t] EXCEPT !.pc = "decided", !.outcome = Count(thread[t].arg)]
      <4>1. thread' = [thread EXCEPT ![t] = new]
        BY <3>2
      <4>2. Count(thread[t].arg) \in Outcomes
        BY <2>1, Counts
      <4>3. new \in Thread
        <5>1. thread[t] \in Thread
          BY DEF TypeOK
        <5>2. ASSUME NEW o \in Outcomes
              PROVE  [thread[t] EXCEPT !.pc = "decided", !.outcome = o] \in Thread
          BY <5>1 DEF Thread, Outcomes
        <5>3. QED
          BY <4>2, <5>2
      <4> HIDE DEF new
      <4>4. QED
        BY <4>1, <4>3 DEF TypeOK
    <3>3. QED
      BY <1>17, <3>1, <3>2 DEF Decide
  <2>3. overlapped' \in BOOLEAN
    BY <1>17 DEF Decide, TypeOK
  <2>4. QED
    BY <1>17, <2>2, <2>3 DEF Decide, TypeOK, tenantVars, dataVars
<1>18. ASSUME NEW t \in Threads, CommitDecision(t) PROVE TypeOK'
  <2>1. /\ thread' \in [Threads -> Thread]
        /\ thread[t].user \in Users /\ thread[t].arg \in Decisions
    BY <1>18, Left DEF CommitDecision, At, ThreadInv
  <2>2. decision' \in [Users -> Decisions \cup {"none"}] /\ heard' \subseteq Positive
    BY <1>18, <2>1 DEF CommitDecision, TypeOK
  <2>3. QED
    BY <1>18, <2>1, <2>2 DEF CommitDecision, TypeOK, tenantVars
<1>19. ASSUME NEW i \in Invitations, Expire(i) PROVE TypeOK'
  BY <1>19 DEF Expire, TypeOK, dataVars, historyVars
<1>20. QED
  BY <1>1, <1>2, <1>3, <1>4, <1>5, <1>6, <1>7, <1>8, <1>9, <1>10, <1>11, <1>12, <1>13,
     <1>14, <1>15, <1>16, <1>17, <1>18, <1>19 DEF Next

-----------------------------------------------------------------------------
(* What requests carry                                                     *)

LEMMA InvInit == Init => Inv
<1> SUFFICES ASSUME Init PROVE Inv
  OBVIOUS
<1>1. \A t \in Threads : thread[t].pc = "idle"
  BY DEF Init, Idle
<1>2. ThreadInv /\ IdentityInv /\ MemberInv /\ InvitationInv /\ ConsentInv /\ DecisionInv
  BY <1>1, ProvisionedAssumption
     DEF Init, ThreadInv, IdentityInv, MemberInv, InvitationInv, Accepting, Alone, ConsentInv,
         DecisionInv
<1>3. ThresholdIsHeard
  <2>1. Decided = {}
    BY DEF Init, Decided
  <2>2. ~(Cardinality(Decided) >= Required)
    BY <2>1, FS_EmptySet, RequiredAssumption
  <2>3. QED
    BY <2>2 DEF ThresholdIsHeard
<1>4. QED
  BY <1>2, <1>3 DEF Inv

\* Where a thread is after a step: where it was, at the beginning of a request
\* that its check let in, at the end, or with its decision counted.
LEMMA ThreadShapes ==
    ASSUME TypeOK, ThreadInv, [Next]_vars
    PROVE  \/ thread' = thread
           \/ \E t \in Threads : Leaves(t)
           \/ \E t \in Threads, s \in Subjects : Enters(t, "provision", NoUser, s)
           \/ \E t \in Threads, u \in Users :
                \/ \E r \in Roles : InviteMember(t, u, r)
                \/ \E i \in Invitations : AcceptInvitation(t, u, i)
                \/ \E c \in Choices : SetConsent(t, u, c)
                \/ \E d \in Decisions : DecideRun(t, u, d)
                \/ ApplyEffects(t, u)
           \/ \E t \in Threads : Decide(t)
BY DEF Next, vars, SignIn, Link, CreateTenant, DeleteObservations, DeleteUserData, Provision,
       Invite, Accept, WriteConsent, CommitEffects, CommitDecision, Expire, historyVars

\* What Decide does to its thread.
LEMMA DecideShape ==
    ASSUME TypeOK, NEW t \in Threads, Decide(t)
    PROVE  /\ Others(t) /\ thread[t].pc = "decide"
           /\ \/ thread'[t].pc = "idle"
              \/ /\ thread'[t].pc = "decided" /\ thread'[t].user = thread[t].user
                 /\ thread'[t].arg = thread[t].arg /\ thread'[t].outcome = Count(thread[t].arg)
                 /\ decision[thread[t].user] = "none"
                 /\ overlapped' = (overlapped \/ \E w \in Threads : At(w, "decided"))
<1>1. thread[t].pc = "decide"
  BY DEF Decide, At
<1>2. CASE Leaves(t)
  BY <1>1, <1>2, Left
<1>3. CASE /\ thread' = [thread EXCEPT ![t].pc = "decided",
                                       ![t].outcome = Count(thread[t].arg)]
           /\ decision[thread[t].user] = "none"
           /\ overlapped' = (overlapped \/ \E w \in Threads : At(w, "decided"))
  <2> DEFINE new == [thread[t] EXCEPT !.pc = "decided", !.outcome = Count(thread[t].arg)]
  <2>1. thread' = [thread EXCEPT ![t] = new]
    BY <1>3
  <2>2. /\ new.pc = "decided" /\ new.user = thread[t].user /\ new.arg = thread[t].arg
        /\ new.outcome = Count(thread[t].arg)
    BY DEF TypeOK, Thread
  <2> HIDE DEF new
  <2>3. Others(t) /\ thread'[t] = new
    BY <2>1 DEF TypeOK, Others
  <2>4. QED
    BY <1>1, <1>3, <2>2, <2>3
<1>4. QED
  BY <1>2, <1>3 DEF Decide

\* What a thread that is not idle after a step has done in it: nothing, passed a
\* check, or had its decision counted.
LEMMA Began ==
    ASSUME TypeOK, ThreadInv, [Next]_vars, NEW w \in Threads, thread'[w].pc # "idle"
    PROVE  \/ thread'[w] = thread[w]
           \/ Others(w) /\ thread'[w].pc = "provision" /\ thread'[w].arg \in Subjects
           \/ Others(w) /\ thread'[w].pc = "invite" /\ thread'[w].arg \in InvitedRoles
           \/ \E u \in Users : Others(w) /\ thread'[w].user = u /\
                \/ \E i \in Invitations : /\ AcceptInvitation(w, u, i)
                                          /\ thread'[w].pc = "accept" /\ thread'[w].arg = i
                \/ \E c \in Choices : /\ SetConsent(w, u, c)
                                      /\ thread'[w].pc = "consent" /\ thread'[w].arg = c
                \/ \E d \in Decisions : /\ thread'[w].pc = "decide" /\ thread'[w].arg = d
                \/ ApplyEffects(w, u) /\ thread'[w].pc = "observe"
           \/ /\ Decide(w) /\ Others(w) /\ thread[w].pc = "decide" /\ thread'[w].pc = "decided"
              /\ thread'[w].user = thread[w].user /\ thread'[w].arg = thread[w].arg
              /\ thread'[w].outcome = Count(thread[w].arg)
              /\ decision[thread[w].user] = "none"
              /\ overlapped' = (overlapped \/ \E v \in Threads : At(v, "decided"))
<1> DEFINE Done == \/ thread'[w] = thread[w]
                   \/ Others(w) /\ thread'[w].pc = "provision" /\ thread'[w].arg \in Subjects
                   \/ Others(w) /\ thread'[w].pc = "invite" /\ thread'[w].arg \in InvitedRoles
                   \/ \E u \in Users : Others(w) /\ thread'[w].user = u /\
                        \/ \E i \in Invitations :
                             /\ AcceptInvitation(w, u, i)
                             /\ thread'[w].pc = "accept" /\ thread'[w].arg = i
                        \/ \E c \in Choices :
                             /\ SetConsent(w, u, c)
                             /\ thread'[w].pc = "consent" /\ thread'[w].arg = c
                        \/ \E d \in Decisions : thread'[w].pc = "decide" /\ thread'[w].arg = d
                        \/ ApplyEffects(w, u) /\ thread'[w].pc = "observe"
                   \/ /\ Decide(w) /\ Others(w) /\ thread[w].pc = "decide"
                      /\ thread'[w].pc = "decided"
                      /\ thread'[w].user = thread[w].user /\ thread'[w].arg = thread[w].arg
                      /\ thread'[w].outcome = Count(thread[w].arg)
                      /\ decision[thread[w].user] = "none"
                      /\ overlapped' = (overlapped \/ \E v \in Threads : At(v, "decided"))
<1> SUFFICES Done
  OBVIOUS
<1>2. ASSUME NEW t \in Threads, Leaves(t) PROVE Done
  BY <1>2, Left DEF Others
<1>3. ASSUME NEW t \in Threads, NEW s \in Subjects, Enters(t, "provision", NoUser, s)
      PROVE  Done
  <2>1. Enters(t, "provision", NoUser, s)
    BY <1>3
  <2>2. "provision" \in Pcs /\ s \in Args
    BY DEF Pcs, Args
  <2>3. Others(t) /\ thread'[t].pc = "provision" /\ thread'[t].arg = s
    BY <2>1, <2>2, Entered
  <2>4. QED
    BY <2>3 DEF Others
<1>4. ASSUME NEW t \in Threads, NEW u \in Users, NEW r \in Roles, InviteMember(t, u, r)
      PROVE  Done
  <2>1. Enters(t, "invite", u, r)
    BY <1>4 DEF InviteMember
  <2>2. "invite" \in Pcs /\ r \in Args
    BY DEF Pcs, Args
  <2>3. Others(t) /\ thread'[t].pc = "invite" /\ thread'[t].arg = r
    BY <2>1, <2>2, Entered
  <2>4. r \in InvitedRoles
    BY <1>4 DEF InviteMember, Invitable
  <2>5. QED
    BY <2>3, <2>4 DEF Others
<1>5. ASSUME NEW t \in Threads, NEW u \in Users, NEW i \in Invitations, AcceptInvitation(t, u, i)
      PROVE  Done
  <2>1. Enters(t, "accept", u, i)
    BY <1>5 DEF AcceptInvitation
  <2>2. "accept" \in Pcs /\ i \in Args
    BY DEF Pcs, Args
  <2>3. Others(t) /\ thread'[t].pc = "accept" /\ thread'[t].arg = i /\ thread'[t].user = u
    BY <2>1, <2>2, Entered
  <2>4. QED
    BY <1>5, <2>3 DEF Others
<1>6. ASSUME NEW t \in Threads, NEW u \in Users, NEW c \in Choices, SetConsent(t, u, c)
      PROVE  Done
  <2>1. Enters(t, "consent", u, c)
    BY <1>6 DEF SetConsent
  <2>2. "consent" \in Pcs /\ c \in Args
    BY DEF Pcs, Args
  <2>3. Others(t) /\ thread'[t].pc = "consent" /\ thread'[t].arg = c /\ thread'[t].user = u
    BY <2>1, <2>2, Entered
  <2>4. QED
    BY <1>6, <2>3 DEF Others
<1>7. ASSUME NEW t \in Threads, NEW u \in Users, NEW d \in Decisions, DecideRun(t, u, d)
      PROVE  Done
  <2>1. Enters(t, "decide", u, d)
    BY <1>7 DEF DecideRun
  <2>2. "decide" \in Pcs /\ d \in Args
    BY DEF Pcs, Args
  <2>3. Others(t) /\ thread'[t].pc = "decide" /\ thread'[t].arg = d /\ thread'[t].user = u
    BY <2>1, <2>2, Entered
  <2>4. QED
    BY <2>3 DEF Others
<1>8. ASSUME NEW t \in Threads, NEW u \in Users, ApplyEffects(t, u) PROVE Done
  <2>1. Enters(t, "observe", u, "none")
    BY <1>8 DEF ApplyEffects
  <2>2. "observe" \in Pcs /\ "none" \in Args
    BY DEF Pcs, Args
  <2>3. Others(t) /\ thread'[t].pc = "observe" /\ thread'[t].user = u
    BY <2>1, <2>2, Entered
  <2>4. QED
    BY <1>8, <2>3 DEF Others
<1>9. ASSUME NEW t \in Threads, Decide(t) PROVE Done
  BY <1>9, DecideShape DEF Others
<1> HIDE DEF Done
<1>10. thread' = thread => Done
  BY DEF Done
<1>11. QED
  BY <1>2, <1>3, <1>4, <1>5, <1>6, <1>7, <1>8, <1>9, <1>10, ThreadShapes

LEMMA ThreadStep ==
    ASSUME TypeOK, ThreadInv, [Next]_vars
    PROVE  ThreadInv'
<1> SUFFICES ASSUME NEW w \in Threads, thread'[w].pc # "idle"
             PROVE  /\ thread'[w].pc \in {"accept", "consent", "observe", "decide", "decided"}
                         => thread'[w].user \in Users
                    /\ thread'[w].pc = "provision" => thread'[w].arg \in Subjects
                    /\ thread'[w].pc = "invite" => thread'[w].arg \in InvitedRoles
                    /\ thread'[w].pc = "accept" => thread'[w].arg \in Invitations
                    /\ thread'[w].pc = "consent" => thread'[w].arg \in Choices
                    /\ thread'[w].pc \in {"decide", "decided"} => thread'[w].arg \in Decisions
  BY DEF ThreadInv
<1>1. CASE thread'[w] = thread[w]
  BY <1>1 DEF ThreadInv
<1>2. CASE thread'[w].pc = "decided" /\ thread[w].pc = "decide"
           /\ thread'[w].user = thread[w].user /\ thread'[w].arg = thread[w].arg
  BY <1>2 DEF ThreadInv
<1>3. QED
  BY <1>1, <1>2, Began

-----------------------------------------------------------------------------
(* Identities                                                              *)

LEMMA IdentityStep ==
    ASSUME TypeOK, ThreadInv, IdentityInv, [Next]_vars
    PROVE  IdentityInv'
<1>1. CASE UNCHANGED <<accounts, identity, sessions>>
  BY <1>1 DEF IdentityInv
<1>2. ASSUME NEW t \in Threads, NEW s \in Subjects, SignIn(t, s), identity[s] # NoUser
      PROVE  IdentityInv'
  BY <1>2 DEF SignIn, Issued, IdentityInv, TypeOK
\* A subject that is nobody's becomes that of an account without a subject.
<1>3. ASSUME NEW s \in Subjects, NEW u \in Users, identity[s] = NoUser,
             \A r \in Subjects : identity[r] # u,
             identity' = [identity EXCEPT ![s] = u],
             accounts' = accounts \cup {u},
             \/ UNCHANGED sessions
             \/ sessions' = [sessions EXCEPT ![s] = @ \cup {u}]
      PROVE  IdentityInv'
  <2>1. identity'[s] = u /\ \A r \in Subjects \ {s} : identity'[r] = identity[r]
    BY <1>3 DEF TypeOK
  <2>2. sessions[s] = {}
    BY <1>3, NoUserAssumption DEF TypeOK, IdentityInv
  <2>3. sessions'[s] \subseteq {u} /\ \A r \in Subjects \ {s} : sessions'[r] = sessions[r]
    BY <1>3, <2>2 DEF TypeOK
  <2>4. \A r \in Subjects : sessions'[r] \subseteq {identity'[r]}
    BY <2>1, <2>3 DEF IdentityInv
  <2>5. \A v \in accounts' \ Provisioned : \E r \in Subjects : identity'[r] = v
    <3> SUFFICES ASSUME NEW v \in accounts' \ Provisioned
                 PROVE  \E r \in Subjects : identity'[r] = v
      OBVIOUS
    <3>1. CASE v = u
      BY <2>1, <3>1
    <3>2. CASE v # u
      <4>1. PICK r \in Subjects : identity[r] = v
        BY <1>3, <3>2 DEF IdentityInv
      <4>2. r # s
        BY <1>3, <4>1, NoUserAssumption, ProvisionedAssumption, <3>2 DEF TypeOK
      <4>3. QED
        BY <2>1, <4>1, <4>2
    <3>3. QED
      BY <3>1, <3>2
  <2>6. QED
    BY <1>3, <2>1, <2>4, <2>5 DEF IdentityInv
<1>4. ASSUME NEW t \in Threads, Provision(t) PROVE IdentityInv'
  <2>0. thread[t].arg \in Subjects
    BY <1>4 DEF Provision, At, ThreadInv
  <2> SUFFICES ASSUME NEW s \in Subjects, s = thread[t].arg PROVE IdentityInv'
    BY <2>0
  <2>1. CASE identity[s] = NoUser
    <3>1. PICK u \in Users :
            /\ u \notin accounts /\ accounts' = accounts \cup {u}
            /\ identity' = [identity EXCEPT ![s] = u]
            /\ sessions' = [sessions EXCEPT ![s] = @ \cup {u}]
      BY <1>4, <2>1 DEF Provision, Issued
    <3>2. \A r \in Subjects : identity[r] # u
      BY <3>1, NoUserAssumption DEF IdentityInv
    <3>3. QED
      BY <1>3, <2>1, <3>1, <3>2
  <2>2. CASE identity[s] # NoUser
    BY <1>4, <2>2 DEF Provision, Issued, IdentityInv, TypeOK
  <2>3. QED
    BY <2>1, <2>2
<1>5. ASSUME NEW u \in Users, NEW s \in Subjects, Link(u, s) PROVE IdentityInv'
  <2>1. /\ u \in accounts /\ identity[s] = NoUser /\ \A r \in Subjects : identity[r] # u
        /\ identity' = [identity EXCEPT ![s] = u] /\ accounts' = accounts /\ UNCHANGED sessions
    BY <1>5 DEF Link, historyVars
  <2>2. accounts' = accounts \cup {u}
    BY <2>1
  <2>3. QED
    BY <1>3, <2>1, <2>2
<1>6. QED
  BY <1>1, <1>2, <1>4, <1>5
     DEF Next, vars, SignIn, CreateTenant, DeleteObservations, DeleteUserData, InviteMember,
         AcceptInvitation, SetConsent, DecideRun, ApplyEffects, Invite, Accept, WriteConsent,
         CommitEffects, Decide, CommitDecision, Expire, historyVars

-----------------------------------------------------------------------------
(* Members and invitations                                                 *)

\* What Accept does, by the user and the invitation it carries.
LEMMA AcceptShape ==
    ASSUME TypeOK, ThreadInv, NEW t \in Threads, Accept(t)
    PROVE  \E u \in Users, i \in Invitations :
             /\ thread[t].user = u /\ Accepting(t, i)
             /\ \/ UNCHANGED <<role, invitation, admitted>>
                \/ /\ role[u] = "none"
                   /\ invitation' = [invitation EXCEPT ![i].state = "used"]
                   /\ role' = [role EXCEPT ![u] = invitation[i].role]
                   /\ admitted' = [admitted EXCEPT ![i] = @ \cup {u}]
<1>1. thread[t].pc = "accept" /\ thread[t].user \in Users /\ thread[t].arg \in Invitations
  BY DEF Accept, At, ThreadInv
<1>2. SUFFICES ASSUME NEW u \in Users, NEW i \in Invitations,
                      thread[t].user = u, thread[t].arg = i
               PROVE  \/ UNCHANGED <<role, invitation, admitted>>
                      \/ /\ role[u] = "none"
                         /\ invitation' = [invitation EXCEPT ![i].state = "used"]
                         /\ role' = [role EXCEPT ![u] = invitation[i].role]
                         /\ admitted' = [admitted EXCEPT ![i] = @ \cup {u}]
  BY <1>1 DEF Accepting
<1>3. QED
  BY <1>2 DEF Accept

\* An invitation that was drawn keeps its role, and one that was used stays used.
LEMMA InvitationMoves ==
    ASSUME TypeOK, ThreadInv, [Next]_vars, NEW i \in Invitations
    PROVE  /\ invitation[i].state # "none" =>
                invitation'[i].state # "none" /\ invitation'[i].role = invitation[i].role
           /\ invitation[i].state = "used" => invitation'[i].state = "used"
<1>1. CASE UNCHANGED invitation
  BY <1>1
<1>2. ASSUME NEW t \in Threads, Invite(t)
      PROVE  invitation[i].state # "none" => invitation'[i] = invitation[i]
  BY <1>2 DEF Invite, TypeOK
<1>3. ASSUME NEW t \in Threads, Accept(t)
      PROVE  invitation' = invitation \/ \E j \in Invitations :
               invitation' = [invitation EXCEPT ![j].state = "used"]
  BY <1>3, AcceptShape
<1>4. ASSUME NEW j \in Invitations, Expire(j)
      PROVE  invitation[j].state = "open"
             /\ invitation' = [invitation EXCEPT ![j].state = "expired"]
  BY <1>4 DEF Expire
<1>5. ASSUME NEW j \in Invitations, invitation' = [invitation EXCEPT ![j].state = "used"]
      PROVE  invitation'[i].state \in {invitation[i].state, "used"}
             /\ invitation'[i].role = invitation[i].role
  BY <1>5 DEF TypeOK
<1>6. ASSUME NEW j \in Invitations, invitation[j].state = "open",
             invitation' = [invitation EXCEPT ![j].state = "expired"]
      PROVE  invitation'[i] = invitation[i] \/ (invitation[i].state = "open" /\
                invitation'[i].state = "expired" /\ invitation'[i].role = invitation[i].role)
  BY <1>6 DEF TypeOK
<1>7. QED
  BY <1>1, <1>2, <1>3, <1>4, <1>5, <1>6
     DEF Next, vars, tenantVars, SignIn, Link, CreateTenant, DeleteObservations, DeleteUserData,
         InviteMember, AcceptInvitation, SetConsent, DecideRun, ApplyEffects, Provision,
         WriteConsent, CommitEffects, Decide, CommitDecision

LEMMA MemberStep ==
    ASSUME TypeOK, ThreadInv, MemberInv, InvitationInv, [Next]_vars
    PROVE  MemberInv'
<1>1. CASE UNCHANGED <<creator, role, invitation, admitted>>
  BY <1>1 DEF MemberInv
<1>2. ASSUME NEW u \in Users, CreateTenant(u) PROVE MemberInv'
  <2>1. /\ creator = NoUser /\ creator' = u /\ role' = [role EXCEPT ![u] = "owner"]
        /\ UNCHANGED <<invitation, admitted>>
    BY <1>2 DEF CreateTenant, historyVars
  <2>2. \A v \in Users \ {u} : role'[v] = role[v] /\ (role[v] = "owner" => FALSE)
    BY <2>1, NoUserAssumption DEF TypeOK, MemberInv
  <2>3. role'[u] = "owner"
    BY <2>1 DEF TypeOK
  <2>4. QED
    BY <2>1, <2>2, <2>3 DEF MemberInv
<1>3. ASSUME NEW t \in Threads, Invite(t) PROVE MemberInv'
  <2>1. thread[t].arg \in InvitedRoles
    BY <1>3 DEF Invite, At, ThreadInv
  <2>2. PICK i \in Invitations :
          /\ invitation[i].state = "none"
          /\ invitation' = [invitation EXCEPT ![i] = [role |-> thread[t].arg,
                                                      state |-> "open"]]
    BY <1>3 DEF Invite
  <2>3. UNCHANGED <<creator, role, admitted>>
    BY <1>3 DEF Invite, historyVars
  <2>4. admitted[i] = {} /\ invitation'[i].role = thread[t].arg /\ invitation'[i].state = "open"
    BY <2>2 DEF MemberInv, TypeOK
  <2>5. \A j \in Invitations \ {i} : invitation'[j] = invitation[j]
    BY <2>2 DEF TypeOK
  <2>6. QED
    BY <2>1, <2>3, <2>4, <2>5 DEF MemberInv
<1>4. ASSUME NEW t \in Threads, Accept(t) PROVE MemberInv'
  <2>1. UNCHANGED creator
    BY <1>4 DEF Accept
  <2>2. PICK u \in Users, i \in Invitations :
             /\ thread[t].user = u /\ Accepting(t, i)
             /\ \/ UNCHANGED <<role, invitation, admitted>>
                \/ /\ role[u] = "none"
                   /\ invitation' = [invitation EXCEPT ![i].state = "used"]
                   /\ role' = [role EXCEPT ![u] = invitation[i].role]
                   /\ admitted' = [admitted EXCEPT ![i] = @ \cup {u}]
    BY <1>4, AcceptShape
  <2>3. CASE UNCHANGED <<role, invitation, admitted>>
    BY <1>1, <2>1, <2>3
  <2>4. CASE /\ invitation' = [invitation EXCEPT ![i].state = "used"]
             /\ role' = [role EXCEPT ![u] = invitation[i].role]
             /\ admitted' = [admitted EXCEPT ![i] = @ \cup {u}]
    <3>1. invitation[i].state # "none" /\ invitation[i].role \in InvitedRoles
      BY <2>2 DEF Accepting, InvitationInv, MemberInv
    <3>2. \A j \in Invitations : invitation'[j].role = invitation[j].role
      BY <2>4 DEF TypeOK
    <3>3. invitation'[i].state = "used" /\ u \in admitted'[i]
          /\ \A j \in Invitations : admitted[j] \subseteq admitted'[j]
      BY <2>4 DEF TypeOK
    <3>4. \A j \in Invitations \ {i} : invitation'[j] = invitation[j] /\ admitted'[j] = admitted[j]
      BY <2>4 DEF TypeOK
    <3>5. role'[u] = invitation[i].role /\ \A v \in Users \ {u} : role'[v] = role[v]
      BY <2>4 DEF TypeOK
    <3>6. "owner" \notin InvitedRoles
      BY DEF InvitedRoles
    <3>7. \A v \in Users : \/ role'[v] = "none"
                           \/ role'[v] = "owner" /\ creator' = v
                           \/ role'[v] # "owner" /\ \E j \in Invitations :
                                v \in admitted'[j] /\ invitation'[j].role = role'[v]
      BY <2>1, <3>1, <3>2, <3>3, <3>5, <3>6 DEF MemberInv
    <3>8. QED
      BY <3>1, <3>2, <3>3, <3>4, <3>7 DEF MemberInv
  <2>5. QED
    BY <2>2, <2>3, <2>4
<1>5. ASSUME NEW u \in Users, DeleteUserData(u) PROVE MemberInv'
  BY <1>5 DEF DeleteUserData, MemberInv, TypeOK
<1>6. ASSUME NEW i \in Invitations, Expire(i) PROVE MemberInv'
  <2>1. /\ invitation[i].state = "open"
        /\ invitation' = [invitation EXCEPT ![i].state = "expired"]
        /\ UNCHANGED <<creator, role, admitted>>
    BY <1>6 DEF Expire, historyVars
  <2>2. /\ invitation'[i].state = "expired" /\ invitation'[i].role = invitation[i].role
        /\ \A j \in Invitations \ {i} : invitation'[j] = invitation[j]
    BY <2>1 DEF TypeOK
  <2>3. QED
    BY <2>1, <2>2 DEF MemberInv
<1>7. QED
  BY <1>1, <1>2, <1>3, <1>4, <1>5, <1>6
     DEF Next, vars, tenantVars, historyVars, SignIn, Link, DeleteObservations, InviteMember,
         AcceptInvitation, SetConsent, DecideRun, ApplyEffects, Provision,
         WriteConsent, CommitEffects, Decide, CommitDecision

\* An acceptance that has just read its invitation has found it open.
LEMMA JustRead ==
    ASSUME TypeOK, ThreadInv, [Next]_vars, NEW w \in Threads, NEW i \in Invitations,
           Accepting(w, i)', ~Accepting(w, i)
    PROVE  /\ Others(w) /\ invitation[i].state = "open" /\ UNCHANGED <<invitation, admitted>>
           /\ (\E t \in Threads : Accepting(t, i)) => i \in contested'
<1>1. thread'[w].pc = "accept" /\ thread'[w].arg = i /\ thread'[w] # thread[w]
  BY DEF Accepting
<1>2. PICK u \in Users, j \in Invitations :
        Others(w) /\ AcceptInvitation(w, u, j) /\ thread'[w].arg = j
  BY <1>1, Began
<1>3. AcceptInvitation(w, u, i)
  BY <1>1, <1>2
<1>4. QED
  BY <1>2, <1>3 DEF AcceptInvitation, Acceptable, Accepting, At, tenantVars

\* Whom an invitation admits changes when an acceptance of it is written.
LEMMA AdmittedMoves ==
    ASSUME TypeOK, ThreadInv, [Next]_vars, NEW i \in Invitations,
           admitted'[i] # admitted[i]
    PROVE  \E t \in Threads, u \in Users :
             /\ Accepting(t, i) /\ admitted'[i] = admitted[i] \cup {u}
             /\ invitation'[i].state = "used"
             /\ Others(t) /\ thread'[t].pc = "idle"
<1>1. PICK t \in Threads : Accept(t)
  BY DEF Next, vars, historyVars, SignIn, Link, CreateTenant, DeleteObservations,
         DeleteUserData, InviteMember, AcceptInvitation, SetConsent, DecideRun, ApplyEffects,
         Provision, Invite, WriteConsent, CommitEffects, Decide, CommitDecision, Expire
<1>2. PICK u \in Users, j \in Invitations :
        /\ Accepting(t, j)
        /\ \/ UNCHANGED <<role, invitation, admitted>>
           \/ /\ invitation' = [invitation EXCEPT ![j].state = "used"]
              /\ admitted' = [admitted EXCEPT ![j] = @ \cup {u}]
  BY <1>1, AcceptShape
<1>3. j = i /\ admitted'[i] = admitted[i] \cup {u} /\ invitation'[i].state = "used"
  BY <1>2 DEF TypeOK
<1>4. Others(t) /\ thread'[t].pc = "idle"
  BY <1>1, Left DEF Accept
<1>5. QED
  BY <1>2, <1>3, <1>4

LEMMA InvitationStep ==
    ASSUME TypeOK, ThreadInv, InvitationInv, [Next]_vars
    PROVE  InvitationInv'
<1>1. ASSUME NEW t \in Threads, thread'[t].pc = "accept"
      PROVE  invitation'[thread'[t].arg].state # "none"
  <2>1. thread'[t].arg \in Invitations
    BY <1>1, ThreadStep DEF ThreadInv
  <2> SUFFICES ASSUME NEW i \in Invitations, i = thread'[t].arg
               PROVE  invitation'[i].state # "none"
    BY <2>1
  <2>2. CASE Accepting(t, i)
    BY <2>2, InvitationMoves DEF Accepting, InvitationInv
  <2>3. CASE ~Accepting(t, i)
    BY <1>1, <2>3, JustRead DEF Accepting
  <2>4. QED
    BY <2>2, <2>3
<1>2. ASSUME NEW i \in Invitations, i \notin contested'
      PROVE  Alone(i)' /\ (admitted'[i] = {} \/ Spent(i)')
  <2>1. i \notin contested
    BY <1>2 DEF Next, vars, historyVars, SignIn, Link, CreateTenant, DeleteObservations,
         DeleteUserData, InviteMember, AcceptInvitation, SetConsent, DecideRun, ApplyEffects,
         Provision, Invite, Accept, WriteConsent, CommitEffects, Decide, CommitDecision, Expire
  <2>2. Alone(i) /\ (admitted[i] = {} \/ Spent(i))
    BY <2>1 DEF InvitationInv
  \* The second acceptance of an invitation contests it.
  <2>3. Alone(i)'
    <3>1. ASSUME NEW t \in Threads, NEW w \in Threads, Accepting(t, i)', Accepting(w, i)',
                 ~Accepting(t, i)
          PROVE  t = w
      <4>1. Others(t) /\ ~\E v \in Threads : Accepting(v, i)
        BY <1>2, <3>1, JustRead
      <4>2. QED
        BY <3>1, <4>1 DEF Others, Accepting
    <3>2. QED
      BY <2>2, <3>1 DEF Alone
  <2>4. CASE admitted'[i] # admitted[i]
    <3>1. PICK t \in Threads, u \in Users :
             /\ Accepting(t, i) /\ admitted'[i] = admitted[i] \cup {u}
             /\ invitation'[i].state = "used"
             /\ Others(t) /\ thread'[t].pc = "idle"
      BY <2>4, AdmittedMoves
    <3>2. admitted'[i] = {u}
      BY <2>2, <3>1 DEF Spent
    <3>3. ASSUME NEW w \in Threads PROVE ~Accepting(w, i)'
      <4>1. CASE w = t
        BY <3>1, <4>1 DEF Accepting
      <4>2. CASE w # t
        BY <2>2, <3>1, <4>2 DEF Accepting, Alone, Others
      <4>3. QED
        BY <4>1, <4>2
    <3>4. QED
      BY <2>3, <3>1, <3>2, <3>3 DEF Spent
  <2>5. CASE admitted'[i] = admitted[i] /\ Spent(i)
    <3>1. invitation[i].state = "used" /\ invitation'[i].state = "used"
      BY <2>5, InvitationMoves DEF Spent
    <3>2. \A w \in Threads : ~Accepting(w, i)'
      BY <2>5, <3>1, JustRead DEF Spent
    <3>3. QED
      BY <2>3, <2>5, <3>1, <3>2 DEF Spent
  <2>6. QED
    BY <2>2, <2>3, <2>4, <2>5
<1>3. QED
  BY <1>1, <1>2 DEF InvitationInv

-----------------------------------------------------------------------------
(* Consents                                                                *)

\* Whoever leaves the tenant loses consent at once.
LEMMA RoleMoves ==
    ASSUME TypeOK, ThreadInv, MemberInv, InvitationInv, [Next]_vars, NEW u \in Users,
           role[u] # "none", role'[u] = "none"
    PROVE  DeleteUserData(u)
<1>1. ~\E v \in Users : CreateTenant(v)
  BY DEF CreateTenant, TypeOK
<1>2. ~\E t \in Threads : Accept(t)
  BY AcceptShape DEF TypeOK
<1>3. ASSUME NEW v \in Users, DeleteUserData(v) PROVE u = v
  BY <1>3 DEF DeleteUserData, TypeOK
<1>4. QED
  BY <1>1, <1>2, <1>3
     DEF Next, vars, tenantVars, SignIn, Link, DeleteObservations, InviteMember,
         AcceptInvitation, SetConsent, DecideRun, ApplyEffects, Provision,
         Invite, WriteConsent, CommitEffects, Decide, CommitDecision, Expire

\* Consents change when a request writes one or a user is deleted.
LEMMA ConsentMoves ==
    ASSUME TypeOK, ThreadInv, [Next]_vars, NEW u \in Users, consent'[u] # consent[u]
    PROVE  \/ DeleteUserData(u)
           \/ \E t \in Threads : /\ WriteConsent(t) /\ thread[t].pc = "consent"
                                 /\ thread[t].user = u /\ consent'[u] = thread[t].arg
                                 /\ thread[t].arg \in Choices
<1>1. ASSUME NEW t \in Threads, WriteConsent(t)
      PROVE  /\ thread[t].pc = "consent" /\ thread[t].user = u /\ consent'[u] = thread[t].arg
             /\ thread[t].arg \in Choices
  BY <1>1 DEF WriteConsent, At, ThreadInv, TypeOK
<1>2. ASSUME NEW v \in Users, DeleteUserData(v) PROVE u = v
  BY <1>2 DEF DeleteUserData, Erased, TypeOK
<1>3. QED
  BY <1>1, <1>2
     DEF Next, vars, dataVars, SignIn, Link, CreateTenant, DeleteObservations, InviteMember,
         AcceptInvitation, SetConsent, DecideRun, ApplyEffects, Provision,
         Invite, Accept, CommitEffects, Decide, CommitDecision, Expire

LEMMA ConsentStep ==
    ASSUME TypeOK, ThreadInv, MemberInv, InvitationInv, ConsentInv, [Next]_vars
    PROVE  ConsentInv'
<1>1. overtaken \subseteq overtaken'
  BY DEF Next, vars, historyVars, SignIn, Link, CreateTenant, DeleteObservations,
         DeleteUserData, InviteMember, AcceptInvitation, SetConsent, DecideRun, ApplyEffects,
         Provision, Invite, Accept, WriteConsent, CommitEffects, Decide, CommitDecision, Expire
\* A deletion leaves no request of its user that it does not overtake.
<1>2. ASSUME NEW u \in Users, u \notin overtaken', DeleteUserData(u)
      PROVE  /\ consent'[u] = "none"
             /\ \A t \in Threads : thread'[t].user = u => thread'[t].pc \notin {"consent", "observe"}
  <2>1. thread' = thread /\ consent' = [consent EXCEPT ![u] = "none"]
        /\ ~\E t \in Threads : thread[t].user = u /\ thread[t].pc \in {"consent", "observe"}
    BY <1>2 DEF DeleteUserData, Erased
  <2>2. QED
    BY <2>1 DEF TypeOK
<1>3. ASSUME NEW u \in Users, u \notin overtaken', consent'[u] # "none" PROVE role'[u] # "none"
  <2>1. ~DeleteUserData(u)
    BY <1>2, <1>3
  <2>2. role[u] # "none"
    BY <1>1, <1>3, <2>1, ConsentMoves DEF ConsentInv
  <2>3. QED
    BY <2>1, <2>2, RoleMoves
<1>4. ASSUME NEW t \in Threads, thread'[t].pc = "consent", thread'[t].user \notin overtaken'
      PROVE  role'[thread'[t].user] # "none"
  <2>1. thread'[t].user \in Users
    BY <1>4, ThreadStep DEF ThreadInv
  <2> SUFFICES ASSUME NEW u \in Users, u = thread'[t].user PROVE role'[u] # "none"
    BY <2>1
  <2>2. ~DeleteUserData(u)
    BY <1>2, <1>4
  <2>3. CASE thread'[t] = thread[t]
    BY <1>1, <1>4, <2>2, <2>3, RoleMoves DEF ConsentInv
  <2>4. CASE \E v \in Users, c \in Choices : SetConsent(t, v, c) /\ thread'[t].user = v
    <3>1. role[u] \in Roles
      BY <2>4 DEF SetConsent, Member
    <3>2. QED
      BY <2>2, <3>1, RoleMoves DEF Roles, InvitedRoles
  <2>5. QED
    BY <1>4, <2>3, <2>4, Began
<1>5. ASSUME NEW t \in Threads, thread'[t].pc = "observe", thread'[t].user \notin overtaken'
      PROVE  consent'[thread'[t].user] = "granted"
  <2>1. thread'[t].user \in Users
    BY <1>5, ThreadStep DEF ThreadInv
  <2> SUFFICES ASSUME NEW u \in Users, u = thread'[t].user PROVE consent'[u] = "granted"
    BY <2>1
  <2>2. ~DeleteUserData(u)
    BY <1>2, <1>5
  <2>3. CASE thread'[t] = thread[t]
    <3>1. consent[u] = "granted"
      BY <1>1, <1>5, <2>3 DEF ConsentInv
    <3>2. ASSUME NEW w \in Threads, WriteConsent(w), thread[w].user = u,
                 consent'[u] = thread[w].arg, thread[w].arg \in Choices
          PROVE  consent'[u] = "granted"
      <4>1. Observing(u)
        BY <1>5, <2>3 DEF Observing, At
      <4>2. thread[w].arg # "withdrawn"
        BY <1>5, <3>2, <4>1 DEF WriteConsent, TypeOK
      <4>3. QED
        BY <3>2, <4>2 DEF Choices
    <3>3. QED
      BY <2>2, <3>1, <3>2, ConsentMoves
  <2>4. CASE \E v \in Users : ApplyEffects(t, v) /\ thread'[t].user = v
    BY <2>4 DEF ApplyEffects, HasConsent, dataVars
  <2>5. QED
    BY <1>5, <2>3, <2>4, Began
<1>6. QED
  BY <1>3, <1>4, <1>5 DEF ConsentInv

-----------------------------------------------------------------------------
(* Decisions                                                               *)

\* Decisions and what is heard change when one is committed; what overlapped stays.
LEMMA DecisionMoves ==
    ASSUME TypeOK, ThreadInv, [Next]_vars
    PROVE  /\ overlapped => overlapped'
           /\ UNCHANGED <<decision, heard>> \/ \E t \in Threads : CommitDecision(t)
<1>1. overlapped => overlapped'
  BY DEF Next, vars, historyVars, SignIn, Link, CreateTenant, DeleteObservations,
         DeleteUserData, InviteMember, AcceptInvitation, SetConsent, DecideRun, ApplyEffects,
         Provision, Invite, Accept, WriteConsent, CommitEffects, Decide, CommitDecision, Expire
<1>2. UNCHANGED <<decision, heard>> \/ \E t \in Threads : CommitDecision(t)
  BY DEF Next, vars, dataVars, historyVars, SignIn, Link, CreateTenant, DeleteObservations,
         DeleteUserData, InviteMember, AcceptInvitation, SetConsent, DecideRun, ApplyEffects,
         Provision, Invite, Accept, WriteConsent, CommitEffects, Decide, Expire
<1>3. QED
  BY <1>1, <1>2

LEMMA DecisionStep ==
    ASSUME TypeOK, ThreadInv, DecisionInv, [Next]_vars
    PROVE  DecisionInv'
<1> SUFFICES ASSUME ~overlapped'
             PROVE  /\ \A t, w \in Threads :
                         thread'[t].pc = "decided" /\ thread'[w].pc = "decided" => t = w
                    /\ \A t \in Threads : thread'[t].pc = "decided" =>
                         /\ decision'[thread'[t].user] = "none"
                         /\ \A e \in Decisions :
                              e = thread'[t].arg => thread'[t].outcome = Count(e)'
  BY DEF DecisionInv
<1>1. ~overlapped
  BY DecisionMoves
<1>2. ASSUME NEW t \in Threads, thread'[t].pc = "decided"
      PROVE  \/ thread'[t] = thread[t]
             \/ /\ Others(t) /\ Decide(t) /\ thread[t].pc = "decide"
                /\ thread'[t].user = thread[t].user /\ thread'[t].arg = thread[t].arg
                /\ thread'[t].outcome = Count(thread[t].arg)
                /\ decision[thread[t].user] = "none"
                /\ ~\E w \in Threads : thread[w].pc = "decided"
  BY <1>2, Began DEF At
<1>3. ASSUME NEW t \in Threads, NEW w \in Threads,
             thread'[t].pc = "decided", thread'[w].pc = "decided"
      PROVE  t = w
  <2>1. CASE thread'[t] = thread[t] /\ thread'[w] = thread[w]
    BY <1>1, <1>3, <2>1 DEF DecisionInv
  <2>2. CASE thread'[t] # thread[t]
    BY <1>2, <1>3, <2>2 DEF Others
  <2>3. CASE thread'[w] # thread[w]
    BY <1>2, <1>3, <2>3 DEF Others
  <2>4. QED
    BY <2>1, <2>2, <2>3
<1>4. ASSUME NEW t \in Threads, thread'[t].pc = "decided"
      PROVE  /\ decision'[thread'[t].user] = "none"
             /\ \A e \in Decisions : e = thread'[t].arg => thread'[t].outcome = Count(e)'
  \* The decision of no other request is committed meanwhile.
  <2>1. UNCHANGED decision
    <3>1. ASSUME NEW w \in Threads, CommitDecision(w) PROVE FALSE
      <4>1. thread[w].pc = "decided" /\ thread'[w].pc = "idle" /\ Others(w)
        BY <3>1, Left DEF CommitDecision, At
      <4>2. t # w /\ thread[t].pc = "decided"
        BY <1>4, <4>1 DEF Others
      <4>3. QED
        BY <1>1, <4>1, <4>2 DEF DecisionInv
    <3>2. QED
      BY <3>1, DecisionMoves
  <2>2. \A e \in Decisions : Count(e)' = Count(e)
    BY <2>1 DEF Count, Outcome, Decided
  <2>3. CASE thread'[t] = thread[t]
    BY <1>1, <1>4, <2>1, <2>2, <2>3 DEF DecisionInv
  <2>4. CASE thread'[t] # thread[t]
    BY <1>2, <1>4, <2>1, <2>2, <2>4
  <2>5. QED
    BY <2>3, <2>4
<1>5. QED
  BY <1>3, <1>4

\* The decision that makes enough is counted with those before it.
LEMMA HeardStep ==
    ASSUME TypeOK, ThreadInv, DecisionInv, ThresholdIsHeard, [Next]_vars
    PROVE  ThresholdIsHeard'
<1>1. CASE UNCHANGED <<decision, heard>>
  <2>1. Decided' = Decided
    BY <1>1 DEF Decided
  <2>2. overlapped => overlapped'
    BY DecisionMoves
  <2>3. QED
    BY <1>1, <2>1, <2>2 DEF ThresholdIsHeard
<1>2. ASSUME NEW t \in Threads, CommitDecision(t), ~overlapped',
             Cardinality(Decided') >= Required,
             NEW d \in Positive, \A u \in Decided' : decision'[u] = d
      PROVE  heard' # {}
  <2>1. ~overlapped
    BY <1>2, DecisionMoves
  <2>2. /\ thread[t].pc = "decided" /\ thread[t].user \in Users
        /\ thread[t].arg \in Decisions
    BY <1>2 DEF CommitDecision, At, ThreadInv
  <2> SUFFICES ASSUME NEW u \in Users, u = thread[t].user,
                      NEW e \in Decisions, e = thread[t].arg
               PROVE  heard' # {}
    BY <2>2
  <2>3. decision[u] = "none" /\ thread[t].outcome = Count(e)
    BY <2>1, <2>2 DEF DecisionInv
  <2>4. decision' = [decision EXCEPT ![u] = e] /\ e # "none"
    BY <1>2, PositiveAssumption DEF CommitDecision, Decisions
  <2>5. Decided' = Decided \cup {u} /\ u \notin Decided
    BY <2>3, <2>4 DEF Decided, TypeOK
  <2>6. e = d /\ \A v \in Decided : decision[v] = d
    BY <1>2, <2>4, <2>5 DEF TypeOK
  <2>7. Cardinality(Decided') = Cardinality(Decided) + 1
    <3>1. IsFiniteSet(Decided)
      BY UsersAssumption, FS_Subset DEF Decided
    <3>2. QED
      BY <2>5, <3>1, FS_AddElement
  <2>8. Count(e) = d
    BY <1>2, <2>6, <2>7, Counts
  <2>9. QED
    BY <1>2, <2>3, <2>8 DEF CommitDecision
<1>3. QED
  BY <1>1, <1>2, DecisionMoves DEF ThresholdIsHeard

-----------------------------------------------------------------------------
(* The theorems                                                            *)

LEMMA InvStep ==
    ASSUME IInv, [Next]_vars
    PROVE  IInv'
<1>1. TypeOK' /\ ThreadInv' /\ IdentityInv'
  BY TypeStep, ThreadStep, IdentityStep DEF IInv, Inv
<1>2. MemberInv' /\ InvitationInv' /\ ConsentInv'
  BY MemberStep, InvitationStep, ConsentStep DEF IInv, Inv
<1>3. DecisionInv' /\ ThresholdIsHeard'
  BY DecisionStep, HeardStep DEF IInv, Inv
<1>4. QED
  BY <1>1, <1>2, <1>3 DEF IInv, Inv

\* The invariant that the theorems below rest on: what requests carry, whose each
\* identity, role and consent is, and what a lone decision has been told.
THEOREM AccountsInvariant == Spec => []IInv
<1>1. Init => IInv
  BY TypeInit, InvInit DEF IInv
<1>2. IInv /\ [Next]_vars => IInv'
  BY InvStep
<1>3. QED
  BY <1>1, <1>2, PTL DEF Spec

\* Every variable of the accounts keeps its type.
THEOREM AccountsTyping == Spec => []TypeOK
<1>1. IInv => TypeOK
  BY DEF IInv
<1>2. QED
  BY <1>1, AccountsInvariant, PTL

\* However first sign-ins race (provision_auth_identity), a subject has one
\* account, and no account is left without its subject.
THEOREM OneAccount == Spec => []OneAccountPerSubject
<1>1. ASSUME IInv PROVE OneAccountPerSubject
  <2>1. IdentityInv
    BY <1>1 DEF IInv, Inv
  <2>2. ASSUME NEW u \in accounts
        PROVE  \/ Cardinality({s \in Subjects : identity[s] = u}) = 1
               \/ {s \in Subjects : identity[s] = u} = {} /\ u \in Provisioned
    <3> DEFINE own == {s \in Subjects : identity[s] = u}
    <3>1. u # NoUser
      BY <1>1, NoUserAssumption DEF IInv, TypeOK
    <3>2. ASSUME NEW s \in own PROVE own = {s}
      BY <2>1, <3>1, <3>2 DEF IdentityInv
    <3>3. CASE own = {}
      BY <2>1, <3>3 DEF IdentityInv
    <3>4. CASE own # {}
      BY <3>2, <3>4, FS_Singleton
    <3>5. QED
      BY <3>3, <3>4
  <2>3. QED
    BY <2>1, <2>2 DEF IdentityInv, OneAccountPerSubject
<1>2. QED
  BY <1>1, AccountsInvariant, PTL

\* A member other than the owner holds the role of an invitation it accepted, and
\* an invitation that accept_invitation reads once admits one user.
THEOREM InvitedMembers == Spec => []MembersWereInvited
<1>1. ASSUME IInv PROVE MembersWereInvited
  <2>1. MemberInv /\ InvitationInv
    BY <1>1 DEF IInv, Inv
  <2>2. ASSUME NEW i \in Invitations \ contested PROVE Cardinality(admitted[i]) <= 1
    <3>1. admitted[i] = {} \/ \E u \in Users : admitted[i] = {u}
      BY <2>1 DEF InvitationInv, Spent
    <3>2. Cardinality(admitted[i]) = 0 \/ Cardinality(admitted[i]) = 1
      BY <3>1, FS_EmptySet, FS_Singleton
    <3>3. QED
      BY <3>2
  <2>3. QED
    BY <2>1, <2>2 DEF MemberInv, MembersWereInvited
<1>2. QED
  BY <1>1, AccountsInvariant, PTL

\* After delete_user_data a consent is left only by a request it overtook.
THEOREM ConsentErased == Spec => []ConsentOfMembers
<1>1. IInv => ConsentOfMembers
  BY DEF IInv, Inv, ConsentInv, ConsentOfMembers
<1>2. QED
  BY <1>1, AccountsInvariant, PTL

\* apply_completion_effects leaves an observation only of a user whose consent is
\* still granted when it commits, unless a withdrawal or a deletion came between its
\* look at the consent and the commit.
THEOREM ConsentedObservation == Spec => ObservedWithConsent
<1>1. ASSUME IInv, [Next]_vars, NEW u \in (observed' \ observed) \ overtaken
      PROVE  consent[u] = "granted"
  <2>1. PICK t \in Threads : CommitEffects(t)
    BY <1>1 DEF Next, vars, dataVars, SignIn, Link, CreateTenant, DeleteObservations,
         DeleteUserData, InviteMember, AcceptInvitation, SetConsent, DecideRun, ApplyEffects,
         Provision, Invite, Accept, WriteConsent, Decide, CommitDecision, Expire
  <2>2. u = thread[t].user /\ thread[t].pc = "observe"
    BY <1>1, <2>1 DEF CommitEffects, At
  <2>3. QED
    BY <1>1, <2>2 DEF IInv, Inv, ConsentInv
<1>2. IInv /\ [Next]_vars =>
        [\A u \in (observed' \ observed) \ overtaken : consent[u] = "granted"]_vars
  BY <1>1
<1>3. QED
  BY <1>2, AccountsInvariant, PTL DEF Spec, ObservedWithConsent

\* record_approval_decision tells an approver the outcome that enough equal
\* decisions make, unless two of them were counted at once.
THEOREM ThresholdHeard == Spec => []ThresholdIsHeard
<1>1. IInv => ThresholdIsHeard
  BY DEF IInv, Inv
<1>2. QED
  BY <1>1, AccountsInvariant, PTL

-----------------------------------------------------------------------------
(***************************************************************************)
(* Module MerchantConnection: the connection one of these users has to a   *)
(* merchant, for any number of requests and flows, any bound on            *)
(* generations and any number of deaths.                                   *)
(***************************************************************************)
-----------------------------------------------------------------------------
(* The inductive invariant                                                 *)

\* What the row says of itself: a token is of a grant that was issued, at a
\* generation it has; only a connection, or a revoked one, holds a token; the
\* consent a pending row waits for is the last.
RowInv ==
    /\ row.token # NoToken =>
         /\ row.token.grant \in Flows
         /\ row.token.generation \in 1 .. issued[row.token.grant]
         /\ row.status \in {"connected", "revoked"}
    /\ row.status = "pending" => row.state \in {latest, NoFlow}
    /\ row.status = "connected" /\ row.token # NoToken =>
         row.token.grant = latest \/ swapped

\* The requests that carry a flow, and those that carry a token.
InFlow(r) == request[r].pc \in {"exchange", "complete", "fail"}
Holds(r) == request[r].pc \in {"complete", "refresh", "store"}

\* What a request carries is real: a token of its grant, at a generation issued.
RequestInv ==
    \A r \in Requests :
        /\ InFlow(r) => request[r].flow \in Flows
        /\ Holds(r) =>
             /\ request[r].token.grant \in Flows
             /\ request[r].token.generation \in 1 .. issued[request[r].token.grant]

\* The first token of a flow is in the hands of the request that exchanged its
\* code and nowhere else; a refreshed token is newer than every other one.
Older(token, than) == token.grant = than.grant => token.generation < than.generation

Carries(r) ==
    /\ request[r].pc = "complete" =>
         /\ request[r].token = [grant |-> request[r].flow, generation |-> 1]
         /\ row.token.grant # request[r].flow
         /\ \A q \in Requests \ {r} :
              Holds(q) => request[q].token.grant # request[r].flow
    /\ request[r].pc \in {"complete", "store"} =>
         request[r].token.generation = issued[request[r].token.grant]
    /\ request[r].pc = "store" =>
         /\ row.token # NoToken => Older(row.token, request[r].token)
         /\ \A q \in Requests \ {r} :
              Holds(q) => Older(request[q].token, request[r].token)

CarrierInv == \A r \in Requests : Carries(r)

ConnectionInv == ConnectionTypeOK /\ RowInv /\ RequestInv /\ CarrierInv /\ StoredTokenIsLive

-----------------------------------------------------------------------------
(* Typing                                                                  *)

LEMMA NoRowType == NoToken \in Token /\ NoRow \in Row /\ NoRequest \in Request
BY MaxGenerationAssumption DEF NoToken, Token, NoRow, Row, NoRequest, Request

LEMMA ConnectionTypedAtFirst == ConnectionInit => ConnectionTypeOK
<1> SUFFICES ASSUME ConnectionInit PROVE ConnectionTypeOK
  OBVIOUS
<1>1. row \in Row /\ request \in [Requests -> Request]
  BY NoRowType DEF ConnectionInit
<1>2. issued \in [Flows -> 0 .. MaxGeneration] /\ deaths \in 0 .. MaxDeaths
  BY MaxGenerationAssumption, MaxDeathsAssumption DEF ConnectionInit
<1>3. QED
  BY <1>1, <1>2 DEF ConnectionInit, ConnectionTypeOK

\* What one step of a request leaves of the others.
LEMMA OneRequest ==
    ASSUME NEW r \in Requests, ConnectionTypeOK, NEW new \in Request,
           request' = [request EXCEPT ![r] = new]
    PROVE  /\ request' \in [Requests -> Request]
           /\ request'[r] = new
           /\ \A q \in Requests \ {r} : request'[q] = request[q]
BY DEF ConnectionTypeOK

\* A request that moves on is a request.
LEMMA Moved ==
    ASSUME NEW q \in Request, NEW flow \in Flows \cup {NoFlow}, NEW token \in Token,
           NEW pc \in {"idle", "exchange", "complete", "fail", "refresh", "store", "revoke"}
    PROVE  /\ [q EXCEPT !.pc = pc] \in Request
           /\ [q EXCEPT !.pc = pc, !.flow = flow] \in Request
           /\ [q EXCEPT !.pc = pc, !.token = token] \in Request
BY DEF Request

\* The token a refresh issues.
LEMMA Fresh ==
    ASSUME NEW token \in Token, NEW fresh \in 1 .. MaxGeneration
    PROVE  [token EXCEPT !.generation = fresh] \in Token
BY MaxGenerationAssumption DEF Token

LEMMA ConnectionTypeKept ==
    ASSUME ConnectionTypeOK, RequestInv, [ConnectionNext]_connectionVars
    PROVE  ConnectionTypeOK'
<1> USE NoRowType, NoFlowAssumption, MaxGenerationAssumption, MaxDeathsAssumption
<1>1. CASE UNCHANGED connectionVars
  BY <1>1 DEF connectionVars, ConnectionTypeOK
<1>2. ASSUME NEW f \in Flows, Begin(f) PROVE ConnectionTypeOK'
  BY <1>2 DEF Begin, Restarted, Row, ConnectionTypeOK
<1>3. ASSUME NEW f \in Flows, Lapse(f) PROVE ConnectionTypeOK'
  BY <1>3 DEF Lapse, ConnectionTypeOK
<1>4. ASSUME NEW r \in Requests, NEW f \in Flows, Callback(r, f) PROVE ConnectionTypeOK'
  <2>1. PICK pc \in {"exchange", "fail"} :
          request' = [request EXCEPT ![r] = [request[r] EXCEPT !.pc = pc, !.flow = f]]
    BY <1>4 DEF Callback
  <2>2. [request[r] EXCEPT !.pc = pc, !.flow = f] \in Request
    BY Moved, NoRowType DEF ConnectionTypeOK, NoToken
  <2>3. request' \in [Requests -> Request]
    BY <2>1, <2>2, OneRequest
  <2>4. QED
    BY <1>4, <2>3 DEF Callback, ConnectionTypeOK
<1>5. ASSUME NEW r \in Requests, Exchange(r) PROVE ConnectionTypeOK'
  <2>1. request[r].flow \in Flows
    BY <1>5 DEF Exchange, RequestInv, InFlow
  <2> DEFINE first == [grant |-> request[r].flow, generation |-> 1]
  <2>2. first \in Token
    BY <2>1 DEF Token
  <2>3. request' \in [Requests -> Request]
    <3> HIDE DEF first
    <3>1. \/ request' = [request EXCEPT ![r].pc = "complete", ![r].token = first]
          \/ request' = [request EXCEPT ![r].pc = "fail"]
      BY <1>5 DEF Exchange, first
    <3>2. QED
      BY <2>2, <3>1 DEF ConnectionTypeOK, Request
  <2>4. issued' \in [Flows -> 0 .. MaxGeneration] /\ lost' \subseteq Flows
    BY <1>5, <2>1 DEF Exchange, ConnectionTypeOK
  <2>5. QED
    BY <1>5, <2>3, <2>4 DEF Exchange, ConnectionTypeOK
<1>6. ASSUME NEW r \in Requests, Complete(r) PROVE ConnectionTypeOK'
  <2>1. request[r].token \in Token
    BY DEF ConnectionTypeOK, Request
  <2>2. row' \in Row /\ swapped' \in BOOLEAN
    <3>1. CASE MayComplete(request[r].flow)
      <4>1. /\ row' = [status |-> "connected", token |-> request[r].token, state |-> NoFlow]
            /\ swapped' = FALSE
        BY <1>6, <3>1 DEF Complete
      <4>2. QED
        BY <2>1, <4>1 DEF Row
    <3>2. CASE ~MayComplete(request[r].flow)
      BY <1>6, <3>2 DEF Complete, ConnectionTypeOK
    <3>3. QED
      BY <3>1, <3>2
  <2>3. request' \in [Requests -> Request]
    BY <1>6, OneRequest DEF Complete, Ends
  <2>4. QED
    BY <1>6, <2>2, <2>3 DEF Complete, ConnectionTypeOK
<1>7. ASSUME NEW r \in Requests, Fail(r) PROVE ConnectionTypeOK'
  <2>1. request' \in [Requests -> Request]
    BY <1>7, OneRequest DEF Fail, Ends
  <2>2. row' \in Row
    BY <1>7 DEF Fail, ConnectionTypeOK, Row
  <2>3. QED
    BY <1>7, <2>1, <2>2 DEF Fail, ConnectionTypeOK
<1>8. ASSUME NEW r \in Requests, Use(r) PROVE ConnectionTypeOK'
  BY <1>8 DEF Use, ConnectionTypeOK, Row, Request
<1>9. ASSUME NEW r \in Requests, Refresh(r) PROVE ConnectionTypeOK'
  <2> DEFINE g == request[r].token.grant
             fresh == request[r].token.generation + 1
  <2>1. g \in Flows /\ fresh \in Nat
    BY <1>9 DEF ConnectionTypeOK, Request, Token, RequestInv, Holds, Refresh
  <2>2. issued' \in [Flows -> 0 .. MaxGeneration] /\ lost' \subseteq Flows
    <3> HIDE DEF fresh, g
    <3>1. \/ fresh <= MaxGeneration /\ issued' = [issued EXCEPT ![g] = fresh]
          \/ issued' = issued
      BY <1>9 DEF Refresh, fresh, g
    <3>2. lost' = lost \/ lost' = lost \cup {g}
      BY <1>9 DEF Refresh, fresh, g
    <3>3. QED
      BY <2>1, <3>1, <3>2 DEF ConnectionTypeOK
  <2>3. request' \in [Requests -> Request]
    <3>1. CASE Ends(r)
      BY <3>1, OneRequest DEF Ends
    <3>2. CASE /\ fresh <= MaxGeneration
               /\ request' = [request EXCEPT ![r].pc = "store",
                                             ![r].token.generation = fresh]
      <4> DEFINE token == [request[r].token EXCEPT !.generation = fresh]
      <4>1. token \in Token
        BY <2>1, <3>2, Fresh DEF ConnectionTypeOK, Request
      <4>2. request' = [request EXCEPT ![r] = [request[r] EXCEPT !.pc = "store", !.token = token]]
        BY <3>2 DEF ConnectionTypeOK, Request, Token
      <4>3. [request[r] EXCEPT !.pc = "store", !.token = token] \in Request
        BY <4>1, Moved DEF ConnectionTypeOK
      <4>4. QED
        BY <4>2, <4>3, OneRequest
    <3>3. QED
      BY <1>9, <3>1, <3>2 DEF Refresh
  <2>4. QED
    BY <1>9, <2>2, <2>3 DEF Refresh, ConnectionTypeOK
<1>10. ASSUME NEW r \in Requests, Store(r) PROVE ConnectionTypeOK'
  <2>1. request[r].token \in Token
    BY DEF ConnectionTypeOK, Request
  <2>2. row' \in Row /\ swapped' \in BOOLEAN
    <3>1. CASE Storable
      BY <1>10, <2>1, <3>1 DEF Store, ConnectionTypeOK, Row
    <3>2. CASE ~Storable
      BY <1>10, <3>2 DEF Store, ConnectionTypeOK
    <3>3. QED
      BY <3>1, <3>2
  <2>3. request' \in [Requests -> Request]
    BY <1>10, OneRequest DEF Store, Ends
  <2>4. QED
    BY <1>10, <2>2, <2>3 DEF Store, ConnectionTypeOK
<1>11. ASSUME NEW r \in Requests, RevokeLoad(r) PROVE ConnectionTypeOK'
  BY <1>11 DEF RevokeLoad, ConnectionTypeOK, Request
<1>12. ASSUME NEW r \in Requests, RevokeCommit(r) PROVE ConnectionTypeOK'
  <2>1. request' \in [Requests -> Request]
    BY <1>12, OneRequest DEF RevokeCommit, Ends
  <2>2. row' \in Row
    BY <1>12 DEF RevokeCommit, Written, ConnectionTypeOK, Row
  <2>3. QED
    BY <1>12, <2>1, <2>2 DEF RevokeCommit, ConnectionTypeOK
<1>13. ASSUME NEW r \in Requests, Die(r) PROVE ConnectionTypeOK'
  <2>1. request' \in [Requests -> Request]
    BY <1>13, OneRequest DEF Die, Ends
  <2>2. lost' \subseteq Flows
    BY <1>13 DEF Die, ConnectionTypeOK, RequestInv, Holds
  <2>3. deaths' \in 0 .. MaxDeaths
    BY <1>13 DEF Die, ConnectionTypeOK
  <2>4. QED
    BY <1>13, <2>1, <2>2, <2>3 DEF Die, ConnectionTypeOK
<1>14. QED
  BY <1>1, <1>2, <1>3, <1>4, <1>5, <1>6, <1>7, <1>8, <1>9, <1>10, <1>11, <1>12,
     <1>13 DEF ConnectionNext

-----------------------------------------------------------------------------
(* The invariant                                                           *)

LEMMA ConnectionInvAtFirst == ConnectionInit => RowInv /\ RequestInv /\ CarrierInv /\ StoredTokenIsLive
BY DEF ConnectionInit, NoRow, NoToken, NoRequest, RowInv, RequestInv, CarrierInv, Carries, StoredTokenIsLive, InFlow,
       Holds

\* A step that moves one request, which then holds no token and keeps its flow at
\* most, and leaves row and grants, keeps what is said of row and tokens.
LEMMA LetsGo ==
    ASSUME ConnectionTypeOK, RowInv, RequestInv, CarrierInv, NEW r \in Requests,
           UNCHANGED <<row, issued, latest, swapped>>,
           \A q \in Requests \ {r} : request'[q] = request[q],
           ~Holds(r)', InFlow(r)' => request'[r].flow \in Flows
    PROVE  RowInv' /\ RequestInv' /\ CarrierInv'
<1>1. RowInv'
  BY DEF RowInv, NoToken
<1>2. RequestInv'
  BY DEF RequestInv, InFlow, Holds
<1>3. CarrierInv'
  BY DEF CarrierInv, Carries, Holds, Older, NoToken
<1>4. QED
  BY <1>1, <1>2, <1>3

\* Every step keeps what the row, the requests and the tokens say of each other.
LEMMA StepInv ==
    ASSUME ConnectionInv, [ConnectionNext]_connectionVars
    PROVE  RowInv' /\ RequestInv' /\ CarrierInv' /\ StoredTokenIsLive'
<1> USE NoFlowAssumption
<1>t. ConnectionTypeOK /\ RowInv /\ RequestInv /\ CarrierInv /\ StoredTokenIsLive
  BY DEF ConnectionInv
<1>1. CASE UNCHANGED connectionVars
  BY <1>1, <1>t DEF connectionVars, RowInv, RequestInv, CarrierInv, Carries, StoredTokenIsLive, InFlow, Holds,
     Older, NoToken
<1>2. ASSUME NEW f \in Flows, Begin(f)
      PROVE  RowInv' /\ RequestInv' /\ CarrierInv' /\ StoredTokenIsLive'
  <2>1. /\ row'.status = "pending" /\ row'.token = NoToken /\ row'.state = f
        /\ latest' = f /\ UNCHANGED <<issued, request>>
    BY <1>2 DEF Begin, Restarted
  <2>2. RowInv' /\ StoredTokenIsLive'
    BY <2>1 DEF RowInv, StoredTokenIsLive, NoToken
  <2>3. RequestInv'
    BY <1>t, <2>1 DEF RequestInv, InFlow, Holds
  <2>4. CarrierInv'
    BY <1>t, <2>1 DEF CarrierInv, Carries, RequestInv, Holds, Older, NoToken, InFlow
  <2>5. QED
    BY <2>2, <2>3, <2>4
<1>3. ASSUME NEW f \in Flows, Lapse(f)
      PROVE  RowInv' /\ RequestInv' /\ CarrierInv' /\ StoredTokenIsLive'
  BY <1>3, <1>t DEF Lapse, RowInv, RequestInv, CarrierInv, Carries, StoredTokenIsLive, InFlow, Holds,
     Older, NoToken
<1>4. ASSUME NEW r \in Requests, NEW f \in Flows, Callback(r, f)
      PROVE  RowInv' /\ RequestInv' /\ CarrierInv' /\ StoredTokenIsLive'
  <2>1. PICK pc \in {"exchange", "fail"} :
          request' = [request EXCEPT ![r] = [request[r] EXCEPT !.pc = pc, !.flow = f]]
    BY <1>4 DEF Callback
  <2>2. request'[r] = [request[r] EXCEPT !.pc = pc, !.flow = f]
    BY <1>t, <2>1 DEF ConnectionTypeOK
  <2>3. request'[r].pc = pc /\ request'[r].flow = f
    BY <1>t, <2>2 DEF ConnectionTypeOK, Request
  <2>4. /\ \A q \in Requests \ {r} : request'[q] = request[q]
        /\ request[r].pc = "idle" /\ UNCHANGED <<row, issued, latest, swapped, lost>>
    BY <1>4, <1>t, <2>1 DEF Callback, ConnectionTypeOK, NoRequest
  <2>5. RowInv' /\ RequestInv' /\ CarrierInv'
    <3>1. ~Holds(r)' /\ (InFlow(r)' => request'[r].flow \in Flows)
      BY <2>1, <2>3 DEF Holds
    <3>2. QED
      BY <1>t, <2>4, <3>1, LetsGo
  <2>6. StoredTokenIsLive'
    BY <1>t, <2>3, <2>4 DEF StoredTokenIsLive, NoToken
  <2>7. QED
    BY <2>5, <2>6
<1>5. ASSUME NEW r \in Requests, Exchange(r)
      PROVE  RowInv' /\ RequestInv' /\ CarrierInv' /\ StoredTokenIsLive'
  <2> DEFINE f == request[r].flow
             first == [grant |-> f, generation |-> 1]
  <2>1. f \in Flows /\ UNCHANGED <<row, latest, swapped>> /\ request[r].pc = "exchange"
    BY <1>5, <1>t DEF Exchange, RequestInv, InFlow
  <2>2. CASE /\ issued' = issued /\ lost' = lost
             /\ request' = [request EXCEPT ![r].pc = "fail"]
    <3>1. /\ request'[r].pc = "fail" /\ request'[r].flow = f
          /\ \A q \in Requests \ {r} : request'[q] = request[q]
      BY <1>t, <2>2 DEF ConnectionTypeOK, Request
    <3>2. RowInv' /\ RequestInv' /\ CarrierInv'
      <4>1. ~Holds(r)' /\ (InFlow(r)' => request'[r].flow \in Flows)
        BY <2>1, <3>1 DEF Holds
      <4>2. QED
        BY <1>t, <2>1, <2>2, <3>1, <4>1, LetsGo
    <3>3. StoredTokenIsLive'
      BY <1>t, <2>1, <2>2, <3>1 DEF StoredTokenIsLive, NoToken
    <3>4. QED
      BY <3>2, <3>3
  <2>3. CASE /\ issued[f] = 0 /\ issued' = [issued EXCEPT ![f] = 1]
             /\ \/ /\ request' = [request EXCEPT ![r].pc = "complete", ![r].token = first]
                   /\ lost' = lost
                \/ /\ request' = [request EXCEPT ![r].pc = "fail"]
                   /\ lost' = lost \cup {f}
    <3>1. /\ issued'[f] = 1 /\ \A g \in Flows \ {f} : issued'[g] = issued[g]
          /\ lost \subseteq lost'
      BY <1>t, <2>1, <2>3 DEF ConnectionTypeOK
    <3>2. /\ \A q \in Requests \ {r} : request'[q] = request[q]
          /\ request'[r].flow = f
          /\ \/ request'[r].pc = "complete" /\ request'[r].token = first
             \/ request'[r].pc = "fail"
      <4> HIDE DEF first
      <4>1. QED
        BY <1>t, <2>3 DEF ConnectionTypeOK, Request
    \* No token of the grant is anywhere yet.
    <3>3. row.token # NoToken => row.token.grant \in Flows /\ row.token.grant # f
      BY <1>t, <2>3 DEF RowInv, ConnectionTypeOK
    <3>4. row.token.grant # f
      BY <2>1, <3>3 DEF NoToken
    <3>5. \A q \in Requests : Holds(q) => request[q].token.grant \in Flows \ {f}
      BY <1>t, <2>3 DEF RequestInv, ConnectionTypeOK
    <3>6. RowInv'
      BY <1>t, <2>1, <3>1, <3>3 DEF RowInv, NoToken
    <3>7. RequestInv'
      BY <1>t, <2>1, <3>1, <3>2, <3>5 DEF RequestInv, InFlow, Holds
    <3>8. CarrierInv'
      <4>1. ASSUME NEW p \in Requests \ {r} PROVE Carries(p)'
        BY <1>t, <2>1, <3>1, <3>2, <3>5 DEF CarrierInv, Carries, Holds, Older, NoToken
      <4>2. Carries(r)'
        BY <2>1, <3>1, <3>2, <3>4, <3>5 DEF Carries, Holds
      <4>3. QED
        BY <4>1, <4>2 DEF CarrierInv
    <3>9. StoredTokenIsLive'
      BY <1>t, <2>1, <3>1, <3>2, <3>3 DEF StoredTokenIsLive, NoToken
    <3>10. QED
      BY <3>6, <3>7, <3>8, <3>9
  <2>4. QED
    BY <1>5, <2>2, <2>3 DEF Exchange
<1>6. ASSUME NEW r \in Requests, Complete(r)
      PROVE  RowInv' /\ RequestInv' /\ CarrierInv' /\ StoredTokenIsLive'
  <2> DEFINE f == request[r].flow
             token == request[r].token
  <2>1. /\ request[r].pc = "complete" /\ UNCHANGED <<issued, latest, lost>>
        /\ request' = [request EXCEPT ![r] = NoRequest]
    BY <1>6 DEF Complete, Ends
  <2>2. /\ request'[r].pc = "idle"
        /\ \A q \in Requests \ {r} : request'[q] = request[q]
    BY <1>t, <2>1, NoRowType, OneRequest DEF NoRequest
  <2>3. /\ f \in Flows /\ token = [grant |-> f, generation |-> 1] /\ issued[f] = 1
        /\ \A q \in Requests \ {r} : Holds(q) => request[q].token.grant # f
    BY <1>t, <2>1 DEF RequestInv, InFlow, CarrierInv, Carries
  <2>4. ~Holds(r)' /\ ~InFlow(r)'
    BY <2>2 DEF Holds, InFlow
  <2>5. RequestInv'
    BY <1>t, <2>1, <2>2, <2>4 DEF RequestInv, Holds, InFlow
  <2>6. CASE MayComplete(f)
    <3>1. row' = [status |-> "connected", token |-> token, state |-> NoFlow] /\ swapped' = FALSE
      BY <1>6, <2>6 DEF Complete
    <3>2. /\ row'.status = "connected" /\ row'.token = token /\ row'.token.grant = f
          /\ row'.token.generation = 1
      BY <2>3, <3>1
    <3>3. f = latest
      BY <1>t, <2>3, <2>6 DEF RowInv, MayComplete, Pending
    <3>4. RowInv'
      BY <2>1, <2>3, <3>2, <3>3 DEF RowInv
    <3>5. StoredTokenIsLive'
      BY <2>1, <2>3, <3>2 DEF StoredTokenIsLive
    <3>6. CarrierInv'
      <4>1. ASSUME NEW p \in Requests \ {r} PROVE Carries(p)'
        BY <1>t, <2>1, <2>2, <2>3, <2>4, <3>2
           DEF CarrierInv, Carries, Holds, Older
      <4>2. QED
        BY <2>2, <4>1 DEF CarrierInv, Carries
    <3>7. QED
      BY <2>5, <3>4, <3>5, <3>6
  <2>7. CASE ~MayComplete(f)
    <3>1. UNCHANGED <<row, swapped>>
      BY <1>6, <2>7 DEF Complete
    <3>2. RowInv' /\ CarrierInv'
      BY <1>t, <2>1, <2>2, <2>4, <3>1, LetsGo
    <3>3. StoredTokenIsLive'
      BY <1>t, <2>1, <2>2, <3>1 DEF StoredTokenIsLive, NoToken
    <3>4. QED
      BY <2>5, <3>2, <3>3
  <2>8. QED
    BY <2>6, <2>7
<1>7. ASSUME NEW r \in Requests, Fail(r)
      PROVE  RowInv' /\ RequestInv' /\ CarrierInv' /\ StoredTokenIsLive'
  <2>1. /\ request[r].pc = "fail" /\ UNCHANGED <<issued, latest, swapped, lost>>
        /\ request' = [request EXCEPT ![r] = NoRequest]
    BY <1>7 DEF Fail, Ends
  <2>2. /\ request'[r].pc = "idle"
        /\ \A q \in Requests \ {r} : request'[q] = request[q]
    BY <1>t, <2>1, NoRowType, OneRequest DEF NoRequest
  <2>3. ~Holds(r)' /\ ~InFlow(r)'
    BY <2>2 DEF Holds, InFlow
  <2>4. CASE row' = row
    <3>1. RowInv' /\ RequestInv' /\ CarrierInv'
      BY <1>t, <2>1, <2>2, <2>3, <2>4, LetsGo
    <3>2. StoredTokenIsLive'
      BY <1>t, <2>1, <2>2, <2>4 DEF StoredTokenIsLive, NoToken
    <3>3. QED
      BY <3>1, <3>2
  <2>5. CASE row.status = "pending" /\ row' = [row EXCEPT !.status = "error", !.state = NoFlow]
    <3>1. row.token = NoToken
      BY <1>t, <2>5 DEF RowInv
    <3>2. row'.token = NoToken /\ row'.status = "error"
      BY <1>t, <2>5, <3>1 DEF ConnectionTypeOK, Row
    <3>3. RowInv' /\ StoredTokenIsLive'
      BY <3>2 DEF RowInv, StoredTokenIsLive, NoToken
    <3>4. RequestInv'
      BY <1>t, <2>1, <2>2, <2>3 DEF RequestInv, Holds, InFlow
    <3>5. CarrierInv'
      BY <1>t, <2>1, <2>2, <2>3, <3>1, <3>2 DEF CarrierInv, Carries, Holds, Older, NoToken
    <3>6. QED
      BY <3>3, <3>4, <3>5
  <2>6. QED
    BY <1>7, <2>4, <2>5 DEF Fail, Pending
<1>8. ASSUME NEW r \in Requests, Use(r)
      PROVE  RowInv' /\ RequestInv' /\ CarrierInv' /\ StoredTokenIsLive'
  <2>1. /\ request[r].pc = "idle" /\ row.token # NoToken
        /\ UNCHANGED <<row, issued, latest, swapped, lost>>
        /\ request' = [request EXCEPT ![r] = [request[r] EXCEPT !.pc = "refresh",
                                                                !.token = row.token]]
    <3>1. request[r].pc = "idle"
      BY <1>8 DEF Use, NoRequest
    <3>2. QED
      BY <1>8, <3>1 DEF Use
  <2>2. request'[r] = [request[r] EXCEPT !.pc = "refresh", !.token = row.token]
    BY <1>t, <2>1 DEF ConnectionTypeOK
  <2>3. /\ request'[r].pc = "refresh" /\ request'[r].token = row.token
        /\ \A q \in Requests \ {r} : request'[q] = request[q]
    BY <1>t, <2>1, <2>2 DEF ConnectionTypeOK, Request
  <2>4. RowInv' /\ StoredTokenIsLive'
    BY <1>t, <2>1, <2>3 DEF RowInv, StoredTokenIsLive, NoToken
  <2>5. RequestInv'
    BY <1>t, <2>1, <2>3 DEF RowInv, RequestInv, Holds, InFlow
  <2>6. CarrierInv'
    <3>1. ASSUME NEW p \in Requests \ {r} PROVE Carries(p)'
      BY <1>t, <2>1, <2>3 DEF CarrierInv, Carries, Holds, Older, NoToken
    <3>2. QED
      BY <2>3, <3>1 DEF CarrierInv, Carries
  <2>7. QED
    BY <2>4, <2>5, <2>6
<1>9. ASSUME NEW r \in Requests, Refresh(r)
      PROVE  RowInv' /\ RequestInv' /\ CarrierInv' /\ StoredTokenIsLive'
  <2> DEFINE g == request[r].token.grant
             fresh == request[r].token.generation + 1
  <2>1. /\ g \in Flows /\ request[r].token.generation \in 1 .. issued[g]
        /\ UNCHANGED <<row, latest, swapped>> /\ request[r].pc = "refresh"
    BY <1>9, <1>t DEF Refresh, RequestInv, Holds
  <2>2. CASE Ends(r) /\ issued' = issued /\ lost' = lost
    <3>1. /\ request'[r].pc = "idle"
          /\ \A q \in Requests \ {r} : request'[q] = request[q]
      BY <1>t, <2>2, NoRowType, OneRequest DEF Ends, NoRequest
    <3>2. ~Holds(r)' /\ ~InFlow(r)'
      BY <3>1 DEF Holds, InFlow
    <3>3. RowInv' /\ RequestInv' /\ CarrierInv'
      BY <1>t, <2>1, <2>2, <3>1, <3>2, LetsGo
    <3>4. StoredTokenIsLive'
      BY <1>t, <2>1, <2>2, <3>1 DEF StoredTokenIsLive, NoToken
    <3>5. QED
      BY <3>3, <3>4
  <2>3. CASE /\ fresh = issued[g] + 1 /\ issued' = [issued EXCEPT ![g] = fresh]
             /\ \/ /\ request' = [request EXCEPT ![r].pc = "store", ![r].token.generation = fresh]
                   /\ lost' = lost
                \/ Ends(r) /\ lost' = lost \cup {g}
    <3>1. /\ issued'[g] = issued[g] + 1 /\ issued[g] \in Nat
          /\ \A h \in Flows \ {g} : issued'[h] = issued[h]
          /\ lost \subseteq lost'
      BY <1>t, <2>1, <2>3 DEF ConnectionTypeOK
    <3>2. /\ \A q \in Requests \ {r} : request'[q] = request[q]
          /\ \/ /\ request'[r].pc = "store" /\ request'[r].token.grant = g
                /\ request'[r].token.generation = issued'[g]
             \/ request'[r].pc = "idle" /\ g \in lost'
      <4>1. CASE Ends(r) /\ lost' = lost \cup {g}
        BY <1>t, <4>1, NoRowType, OneRequest DEF Ends, NoRequest
      <4>2. CASE request' = [request EXCEPT ![r].pc = "store", ![r].token.generation = fresh]
        <5>1. /\ request'[r].pc = "store" /\ request'[r].token.grant = g
              /\ request'[r].token.generation = fresh
              /\ \A q \in Requests \ {r} : request'[q] = request[q]
          <6> HIDE DEF fresh
          <6>1. QED
            BY <1>t, <4>2 DEF ConnectionTypeOK, Request, Token
        <5>2. QED
          BY <2>3, <3>1, <5>1
      <4>3. QED
        BY <2>3, <4>1, <4>2
    \* Nobody holds a newer token of the grant: a store under way would.
    <3>3. \A q \in Requests : Holds(q) /\ request[q].token.grant = g =>
            request[q].token.generation \in 1 .. issued[g]
      BY <1>t DEF RequestInv
    <3>4. \A q \in Requests : request[q].pc \in {"store", "complete"} => request[q].token.grant # g
      <4> SUFFICES ASSUME NEW q \in Requests, request[q].pc \in {"store", "complete"},
                          request[q].token.grant = g
                   PROVE  FALSE
        OBVIOUS
      <4>1. Carries(q) /\ Holds(r) /\ q # r
        BY <1>t, <2>1 DEF CarrierInv, Holds
      <4>2. request[r].token.generation = issued[g] /\ request[q].token.generation = issued[g]
        BY <2>1, <2>3, <3>1, <4>1 DEF Carries
      <4>3. CASE request[q].pc = "store"
        BY <2>1, <3>1, <4>1, <4>2, <4>3 DEF Carries, Older
      <4>4. CASE request[q].pc = "complete"
        BY <4>1, <4>4 DEF Carries
      <4>5. QED
        BY <4>3, <4>4
    <3>5. RowInv'
      BY <1>t, <2>1, <3>1 DEF RowInv, NoToken
    <3>6. RequestInv'
      BY <1>t, <2>1, <3>1, <3>2 DEF RequestInv, Holds, InFlow
    <3>7. CarrierInv'
      <4>1. ASSUME NEW p \in Requests \ {r} PROVE Carries(p)'
        BY <1>t, <2>1, <3>1, <3>2, <3>4 DEF CarrierInv, Carries, RequestInv, Holds, Older, NoToken
      <4>2. Carries(r)'
        BY <1>t, <2>1, <3>1, <3>2, <3>3 DEF RowInv, Carries, Holds, Older, NoToken
      <4>3. QED
        BY <4>1, <4>2 DEF CarrierInv
    <3>8. StoredTokenIsLive'
      BY <1>t, <2>1, <3>1, <3>2 DEF RowInv, StoredTokenIsLive, NoToken
    <3>9. QED
      BY <3>5, <3>6, <3>7, <3>8
  <2>4. QED
    BY <1>9, <2>2, <2>3 DEF Refresh
<1>10. ASSUME NEW r \in Requests, Store(r)
      PROVE  RowInv' /\ RequestInv' /\ CarrierInv' /\ StoredTokenIsLive'
  <2> DEFINE token == request[r].token
             g == token.grant
  <2>1. /\ request[r].pc = "store" /\ UNCHANGED <<issued, latest, lost>>
        /\ request' = [request EXCEPT ![r] = NoRequest]
    BY <1>10 DEF Store, Ends
  <2>2. /\ request'[r].pc = "idle"
        /\ \A q \in Requests \ {r} : request'[q] = request[q]
    BY <1>t, <2>1, NoRowType, OneRequest DEF NoRequest
  <2>3. ~Holds(r)' /\ ~InFlow(r)'
    BY <2>2 DEF Holds, InFlow
  <2>4. RequestInv'
    BY <1>t, <2>1, <2>2, <2>3 DEF RequestInv, Holds, InFlow
  <2>5. /\ g \in Flows /\ token.generation \in 1 .. issued[g]
        /\ token.generation = issued[g] /\ Holds(r)
    BY <1>t, <2>1 DEF RequestInv, Holds, CarrierInv, Carries
  <2>6. CASE Storable
    <3>1. /\ row' = [row EXCEPT !.token = token]
          /\ swapped' = (swapped \/ row.token.grant # g)
          /\ row.status = "connected"
      BY <1>10, <2>6 DEF Store, Storable
    <3>2. row'.token = token /\ row'.status = "connected" /\ row'.state = row.state
      BY <1>t, <3>1 DEF ConnectionTypeOK, Row
    <3>3. RowInv'
      <4>1. g = latest \/ swapped'
        <5>1. CASE row.token.grant # g
          BY <3>1, <5>1
        <5>2. CASE row.token.grant = g
          <6>1. row.token # NoToken
            BY <2>5, <5>2 DEF NoToken
          <6>2. g = latest \/ swapped
            BY <1>t, <3>1, <5>2, <6>1 DEF RowInv
          <6>3. QED
            BY <3>1, <6>2
        <5>3. QED
          BY <5>1, <5>2
      <4>2. QED
        BY <2>1, <2>5, <3>2, <4>1 DEF RowInv
    <3>4. StoredTokenIsLive'
      BY <2>1, <2>5, <3>2 DEF StoredTokenIsLive
    <3>5. CarrierInv'
      <4>1. ASSUME NEW p \in Requests \ {r} PROVE Carries(p)'
        <5>1. Carries(p) /\ request'[p] = request[p]
          BY <1>t, <2>2 DEF CarrierInv
        <5>2. request[p].pc = "complete" => row'.token.grant # request[p].flow
          BY <2>5, <3>2, <5>1 DEF Carries
        <5>3. request[p].pc = "store" => Older(row'.token, request[p].token)
          BY <2>5, <3>2, <5>1 DEF Carries
        <5>4. \A q \in Requests : Holds(q)' => Holds(q) /\ request'[q] = request[q]
          BY <2>2, <2>3 DEF Holds
        <5>5. QED
          BY <2>1, <5>1, <5>2, <5>3, <5>4 DEF Carries, Older
      <4>2. QED
        BY <2>2, <4>1 DEF CarrierInv, Carries
    <3>6. QED
      BY <2>4, <3>3, <3>4, <3>5
  <2>7. CASE ~Storable
    <3>1. UNCHANGED <<row, swapped>> /\ row.status # "connected"
      BY <1>10, <2>7 DEF Store, Storable
    <3>2. RowInv' /\ CarrierInv'
      BY <1>t, <2>1, <2>2, <2>3, <3>1, LetsGo
    <3>3. StoredTokenIsLive'
      BY <3>1 DEF StoredTokenIsLive
    <3>4. QED
      BY <2>4, <3>2, <3>3
  <2>8. QED
    BY <2>6, <2>7
<1>11. ASSUME NEW r \in Requests, RevokeLoad(r)
      PROVE  RowInv' /\ RequestInv' /\ CarrierInv' /\ StoredTokenIsLive'
  <2>1. request' = [request EXCEPT ![r] = [request[r] EXCEPT !.pc = "revoke", !.loaded = row]]
    BY <1>11 DEF RevokeLoad
  <2>2. request'[r] = [request[r] EXCEPT !.pc = "revoke", !.loaded = row]
    BY <1>t, <2>1 DEF ConnectionTypeOK
  <2>3. request'[r].pc = "revoke"
    BY <1>t, <2>2 DEF ConnectionTypeOK, Request
  <2>4. request[r].pc = "idle" /\ UNCHANGED <<row, issued, latest, swapped, lost>>
    BY <1>11 DEF RevokeLoad, NoRequest
  <2>5. \A q \in Requests \ {r} : request'[q] = request[q]
    BY <1>t, <2>1 DEF ConnectionTypeOK
  <2>6. ~Holds(r)' /\ ~InFlow(r)'
    BY <2>3 DEF Holds, InFlow
  <2>7. RowInv' /\ RequestInv' /\ CarrierInv'
    BY <1>t, <2>4, <2>5, <2>6, LetsGo
  <2>8. StoredTokenIsLive'
    BY <1>t, <2>4, <2>5 DEF StoredTokenIsLive, NoToken
  <2>9. QED
    BY <2>7, <2>8
<1>12. ASSUME NEW r \in Requests, RevokeCommit(r)
      PROVE  RowInv' /\ RequestInv' /\ CarrierInv' /\ StoredTokenIsLive'
  <2>1. /\ request[r].pc = "revoke" /\ UNCHANGED <<issued, latest, swapped, lost>>
        /\ request' = [request EXCEPT ![r] = NoRequest]
    BY <1>12 DEF RevokeCommit, Ends
  <2>2. /\ request'[r].pc = "idle"
        /\ \A q \in Requests \ {r} : request'[q] = request[q]
    BY <1>t, <2>1, NoRowType, OneRequest DEF NoRequest
  <2>3. ~Holds(r)' /\ ~InFlow(r)'
    BY <2>2 DEF Holds, InFlow
  <2>4. RequestInv'
    BY <1>t, <2>1, <2>2, <2>3 DEF RequestInv, Holds, InFlow
  \* The status becomes revoked, or it was and stays what it is; the token and
  \* the state are as before or gone.
  <2>5. /\ row'.status \in {"revoked", row.status}
        /\ row'.token \in {row.token, NoToken}
        /\ row'.state \in {row.state, NoFlow}
    BY <1>12 DEF RevokeCommit, Written
  <2>6. RowInv'
    BY <1>t, <2>1, <2>5 DEF RowInv, NoToken
  <2>7. StoredTokenIsLive'
    BY <1>t, <2>1, <2>2, <2>5 DEF StoredTokenIsLive
  <2>8. CarrierInv'
    <3>1. ASSUME NEW p \in Requests \ {r} PROVE Carries(p)'
      BY <1>t, <2>1, <2>2, <2>3, <2>5
         DEF CarrierInv, Carries, RequestInv, InFlow, Holds, Older, NoToken
    <3>2. QED
      BY <2>2, <3>1 DEF CarrierInv, Carries
  <2>9. QED
    BY <2>4, <2>6, <2>7, <2>8
<1>13. ASSUME NEW r \in Requests, Die(r)
      PROVE  RowInv' /\ RequestInv' /\ CarrierInv' /\ StoredTokenIsLive'
  <2>1. /\ UNCHANGED <<row, issued, latest, swapped>>
        /\ lost' = IF request[r].pc \in {"complete", "store"}
                   THEN lost \cup {request[r].token.grant} ELSE lost
        /\ request' = [request EXCEPT ![r] = NoRequest]
    BY <1>13 DEF Die, Ends
  <2>2. /\ request'[r].pc = "idle"
        /\ \A q \in Requests \ {r} : request'[q] = request[q]
    BY <1>t, <2>1, NoRowType, OneRequest DEF NoRequest
  <2>3. ~Holds(r)' /\ ~InFlow(r)'
    BY <2>2 DEF Holds, InFlow
  <2>4. RowInv' /\ RequestInv' /\ CarrierInv'
    BY <1>t, <2>1, <2>2, <2>3, LetsGo
  <2>5. StoredTokenIsLive'
    BY <1>t, <2>1, <2>2 DEF StoredTokenIsLive, NoToken
  <2>6. QED
    BY <2>4, <2>5
<1>14. QED
  BY <1>1, <1>2, <1>3, <1>4, <1>5, <1>6, <1>7, <1>8, <1>9, <1>10, <1>11, <1>12,
     <1>13 DEF ConnectionNext

-----------------------------------------------------------------------------
(* The theorems                                                            *)

\* What the theorems below rest on: every token in the row or in a request was
\* issued, and the newest of a grant that is not yet stored is with one request.
THEOREM ConnectionInvariant == ConnectionSpec => []ConnectionInv
<1>1. ConnectionInit => ConnectionInv
  BY ConnectionTypedAtFirst, ConnectionInvAtFirst DEF ConnectionInv
<1>2. ConnectionInv /\ [ConnectionNext]_connectionVars => ConnectionInv'
  BY ConnectionTypeKept, StepInv DEF ConnectionInv
<1>3. QED
  BY <1>1, <1>2, PTL DEF ConnectionSpec

\* The row of a merchant connection and the requests on it keep their types.
THEOREM ConnectionTyping == ConnectionSpec => []ConnectionTypeOK
<1>1. ConnectionInv => ConnectionTypeOK
  BY DEF ConnectionInv
<1>2. QED
  BY <1>1, ConnectionInvariant, PTL

\* A row that waits for consent, was refused it or failed holds no token
\* (begin_, fail_ and revoke_merchant_connection).
THEOREM NoTokenAtRest == ConnectionSpec => []TokensAtRest
<1>1. ConnectionInv => TokensAtRest
  BY DEF ConnectionInv, RowInv, TokensAtRest
<1>2. QED
  BY <1>1, ConnectionInvariant, PTL

\* A connected row uses a token of the last consent, however callbacks, refreshes
\* and disconnects interleave, unless a refresh of an older grant was stored.
THEOREM LastConsentUsed == ConnectionSpec => []TokenOfLastConsent
<1>1. ConnectionInv => TokenOfLastConsent
  BY DEF ConnectionInv, RowInv, TokenOfLastConsent
<1>2. QED
  BY <1>1, ConnectionInvariant, PTL

\* No interleaving of refreshes leaves a connection with a token that the
\* provider has rotated away, unless the newest was lost on its way.
THEOREM ConnectionLives == ConnectionSpec => []StoredTokenIsLive
<1>1. ConnectionInv => StoredTokenIsLive
  BY DEF ConnectionInv
<1>2. QED
  BY <1>1, ConnectionInvariant, PTL
=============================================================================
