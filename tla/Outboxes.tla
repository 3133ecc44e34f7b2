------------------------------ MODULE Outboxes ------------------------------
(***************************************************************************)
(* The two durable outboxes that speak to people.                          *)
(*                                                                         *)
(* Slack notices (channels/slack_dispatcher.py) are posted at most once: a *)
(* dispatcher claims a pending row, posts it, records the outcome, and     *)
(* nobody ever takes up a row whose outcome is unknown.                    *)
(*                                                                         *)
(* Welcome mails (common/waitlist_email.py) are retried a bounded number   *)
(* of times: a pass claims a batch of rows under a lease, sends them one   *)
(* by one, and a lapsed lease lets another pass send the same row again.   *)
(***************************************************************************)
EXTENDS Integers, FiniteSets

CONSTANTS
    Notices,      \* Teams notifications
    Dispatchers,  \* Slack dispatcher threads
    Leads,        \* waitlist leads
    Mailers,      \* places a delivery pass runs in
    Nobody,       \* "no owner"
    Nothing,      \* "no row in hand"
    Limit,        \* rows one pass may claim (bounded_delivery_settings)
    MaxAttempts   \* RESTOCK_WAITLIST_EMAIL_MAX_ATTEMPTS

ASSUME NobodyAssumption == Nobody \notin Dispatchers \cup Mailers
ASSUME NothingAssumption == Nothing \notin Notices \cup Leads
ASSUME MailersAssumption == IsFiniteSet(Mailers)
ASSUME LimitAssumption == Limit \in Nat \ {0}
ASSUME MaxAttemptsAssumption == MaxAttempts \in Nat \ {0}

VARIABLES
    slack,      \* the slack_deliveries rows
    posted,     \* chat_postMessage calls made for each notice
    shown,      \* notices visible in the channel
    dispatcher, \* what each dispatcher has in hand
    mail,       \* the waitlist_welcome_emails rows
    requested,  \* provider requests made for each lead
    accepted,   \* leads whose mail the provider took
    mailer      \* where the pass of each mailer is

slackVars == <<slack, posted, shown, dispatcher>>
mailVars == <<mail, requested, accepted, mailer>>
vars == <<slackVars, mailVars>>

Answers == {"none", "ok", "error", "disabled"}

Notice == [status : {"absent", "pending", "sending", "sent", "failed_ambiguous"},
           owner : Dispatchers \cup {Nobody}]
Delivery == [status : {"absent", "pending", "sending", "sent", "failed"},
             attempts : 0 .. MaxAttempts, owner : Mailers \cup {Nobody},
             leased : BOOLEAN]
\* A pass: the claimed rows it has still to send, the one in hand, its answer.
Pass == [todo : SUBSET Leads, hand : Leads \cup {Nothing}, answer : Answers]

Free == [hand |-> Nothing, answer |-> "none"]
NoPass == [todo |-> {}, hand |-> Nothing, answer |-> "none"]

TypeOK ==
    /\ slack \in [Notices -> Notice]
    /\ posted \in [Notices -> Nat]
    /\ shown \subseteq Notices
    /\ dispatcher \in [Dispatchers -> [hand : Notices \cup {Nothing},
                                       answer : Answers]]
    /\ mail \in [Leads -> Delivery]
    /\ requested \in [Leads -> Nat]
    /\ accepted \subseteq Leads
    /\ mailer \in [Mailers -> Pass]

Init ==
    /\ slack = [n \in Notices |-> [status |-> "absent", owner |-> Nobody]]
    /\ posted = [n \in Notices |-> 0]
    /\ shown = {}
    /\ dispatcher = [d \in Dispatchers |-> Free]
    /\ mail = [l \in Leads |-> [status |-> "absent", attempts |-> 0,
                                owner |-> Nobody, leased |-> FALSE]]
    /\ requested = [l \in Leads |-> 0]
    /\ accepted = {}
    /\ mailer = [m \in Mailers |-> NoPass]

-----------------------------------------------------------------------------
(* Slack: at most one post.                                                *)

\* create_notification: the notice and its delivery row in one transaction.
Notify(n) ==
    /\ slack[n].status = "absent"
    /\ slack' = [slack EXCEPT ![n].status = "pending"]
    /\ UNCHANGED <<posted, shown, dispatcher, mailVars>>

\* Mutant: a row whose dispatcher went away is taken up again.
ClaimableAgain(n) == slack[n].status \in {"pending", "sending"}

Claimable(n) == slack[n].status = "pending"

\* claim_slack_delivery: one pending row, locked while it is marked.
ClaimNotice(d, n) ==
    /\ dispatcher[d] = Free
    /\ Claimable(n)
    /\ slack' = [slack EXCEPT ![n] = [status |-> "sending", owner |-> d]]
    /\ dispatcher' = [dispatcher EXCEPT ![d].hand = n]
    /\ UNCHANGED <<posted, shown, mailVars>>

\* chat_postMessage: shown and answered, shown and timed out, or refused.
Post(d) ==
    LET n == dispatcher[d].hand IN
    /\ n # Nothing
    /\ dispatcher[d].answer = "none"
    /\ posted' = [posted EXCEPT ![n] = @ + 1]
    /\ \E answer \in {"ok", "error"} :
         /\ dispatcher' = [dispatcher EXCEPT ![d].answer = answer]
         /\ \/ shown' = shown \cup {n}
            \/ answer = "error" /\ UNCHANGED shown
    /\ UNCHANGED <<slack, mailVars>>

\* The status an answer is recorded as; a reply without a timestamp, or a
\* failed write of "sent", is recorded like a refusal.
NoticeOutcomes(answer) ==
    IF answer = "ok" THEN {"sent", "failed_ambiguous"} ELSE {"failed_ambiguous"}

\* complete_slack_delivery and fail_slack_delivery (both raise when the row is
\* no longer the dispatcher's, which ends it like DispatcherDies).
RecordNotice(d) ==
    LET n == dispatcher[d].hand IN
    /\ n # Nothing
    /\ dispatcher[d].answer # "none"
    /\ slack[n].status = "sending" /\ slack[n].owner = d
    /\ \E status \in NoticeOutcomes(dispatcher[d].answer) :
         slack' = [slack EXCEPT ![n] = [status |-> status, owner |-> Nobody]]
    /\ dispatcher' = [dispatcher EXCEPT ![d] = Free]
    /\ UNCHANGED <<posted, shown, mailVars>>

\* The dispatcher dies; its owner id is never used again.
DispatcherDies(d) ==
    LET n == dispatcher[d].hand IN
    /\ n # Nothing
    /\ slack' = [slack EXCEPT ![n].owner = Nobody]
    /\ dispatcher' = [dispatcher EXCEPT ![d] = Free]
    /\ UNCHANGED <<posted, shown, mailVars>>

-----------------------------------------------------------------------------
(* Welcome mail: a bounded number of attempts under a lease.               *)

\* join_waitlist: the lead and its delivery row in one transaction; the same
\* address again changes nothing.
Join(l) ==
    /\ mail[l].status = "absent"
    /\ mail' = [mail EXCEPT ![l].status = "pending"]
    /\ UNCHANGED <<requested, accepted, mailer, slackVars>>

\* Mutant: a row whose pass went away is never taken over.
AvailableOnce(l) ==
    mail[l].status \in {"pending", "failed"} /\ mail[l].attempts < MaxAttempts

Available(l) ==
    /\ \/ mail[l].status \in {"pending", "failed"}
       \/ mail[l].status = "sending" /\ ~mail[l].leased
    /\ mail[l].attempts < MaxAttempts

\* claim_waitlist_welcome_deliveries: a batch of available rows, each taken by
\* its own guarded update (another pass may win some of the candidates).
ClaimBatch(m, batch) ==
    /\ mailer[m] = NoPass
    /\ batch # {} /\ Cardinality(batch) <= Limit
    /\ \A l \in batch : Available(l)
    /\ mail' = [l \in Leads |->
                  IF l \in batch
                  THEN [status |-> "sending", attempts |-> mail[l].attempts + 1,
                        owner |-> m, leased |-> TRUE]
                  ELSE mail[l]]
    /\ mailer' = [mailer EXCEPT ![m].todo = batch]
    /\ UNCHANGED <<requested, accepted, slackVars>>

\* The next row of the batch comes into hand, sent with this answer.
Take(m, l, answer) ==
    /\ mailer[m].hand = Nothing
    /\ l \in mailer[m].todo
    /\ mailer' = [mailer EXCEPT ![m] = [todo |-> @.todo \ {l}, hand |-> l,
                                        answer |-> answer]]

\* send_waitlist_welcome: accepted and answered, or failed, which does not say
\* whether the provider took the mail.  The lease is not looked at again.
Send(m, l) ==
    /\ \E answer \in {"ok", "error"} :
         /\ Take(m, l, answer)
         /\ \/ accepted' = accepted \cup {l}
            \/ answer = "error" /\ UNCHANGED accepted
    /\ requested' = [requested EXCEPT ![l] = @ + 1]
    /\ UNCHANGED <<mail, slackVars>>

\* send_waitlist_welcome returns False: delivery is disabled, nothing was sent.
SendDisabled(m, l) ==
    /\ Take(m, l, "disabled")
    /\ UNCHANGED <<mail, requested, accepted, slackVars>>

\* The WHERE of finalize and release.
Owned(m, l) == mail[l].status = "sending" /\ mail[l].owner = m

\* Mutant: a failed request gives its attempt back.
OutcomeRefunded(row, answer) ==
    [status |-> IF answer = "ok" THEN "sent" ELSE "pending",
     attempts |-> IF answer = "ok" THEN row.attempts ELSE row.attempts - 1,
     owner |-> Nobody, leased |-> FALSE]

\* The row an answer is recorded as.
Outcome(row, answer) ==
    [status |-> CASE answer = "ok" -> "sent"
                  [] answer = "error" -> "failed"
                  [] OTHER -> "pending",
     attempts |-> IF answer = "disabled" THEN row.attempts - 1 ELSE row.attempts,
     owner |-> Nobody, leased |-> FALSE]

\* attempt_waitlist_welcome_email after the sender: the owner records the
\* outcome, a pass that lost the row only counts that it did.
RecordMail(m) ==
    LET l == mailer[m].hand IN
    /\ l # Nothing
    /\ mail' = IF Owned(m, l)
               THEN [mail EXCEPT ![l] = Outcome(@, mailer[m].answer)]
               ELSE mail
    /\ mailer' = [mailer EXCEPT ![m].hand = Nothing, ![m].answer = "none"]
    /\ UNCHANGED <<requested, accepted, slackVars>>

\* The pass dies, or a write of it raises and ends it: its owner id is gone.
MailerDies(m) ==
    /\ mailer[m] # NoPass
    /\ mailer' = [mailer EXCEPT ![m] = NoPass]
    /\ mail' = [l \in Leads |-> IF mail[l].owner = m
                                THEN [mail[l] EXCEPT !.owner = Nobody]
                                ELSE mail[l]]
    /\ UNCHANGED <<requested, accepted, slackVars>>

\* lease_expires_at passes.
LeaseLapses(l) ==
    /\ mail[l].leased
    /\ mail' = [mail EXCEPT ![l].leased = FALSE]
    /\ UNCHANGED <<requested, accepted, mailer, slackVars>>

-----------------------------------------------------------------------------
DispatcherStep(d) ==
    (\E n \in Notices : ClaimNotice(d, n)) \/ Post(d) \/ RecordNotice(d)

PassStep(m) ==
    \/ \E batch \in SUBSET Leads : ClaimBatch(m, batch)
    \/ \E l \in Leads : Send(m, l)
    \/ RecordMail(m)

Next ==
    \/ \E n \in Notices : Notify(n)
    \/ \E d \in Dispatchers : DispatcherStep(d) \/ DispatcherDies(d)
    \/ \E l \in Leads : Join(l) \/ LeaseLapses(l)
    \/ \E m \in Mailers : \/ PassStep(m)
                          \/ \E l \in Leads : SendDisabled(m, l)
                          \/ MailerDies(m)

Spec == Init /\ [][Next]_vars

\* Delivery passes keep being started and run on, leases run out, and the
\* provider is not switched off for ever (a pass that sends instead of
\* finding delivery disabled comes up again and again).
Fairness ==
    /\ \A l \in Leads : WF_vars(LeaseLapses(l))
    /\ \A m \in Mailers, l \in Leads : SF_vars(Send(m, l))
    /\ \A m \in Mailers : WF_vars(RecordMail(m))
    /\ \A l \in Leads :
         SF_vars(\E m \in Mailers, batch \in SUBSET Leads :
                     l \in batch /\ ClaimBatch(m, batch))

FairSpec == Spec /\ Fairness

-----------------------------------------------------------------------------
(* Properties.                                                             *)

\* A notice is posted at most once, whatever dies and whatever times out
\* (slack_dispatcher.py: "Never blind-retry that ambiguous result").
OneVisibleMessage == \A n \in Notices : posted[n] <= 1

\* A row tells the truth about the channel and the provider: "sent" was taken
\* there, and a notice that may still be claimed was never posted.
RowsAreTrue ==
    /\ \A n \in Notices : /\ slack[n].status = "sent" => n \in shown
                          /\ slack[n].status = "pending" => posted[n] = 0
    /\ \A l \in Leads : mail[l].status = "sent" => l \in accepted

\* The passes that hold a claim on a row and have not sent it yet.
Unsent(l) == {m \in Mailers : l \in mailer[m].todo}

\* Every attempt pays for one request, also when the lease lapsed and several
\* passes hold the same row (claim_waitlist_welcome_deliveries counts before
\* the request, release gives back only what was not sent).
RequestsArePaid ==
    \A l \in Leads : requested[l] + Cardinality(Unsent(l)) <= mail[l].attempts

\* The inductive invariant.  A notice in hand is the dispatcher's own row, and
\* its answer tells how often it was posted.
NoticeInv ==
    /\ \A n \in Notices :
         /\ posted[n] <= 1
         /\ slack[n].status \in {"absent", "pending"} => posted[n] = 0
         /\ slack[n].status = "sent" => n \in shown
    /\ \A d \in Dispatchers :
         /\ dispatcher[d].hand = Nothing => dispatcher[d].answer = "none"
         /\ dispatcher[d].hand # Nothing =>
              LET n == dispatcher[d].hand IN
              /\ slack[n].status = "sending" /\ slack[n].owner = d
              /\ posted[n] = (IF dispatcher[d].answer = "none" THEN 0 ELSE 1)
              /\ dispatcher[d].answer = "ok" => n \in shown

\* The passes whose claim on a row may still be given back or spent.
Charged(l) ==
    {m \in Mailers : \/ l \in mailer[m].todo
                     \/ mailer[m].hand = l /\ mailer[m].answer = "disabled"}

\* A row in flight has paid for an attempt, belongs to a pass that still has
\* it, and an answer "ok" is the provider's.
DeliveryInv ==
    /\ \A l \in Leads :
         /\ mail[l].leased => mail[l].status = "sending"
         /\ mail[l].status = "sending" => mail[l].attempts > 0
         /\ mail[l].status = "sent" => l \in accepted
         /\ requested[l] + Cardinality(Charged(l)) <= mail[l].attempts
         /\ \A m \in Mailers : mail[l].owner = m =>
              /\ mail[l].status = "sending"
              /\ l \in mailer[m].todo \/ mailer[m].hand = l
    /\ \A m \in Mailers :
         /\ mailer[m].hand \notin mailer[m].todo
         /\ mailer[m].hand = Nothing <=> mailer[m].answer = "none"
         /\ mailer[m].answer = "ok" => mailer[m].hand \in accepted

IInv == TypeOK /\ NoticeInv /\ DeliveryInv

\* While a lease runs, its row is changed by a step of its owner only: a pass
\* that lost the row cannot write its outcome over the new owner's.
LeaseIsRespected ==
    [][\A l \in Leads :
         mail[l].leased /\ mail'[l] # mail[l] =>
             \/ mail'[l] = [mail[l] EXCEPT !.leased = FALSE]
             \/ mailer'[mail[l].owner] # mailer[mail[l].owner]]_vars

\* A welcome that was recorded as sent is never sent or failed again by a
\* later pass: the record is final.
SentIsFinal ==
    [][\A l \in Leads : mail[l].status = "sent" => mail'[l] = mail[l]]_vars

\* Every lead is served: its mail is sent, or its attempts are used up.
EveryLeadIsServed ==
    \A l \in Leads :
        mail[l].status = "pending" ~>
            (mail[l].status = "sent" \/ mail[l].attempts = MaxAttempts)
=============================================================================
