---------------------------- MODULE PravaPayments ----------------------------
(***************************************************************************)
(* The NANDA payments plugin (nanda_prava_adapter/plugin.py): one payment  *)
(* reference, and every asyncio task that pays, verifies or refunds it.    *)
(*                                                                         *)
(* The plugin keeps one record per reference in memory.  A task runs alone *)
(* between two awaits, so an action is what happens from one await to the  *)
(* next; what a call did remotely and what the task makes of its answer    *)
(* are two actions, with other tasks in between.                           *)
(***************************************************************************)
EXTENDS Naturals, FiniteSets

CONSTANTS
    Tasks,      \* asyncio tasks of the agent
    Sessions,   \* Prava sessions that may be created
    NoSession,  \* "the reference is not used yet"
    Terms,      \* payee and amount of a call
    NoTerms,    \* "no call"
    MaxCancels, \* bound: tasks cancelled while they wait
    MaxRefunds  \* bound: refunds the agent asks for with the money given back

ASSUME NoSessionAssumption == NoSession \notin Sessions
ASSUME NoTermsAssumption == NoTerms \notin Terms
ASSUME MaxCancelsAssumption == MaxCancels \in Nat

VARIABLES
    record,   \* the _PaymentRecord of each session
    current,  \* the session self._payments[ref] points to
    remote,   \* Prava's status of each session
    charged,  \* sessions whose card was charged at the merchant
    refunds,  \* calls of the refund handler that gave the money back
    task,     \* what each task waits for
    cancels,  \* tasks cancelled so far
    lost,     \* charged sessions whose outcome or report nobody learned
    raced     \* which of the named windows have been hit
vars == <<record, current, remote, charged, refunds, task, cancels, lost, raced>>

Statuses == {"none", "pending", "confirmed", "failed", "refunded"}
Record == [status : Statuses, receipt : BOOLEAN, terms : Terms \cup {NoTerms}]
NoRecord == [status |-> "none", receipt |-> FALSE, terms |-> NoTerms]

\* payment_result's answers; "unused" is a session not created yet.
Remote == {"unused", "pending", "awaiting_result", "completed", "failed",
           "expired"}
Waits == {"idle", "creating", "polling", "executing", "reporting", "revoking",
          "verifying", "refunding"}
Answers == Remote \cup {"none", "ok", "error", "approved", "declined"}
Task == [pc : Waits, session : Sessions \cup {NoSession},
         terms : Terms \cup {NoTerms}, answer : Answers,
         approved : BOOLEAN,   \* the outcome the executor returned
         cancelled : BOOLEAN]  \* nobody waits for the task any more
Idle == [pc |-> "idle", session |-> NoSession, terms |-> NoTerms,
         answer |-> "none", approved |-> FALSE, cancelled |-> FALSE]

\* Two tasks created a session, or asked for a refund, at the same time; a
\* verification answered after the record had moved; the handler gave the money
\* back and nobody learned it.
Windows == {"create", "refund", "verify", "lost_refund"}

TypeOK ==
    /\ record \in [Sessions -> Record]
    /\ current \in Sessions \cup {NoSession}
    /\ remote \in [Sessions -> Remote]
    /\ charged \subseteq Sessions
    /\ refunds \in [Sessions -> Nat]
    /\ task \in [Tasks -> Task]
    /\ cancels \in 0 .. MaxCancels
    /\ lost \subseteq Sessions
    /\ raced \subseteq Windows

Init ==
    /\ record = [s \in Sessions |-> NoRecord]
    /\ current = NoSession
    /\ remote = [s \in Sessions |-> "unused"]
    /\ charged = {}
    /\ refunds = [s \in Sessions |-> 0]
    /\ task = [t \in Tasks |-> Idle]
    /\ cancels = 0
    /\ lost = {}
    /\ raced = {}

WaitsFor(t, pc) == task[t].pc = pc /\ task[t].answer = "none"
Answered(t, pc) == task[t].pc = pc /\ task[t].answer # "none"
Goes(t, pc) == task' = [task EXCEPT ![t].pc = pc, ![t].answer = "none"]
Ends(t) == task' = [task EXCEPT ![t] = Idle]

-----------------------------------------------------------------------------
(* pay                                                                     *)

\* pay answers a reference it knows at once: with its receipt, or a refusal of
\* other terms or of an open or failed payment.  Only a new one goes on.
Unused == current = NoSession

Pay(t, terms) ==
    /\ task[t] = Idle
    /\ Unused
    /\ task' = [task EXCEPT ![t].pc = "creating", ![t].terms = terms]
    /\ raced' = IF \E u \in Tasks : task[u].pc = "creating"
                THEN raced \cup {"create"} ELSE raced
    /\ UNCHANGED <<record, current, remote, charged, refunds, cancels, lost>>

\* create_session at Prava; the answer may be lost.
CreateSession(t) ==
    /\ WaitsFor(t, "creating")
    /\ \E s \in Sessions, answer \in {"ok", "error"} :
         /\ remote[s] = "unused"
         /\ \/ remote' = [remote EXCEPT ![s] = "pending"]
            \/ answer = "error" /\ UNCHANGED remote
         /\ task' = [task EXCEPT ![t].session = s, ![t].answer = answer]
    /\ UNCHANGED <<record, current, charged, refunds, cancels, lost, raced>>

\* The record takes the reference, whatever stands there by now; an
\* approval_notifier that raises leaves it without anyone polling.
Created(t) ==
    LET s == task[t].session IN
    /\ Answered(t, "creating")
    /\ IF task[t].answer = "ok" /\ ~task[t].cancelled
       THEN /\ record' = [record EXCEPT ![s] =
                   [status |-> "pending", receipt |-> FALSE, terms |-> task[t].terms]]
            /\ current' = s
            /\ Goes(t, "polling") \/ Ends(t)
       ELSE Ends(t) /\ UNCHANGED <<record, current>>
    /\ UNCHANGED <<remote, charged, refunds, cancels, lost, raced>>

\* payment_result: the status at Prava now, or no answer.
Fetch(t) ==
    /\ WaitsFor(t, "polling") \/ WaitsFor(t, "verifying")
    /\ \E answer \in {remote[task[t].session], "error"} :
         task' = [task EXCEPT ![t].answer = answer]
    /\ UNCHANGED <<record, current, remote, charged, refunds, cancels, lost, raced>>

\* The except clause of pay: a payment still pending fails and is revoked.
GiveUp(t) ==
    LET s == task[t].session IN
    IF record[s].status = "pending"
    THEN record' = [record EXCEPT ![s].status = "failed"] /\ Goes(t, "revoking")
    ELSE Ends(t) /\ UNCHANGED record

Confirm(s) == record' = [record EXCEPT ![s].status = "confirmed",
                                       ![s].receipt = TRUE]

\* One round of the polling loop.
Poll(t) ==
    LET s == task[t].session IN
    /\ Answered(t, "polling")
    /\ \/ task[t].cancelled /\ Ends(t) /\ UNCHANGED record
       \/ /\ ~task[t].cancelled
          /\ CASE task[t].answer = "awaiting_result" ->
                    \/ Goes(t, "executing") /\ UNCHANGED record
                    \/ GiveUp(t)     \* a result without its card fields
               [] task[t].answer = "completed" -> Confirm(s) /\ Ends(t)
               [] task[t].answer = "failed" ->
                    /\ record' = [record EXCEPT ![s].status = "failed"]
                    /\ Ends(t)
               [] task[t].answer = "pending" ->
                    Goes(t, "polling") /\ UNCHANGED record
               [] OTHER -> GiveUp(t)
    /\ UNCHANGED <<current, remote, charged, refunds, cancels, lost, raced>>

\* Mutant: a time-out is passed on without the except clause.
TimeoutRaises(t) ==
    /\ Answered(t, "polling") /\ task[t].answer = "pending"
    /\ ~task[t].cancelled
    /\ Ends(t)
    /\ UNCHANGED <<record, current, remote, charged, refunds, cancels, lost, raced>>

\* The deadline of the loop passes with the session still pending.
Timeout(t) ==
    /\ Answered(t, "polling") /\ task[t].answer = "pending"
    /\ ~task[t].cancelled
    /\ GiveUp(t)
    /\ UNCHANGED <<current, remote, charged, refunds, cancels, lost, raced>>

\* The merchant executor: it charges and says so, declines and says so, or
\* raises, which says nothing about the charge.
Execute(t) ==
    LET s == task[t].session IN
    /\ WaitsFor(t, "executing")
    /\ \E answer \in {"approved", "declined", "error"} :
         /\ task' = [task EXCEPT ![t].answer = answer]
         /\ \/ answer # "declined" /\ charged' = charged \cup {s}
            \/ answer # "approved" /\ UNCHANGED charged
    /\ UNCHANGED <<record, current, remote, refunds, cancels, lost, raced>>

Lost(s) == lost' = lost \cup (charged \cap {s})

Executed(t) ==
    /\ Answered(t, "executing")
    /\ IF task[t].cancelled
       THEN Ends(t) /\ Lost(task[t].session) /\ UNCHANGED record
       ELSE IF task[t].answer = "error"
       THEN GiveUp(t) /\ Lost(task[t].session)
       ELSE /\ task' = [task EXCEPT ![t].pc = "reporting", ![t].answer = "none",
                                    ![t].approved = (task[t].answer = "approved")]
            /\ UNCHANGED <<record, lost>>
    /\ UNCHANGED <<current, remote, charged, refunds, cancels, raced>>

\* report_status: Prava settles a session that awaits its result; the answer
\* may be lost, and any other session is refused.
Report(t) ==
    LET s == task[t].session
        verdict == IF task[t].approved THEN "completed" ELSE "failed" IN
    /\ WaitsFor(t, "reporting")
    /\ \E answer \in {"ok", "error"} :
         /\ task' = [task EXCEPT ![t].answer = answer]
         /\ \/ /\ remote[s] = "awaiting_result"
               /\ remote' = [remote EXCEPT ![s] = verdict]
            \/ answer = "error" /\ UNCHANGED remote
    /\ UNCHANGED <<record, current, charged, refunds, cancels, lost, raced>>

\* Mutant: the outcome is read the wrong way round.
ReportedSwapped(t) ==
    LET s == task[t].session IN
    /\ Answered(t, "reporting")
    /\ IF task[t].cancelled
       THEN Ends(t) /\ Lost(s) /\ UNCHANGED record
       ELSE IF task[t].answer = "error"
       THEN GiveUp(t) /\ Lost(s)
       ELSE /\ Ends(t) /\ UNCHANGED lost
            /\ IF ~task[t].approved THEN Confirm(s)
               ELSE record' = [record EXCEPT ![s].status = "failed"]
    /\ UNCHANGED <<current, remote, charged, refunds, cancels, raced>>

\* After the report: the receipt, or a declined payment.
Reported(t) ==
    LET s == task[t].session IN
    /\ Answered(t, "reporting")
    /\ IF task[t].cancelled
       THEN Ends(t) /\ Lost(s) /\ UNCHANGED record
       ELSE IF task[t].answer = "error"
       THEN GiveUp(t) /\ Lost(s)
       ELSE /\ Ends(t) /\ UNCHANGED lost
            /\ IF task[t].approved THEN Confirm(s)
               ELSE record' = [record EXCEPT ![s].status = "failed"]
    /\ UNCHANGED <<current, remote, charged, refunds, cancels, raced>>

\* _revoke_quietly: an incomplete session is closed, or the call fails.
Revoke(t) ==
    LET s == task[t].session IN
    /\ WaitsFor(t, "revoking")
    /\ \/ /\ remote[s] \in {"pending", "awaiting_result"}
          /\ remote' = [remote EXCEPT ![s] = "failed"]
       \/ UNCHANGED remote
    /\ Ends(t)
    /\ UNCHANGED <<record, current, charged, refunds, cancels, lost, raced>>

-----------------------------------------------------------------------------
(* verify_payment and refund                                               *)

\* Only a pending record is looked up at Prava.
Verify(t) ==
    /\ task[t] = Idle /\ current # NoSession
    /\ record[current].status = "pending"
    /\ task' = [task EXCEPT ![t].pc = "verifying", ![t].session = current]
    /\ UNCHANGED <<record, current, remote, charged, refunds, cancels, lost, raced>>

\* The answer is written over whatever the record says by then.
Verified(t) ==
    LET s == task[t].session
        verdict == CASE task[t].answer = "completed" -> "confirmed"
                     [] task[t].answer = "failed" -> "failed"
                     [] OTHER -> record[s].status IN
    /\ Answered(t, "verifying")
    /\ IF task[t].cancelled
       THEN UNCHANGED <<record, raced>>
       ELSE /\ record' = [record EXCEPT ![s].status = verdict]
            /\ raced' = IF record[s].status \in {"pending", verdict} THEN raced
                        ELSE raced \cup {"verify"}
    /\ Ends(t)
    /\ UNCHANGED <<current, remote, charged, refunds, cancels, lost>>

\* Mutant: whoever holds a receipt may ask for the refund.
RefundableReceipt(s) == record[s].receipt

Refundable(s) == record[s].receipt /\ record[s].status = "confirmed"

Refund(t) ==
    /\ task[t] = Idle /\ current # NoSession
    /\ Refundable(current)
    /\ refunds[current] < MaxRefunds
    /\ task' = [task EXCEPT ![t].pc = "refunding", ![t].session = current]
    /\ raced' = IF \E u \in Tasks : task[u].pc = "refunding"
                THEN raced \cup {"refund"} ELSE raced
    /\ UNCHANGED <<record, current, remote, charged, refunds, cancels, lost>>

\* The merchant's handler gives the money back and the record says so; or it
\* raises, or nobody waits for it, and the record stays confirmed.
Refunded(t) ==
    LET s == task[t].session IN
    /\ task[t].pc = "refunding"
    /\ \/ /\ ~task[t].cancelled
          /\ refunds' = [refunds EXCEPT ![s] = @ + 1]
          /\ record' = [record EXCEPT ![s].status = "refunded"]
          /\ UNCHANGED raced
       \/ /\ refunds' = [refunds EXCEPT ![s] = @ + 1]
          /\ raced' = raced \cup {"lost_refund"}
          /\ UNCHANGED record
       \/ UNCHANGED <<refunds, record, raced>>
    /\ Ends(t)
    /\ UNCHANGED <<current, remote, charged, cancels, lost>>

-----------------------------------------------------------------------------
(* The environment                                                         *)

\* The buyer approves or refuses, or the session runs out.
Decide(s) ==
    /\ \/ /\ remote[s] = "pending"
          /\ \E verdict \in {"awaiting_result", "failed", "expired"} :
               remote' = [remote EXCEPT ![s] = verdict]
       \/ /\ remote[s] = "awaiting_result"
          /\ remote' = [remote EXCEPT ![s] = "expired"]
    /\ UNCHANGED <<record, current, charged, refunds, task, cancels, lost, raced>>

\* asyncio cancels a task at an await; its thread carries the call on.
Cancel(t) ==
    /\ task[t].pc # "idle" /\ ~task[t].cancelled
    /\ cancels < MaxCancels
    /\ task' = [task EXCEPT ![t].cancelled = TRUE]
    /\ cancels' = cancels + 1
    /\ UNCHANGED <<record, current, remote, charged, refunds, lost, raced>>

\* The code of a task, and the calls to Prava it waits for at most 20 seconds.
TaskStep(t) ==
    \/ CreateSession(t) \/ Created(t) \/ Fetch(t) \/ Poll(t) \/ Executed(t)
    \/ Report(t) \/ Reported(t) \/ Revoke(t) \/ Verified(t)

\* The merchant's executor and refund handler, awaited without a time limit.
MerchantStep(t) == Execute(t) \/ Refunded(t)

Next ==
    \/ \E t \in Tasks :
         \/ \E terms \in Terms : Pay(t, terms)
         \/ Verify(t) \/ Refund(t) \/ Cancel(t) \/ Timeout(t) \/ TaskStep(t)
         \/ MerchantStep(t)
    \/ \E s \in Sessions : Decide(s)

Spec == Init /\ [][Next]_vars

\* The event loop runs every task that can run, and a loop that only ever sees
\* "pending" has a deadline.  Nothing makes the merchant answer.
FairSpec ==
    Spec /\ \A t \in Tasks : WF_vars(TaskStep(t)) /\ SF_vars(Timeout(t))

-----------------------------------------------------------------------------
(* Properties                                                              *)

\* What the plugin calls confirmed or refunded was charged at the merchant,
\* whoever wrote the record: the paying task, or a verification that read the
\* session at any earlier time.
ConfirmedIsCharged ==
    \A s \in Sessions :
        record[s].status \in {"confirmed", "refunded"} => s \in charged

\* A payment the plugin calls failed was not charged, unless the executor
\* raised, the report was not confirmed or the task was cancelled after the
\* charge: then the charge is real and pay refuses the reference for ever.
FailedIsNotCharged ==
    \A s \in Sessions :
        record[s].status = "failed" /\ s \in charged => s \in lost

\* Both: the receipts of the plugin tell what happened at the merchant.
ReceiptsAreTrue == ConfirmedIsCharged /\ FailedIsNotCharged

\* One reference is charged once and refunded once, except through a named
\* window: two pay calls that both found it unused, two refunds that both found
\* it confirmed, a late verification that reopened it, a lost refund answer.
SettledOnce ==
    /\ Cardinality(charged) > 1 => "create" \in raced
    /\ \A s \in Sessions :
         refunds[s] > 1 => raced \cap {"refund", "verify", "lost_refund"} # {}

\* A payment somebody polls does not stay pending for ever, unless its executor
\* never answers: that wait has no deadline, and the record then stays pending.
PendingEnds ==
    \A t \in Tasks, s \in Sessions :
        (task[t].pc = "polling" /\ task[t].session = s)
            ~> (\/ record[s].status # "pending"
                \/ task[t].cancelled
                \/ [](WaitsFor(t, "executing")))
=============================================================================
