------------------------------ MODULE Workflow ------------------------------
(***************************************************************************)
(* One workflow run of workflow/service.py, from the notification on, over *)
(* the merchant boundary of module Checkout.                               *)
(*                                                                         *)
(* A caller is one API request (act, resume, reconcile, payment-status) or *)
(* the worker's repair pass.  Requests take no lock on the run: each reads *)
(* the row, calls Prava and the merchant, and writes the row through       *)
(* RestockRepository.transition, which loads the row, compares its state   *)
(* with the expected ones and writes the changed columns back.  Loading    *)
(* and committing are separate steps here, as they are under READ          *)
(* COMMITTED without a version check.                                      *)
(***************************************************************************)
EXTENDS Integers

CONSTANTS Callers, Amounts, Sessions, NoSession, MaxCrashes

ASSUME AmountsAssumption == Amounts \subseteq Nat \ {0}
ASSUME SessionsAssumption == NoSession \notin Sessions
ASSUME MaxCrashesAssumption == MaxCrashes \in Nat

VARIABLES
    attempt, merchant, prava, posts, pc, arg, seen, obs, result, crashes,
    run,         \* the workflow_runs row
    mandate,     \* the passkey decision on each Prava session
    txn,         \* the amount of the transactions row of the run, 0 if none
    effects,     \* the completion_effects row
    at,          \* where each request is
    mine,        \* the row each request last read or wrote
    cred,        \* the session of the credential each request holds
    todo,        \* the transition each request is about to make
    slips        \* which of the two accidents named below have happened

boundary == <<attempt, merchant, prava, posts, pc, arg, seen, obs, result, crashes>>
row == <<run, txn, effects, slips>>
vars == <<boundary, row, mandate, at, mine, cred, todo>>

B == INSTANCE Checkout

-----------------------------------------------------------------------------

\* TERMINAL_STATES: no transition leaves them.
Terminal == {"completed", "failed", "skipped", "rejected", "expired"}
Open == {"notified", "passkey_pending", "mandate_approved", "quote_revalidated",
         "checkout_pending", "reapproval_required"}
State == Open \cup Terminal

\* "active" says that active_item_key is set.
Run == [state : State, amount : Amounts, session : Sessions, active : BOOLEAN]

At == {"idle", "load", "commit", "reapprove", "recover", "await", "poll",
       "revalidate", "checkout", "reconcile", "complete", "effects", "guard"}

Unread == [state |-> "notified", amount |-> 0, session |-> NoSession, active |-> FALSE]

\* Amount 0 and NoSession leave the column alone.
Transition == [from : SUBSET State, to : State, amount : Amounts \cup {0},
               session : Sessions \cup {NoSession}, next : At]
Nothing == [from |-> {}, to |-> "failed", amount |-> 0, session |-> NoSession,
            next |-> "idle"]

TypeOK ==
    /\ B!TypeOK
    /\ run \in Run
    /\ mandate \in [Sessions -> {"unused", "pending", "approved", "lapsed",
                                 "rejected", "expired"}]
    /\ txn \in Amounts \cup {0}
    /\ effects \in {"none", "pending", "completed"}
    /\ at \in [Callers -> At]
    /\ mine \in [Callers -> Run \cup {Unread}]
    /\ cred \in [Callers -> Sessions \cup {NoSession}]
    /\ todo \in [Callers -> Transition]
    /\ slips \subseteq {"overwrite", "early"}

\* What begin leaves behind: a notified run with an intent for its amount.
Init ==
    /\ B!Init
    /\ \E s \in Sessions, a \in Amounts :
          /\ run = [state |-> "notified", amount |-> a, session |-> s, active |-> TRUE]
          /\ mandate = [t \in Sessions |-> IF t = s THEN "pending" ELSE "unused"]
    /\ txn = 0 /\ effects = "none" /\ slips = {}
    /\ at = [c \in Callers |-> "idle"]
    /\ mine = [c \in Callers |-> Unread]
    /\ cred = [c \in Callers |-> NoSession]
    /\ todo = [c \in Callers |-> Nothing]

-----------------------------------------------------------------------------
(* Control of one request.                                                 *)

Goto(c, label) == at' = [at EXCEPT ![c] = label]

End(c) ==
    /\ Goto(c, "idle")
    /\ cred' = [cred EXCEPT ![c] = NoSession]
    /\ todo' = [todo EXCEPT ![c] = Nothing]
    /\ mine' = [mine EXCEPT ![c] = Unread]

\* An exception: under the post-mandate guard while a credential is held,
\* out of the request otherwise.
Raise(c) ==
    IF cred[c] = NoSession THEN End(c)
    ELSE /\ Goto(c, "guard")
         /\ todo' = [todo EXCEPT ![c] = Nothing]
         /\ mine' = [mine EXCEPT ![c] = Unread]
         /\ UNCHANGED cred

Move(from, to) == [Nothing EXCEPT !.from = from, !.to = to]

\* The transition is decided; the row it will be decided on is read later.
Plan(c, t) ==
    /\ Goto(c, "load")
    /\ todo' = [todo EXCEPT ![c] = t]
    /\ mine' = [mine EXCEPT ![c] = Unread]

\* Read the row at the start of a request.
Read(c, label) ==
    /\ at[c] = "idle"
    /\ mine' = [mine EXCEPT ![c] = run]
    /\ Goto(c, label)
    /\ UNCHANGED <<boundary, row, mandate, cred, todo>>

-----------------------------------------------------------------------------
(* RestockRepository.transition                                            *)

Load(c) ==
    /\ at[c] = "load"
    /\ IF run.state \in todo[c].from
       THEN /\ mine' = [mine EXCEPT ![c] = run]
            /\ Goto(c, "commit")
            /\ UNCHANGED <<cred, todo>>
       ELSE Raise(c)
    /\ UNCHANGED <<boundary, row, mandate>>

\* Only columns that differ from the loaded row are written.  First accident: another
\* request has moved the run since.
Commit(c) ==
    LET t == todo[c]
        old == mine[c]
        new == [state |-> t.to,
                amount |-> IF t.amount = 0 THEN old.amount ELSE t.amount,
                session |-> IF t.session = NoSession THEN old.session ELSE t.session,
                active |-> t.to \notin Terminal]
    IN /\ at[c] = "commit"
       /\ run' = [f \in DOMAIN run |-> IF new[f] = old[f] THEN run[f] ELSE new[f]]
       /\ IF t.next = "idle"
          THEN End(c)
          ELSE /\ mine' = [mine EXCEPT ![c] = new]
               /\ Goto(c, t.next)
               /\ todo' = [todo EXCEPT ![c] = Nothing]
               /\ UNCHANGED cred
       /\ slips' = IF run.state = old.state THEN slips ELSE slips \cup {"overwrite"}
       /\ UNCHANGED <<boundary, mandate, txn, effects>>

-----------------------------------------------------------------------------
(* act                                                                     *)

\* Mutant: a pending run may be skipped.
AnswerablePending == {"notified", "reapproval_required", "checkout_pending"}

Answerable == {"notified", "reapproval_required"}

\* The branch is taken on the state read here; the transition comes later.
Act(c) ==
    /\ at[c] = "idle"
    /\ \/ Plan(c, Move(Answerable, "skipped"))
       \/ /\ run.state # "reapproval_required"
          /\ Plan(c, Move(Answerable, "passkey_pending"))
       \/ /\ run.state = "reapproval_required"
          /\ Goto(c, "reapprove") /\ UNCHANGED <<mine, todo>>
       \/ /\ \E a \in Amounts :
             Plan(c, [Move(Answerable, IF run.state = "reapproval_required"
                                          THEN "reapproval_required" ELSE "notified")
                        EXCEPT !.amount = a])
    /\ UNCHANGED <<boundary, row, mandate, cred>>

\* A fresh exact quote, a new intent for its amount, then the transition; a
\* failed quote, cap, fence or intent creation ends the request, and an intent
\* may be left unused.
Reapprove(c) ==
    /\ at[c] = "reapprove"
    /\ \/ \E s \in Sessions, a \in Amounts :
             /\ mandate[s] = "unused"
             /\ mandate' = [mandate EXCEPT ![s] = "pending"]
             /\ \/ /\ Plan(c, [Move({"reapproval_required"}, "passkey_pending")
                                 EXCEPT !.amount = a, !.session = s])
                   /\ UNCHANGED cred
                \/ End(c)
       \/ End(c) /\ UNCHANGED mandate
    /\ UNCHANGED <<boundary, row>>

-----------------------------------------------------------------------------
(* resume_after_passkey                                                    *)

\* Mutant: only a run that waits for its passkey is resumed.
ResumeWaiting(c) == run.state = "passkey_pending" /\ Read(c, "await")

Resume(c) ==
    \/ run.state = "passkey_pending" /\ Read(c, "await")
    \/ run.state \in {"mandate_approved", "quote_revalidated"} /\ Read(c, "recover")

\* Mutant: the recovery fails the run whether an attempt exists or not.
RecoverBlindly(c) ==
    /\ at[c] = "recover"
    /\ Plan(c, Move({mine[c].state}, "failed"))
    /\ UNCHANGED <<boundary, row, mandate, cred>>

\* _recover_lost_ephemeral_credential: no merchant attempt means the run fails.
\* Second accident: another request still has the credential, and is about to make
\* the attempt.
Recover(c) ==
    /\ at[c] = "recover"
    /\ IF attempt.state = "absent"
       THEN /\ Plan(c, Move({mine[c].state}, "failed")) /\ UNCHANGED cred
            /\ slips' = IF \E d \in Callers \ {c} : cred[d] # NoSession
                        THEN slips \cup {"early"} ELSE slips
       ELSE End(c) /\ UNCHANGED slips
    /\ UNCHANGED <<boundary, run, txn, effects, mandate>>

\* Mutant: a session that is not refused counts as approved.
AwaitNoRefusal(c) ==
    /\ at[c] = "await"
    /\ mandate[mine[c].session] \notin {"rejected", "expired"}
    /\ cred' = [cred EXCEPT ![c] = mine[c].session]
    /\ Plan(c, [Move({"passkey_pending"}, "mandate_approved") EXCEPT !.next = "revalidate"])
    /\ UNCHANGED <<boundary, row, mandate>>

\* await_mandate on the session read with the run: it times out, raises on a
\* completed session, or yields the decision.  An approval is remembered by
\* the process that saw it (intent["outcome"]), a later lapse or not.
AwaitMandate(c) ==
    LET s == mine[c].session
        moveTo(to) == Move({"passkey_pending"}, to)
    IN /\ at[c] = "await"
       /\ \/ /\ mandate[s] \in {"approved", "lapsed"}
             /\ cred' = [cred EXCEPT ![c] = s]
             /\ Plan(c, [moveTo("mandate_approved") EXCEPT !.next = "revalidate"])
          \/ /\ mandate[s] = "rejected" \/ prava[s] = "failed"
             /\ Plan(c, moveTo("rejected")) /\ UNCHANGED cred
          \/ /\ mandate[s] \in {"expired", "lapsed"}
             /\ Plan(c, moveTo("expired")) /\ UNCHANGED cred
          \/ End(c)
       /\ UNCHANGED <<boundary, row, mandate>>

\* An increase, or a decrease of more than 15 percent.
Deviates(fresh, approved) ==
    fresh > approved \/ 100 * (approved - fresh) > 15 * approved

\* Under the cart lease the exact cart is quoted again.
Revalidate(c) ==
    LET moveTo(to) == Move({"mandate_approved"}, to)
    IN /\ at[c] = "revalidate"
       /\ \/ /\ \E fresh \in Amounts :
                   Plan(c, IF Deviates(fresh, mine[c].amount)
                           THEN [moveTo("reapproval_required") EXCEPT !.amount = fresh]
                           ELSE [moveTo("quote_revalidated") EXCEPT
                                    !.amount = fresh, !.next = "checkout"])
             /\ UNCHANGED cred
          \/ /\ Plan(c, moveTo("failed"))          \* out of stock
             /\ UNCHANGED cred
          \/ Raise(c)                             \* lease, binding, stale quote
       /\ UNCHANGED <<boundary, row, mandate>>

EnterCheckout(c) ==
    /\ at[c] = "checkout"
    /\ B!Complete(c, mine[c].amount, cred[c])
    /\ UNCHANGED <<row, mandate, at, mine, cred, todo>>

\* _finish_checkout; "expected" is where the run must still be.
FinishCheckout(c) ==
    LET expected == IF at[c] = "checkout" THEN {"quote_revalidated"} ELSE {"checkout_pending"}
        leave(to) == Plan(c, Move(expected, to)) /\ UNCHANGED cred
    IN /\ at[c] \in {"checkout", "reconcile"}
       /\ B!Return(c)
       /\ \/ result[c] = "pending" /\ leave("checkout_pending")
          \/ result[c] = "price_changed" /\ leave("reapproval_required")
          \/ result[c] = "failed" /\ leave("failed")
          \/ /\ result[c] = "completed"
             /\ Goto(c, "complete")
             /\ todo' = [todo EXCEPT ![c] = Move(expected, "completed")]
             /\ mine' = [mine EXCEPT ![c] = Unread]
             /\ UNCHANGED cred
          \/ result[c] = "raised" /\ Raise(c)
       /\ UNCHANGED <<row, mandate>>

\* complete_checkout_atomically, under SELECT ... FOR UPDATE.
CompleteAtomically(c) ==
    /\ at[c] = "complete"
    /\ \/ /\ attempt.amount = run.amount /\ txn = 0 /\ run.state \in todo[c].from
          /\ txn' = attempt.amount
          /\ run' = [run EXCEPT !.state = "completed", !.active = FALSE]
          /\ effects' = "pending"
          /\ Goto(c, "effects") /\ UNCHANGED <<mine, cred, todo>>
       \/ /\ attempt.amount = run.amount /\ txn = run.amount /\ run.state = "completed"
          /\ Goto(c, "effects") /\ UNCHANGED <<row, mine, cred, todo>>
       \/ /\ \/ attempt.amount # run.amount
             \/ /\ txn = 0
                /\ run.state \notin todo[c].from
             \/ /\ txn # 0
                /\ txn # run.amount \/ run.state # "completed"
          /\ Raise(c) /\ UNCHANGED row
    /\ UNCHANGED <<boundary, mandate, slips>>

\* apply_completion_effects, once per completion_effects row.
ApplyEffects(c) ==
    /\ at[c] = "effects"
    /\ \/ /\ effects = "pending" /\ run.state = "completed" /\ txn # 0
          /\ effects' = "completed"
          /\ End(c)
       \/ /\ effects = "completed"
          /\ End(c) /\ UNCHANGED effects
       \/ /\ effects # "completed"
          /\ ~(effects = "pending" /\ run.state = "completed" /\ txn # 0)
          /\ Raise(c) /\ UNCHANGED effects
    /\ UNCHANGED <<boundary, mandate, run, txn, slips>>

\* Mutant: what raised inside the boundary fails the run.
GuardFails(c) ==
    /\ at[c] = "guard"
    /\ cred' = [cred EXCEPT ![c] = NoSession]
    /\ IF run.state \in {"passkey_pending", "mandate_approved", "quote_revalidated"}
       THEN Plan(c, Move({run.state}, "failed"))
       ELSE Goto(c, "idle") /\ UNCHANGED <<mine, todo>>
    /\ UNCHANGED <<boundary, row, mandate>>

\* _post_mandate_failure_guard, on an exception after the passkey approval.
Guard(c) ==
    LET s == run.state
    IN /\ at[c] = "guard"
       /\ cred' = [cred EXCEPT ![c] = NoSession]
       /\ \/ /\ s \in {"passkey_pending", "mandate_approved"}
             /\ Plan(c, Move({s}, "failed"))
          \/ /\ s = "quote_revalidated"
             /\ Plan(c, Move({s}, "checkout_pending"))
          \/ /\ s \notin {"passkey_pending", "mandate_approved", "quote_revalidated"}
             /\ Goto(c, "idle") /\ UNCHANGED <<mine, todo>>
       /\ UNCHANGED <<boundary, row, mandate>>

-----------------------------------------------------------------------------
(* reconcile_checkout, the worker's repair pass, the payment-status poll    *)

Reconcile(c) ==
    /\ at[c] = "idle"
    /\ run.state = "checkout_pending"
    /\ B!Reconcile(c)
    /\ Goto(c, "reconcile")
    /\ UNCHANGED <<row, mandate, mine, cred, todo>>

Repair(c) ==
    /\ at[c] = "idle"
    /\ run.state = "completed" \/ effects = "pending"
    /\ Goto(c, "effects")
    /\ UNCHANGED <<boundary, row, mandate, mine, cred, todo>>

\* workflow_payment_status asks Prava about the session it read ...
Poll(c) == run.state = "passkey_pending" /\ Read(c, "poll")

\* ... and expires the run if that session expired.
MarkExpired(c) ==
    /\ at[c] = "poll"
    /\ IF mandate[mine[c].session] \in {"expired", "lapsed"}
       THEN Plan(c, Move({"passkey_pending"}, "expired")) /\ UNCHANGED cred
       ELSE End(c)
    /\ UNCHANGED <<boundary, row, mandate>>

-----------------------------------------------------------------------------
\* The holder of the passkey decides; an approved session lapses in time.
Decide(s) ==
    /\ \/ /\ mandate[s] = "pending"
          /\ \E d \in {"approved", "rejected", "expired"} :
                mandate' = [mandate EXCEPT ![s] = d]
       \/ mandate[s] = "approved" /\ mandate' = [mandate EXCEPT ![s] = "lapsed"]
    /\ UNCHANGED <<boundary, row, at, mine, cred, todo>>

\* A step inside the merchant boundary.
Inside(c) ==
    /\ at[c] \in {"checkout", "reconcile"}
    /\ B!Step(c)
    /\ UNCHANGED <<row, mandate, at, mine, cred, todo>>

Settle == B!Settle /\ UNCHANGED <<row, mandate, at, mine, cred, todo>>

\* The process of a request dies and takes credential and context with it.
Crash(c) ==
    /\ at[c] # "idle"
    /\ B!Crash(c)
    /\ End(c)
    /\ UNCHANGED <<row, mandate>>

\* One step of the code on behalf of a request that was started.
Serve(c) ==
    \/ Load(c) \/ Commit(c) \/ Reapprove(c) \/ Recover(c) \/ AwaitMandate(c)
    \/ Revalidate(c) \/ EnterCheckout(c) \/ Inside(c) \/ FinishCheckout(c)
    \/ CompleteAtomically(c) \/ ApplyEffects(c) \/ Guard(c) \/ MarkExpired(c)

Next ==
    \/ \E c \in Callers :
          Act(c) \/ Resume(c) \/ Reconcile(c) \/ Repair(c) \/ Poll(c) \/ Serve(c) \/ Crash(c)
    \/ \E s \in Sessions : Decide(s)
    \/ Settle

Spec == Init /\ [][Next]_vars

\* What eventually happens.  A started request is served; the merchant decides
\* what was submitted and gives up on what was not; a run that accepts a resume or
\* a reconciliation again and again gets one, and not every remote read fails.
\* Neither moves a run that is Abandoned.
Answered(c) == at[c] = "reconcile" /\ B!Conclusive(c) /\ Inside(c)

Fairness ==
    /\ \A c \in Callers : WF_vars(Serve(c)) /\ SF_vars(Answered(c))
    /\ \A c \in Callers : SF_vars(Reconcile(c)) /\ SF_vars(Resume(c))
    /\ WF_vars(Settle)

FairSpec == Spec /\ Fairness

-----------------------------------------------------------------------------
(* The inductive invariant behind the properties, on top of Checkout's.    *)

\* The transitions a request plans, and the credential it then holds.
Foreseen(t, s) ==
    \/ /\ t.from \subseteq Answerable /\ t.next = "idle"
       /\ t.to \in {"notified", "passkey_pending", "reapproval_required", "skipped"}
    \/ /\ t.from = {"passkey_pending"}
       /\ \/ t.to \in {"rejected", "expired", "failed"} /\ t.next = "idle"
          \/ t.to = "mandate_approved" /\ t.next = "revalidate" /\ s \in Sessions
    \/ /\ t.from = {"mandate_approved"}
       /\ \/ t.to = "failed" /\ t.next = "idle"
          \/ t.to = "reapproval_required" /\ t.next = "idle" /\ s \in Sessions
          \/ t.to = "quote_revalidated" /\ t.next = "checkout" /\ s \in Sessions
    \/ /\ t.from \in {{"quote_revalidated"}, {"checkout_pending"}} /\ t.next = "idle"
       /\ t.to \in {"checkout_pending", "reapproval_required", "failed"}

Planning(c, froms) == at[c] \in {"load", "commit"} /\ todo[c].from \in froms

ControlInv ==
    \A c \in Callers :
        /\ at[c] \in {"idle", "recover", "reconcile"} => cred[c] = NoSession
        /\ at[c] \in {"revalidate", "checkout"} => cred[c] \in Sessions
        /\ at[c] \notin {"checkout", "reconcile"} => pc[c] = "idle"
        /\ pc[c] \in {"lookup", "reserve"} => at[c] = "checkout"
        /\ at[c] \in {"await", "poll", "recover", "commit", "revalidate", "checkout"} =>
               mine[c] \in Run
        /\ at[c] = "recover" => mine[c].state \in {"mandate_approved", "quote_revalidated"}
        /\ at[c] \in {"load", "commit"} => Foreseen(todo[c], cred[c])
        /\ at[c] = "commit" => mine[c].state \in todo[c].from
        /\ at[c] = "complete" => todo[c].from \in {{"quote_revalidated"}, {"checkout_pending"}}

\* A credential, and what was done with it, goes back to an approval.
Sworn(s) == s \in Sessions /\ mandate[s] \in {"approved", "lapsed"}

ApprovalInv ==
    /\ attempt.state # "absent" => Sworn(attempt.session)
    /\ \A c \in Callers :
        /\ cred[c] # NoSession => Sworn(cred[c])
        /\ pc[c] \in {"lookup", "reserve"} => Sworn(arg[c].session)

BookingInv ==
    /\ txn # 0 => merchant.status = "paid" /\ txn = merchant.amount
    /\ run.state = "completed" => txn # 0
    /\ \A c \in Callers : at[c] = "complete" => merchant.status = "paid"

\* No payment will follow from the attempt: none was ever submitted ...
Dead == attempt.state \in {"failed", "price_changed"}
\* ... or the merchant has refused it.
Over == Dead \/ merchant.status = "declined"

\* The requests that carry one approval from its transition to the checkout ...
Revalidating(c) ==
    \/ at[c] = "revalidate"
    \/ cred[c] # NoSession /\ Planning(c, {{"mandate_approved"}})

Driving(c) ==
    \/ Revalidating(c)
    \/ at[c] = "checkout"
    \/ cred[c] # NoSession /\ Planning(c, {{"quote_revalidated"}})

\* ... and those that know of a revalidated quote.
Finishing(c) == Planning(c, {{"quote_revalidated"}, {"checkout_pending"}})

Settling(c) ==
    \/ at[c] \in {"checkout", "reconcile"}
    \/ at[c] = "recover" /\ mine[c].state = "quote_revalidated"
    \/ Finishing(c)

Kept == {"quote_revalidated", "checkout_pending", "completed"}
Late == Kept \cup {"failed"}

\* While nothing is overwritten and the attempt is not dead, one request at a time
\* takes the run to the checkout, and once there the run does not turn back.
RoundInv ==
    "overwrite" \notin slips /\ ~Dead =>
        /\ \A c, d \in Callers : Driving(c) /\ Driving(d) => c = d
        /\ attempt.state # "absent" => run.state \in Late
        /\ \A c \in Callers :
            /\ Revalidating(c) => run.state \in {"mandate_approved", "failed"}
            /\ Settling(c) => run.state \in Late
            /\ Finishing(c) => todo[c].to # "reapproval_required"

\* Without either accident the run is not given up while a payment may follow.
GivingUp(c) == Finishing(c) /\ todo[c].to = "failed"

KeepingInv ==
    slips = {} /\ ~Over =>
        /\ attempt.state # "absent" => run.state \in Kept
        /\ \A c \in Callers :
            /\ at[c] = "checkout" => run.state \in Kept
            /\ result[c] = "failed" =>
                   at[c] = "checkout" /\ pc[c] = "done" /\ attempt.state = "absent"
            /\ GivingUp(c) => /\ attempt.state = "absent"
                              /\ \A d \in Callers \ {c} : ~Driving(d)

WInv == ControlInv /\ ApprovalInv /\ BookingInv /\ RoundInv /\ KeepingInv

-----------------------------------------------------------------------------
(* Properties                                                              *)

\* A payment is submitted only with a session its holder approved.
SubmittedWasApproved ==
    merchant.submitted > 0 => mandate[attempt.session] \in {"approved", "lapsed"}

\* A booked transaction is one the merchant was paid, to the amount; a run is
\* completed only together with its transaction.
BookedIsPaid ==
    /\ txn # 0 => merchant.status = "paid" /\ txn = merchant.amount
    /\ run.state = "completed" => txn # 0

\* Money the merchant took is never forgotten: the run of a paid order is
\* still on its way to "completed" or has arrived there - unless a transition was
\* written over another (repository.py:1386), or the run was failed for want of an
\* attempt that was about to be made (service.py:800).
PaidRunStaysOpen ==
    merchant.status = "paid" /\ slips = {} =>
        run.state \in {"quote_revalidated", "checkout_pending", "completed"}

\* Rejection, expiry and skipping mean that no payment was submitted and none
\* will be - unless a transition was written over another.
NotApprovedIsNotPaid ==
    run.state \in {"skipped", "rejected", "expired"} /\ "overwrite" \notin slips
        => merchant.submitted = 0

\* A pending checkout whose merchant order is known is eventually reconciled.
\* (Without a known order no reconciliation can decide it.)
KnownOrderIsReconciled ==
    run.state = "checkout_pending" /\ attempt.order ~> run.state # "checkout_pending"

\* A run nobody can move: the process that carried its approval died when there was
\* a merchant attempt, of this round or of one before a reapproval.  Resume does not
\* take it for lost and refuses it (service.py:793, 973), as reconcile_checkout does
\* (service.py:1147).
Abandoned ==
    /\ crashes > 0
    /\ run.state \in {"mandate_approved", "quote_revalidated"}
    /\ attempt.state # "absent"
    /\ \A c \in Callers :
           cred[c] = NoSession /\ ~Planning(c, {{"mandate_approved"}, {"quote_revalidated"}})

\* Once the credential may have been exposed, the attempt is decided in the end
\* (as the merchant decided it, says KeepsThePromise), through lost answers, raising
\* executors and any crash but the one that abandons the run.
ExposedIsDecided ==
    attempt.exposed ~> attempt.state \in {"completed", "declined"} \/ Abandoned

\* So is a report that is owed claimed for sending, when the caller that decided the
\* attempt died before it could.
OwedIsClaimed ==
    attempt.reportState = "pending" ~> attempt.reportState # "pending" \/ Abandoned

\* An approval is used up in the end: a run that has one goes on to its checkout, asks
\* for another or fails.  One whose credential died with its process is given up by the
\* next resume (service.py:785) and sets its item free.
ApprovalIsSpent ==
    run.state \in {"mandate_approved", "quote_revalidated"}
        ~> run.state \notin {"mandate_approved", "quote_revalidated"} \/ Abandoned
=============================================================================
