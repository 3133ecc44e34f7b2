------------------------------ MODULE Checkout ------------------------------
(***************************************************************************)
(* The credential-bearing merchant boundary of merchant/zepto_checkout.py: *)
(* the durable merchant_checkout_attempts row of ONE idempotency key, the  *)
(* merchant order behind it, and the Prava status report it owes.          *)
(*                                                                         *)
(* Any number of callers run complete_checkout and reconcile_checkout at   *)
(* once (API threads of any number of processes); each works on its own    *)
(* copy of the row and writes through the compare-and-swap of              *)
(* update_merchant_checkout_attempt.  A caller may die between any two     *)
(* steps; the row, the merchant and Prava survive it.                      *)
(***************************************************************************)
EXTENDS Integers

CONSTANTS
    Callers,     \* requests that may be inside the boundary
    Amounts,     \* money amounts, in minor units
    Sessions,    \* Prava sessions a credential can come from
    NoSession,   \* "no session"
    MaxCrashes   \* bound on the number of callers that die

ASSUME AmountsAssumption == Amounts \subseteq Nat \ {0}
ASSUME SessionsAssumption == NoSession \notin Sessions
ASSUME MaxCrashesAssumption == MaxCrashes \in Nat

VARIABLES
    attempt,     \* the row of the idempotency key
    merchant,    \* the merchant's side: orders created, payments submitted
    prava,       \* what each Prava session was told
    posts,       \* report-status requests sent
    pc,          \* where each caller is
    arg,         \* the amount and session each caller was called with
    seen,        \* the copy of the row each caller works on
    obs,         \* what the last remote call told each caller
    result,      \* what each caller will return
    crashes      \* callers that died so far

vars == <<attempt, merchant, prava, posts, pc, arg, seen, obs, result, crashes>>
remote == <<merchant, prava, posts>>

-----------------------------------------------------------------------------
AttemptState == {"absent", "reserved", "creating_order", "failed", "ambiguous",
                 "order_created", "price_changed", "executing", "pending",
                 "completed", "declined"}
ReportState == {"not_required", "pending", "sending", "ambiguous", "confirmed",
                "mandate_expired"}
ReportStatus == {"none", "APPROVED", "DECLINED"}

\* The row; "order" says that merchant_order_id is known.
Attempt == [state : AttemptState, amount : Amounts \cup {0},
            session : Sessions \cup {NoSession}, order : BOOLEAN,
            exposed : BOOLEAN, reportStatus : ReportStatus,
            reportState : ReportState]

NoAttempt == [state |-> "absent", amount |-> 0, session |-> NoSession,
              order |-> FALSE, exposed |-> FALSE, reportStatus |-> "none",
              reportState |-> "not_required"]

Merchant == [created : Nat, amount : Amounts \cup {0}, submitted : Nat,
             status : {"none", "open", "processing", "paid", "declined"}]

PC == {"idle", "lookup", "reserve", "begin", "cart", "create", "record",
       "price", "consume", "execute", "executed", "reread", "observe",
       "persist", "deliver", "confirm", "post", "posted", "done"}
Obs == {"none", "created", "lost", "invalid", "ok", "error", "approved",
        "declined", "pending", "expired"}
Result == {"none", "completed", "failed", "pending", "price_changed", "raised"}
NoArg == [amount |-> 0, session |-> NoSession]

TypeOK ==
    /\ attempt \in Attempt
    /\ merchant \in Merchant
    /\ prava \in [Sessions -> {"awaiting", "completed", "failed"}]
    /\ posts \in Nat
    /\ pc \in [Callers -> PC]
    /\ arg \in [Callers -> [amount : Amounts \cup {0},
                            session : Sessions \cup {NoSession}]]
    /\ seen \in [Callers -> Attempt]
    /\ obs \in [Callers -> Obs]
    /\ result \in [Callers -> Result]
    /\ crashes \in Nat

Init ==
    /\ attempt = NoAttempt
    /\ merchant = [created |-> 0, amount |-> 0, submitted |-> 0,
                   status |-> "none"]
    /\ prava = [s \in Sessions |-> "awaiting"]
    /\ posts = 0
    /\ pc = [c \in Callers |-> "idle"]
    /\ arg = [c \in Callers |-> NoArg]
    /\ seen = [c \in Callers |-> NoAttempt]
    /\ obs = [c \in Callers |-> "none"]
    /\ result = [c \in Callers |-> "none"]
    /\ crashes = 0

-----------------------------------------------------------------------------
(* Control of one caller.                                                  *)

Goto(c, label) == pc' = [pc EXCEPT ![c] = label]

\* Leave the boundary with an outcome ("raised" is an escaping exception).
Finish(c, r) ==
    /\ Goto(c, "done")
    /\ result' = [result EXCEPT ![c] = r]

\* UPDATE ... WHERE state IN expected: the row changes, or nothing does.
Swap(expected, new) ==
    /\ attempt.state \in expected
    /\ attempt' = new

\* A refused compare-and-swap raises, and the exception leaves the boundary.
Refused(c, expected) ==
    /\ attempt.state \notin expected
    /\ Finish(c, "raised")
    /\ UNCHANGED attempt

\* Mutant: a retry takes the work up where the row says it stopped.
ResumeRetries(c, row) ==
    /\ seen' = [seen EXCEPT ![c] = row]
    /\ Goto(c, CASE row.state \in {"reserved", "creating_order"} -> "cart"
                 [] row.state = "executing" -> "consume"
                 [] OTHER -> "done")
    /\ UNCHANGED result

\* Mutant: a row is reconciled only once it says "pending".
ResumePendingOnly(c, row) ==
    /\ seen' = [seen EXCEPT ![c] = row]
    /\ IF row.state \in {"completed", "declined"}
       THEN Goto(c, "deliver") /\ UNCHANGED result
       ELSE IF row.state = "pending" /\ row.order
       THEN Goto(c, "observe") /\ UNCHANGED result
       ELSE Finish(c, "pending")

\* Mutant: a decided row is answered without delivering its report.
ResumeAnswers(c, row) ==
    /\ seen' = [seen EXCEPT ![c] = row]
    /\ IF row.order /\ row.state \notin {"completed", "declined", "price_changed"}
       THEN Goto(c, "observe") /\ UNCHANGED result
       ELSE Finish(c, "failed")

\* _resume_existing_attempt, up to its first remote call.
Resume(c, row) ==
    /\ seen' = [seen EXCEPT ![c] = row]
    /\ \/ /\ row.state \in {"completed", "declined"}
          /\ Goto(c, "deliver")
          /\ result' = [result EXCEPT ![c] =
                            IF row.state = "completed" THEN "completed" ELSE "failed"]
       \/ row.state \in {"failed", "price_changed"} /\ Finish(c, row.state)
       \/ /\ row.state \notin {"completed", "declined", "failed", "price_changed"}
          /\ IF row.order
             THEN Goto(c, "observe") /\ UNCHANGED result
             ELSE Finish(c, "pending")

-----------------------------------------------------------------------------
(* complete_checkout                                                       *)

Complete(c, a, s) ==
    /\ pc[c] = "idle"
    /\ arg' = [arg EXCEPT ![c] = [amount |-> a, session |-> s]]
    /\ Goto(c, "lookup")
    /\ UNCHANGED <<attempt, remote, seen, obs, result, crashes>>

\* An existing row is resumed or refused.  Without one: the merchant may be
\* unreachable, the durable cart context may not match, or all is well.
Lookup(c) ==
    /\ pc[c] = "lookup"
    /\ \/ /\ attempt.state # "absent"
          /\ attempt.amount = arg[c].amount
          /\ Resume(c, attempt)
       \/ /\ attempt.state # "absent"
          /\ attempt.amount # arg[c].amount
          /\ Finish(c, "raised") /\ UNCHANGED seen
       \/ /\ attempt.state = "absent"
          /\ \/ Goto(c, "reserve") /\ UNCHANGED result
             \/ Finish(c, "failed")
             \/ Finish(c, "raised")
          /\ UNCHANGED seen
    /\ UNCHANGED <<attempt, remote, arg, obs, crashes>>

\* reserve_merchant_checkout_attempt: the primary key admits one insert; the
\* losers get the row only if it is bound to the very same request.
Reserve(c) ==
    /\ pc[c] = "reserve"
    /\ \/ /\ attempt.state = "absent"
          /\ attempt' = [NoAttempt EXCEPT !.state = "reserved",
                                          !.amount = arg[c].amount,
                                          !.session = arg[c].session]
          /\ Goto(c, "begin")
          /\ UNCHANGED <<seen, result>>
       \/ /\ attempt.state # "absent"
          /\ attempt.amount = arg[c].amount
          /\ attempt.session = arg[c].session
          /\ Resume(c, attempt)
          /\ UNCHANGED attempt
       \/ /\ attempt.state # "absent"
          /\ attempt.amount # arg[c].amount \/ attempt.session # arg[c].session
          /\ Finish(c, "raised")
          /\ UNCHANGED <<attempt, seen>>
    /\ UNCHANGED <<remote, arg, obs, crashes>>

BeginOrder(c) ==
    /\ pc[c] = "begin"
    /\ \/ /\ Swap({"reserved"}, [attempt EXCEPT !.state = "creating_order"])
          /\ Goto(c, "cart") /\ UNCHANGED result
       \/ Refused(c, {"reserved"})
    /\ UNCHANGED <<remote, arg, seen, obs, crashes>>

\* The prepared cart is exact, or the attempt fails before any mutation.
CheckCart(c) ==
    /\ pc[c] = "cart"
    /\ \/ Goto(c, "create") /\ UNCHANGED <<attempt, result>>
       \/ /\ Swap({"creating_order"}, [attempt EXCEPT !.state = "failed"])
          /\ Finish(c, "failed")
       \/ Refused(c, {"creating_order"})
    /\ UNCHANGED <<remote, arg, seen, obs, crashes>>

\* create_payment_link: the order may exist although the answer was lost; a
\* lost request may also never have arrived.
CreateOrder(c) ==
    /\ pc[c] = "create"
    /\ \/ /\ \E a \in Amounts, o \in {"created", "lost", "invalid"} :
                /\ merchant' = [merchant EXCEPT !.created = @ + 1, !.amount = a,
                                                !.status = "open"]
                /\ obs' = [obs EXCEPT ![c] = o]
       \/ obs' = [obs EXCEPT ![c] = "lost"] /\ UNCHANGED merchant
    /\ Goto(c, "record")
    /\ UNCHANGED <<attempt, prava, posts, arg, seen, result, crashes>>

RecordOrder(c) ==
    /\ pc[c] = "record"
    /\ \/ /\ obs[c] = "created"
          /\ Swap({"creating_order"},
                  [attempt EXCEPT !.state = "order_created", !.order = TRUE])
          /\ Goto(c, "price") /\ UNCHANGED result
       \/ /\ obs[c] # "created"
          /\ Swap({"creating_order"}, [attempt EXCEPT !.state = "ambiguous"])
          /\ Finish(c, IF obs[c] = "lost" THEN "pending" ELSE "raised")
       \/ Refused(c, {"creating_order"})
    /\ UNCHANGED <<remote, arg, seen, obs, crashes>>

\* The final total is compared with the approved amount; only an exact match
\* persists the exposure intent, before the credential is touched.
CheckPrice(c) ==
    /\ pc[c] = "price"
    /\ \/ /\ merchant.amount # attempt.amount
          /\ Swap({"order_created"}, [attempt EXCEPT !.state = "price_changed"])
          /\ Finish(c, "price_changed")
       \/ /\ merchant.amount = attempt.amount
          /\ Swap({"order_created"},
                  [attempt EXCEPT !.state = "executing", !.exposed = TRUE])
          /\ Goto(c, "consume") /\ UNCHANGED result
       \/ Refused(c, {"order_created"})
    /\ UNCHANGED <<remote, arg, seen, obs, crashes>>

\* consume_credential hands the card fields out once; it raises when they
\* expired or were retired.
Consume(c) ==
    /\ pc[c] = "consume"
    /\ \/ Goto(c, "execute") /\ UNCHANGED result
       \/ Finish(c, "raised")
    /\ UNCHANGED <<attempt, remote, arg, seen, obs, crashes>>

\* executor.execute drives the payment page.  An open order takes the payment
\* and processes it; the executor may fail before or after that.
Execute(c) ==
    /\ pc[c] = "execute"
    /\ \E o \in {"ok", "error"} : obs' = [obs EXCEPT ![c] = o]
    /\ \/ /\ merchant' = [merchant EXCEPT
                            !.submitted = @ + 1,
                            !.status = IF @ = "open" THEN "processing" ELSE @]
       \/ obs'[c] = "error" /\ UNCHANGED merchant
    /\ Goto(c, "executed")
    /\ UNCHANGED <<attempt, prava, posts, arg, seen, result, crashes>>

\* Mutant: an executor error is taken for a payment that did not happen.
ExecutedFails(c) ==
    /\ pc[c] = "executed"
    /\ Swap({"executing"}, IF obs[c] = "ok" THEN attempt
                           ELSE [attempt EXCEPT !.state = "failed"])
    /\ Goto(c, "reread")
    /\ UNCHANGED <<remote, arg, seen, obs, result, crashes>>

Executed(c) ==
    /\ pc[c] = "executed"
    /\ \/ /\ Swap({"executing"}, IF obs[c] = "ok" THEN attempt
                                 ELSE [attempt EXCEPT !.state = "ambiguous"])
          /\ Goto(c, "reread") /\ UNCHANGED result
       \/ Refused(c, {"executing"})
    /\ UNCHANGED <<remote, arg, seen, obs, crashes>>

-----------------------------------------------------------------------------
(* reconcile_checkout, and the common tail                                 *)

Reconcile(c) ==
    /\ pc[c] = "idle"
    /\ Goto(c, "reread")
    /\ UNCHANGED <<attempt, remote, arg, seen, obs, result, crashes>>

Reread(c) ==
    /\ pc[c] = "reread"
    /\ \/ attempt.state # "absent" /\ Resume(c, attempt)
       \/ attempt.state = "absent" /\ Finish(c, "raised") /\ UNCHANGED seen
    /\ UNCHANGED <<attempt, remote, arg, obs, crashes>>

\* Mutant: a payment still being processed is read as approved.
ReconcileOptimistic(c) ==
    /\ pc[c] = "observe"
    /\ obs' = [obs EXCEPT ![c] =
                  IF merchant.status \in {"processing", "paid"} THEN "approved" ELSE "pending"]
    /\ Goto(c, "persist")
    /\ UNCHANGED <<attempt, remote, arg, seen, result, crashes>>

\* _reconcile_order: a failed or inconclusive read is "pending".
ReconcileOrder(c) ==
    /\ pc[c] = "observe"
    /\ \E o \in {"approved", "declined", "pending"} :
          /\ o = "approved" => merchant.status = "paid"
          /\ o = "declined" => merchant.status = "declined"
          /\ obs' = [obs EXCEPT ![c] = o]
    /\ Goto(c, "persist")
    /\ UNCHANGED <<attempt, remote, arg, seen, result, crashes>>

\* The row a terminal merchant outcome leads to: a credential that is exposed
\* according to the caller's copy owes Prava a report.
Settled(row, copy, o) ==
    LET status == IF o = "approved" THEN "APPROVED" ELSE "DECLINED"
        owed == copy.exposed /\ copy.reportState # "confirmed"
    IN [row EXCEPT !.state = IF o = "approved" THEN "completed" ELSE "declined",
                   !.reportStatus = IF owed THEN status ELSE @,
                   !.reportState = IF owed THEN "pending" ELSE @]

\* The status is written over the state this caller read, or a competing
\* reconciler was faster and its row is used instead.
PersistOutcome(c) ==
    LET won == attempt.state = seen[c].state
    IN /\ pc[c] = "persist"
       /\ \/ /\ obs[c] = "pending"
             /\ attempt' = IF won THEN [attempt EXCEPT !.state = "pending"] ELSE attempt
             /\ Finish(c, "pending") /\ UNCHANGED seen
          \/ /\ obs[c] # "pending"
             /\ attempt' = IF won THEN Settled(attempt, seen[c], obs[c]) ELSE attempt
             /\ seen' = [seen EXCEPT ![c] = attempt']
             /\ result' = [result EXCEPT ![c] =
                              IF obs[c] = "approved" THEN "completed" ELSE "failed"]
             /\ Goto(c, "deliver")
       /\ UNCHANGED <<remote, arg, obs, crashes>>

-----------------------------------------------------------------------------
(* _deliver_prava_report                                                   *)

\* Prava's word for an approved or a declined checkout.
Told(status) == IF status = "APPROVED" THEN "completed" ELSE "failed"

\* Nothing owed; or a report in flight, which is only read back (the answer may
\* lag behind the post); or a pending report, which one caller claims.
DeliverReport(c) ==
    LET row == seen[c]
        owed == row.exposed /\ row.reportStatus # "none" /\ row.reportState # "confirmed"
        inFlight == row.reportState \in {"sending", "ambiguous"}
    IN /\ pc[c] = "deliver"
       /\ \/ /\ ~owed
             /\ Goto(c, "done") /\ UNCHANGED <<attempt, result>>
          \/ /\ owed /\ inFlight
             /\ \/ /\ prava[row.session] = Told(row.reportStatus)
                   /\ Goto(c, "confirm") /\ UNCHANGED result
                \/ Goto(c, "done") /\ UNCHANGED result
                \/ Finish(c, "raised")
             /\ UNCHANGED attempt
          \/ /\ owed /\ ~inFlight
             /\ IF attempt.reportState = "pending"
                THEN /\ attempt' = [attempt EXCEPT !.reportState = "sending"]
                     /\ Goto(c, "post")
                ELSE Goto(c, "done") /\ UNCHANGED attempt
             /\ UNCHANGED result
       /\ UNCHANGED <<remote, arg, seen, obs, crashes>>

ConfirmReport(c) ==
    /\ pc[c] = "confirm"
    /\ \/ /\ attempt.reportState = seen[c].reportState
          /\ attempt' = [attempt EXCEPT !.reportState = "confirmed"]
          /\ Goto(c, "done") /\ UNCHANGED result
       \/ /\ attempt.reportState # seen[c].reportState
          /\ Finish(c, "raised") /\ UNCHANGED attempt
    /\ UNCHANGED <<remote, arg, seen, obs, crashes>>

\* report_checkout_outcome: applied and confirmed, refused because the mandate
\* expired, or unanswered, whether it was applied or not.
PostReport(c) ==
    /\ pc[c] = "post"
    /\ posts' = posts + 1
    /\ \/ /\ prava' = [prava EXCEPT ![attempt.session] = Told(attempt.reportStatus)]
          /\ \E o \in {"ok", "lost"} : obs' = [obs EXCEPT ![c] = o]
       \/ /\ \E o \in {"expired", "lost"} : obs' = [obs EXCEPT ![c] = o]
          /\ UNCHANGED prava
    /\ Goto(c, "posted")
    /\ UNCHANGED <<attempt, merchant, arg, seen, result, crashes>>

RecordReport(c) ==
    /\ pc[c] = "posted"
    /\ \/ /\ attempt.reportState = "sending"
          /\ attempt' = [attempt EXCEPT !.reportState =
                            CASE obs[c] = "ok" -> "confirmed"
                              [] obs[c] = "expired" -> "mandate_expired"
                              [] OTHER -> "ambiguous"]
          /\ Goto(c, "done") /\ UNCHANGED result
       \/ /\ attempt.reportState # "sending"
          /\ Finish(c, "raised") /\ UNCHANGED attempt
    /\ UNCHANGED <<remote, arg, seen, obs, crashes>>

-----------------------------------------------------------------------------
(* The surroundings.                                                       *)

\* Everything a caller holds in memory is gone.
Forget(c) ==
    /\ Goto(c, "idle")
    /\ arg' = [arg EXCEPT ![c] = NoArg]
    /\ seen' = [seen EXCEPT ![c] = NoAttempt]
    /\ obs' = [obs EXCEPT ![c] = "none"]
    /\ result' = [result EXCEPT ![c] = "none"]

Return(c) ==
    /\ pc[c] = "done"
    /\ Forget(c)
    /\ UNCHANGED <<attempt, remote, crashes>>

Crash(c) ==
    /\ crashes < MaxCrashes
    /\ crashes' = crashes + 1
    /\ Forget(c)
    /\ UNCHANGED <<attempt, remote>>

\* The merchant decides a submitted payment, or gives up on an unpaid order.
Settle ==
    /\ \/ /\ merchant.status = "processing"
          /\ \E s \in {"paid", "declined"} : merchant' = [merchant EXCEPT !.status = s]
       \/ /\ merchant.status = "open"
          /\ merchant' = [merchant EXCEPT !.status = "declined"]
    /\ UNCHANGED <<attempt, prava, posts, pc, arg, seen, obs, result, crashes>>

\* One step of the code inside the boundary.
Step(c) ==
    \/ Lookup(c) \/ Reserve(c) \/ BeginOrder(c) \/ CheckCart(c) \/ CreateOrder(c)
    \/ RecordOrder(c) \/ CheckPrice(c) \/ Consume(c) \/ Execute(c) \/ Executed(c)
    \/ Reread(c) \/ ReconcileOrder(c) \/ PersistOutcome(c) \/ DeliverReport(c)
    \/ ConfirmReport(c) \/ PostReport(c) \/ RecordReport(c)

Next ==
    \/ \E c \in Callers :
          \/ \E a \in Amounts, s \in Sessions : Complete(c, a, s)
          \/ Reconcile(c) \/ Step(c) \/ Return(c) \/ Crash(c)
    \/ Settle

Spec == Init /\ [][Next]_vars

\* A remote read that told what there was to tell.  Who asks, and how long, is
\* for module Workflow to say.
Conclusive(c) ==
    \/ /\ ReconcileOrder(c)
       /\ merchant.status \in {"paid", "declined"} => obs'[c] # "pending"
    \/ DeliverReport(c) /\ result'[c] # "raised"

-----------------------------------------------------------------------------
(* The inductive invariant behind the properties.                          *)

\* The steps of the one caller whose insert created the row.
Owner == {"begin", "cart", "create", "record", "price", "consume", "execute",
          "executed"}

\* A row that is still open to an outcome of its known order.
Live == {"ambiguous", "order_created", "executing", "pending"}

\* There is at most one owner; it alone moves the row up to the order, and
\* nothing was created or submitted before its own turn to do so.
OwnerInv ==
    /\ \A c, d \in Callers : pc[c] \in Owner /\ pc[d] \in Owner => c = d
    /\ \A c \in Callers :
        /\ pc[c] \in Owner => attempt.state \notin {"absent", "failed", "price_changed"}
        /\ pc[c] \in {"cart", "create", "record"} => attempt.state = "creating_order"
        /\ pc[c] \in {"begin", "cart", "create"} => merchant.created = 0
        /\ pc[c] \in Owner \ {"executed"} => merchant.submitted = 0
        /\ pc[c] = "record" /\ obs[c] = "created" => merchant.created = 1
        /\ pc[c] \in {"price", "consume", "execute"} => attempt.order
        /\ pc[c] \in {"consume", "execute"} =>
               attempt.exposed /\ merchant.amount = attempt.amount

\* The exposure is durable before the payment page can be reached, for the
\* very amount of the row, and only on an order of that amount.
ExposureIsDurable ==
    merchant.submitted > 0 =>
        attempt.exposed /\ attempt.order /\ merchant.amount = attempt.amount

\* The row, the merchant and the row's session agree.
RowInv ==
    /\ merchant.created <= 1 /\ merchant.submitted <= 1
    /\ merchant.created = 0 <=> merchant.status = "none"
    /\ merchant.submitted = 0 => merchant.status \in {"none", "open", "declined"}
    /\ attempt.state = "absent" => merchant.created = 0
    /\ attempt.state \in {"absent", "failed", "price_changed"} => merchant.submitted = 0
    /\ attempt.state # "absent" => attempt.session \in Sessions
    /\ attempt.order => merchant.created = 1
                        /\ attempt.state \in Live \cup {"completed", "declined", "price_changed"}
    /\ attempt.state = "completed" => merchant.status = "paid"
    /\ attempt.state = "declined" => merchant.status = "declined"
    /\ ExposureIsDurable

\* What a caller holds is as old as it is, but never wrong.
CallerInv ==
    \A c \in Callers :
        /\ pc[c] \in {"lookup", "reserve"} => arg[c].session \in Sessions
        /\ pc[c] \in {"observe", "persist"} => seen[c].state \in Live
        /\ pc[c] \in {"observe", "persist", "deliver"} =>
               attempt.state # "absent" /\ seen[c].session \in Sessions
        /\ pc[c] = "persist" =>
               /\ obs[c] = "approved" => merchant.status = "paid"
               /\ obs[c] = "declined" => merchant.status = "declined"
               /\ obs[c] \in {"approved", "declined", "pending"}
        /\ result[c] = "completed" => merchant.status = "paid"
        /\ result[c] = "price_changed" => attempt.state = "price_changed"

\* Only the caller that claimed the report posts it, once.
ReportInv ==
    /\ posts <= 1
    /\ \A c, d \in Callers : pc[c] = "post" /\ pc[d] = "post" => c = d
    /\ \A c \in Callers :
        /\ pc[c] = "post" => posts = 0 /\ attempt.reportState = "sending"
        /\ pc[c] \in {"confirm", "posted"} => posts = 1
    /\ attempt.reportState \in {"not_required", "pending"} => posts = 0
    /\ attempt.reportState # "not_required" => attempt.reportStatus # "none"
    /\ attempt.reportStatus = "APPROVED" => attempt.state = "completed"
    /\ attempt.reportStatus = "DECLINED" => attempt.state = "declined"
    /\ \A s \in Sessions : prava[s] # "awaiting" =>
           /\ posts = 1 /\ s = attempt.session
           /\ attempt.reportStatus # "none" /\ prava[s] = Told(attempt.reportStatus)

IInv == OwnerInv /\ RowInv /\ CallerInv /\ ReportInv

-----------------------------------------------------------------------------
(* Properties                                                              *)

\* One idempotency key creates at most one merchant order, whatever number of
\* calls, retries and crashes there are ("a retry must never create again").
AtMostOneOrder == merchant.created <= 1

\* ... and puts at most one payment to the merchant ("can never consume or
\* execute it again").
AtMostOneSubmission == merchant.submitted <= 1

\* The status report is posted at most once, crashes between the claim and
\* the answer included ("without blind retries").
AtMostOneReport == posts <= 1

\* The three together: nothing the boundary does to the merchant or to Prava is
\* done twice under one key.
AtMostOnce == AtMostOneOrder /\ AtMostOneSubmission /\ AtMostOneReport

\* Prava is told what the merchant finally decided, and only the session the
\* attempt is bound to is told anything.
ReportsAreTrue ==
    \A s \in Sessions : prava[s] # "awaiting" =>
        /\ s = attempt.session
        /\ merchant.status = IF prava[s] = "completed" THEN "paid" ELSE "declined"

\* What a caller reports upwards as final is what the merchant decided.
OutcomesAreTrue ==
    \A c \in Callers : pc[c] = "done" =>
        /\ result[c] = "completed" => merchant.status = "paid"
        /\ result[c] = "price_changed" => merchant.submitted = 0

\* A decided attempt stays decided, whatever stale copies callers still hold.
DecidedIsFinal ==
    [][attempt.state \in {"completed", "declined", "failed", "price_changed"}
         => attempt'.state = attempt.state]_vars

\* The attempt keeps the promise of module PurchaseOnce.
ToldPrava ==
    IF \E s \in Sessions : prava[s] = "completed" THEN "paid"
    ELSE IF \E s \in Sessions : prava[s] = "failed" THEN "declined"
    ELSE "nothing"

Concluded ==
    CASE attempt.state = "completed" -> "paid"
      [] attempt.state = "declined" -> "declined"
      [] attempt.state \in {"failed", "price_changed"} -> "refused"
      [] OTHER -> "undecided"

Promise == INSTANCE PurchaseOnce WITH
    payment <- merchant.status, submitted <- merchant.submitted > 0,
    outcome <- Concluded, told <- ToldPrava

KeepsThePromise == Promise!Spec
=============================================================================
