--------------------------- MODULE InvoiceCheckout ---------------------------
(***************************************************************************)
(* The second merchant boundary, merchant/saas_invoice_checkout.py: paying *)
(* ONE hosted invoice, in real mode, under one idempotency key.            *)
(*                                                                         *)
(* It shares the attempt row and the report outbox with the boundary of    *)
(* module Checkout, but the invoice exists beforehand, the executor says   *)
(* itself how the payment went, and nothing is ever read back: a caller    *)
(* that meets an existing row only answers what the row says.              *)
(***************************************************************************)
EXTENDS Integers

CONSTANTS
    Callers,     \* requests that may be inside the boundary
    Amounts,     \* money amounts, in minor units
    Sessions,    \* Prava sessions a credential can come from
    NoSession,   \* "no session"
    MaxCrashes   \* bound on the number of callers that die

ASSUME AmountsAssumption == Amounts \subseteq Nat \ {0}
ASSUME SessionsAssumption == NoSession \notin Sessions
ASSUME MaxCrashesAssumption == MaxCrashes \in Nat

VARIABLES
    attempt,     \* the row of the idempotency key
    invoice,     \* the vendor's side: payments submitted, by which session
    prava,       \* what each Prava session was told
    posts,       \* report-status requests sent
    pc,          \* where each caller is
    arg,         \* the amount and session each caller was called with
    answer,      \* what the executor did and said
    result,      \* what each caller will return
    crashes      \* callers that died so far

vars == <<attempt, invoice, prava, posts, pc, arg, answer, result, crashes>>

-----------------------------------------------------------------------------
AttemptState == {"absent", "reserved", "executing", "ambiguous",
                 "price_changed", "pending", "completed", "declined"}

\* "used" is credential_used, "exposed" credential_exposed.
Attempt == [state : AttemptState, amount : Amounts \cup {0},
            session : Sessions \cup {NoSession}, exposed : BOOLEAN, used : BOOLEAN,
            reportStatus : {"none", "APPROVED", "DECLINED"},
            reportState : {"not_required", "pending", "sending", "ambiguous",
                           "confirmed"}]

NoAttempt == [state |-> "absent", amount |-> 0, session |-> NoSession,
              exposed |-> FALSE, used |-> FALSE, reportStatus |-> "none",
              reportState |-> "not_required"]

\* "same" says that amount and currency are the approved ones as far as the
\* executor observed them, "order" that it returned an order id.
Answer == [word : {"none", "error", "completed", "failed", "pending"},
           used : BOOLEAN, same : BOOLEAN, order : BOOLEAN]
NoAnswer == [word |-> "none", used |-> FALSE, same |-> TRUE, order |-> FALSE]

PC == {"idle", "lookup", "reserve", "expose", "consume", "execute", "answer",
       "record", "claim", "post", "confirm", "doubt", "done"}
Result == {"none", "completed", "failed", "pending", "price_changed", "raised"}
NoArg == [amount |-> 0, session |-> NoSession]

TypeOK ==
    /\ attempt \in Attempt
    /\ invoice \in [submitted : Nat, session : Sessions \cup {NoSession},
                    status : {"open", "processing", "paid", "declined"}]
    /\ prava \in [Sessions -> {"awaiting", "completed", "failed"}]
    /\ posts \in Nat
    /\ pc \in [Callers -> PC]
    /\ arg \in [Callers -> [amount : Amounts \cup {0},
                            session : Sessions \cup {NoSession}]]
    /\ answer \in [Callers -> Answer]
    /\ result \in [Callers -> Result]
    /\ crashes \in Nat

Init ==
    /\ attempt = NoAttempt
    /\ invoice = [submitted |-> 0, session |-> NoSession, status |-> "open"]
    /\ prava = [s \in Sessions |-> "awaiting"]
    /\ posts = 0
    /\ pc = [c \in Callers |-> "idle"]
    /\ arg = [c \in Callers |-> NoArg]
    /\ answer = [c \in Callers |-> NoAnswer]
    /\ result = [c \in Callers |-> "none"]
    /\ crashes = 0

-----------------------------------------------------------------------------
Goto(c, label) == pc' = [pc EXCEPT ![c] = label]

Finish(c, r) ==
    /\ Goto(c, "done")
    /\ result' = [result EXCEPT ![c] = r]

\* _attempt_result
ResultOf(state) ==
    CASE state = "completed" -> "completed"
      [] state = "declined" -> "failed"
      [] state = "price_changed" -> "price_changed"
      [] OTHER -> "pending"

\* A compare-and-swap on the state.  The code raises when it is refused; it
\* never is, since only the caller that inserted the row writes it (OwnerInv).
Swap(expected, new) == attempt.state = expected /\ attempt' = new

-----------------------------------------------------------------------------
(* complete_checkout                                                       *)

Complete(c, a, s) ==
    /\ pc[c] = "idle"
    /\ arg' = [arg EXCEPT ![c] = [amount |-> a, session |-> s]]
    /\ Goto(c, "lookup")
    /\ UNCHANGED <<attempt, invoice, prava, posts, answer, result, crashes>>

\* reconcile_checkout reads the row, and that is all.
Reconcile(c) ==
    /\ pc[c] = "idle"
    /\ attempt.state # "absent"
    /\ Finish(c, ResultOf(attempt.state))
    /\ UNCHANGED <<attempt, invoice, prava, posts, arg, answer, crashes>>

\* Mutant: a retry takes the payment up where the row says it stopped.
LookupRetries(c) ==
    /\ pc[c] = "lookup"
    /\ \/ attempt.state = "executing" /\ Goto(c, "consume") /\ UNCHANGED result
       \/ /\ attempt.state \notin {"absent", "executing"}
          /\ Finish(c, ResultOf(attempt.state))
       \/ attempt.state = "absent" /\ Goto(c, "reserve") /\ UNCHANGED result
    /\ UNCHANGED <<attempt, invoice, prava, posts, arg, answer, crashes>>

\* An existing row is answered or refused.  Without one the link, the quote
\* and the credential's reporting references are looked up, which may raise.
Lookup(c) ==
    /\ pc[c] = "lookup"
    /\ \/ /\ attempt.state # "absent"
          /\ Finish(c, IF attempt.amount = arg[c].amount
                       THEN ResultOf(attempt.state) ELSE "raised")
       \/ /\ attempt.state = "absent"
          /\ Goto(c, "reserve") /\ UNCHANGED result
       \/ attempt.state = "absent" /\ Finish(c, "raised")
    /\ UNCHANGED <<attempt, invoice, prava, posts, arg, answer, crashes>>

\* The primary key admits one insert; a loser is answered with the row if it is
\* bound to the very same request.
Reserve(c) ==
    /\ pc[c] = "reserve"
    /\ \/ /\ attempt.state = "absent"
          /\ attempt' = [NoAttempt EXCEPT !.state = "reserved", !.amount = arg[c].amount,
                                          !.session = arg[c].session]
          /\ Goto(c, "expose") /\ UNCHANGED result
       \/ /\ attempt.state # "absent"
          /\ Finish(c, IF attempt.amount = arg[c].amount /\ attempt.session = arg[c].session
                       THEN ResultOf(attempt.state) ELSE "raised")
          /\ UNCHANGED attempt
    /\ UNCHANGED <<invoice, prava, posts, arg, answer, crashes>>

\* The exposure is durable before the credential is touched.
Expose(c) ==
    /\ pc[c] = "expose"
    /\ Swap("reserved", [attempt EXCEPT !.state = "executing", !.exposed = TRUE])
    /\ Goto(c, "consume")
    /\ UNCHANGED <<invoice, prava, posts, arg, answer, result, crashes>>

\* consume_credential raises when the card fields expired or are gone; the row
\* stays as it is.
Consume(c) ==
    /\ pc[c] = "consume"
    /\ \/ Goto(c, "execute") /\ UNCHANGED result
       \/ Finish(c, "raised")
    /\ UNCHANGED <<attempt, invoice, prava, posts, arg, answer, crashes>>

\* executor.execute, first half: the card is put to the invoice, or not.
Execute(c) ==
    /\ pc[c] = "execute"
    /\ \E used \in BOOLEAN :
         /\ answer' = [answer EXCEPT ![c].used = used]
         /\ invoice' = IF used
                       THEN [invoice EXCEPT !.submitted = @ + 1, !.status = "processing",
                                            !.session = arg[c].session]
                       ELSE invoice
    /\ Goto(c, "answer")
    /\ UNCHANGED <<attempt, prava, posts, arg, result, crashes>>

\* Second half, what the executor says: it may fail whatever it did; it says
\* truly whether the card was used, and of a used card how the payment went.  An
\* observed amount that is no number raises, and the row stays as it is.
Say(c) ==
    /\ pc[c] = "answer"
    /\ \/ /\ \E word \in {"error", "completed", "failed", "pending"},
                same \in BOOLEAN, order \in BOOLEAN :
               /\ answer[c].used /\ word = "completed" => invoice.status = "paid"
               /\ answer[c].used /\ word = "failed" => invoice.status = "declined"
               /\ answer' = [answer EXCEPT ![c] = [word |-> word, used |-> @.used,
                                                   same |-> same, order |-> order]]
          /\ Goto(c, "record") /\ UNCHANGED result
       \/ Finish(c, "raised") /\ UNCHANGED answer
    /\ UNCHANGED <<attempt, invoice, prava, posts, arg, crashes>>

\* A total that deviates is a changed price only if the card was not used.
Deviation(ans) == IF ans.used THEN "ambiguous" ELSE "price_changed"

\* "completed" needs a used card and an order id.
SettledState(ans) ==
    CASE ans.word = "completed" /\ ans.used /\ ans.order -> "completed"
      [] ans.word = "failed" -> "declined"
      [] OTHER -> "pending"

\* Mutant: an executor that failed is taken for a payment that did not happen.
FailedState(ans) ==
    CASE ans.word = "error" -> "declined"
      [] ans.word # "error" /\ ~ans.same -> Deviation(ans)
      [] OTHER -> SettledState(ans)

\* The state an execution is recorded as.
StateOf(ans) ==
    CASE ans.word = "error" -> "ambiguous"
      [] ans.word # "error" /\ ~ans.same -> Deviation(ans)
      [] OTHER -> SettledState(ans)

\* A settled attempt owes Prava a report if the card was used.
Owes(ans) == StateOf(ans) \in {"completed", "declined"} /\ ans.used

\* After an error the use of the card stays unknown.
UseKnown(ans) == ans.word # "error" /\ ans.used

\* One UPDATE records state, use of the card and the report that is owed.
Record(c) ==
    LET ans == answer[c]
        state == StateOf(ans)
        known == [attempt EXCEPT !.state = state, !.used = UseKnown(ans)]
    IN /\ pc[c] = "record"
       /\ IF Owes(ans)
          THEN /\ Swap("executing", [known EXCEPT
                        !.reportStatus = IF state = "completed" THEN "APPROVED" ELSE "DECLINED",
                        !.reportState = "pending"])
               /\ Goto(c, "claim") /\ UNCHANGED result
          ELSE Swap("executing", known) /\ Finish(c, ResultOf(state))
       /\ UNCHANGED <<invoice, prava, posts, arg, answer, crashes>>

-----------------------------------------------------------------------------
(* _deliver_report                                                         *)

\* Mutant: the report is left to a reconciliation that never delivers it.
ClaimSkipped(c) ==
    /\ pc[c] = "claim"
    /\ Finish(c, ResultOf(attempt.state))
    /\ UNCHANGED <<attempt, invoice, prava, posts, arg, answer, crashes>>

\* claim_merchant_checkout_report.  (The branch of a claim that fails is not
\* taken: only the caller that owes the report comes here, see OwnerInv.)
Claim(c) ==
    /\ pc[c] = "claim"
    /\ attempt.reportState = "pending"
    /\ attempt' = [attempt EXCEPT !.reportState = "sending"]
    /\ Goto(c, "post")
    /\ UNCHANGED <<invoice, prava, posts, arg, answer, result, crashes>>

\* Prava's word for an approved or a declined checkout.
Told(status) == IF status = "APPROVED" THEN "completed" ELSE "failed"

\* report_checkout_outcome: confirmed, or an error, which may hide that Prava
\* took it.
Post(c) ==
    /\ pc[c] = "post"
    /\ posts' = posts + 1
    /\ \/ /\ prava' = [prava EXCEPT ![attempt.session] = Told(attempt.reportStatus)]
          /\ Goto(c, "confirm") \/ Goto(c, "doubt")
       \/ Goto(c, "doubt") /\ UNCHANGED prava
    /\ UNCHANGED <<attempt, invoice, arg, answer, result, crashes>>

Delivered(c) ==
    /\ pc[c] \in {"confirm", "doubt"}
    /\ attempt.reportState = "sending"
    /\ attempt' = [attempt EXCEPT !.reportState =
                      IF pc[c] = "confirm" THEN "confirmed" ELSE "ambiguous"]
    /\ Finish(c, ResultOf(attempt.state))
    /\ UNCHANGED <<invoice, prava, posts, arg, answer, crashes>>

-----------------------------------------------------------------------------
Forget(c) ==
    /\ Goto(c, "idle")
    /\ arg' = [arg EXCEPT ![c] = NoArg]
    /\ answer' = [answer EXCEPT ![c] = NoAnswer]
    /\ result' = [result EXCEPT ![c] = "none"]

Return(c) ==
    /\ pc[c] = "done"
    /\ Forget(c)
    /\ UNCHANGED <<attempt, invoice, prava, posts, crashes>>

Crash(c) ==
    /\ pc[c] # "idle" /\ crashes < MaxCrashes
    /\ crashes' = crashes + 1
    /\ Forget(c)
    /\ UNCHANGED <<attempt, invoice, prava, posts>>

\* The vendor decides a submitted payment.
Settle ==
    /\ invoice.status = "processing"
    /\ \E s \in {"paid", "declined"} : invoice' = [invoice EXCEPT !.status = s]
    /\ UNCHANGED <<attempt, prava, posts, pc, arg, answer, result, crashes>>

Step(c) ==
    \/ Lookup(c) \/ Reserve(c) \/ Expose(c) \/ Consume(c) \/ Execute(c) \/ Say(c)
    \/ Record(c) \/ Claim(c) \/ Post(c) \/ Delivered(c)

Next ==
    \/ \E c \in Callers :
          \/ \E a \in Amounts, s \in Sessions : Complete(c, a, s)
          \/ Reconcile(c) \/ Step(c) \/ Return(c) \/ Crash(c)
    \/ Settle

Spec == Init /\ [][Next]_vars

\* A started call runs on.
FairSpec == Spec /\ \A c \in Callers : WF_vars(Step(c))

-----------------------------------------------------------------------------
(* The inductive invariant                                                 *)

Owner == {"expose", "consume", "execute", "answer", "record", "claim", "post",
          "confirm", "doubt"}

\* The caller whose insert made the row is alone with it, and what it knows of
\* the execution is true.
OwnerInv ==
    /\ \A c, d \in Callers : pc[c] \in Owner /\ pc[d] \in Owner => c = d
    /\ \A c \in Callers :
        /\ pc[c] \in {"lookup", "reserve"} => arg[c].session \in Sessions
        /\ pc[c] \in Owner => /\ attempt.session \in Sessions
                              /\ attempt.session = arg[c].session
        /\ pc[c] = "expose" => attempt.state = "reserved"
        /\ pc[c] \in {"consume", "execute", "answer", "record"} =>
               attempt.state = "executing" /\ attempt.exposed
        /\ pc[c] \in {"expose", "consume", "execute"} => invoice.submitted = 0
        /\ pc[c] \in {"answer", "record"} =>
               (answer[c].used <=> invoice.submitted > 0)
        /\ pc[c] = "record" =>
               /\ answer[c].word # "none"
               /\ answer[c].used /\ answer[c].word = "completed" => invoice.status = "paid"
               /\ answer[c].used /\ answer[c].word = "failed" => invoice.status = "declined"
        /\ pc[c] = "claim" => attempt.reportState = "pending"
        /\ pc[c] \in {"post", "confirm", "doubt"} => attempt.reportState = "sending"
        /\ pc[c] = "post" => posts = 0

\* Row and invoice agree.
RowInv ==
    /\ invoice.submitted <= 1
    /\ invoice.submitted = 0 <=> invoice.status = "open"
    /\ invoice.submitted > 0 => attempt.exposed /\ invoice.session = attempt.session
    /\ attempt.exposed => attempt.state \notin {"absent", "reserved"}
    /\ attempt.state = "completed" => attempt.used /\ invoice.status = "paid"
    /\ attempt.state = "declined" /\ attempt.used => invoice.status = "declined"
    /\ attempt.state = "declined" /\ ~attempt.used => invoice.submitted = 0
    /\ attempt.state = "price_changed" => invoice.submitted = 0

\* The report says what the row decided, and is posted once.
ReportInv ==
    /\ posts <= 1
    /\ attempt.reportState \in {"not_required", "pending"} => posts = 0
    /\ attempt.reportState = "not_required" <=> attempt.reportStatus = "none"
    /\ attempt.reportStatus = "APPROVED" => attempt.state = "completed"
    /\ attempt.reportStatus = "DECLINED" => attempt.state = "declined" /\ attempt.used
    /\ \A s \in Sessions : prava[s] # "awaiting" =>
           /\ posts = 1 /\ s = attempt.session
           /\ attempt.reportStatus # "none" /\ prava[s] = Told(attempt.reportStatus)

\* A caller's result is the row's.
ResultInv ==
    \A c \in Callers :
        /\ result[c] = "completed" => attempt.state = "completed"
        /\ result[c] = "failed" => attempt.state = "declined"
        /\ result[c] = "price_changed" => attempt.state = "price_changed"

IInv == OwnerInv /\ RowInv /\ ReportInv /\ ResultInv

-----------------------------------------------------------------------------
(* Properties                                                              *)

\* One idempotency key puts one card to the invoice at most, after its exposure
\* was written down and with the credential the row is bound to.
PaidOnce ==
    /\ invoice.submitted <= 1
    /\ invoice.submitted > 0 => attempt.exposed /\ invoice.session = attempt.session

\* Prava is told once at most, and only of the session whose card was used
\* what the vendor decided on it.
ReportsAreTrue ==
    /\ posts <= 1
    /\ \A s \in Sessions : prava[s] # "awaiting" =>
         /\ s = invoice.session
         /\ invoice.status = IF prava[s] = "completed" THEN "paid" ELSE "declined"

\* Only a paid invoice is returned as completed; a failed or changed one is not
\* paid and no longer will be, so that the workflow may end or ask again.
OutcomesAreTrue ==
    \A c \in Callers :
        /\ result[c] = "completed" => invoice.status = "paid"
        /\ result[c] \in {"failed", "price_changed"} =>
               invoice.status \in {"open", "declined"}

\* The boundary keeps the promise of module PurchaseOnce, as module Checkout
\* does; the order is the vendor's invoice, taken up by the reservation.
Concluded ==
    CASE attempt.state = "completed" -> "paid"
      [] attempt.state = "declined" /\ attempt.used -> "declined"
      [] attempt.state = "declined" /\ ~attempt.used -> "refused"
      [] attempt.state = "price_changed" -> "refused"
      [] OTHER -> "undecided"

ToldPrava ==
    IF \E s \in Sessions : prava[s] = "completed" THEN "paid"
    ELSE IF \E s \in Sessions : prava[s] = "failed" THEN "declined"
    ELSE "nothing"

Promise == INSTANCE PurchaseOnce WITH
    payment <- IF attempt.state = "absent" THEN "none" ELSE invoice.status,
    submitted <- invoice.submitted > 0,
    outcome <- Concluded, told <- ToldPrava

KeepsThePromise == Promise!Spec

\* An owed report is claimed by the call that owes it, unless that call dies:
\* nobody else ever does.
OwedIsClaimed ==
    attempt.reportState = "pending" ~> (attempt.reportState # "pending" \/ crashes > 0)
=============================================================================
