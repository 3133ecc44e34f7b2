---------------------------- MODULE InvoiceProofs ----------------------------
(***************************************************************************)
(* Theorems of module InvoiceCheckout, for any number of callers, any      *)
(* amounts and sessions and any number of crashes.                         *)
(***************************************************************************)
EXTENDS InvoiceCheckout, TLAPS

\* What an execution is recorded as is a state of the row.
LEMMA StateOfType ==
    ASSUME NEW ans \in Answer
    PROVE  StateOf(ans) \in {"ambiguous", "price_changed", "pending", "completed", "declined"}
BY DEF StateOf, Deviation, SettledState

\* Every state is answered with a result.
LEMMA ResultOfType == ASSUME NEW st PROVE ResultOf(st) \in Result
BY DEF ResultOf, Result

\* What recording an execution does to the row: its state, the use of the card,
\* and a report exactly if it is settled by a used card.
LEMMA Recorded ==
    ASSUME TypeOK, NEW c \in Callers, Record(c)
    PROVE  /\ attempt' \in Attempt
           /\ attempt.state = "executing"
           /\ attempt'.state = StateOf(answer[c])
           /\ attempt'.used = UseKnown(answer[c])
           /\ UNCHANGED <<attempt.session, attempt.exposed>>
           /\ Owes(answer[c]) =>
                /\ attempt'.reportState = "pending"
                /\ attempt'.reportStatus = IF attempt'.state = "completed"
                                           THEN "APPROVED" ELSE "DECLINED"
                /\ pc' = [pc EXCEPT ![c] = "claim"] /\ UNCHANGED result
           /\ ~Owes(answer[c]) =>
                /\ UNCHANGED <<attempt.reportState, attempt.reportStatus>>
                /\ pc' = [pc EXCEPT ![c] = "done"]
                /\ result' = [result EXCEPT ![c] = ResultOf(attempt'.state)]
<1> DEFINE state == StateOf(answer[c])
           known == [attempt EXCEPT !.state = state, !.used = UseKnown(answer[c])]
           status == IF state = "completed" THEN "APPROVED" ELSE "DECLINED"
<1>1. answer[c] \in Answer
  BY DEF TypeOK
<1>2. state \in AttemptState
  BY <1>1, StateOfType DEF AttemptState
<1>3. UseKnown(answer[c]) \in BOOLEAN
  BY DEF UseKnown
<1>4. attempt \in Attempt
  BY DEF TypeOK
<1>5. /\ known \in Attempt /\ known.state = state /\ known.used = UseKnown(answer[c])
      /\ known.session = attempt.session /\ known.exposed = attempt.exposed
      /\ known.reportState = attempt.reportState /\ known.reportStatus = attempt.reportStatus
  <2> HIDE DEF state
  <2>1. QED
    BY <1>2, <1>3, <1>4 DEF Attempt
<1>6. CASE Owes(answer[c])
  <2>1. /\ attempt.state = "executing" /\ pc' = [pc EXCEPT ![c] = "claim"] /\ UNCHANGED result
        /\ attempt' = [known EXCEPT !.reportStatus = status, !.reportState = "pending"]
    BY <1>6 DEF Record, Swap, Goto
  <2>2. status \in {"APPROVED", "DECLINED"}
    OBVIOUS
  <2> HIDE DEF known, status
  <2>3. /\ attempt' \in Attempt /\ attempt'.state = known.state /\ attempt'.used = known.used
        /\ attempt'.session = known.session /\ attempt'.exposed = known.exposed
        /\ attempt'.reportState = "pending" /\ attempt'.reportStatus = status
    BY <1>5, <2>1, <2>2 DEF Attempt
  <2>4. QED
    BY <1>5, <1>6, <2>1, <2>3 DEF status
<1>7. CASE ~Owes(answer[c])
  <2>1. /\ attempt.state = "executing" /\ pc' = [pc EXCEPT ![c] = "done"]
        /\ result' = [result EXCEPT ![c] = ResultOf(state)] /\ attempt' = known
    BY <1>7 DEF Record, Swap, Finish, Goto
  <2> HIDE DEF known
  <2>2. QED
    BY <1>5, <1>7, <2>1
<1>8. QED
  BY <1>6, <1>7

\* What a recorded state says of the execution it was drawn from.
LEMMA StateOfTrue ==
    ASSUME NEW ans \in Answer
    PROVE  /\ StateOf(ans) = "completed" => ans.used /\ ans.word = "completed"
           /\ StateOf(ans) = "declined" => ans.word = "failed"
           /\ StateOf(ans) = "price_changed" => ~ans.used
           /\ UseKnown(ans) => ans.used
           /\ StateOf(ans) # "ambiguous" => (UseKnown(ans) <=> ans.used)
BY DEF StateOf, Deviation, SettledState, UseKnown, Answer

-----------------------------------------------------------------------------
\* Every variable keeps its type, whatever the code does.
THEOREM InvoiceTyping == Spec => []TypeOK
<1>1. Init => TypeOK
  BY DEF Init, TypeOK, NoAttempt, NoArg, NoAnswer, Attempt, AttemptState, Answer, PC, Result
<1>2. TypeOK /\ [Next]_vars => TypeOK'
  <2> SUFFICES ASSUME TypeOK, [Next]_vars PROVE TypeOK'
    OBVIOUS
  <2> USE DEF TypeOK
  <2>1. ASSUME NEW c \in Callers, NEW a \in Amounts, NEW s \in Sessions, Complete(c, a, s) PROVE TypeOK'
    BY <2>1 DEF Complete, Goto, PC, Result, Attempt, AttemptState, Answer
  <2>2. ASSUME NEW c \in Callers, Reconcile(c) PROVE TypeOK'
    BY <2>2, ResultOfType DEF Reconcile, Finish, Goto, PC, Result, Attempt, AttemptState, Answer
  <2>3. ASSUME NEW c \in Callers, Lookup(c) PROVE TypeOK'
    BY <2>3, ResultOfType DEF Lookup, Finish, Goto, PC, Result, Attempt, AttemptState, Answer
  <2>4. ASSUME NEW c \in Callers, Reserve(c) PROVE TypeOK'
    <3>1. attempt' \in Attempt
      <4>1. arg[c].amount \in Amounts \cup {0} /\ arg[c].session \in Sessions \cup {NoSession}
        OBVIOUS
      <4>2. CASE attempt' = attempt
        BY <4>2
      <4>3. CASE attempt' = [NoAttempt EXCEPT !.state = "reserved", !.amount = arg[c].amount,
                                              !.session = arg[c].session]
        BY <4>1, <4>3 DEF NoAttempt, Attempt, AttemptState
      <4>4. QED
        BY <2>4, <4>2, <4>3 DEF Reserve
    <3>2. pc' \in [Callers -> PC] /\ result' \in [Callers -> Result]
      BY <2>4, ResultOfType DEF Reserve, Finish, Goto, PC, Result
    <3>3. QED
      BY <2>4, <3>1, <3>2 DEF Reserve
  <2>5. ASSUME NEW c \in Callers, Expose(c) PROVE TypeOK'
    BY <2>5 DEF Expose, Swap, Goto, PC, Result, Attempt, AttemptState, Answer
  <2>6. ASSUME NEW c \in Callers, Consume(c) PROVE TypeOK'
    <3>1. pc' \in [Callers -> PC] /\ result' \in [Callers -> Result]
      BY <2>6 DEF Consume, Finish, Goto, PC, Result
    <3>2. QED
      BY <2>6, <3>1 DEF Consume
  <2>7. ASSUME NEW c \in Callers, Execute(c) PROVE TypeOK'
    <3>1. PICK used \in BOOLEAN :
            /\ answer' = [answer EXCEPT ![c].used = used]
            /\ invoice' = IF used
                          THEN [invoice EXCEPT !.submitted = @ + 1, !.status = "processing",
                                               !.session = arg[c].session]
                          ELSE invoice
      BY <2>7 DEF Execute
    <3>2. answer' \in [Callers -> Answer]
      BY <3>1 DEF Answer
    <3>3. invoice' \in [submitted : Nat, session : Sessions \cup {NoSession},
                        status : {"open", "processing", "paid", "declined"}]
      <4>1. CASE used
        <5>1. arg[c].session \in Sessions \cup {NoSession} /\ invoice.submitted + 1 \in Nat
          OBVIOUS
        <5>2. invoice' = [invoice EXCEPT !.submitted = invoice.submitted + 1,
                                         !.status = "processing",
                                         !.session = arg[c].session]
          BY <3>1, <4>1
        <5>3. QED
          BY <5>1, <5>2
      <4>2. CASE ~used
        BY <3>1, <4>2
      <4>3. QED
        BY <4>1, <4>2
    <3>4. pc' \in [Callers -> PC]
      BY <2>7 DEF Execute, Goto, PC
    <3>5. QED
      BY <2>7, <3>2, <3>3, <3>4 DEF Execute
  <2>8. ASSUME NEW c \in Callers, Say(c) PROVE TypeOK'
    <3>1. CASE Goto(c, "record")
      <4>1. UNCHANGED result
        BY <2>8, <3>1 DEF Say, Finish, Goto
      <4>2. PICK word \in {"error", "completed", "failed", "pending"},
                 same \in BOOLEAN, order \in BOOLEAN :
              answer' = [answer EXCEPT ![c] = [word |-> word, used |-> @.used,
                                               same |-> same, order |-> order]]
        BY <2>8, <3>1 DEF Say, Finish, Goto
      <4>3. answer' \in [Callers -> Answer]
        BY <4>2 DEF Answer
      <4>4. QED
        BY <2>8, <3>1, <4>1, <4>3 DEF Say, Goto, PC
    <3>2. CASE Finish(c, "raised") /\ UNCHANGED answer
      BY <2>8, <3>2 DEF Say, Finish, Goto, PC, Result
    <3>3. QED
      BY <2>8, <3>1, <3>2 DEF Say
  <2>9. ASSUME NEW c \in Callers, Record(c) PROVE TypeOK'
    <3>1. attempt' \in Attempt
      BY <2>9, Recorded
    <3>2. pc' \in [Callers -> PC] /\ result' \in [Callers -> Result]
      <4>1. CASE Owes(answer[c])
        BY <2>9, <4>1, Recorded DEF PC
      <4>2. CASE ~Owes(answer[c])
        BY <2>9, <4>2, Recorded, ResultOfType DEF PC
      <4>3. QED
        BY <4>1, <4>2
    <3>3. UNCHANGED <<invoice, prava, posts, arg, answer, crashes>>
      BY <2>9 DEF Record
    <3>4. QED
      BY <3>1, <3>2, <3>3
  <2>10. ASSUME NEW c \in Callers, Claim(c) PROVE TypeOK'
    BY <2>10 DEF Claim, Goto, PC, Result, Attempt, AttemptState, Answer
  <2>11. ASSUME NEW c \in Callers, Post(c) PROVE TypeOK'
    BY <2>11 DEF Post, Goto, PC, Result, Attempt, AttemptState, Answer, Told
  <2>12. ASSUME NEW c \in Callers, Delivered(c) PROVE TypeOK'
    BY <2>12, ResultOfType DEF Delivered, Finish, Goto, PC, Result, Attempt, AttemptState, Answer
  <2>13. ASSUME NEW c \in Callers, Return(c) PROVE TypeOK'
    BY <2>13 DEF Return, Forget, Goto, NoArg, NoAnswer, PC, Result, Attempt, AttemptState, Answer
  <2>14. ASSUME NEW c \in Callers, Crash(c) PROVE TypeOK'
    BY <2>14 DEF Crash, Forget, Goto, NoArg, NoAnswer, PC, Result, Attempt, AttemptState, Answer
  <2>15. CASE Settle
    BY <2>15 DEF Settle
  <2>16. CASE UNCHANGED vars
    BY <2>16 DEF vars
  <2>17. QED
    BY <2>1, <2>2, <2>3, <2>4, <2>5, <2>6, <2>7, <2>8, <2>9, <2>10, <2>11, <2>12, <2>13, <2>14, <2>15, <2>16 DEF Next, Step
<1>3. QED
  BY <1>1, <1>2, PTL DEF Spec

-----------------------------------------------------------------------------
\* The inductive invariant: the caller that inserted the row is alone with it,
\* and row, invoice, report and results agree.
THEOREM InvoiceInvariance == Spec => []IInv
<1>1. Init => IInv
  BY DEF Init, IInv, OwnerInv, RowInv, ReportInv, ResultInv, NoAttempt, Owner
<1>2. TypeOK /\ IInv /\ [Next]_vars => IInv'
  <2> SUFFICES ASSUME TypeOK, IInv, [Next]_vars PROVE IInv'
    OBVIOUS
  <2> USE DEF TypeOK, IInv
  <2>1. ASSUME NEW c \in Callers, NEW a \in Amounts, NEW s \in Sessions, Complete(c, a, s) PROVE IInv'
    <3>1. OwnerInv'
      BY <2>1 DEF OwnerInv, RowInv, ReportInv, Owner, PC, Complete, Goto
    <3>2. RowInv'
      BY <2>1 DEF OwnerInv, RowInv, Owner, PC, Complete, Goto
    <3>3. ReportInv'
      BY <2>1 DEF OwnerInv, RowInv, ReportInv, Owner, PC, Told, Complete, Goto
    <3>4. ResultInv'
      BY <2>1 DEF OwnerInv, RowInv, ResultInv, Owner, PC, Complete, Goto
    <3>5. QED
      BY <3>1, <3>2, <3>3, <3>4
  <2>2. ASSUME NEW c \in Callers, Reconcile(c) PROVE IInv'
    <3>1. OwnerInv'
      BY <2>2 DEF OwnerInv, RowInv, ReportInv, Owner, PC, Reconcile, Finish, Goto, ResultOf
    <3>2. RowInv'
      BY <2>2 DEF OwnerInv, RowInv, Owner, PC, Reconcile, Finish, Goto, ResultOf
    <3>3. ReportInv'
      BY <2>2 DEF OwnerInv, RowInv, ReportInv, Owner, PC, Told, Reconcile, Finish, Goto, ResultOf
    <3>4. ResultInv'
      BY <2>2 DEF OwnerInv, RowInv, ResultInv, Owner, PC, Reconcile, Finish, Goto, ResultOf
    <3>5. QED
      BY <3>1, <3>2, <3>3, <3>4
  <2>3. ASSUME NEW c \in Callers, Lookup(c) PROVE IInv'
    <3>1. OwnerInv'
      BY <2>3 DEF OwnerInv, RowInv, ReportInv, Owner, PC, Lookup, Finish, Goto, ResultOf
    <3>2. RowInv'
      BY <2>3 DEF OwnerInv, RowInv, Owner, PC, Lookup, Finish, Goto, ResultOf
    <3>3. ReportInv'
      BY <2>3 DEF OwnerInv, RowInv, ReportInv, Owner, PC, Told, Lookup, Finish, Goto, ResultOf
    <3>4. ResultInv'
      BY <2>3 DEF OwnerInv, RowInv, ResultInv, Owner, PC, Lookup, Finish, Goto, ResultOf
    <3>5. QED
      BY <3>1, <3>2, <3>3, <3>4
  <2>4. ASSUME NEW c \in Callers, Reserve(c) PROVE IInv'
    <3>1. CASE attempt.state # "absent"
      <4>1. /\ pc[c] = "reserve" /\ pc' = [pc EXCEPT ![c] = "done"]
            /\ UNCHANGED <<attempt, invoice, prava, posts, arg, answer>>
            /\ \/ result' = [result EXCEPT ![c] = ResultOf(attempt.state)]
               \/ result' = [result EXCEPT ![c] = "raised"]
        BY <2>4, <3>1 DEF Reserve, Finish, Goto
      <4>2. OwnerInv' /\ RowInv' /\ ReportInv'
        BY <4>1 DEF OwnerInv, RowInv, ReportInv, Owner, PC
      <4>3. ResultInv'
        BY <4>1 DEF ResultInv, ResultOf
      <4>4. QED
        BY <4>2, <4>3
    <3>2. CASE attempt.state = "absent"
      <4>1. /\ pc[c] = "reserve" /\ pc' = [pc EXCEPT ![c] = "expose"]
            /\ attempt'.state = "reserved" /\ attempt'.session = arg[c].session
            /\ attempt'.exposed = FALSE /\ attempt'.used = FALSE
            /\ attempt'.reportStatus = "none" /\ attempt'.reportState = "not_required"
            /\ UNCHANGED <<invoice, prava, posts, arg, answer, result>>
        BY <2>4, <3>2 DEF Reserve, NoAttempt, Goto
      <4>2. /\ invoice.submitted = 0 /\ ~attempt.exposed /\ arg[c].session \in Sessions
            /\ attempt.reportStatus = "none"
        BY <3>2, <4>1 DEF OwnerInv, RowInv, ReportInv, Attempt
      <4>3. posts = 0 /\ \A s \in Sessions : prava[s] = "awaiting"
        BY <4>2 DEF ReportInv
      <4>4. \A d \in Callers : pc[d] \notin Owner
        BY <3>2, <4>2 DEF OwnerInv, ReportInv, Owner
      <4>5. OwnerInv'
        BY <4>1, <4>2, <4>4 DEF OwnerInv, Owner, PC
      <4>6. RowInv'
        BY <4>1, <4>2 DEF RowInv
      <4>7. ReportInv'
        BY <4>1, <4>3 DEF ReportInv
      <4>8. ResultInv'
        BY <3>2, <4>1 DEF ResultInv
      <4>9. QED
        BY <4>5, <4>6, <4>7, <4>8
    <3>3. QED
      BY <3>1, <3>2
  <2>5. ASSUME NEW c \in Callers, Expose(c) PROVE IInv'
    <3>1. OwnerInv'
      BY <2>5 DEF OwnerInv, RowInv, ReportInv, Owner, PC, Expose, Swap, Goto
    <3>2. RowInv'
      BY <2>5 DEF OwnerInv, RowInv, Owner, PC, Expose, Swap, Goto
    <3>3. ReportInv'
      BY <2>5 DEF OwnerInv, RowInv, ReportInv, Owner, PC, Told, Expose, Swap, Goto
    <3>4. ResultInv'
      BY <2>5 DEF OwnerInv, RowInv, ResultInv, Owner, PC, Expose, Swap, Goto
    <3>5. QED
      BY <3>1, <3>2, <3>3, <3>4
  <2>6. ASSUME NEW c \in Callers, Consume(c) PROVE IInv'
    <3>1. OwnerInv'
      BY <2>6 DEF OwnerInv, RowInv, ReportInv, Owner, PC, Consume, Finish, Goto
    <3>2. RowInv'
      BY <2>6 DEF OwnerInv, RowInv, Owner, PC, Consume, Finish, Goto
    <3>3. ReportInv'
      BY <2>6 DEF OwnerInv, RowInv, ReportInv, Owner, PC, Told, Consume, Finish, Goto
    <3>4. ResultInv'
      BY <2>6 DEF OwnerInv, RowInv, ResultInv, Owner, PC, Consume, Finish, Goto
    <3>5. QED
      BY <3>1, <3>2, <3>3, <3>4
  <2>7. ASSUME NEW c \in Callers, Execute(c) PROVE IInv'
    <3>1. OwnerInv'
      BY <2>7 DEF OwnerInv, RowInv, ReportInv, Owner, PC, Execute, Goto
    <3>2. RowInv'
      BY <2>7 DEF OwnerInv, RowInv, Owner, PC, Execute, Goto
    <3>3. ReportInv'
      BY <2>7 DEF OwnerInv, RowInv, ReportInv, Owner, PC, Told, Execute, Goto
    <3>4. ResultInv'
      BY <2>7 DEF OwnerInv, RowInv, ResultInv, Owner, PC, Execute, Goto
    <3>5. QED
      BY <3>1, <3>2, <3>3, <3>4
  <2>8. ASSUME NEW c \in Callers, Say(c) PROVE IInv'
    <3>1. OwnerInv'
      BY <2>8 DEF OwnerInv, RowInv, ReportInv, Owner, PC, Say, Finish, Goto
    <3>2. RowInv'
      BY <2>8 DEF OwnerInv, RowInv, Owner, PC, Say, Finish, Goto
    <3>3. ReportInv'
      BY <2>8 DEF OwnerInv, RowInv, ReportInv, Owner, PC, Told, Say, Finish, Goto
    <3>4. ResultInv'
      BY <2>8 DEF OwnerInv, RowInv, ResultInv, Owner, PC, Say, Finish, Goto
    <3>5. QED
      BY <3>1, <3>2, <3>3, <3>4
  <2>9. ASSUME NEW c \in Callers, Record(c) PROVE IInv'
    <3>a. answer[c] \in Answer
      OBVIOUS
    <3>b. /\ attempt.state = "executing" /\ attempt.exposed
          /\ attempt.reportState = "not_required" /\ attempt.reportStatus = "none"
          /\ answer[c].used <=> invoice.submitted > 0
      BY <2>9, Recorded DEF Record, OwnerInv, ReportInv, Attempt
    <3>c. Owes(answer[c]) => attempt'.state \in {"completed", "declined"} /\ attempt'.used
      BY <2>9, <3>a, Recorded, StateOfTrue DEF Owes
    <3>d. UNCHANGED <<invoice, prava, posts, arg, answer>> /\ pc[c] = "record"
      BY <2>9 DEF Record
    <3>e. attempt'.state \in {"ambiguous", "price_changed", "pending", "completed", "declined"}
      BY <2>9, <3>a, Recorded, StateOfType
    <3>f. /\ UNCHANGED <<attempt.session, attempt.exposed>>
          /\ attempt'.state = StateOf(answer[c]) /\ attempt'.used = UseKnown(answer[c])
      BY <2>9, Recorded
    <3>1. OwnerInv'
      <4>1. CASE Owes(answer[c])
        <5>1. pc' = [pc EXCEPT ![c] = "claim"] /\ attempt'.reportState = "pending"
          BY <2>9, <4>1, Recorded
        <5>2. QED
          BY <3>d, <3>f, <5>1 DEF OwnerInv, Owner, PC
      <4>2. CASE ~Owes(answer[c])
        <5>1. pc' = [pc EXCEPT ![c] = "done"]
          BY <2>9, <4>2, Recorded
        <5>2. QED
          BY <3>d, <3>f, <5>1 DEF OwnerInv, Owner, PC
      <4>3. QED
        BY <4>1, <4>2
    <3>2. RowInv'
      <4>1. /\ answer[c].used /\ answer[c].word = "completed" => invoice.status = "paid"
            /\ answer[c].used /\ answer[c].word = "failed" => invoice.status = "declined"
        BY <3>d DEF OwnerInv
      <4>2. /\ attempt'.state = "completed" => attempt'.used /\ invoice.status = "paid"
            /\ attempt'.state = "declined" /\ attempt'.used => invoice.status = "declined"
            /\ attempt'.state \in {"declined", "price_changed"} /\ ~attempt'.used =>
                   ~answer[c].used
            /\ attempt'.state = "price_changed" => ~answer[c].used
        BY <3>a, <3>f, <4>1, StateOfTrue
      <4>3. ~answer[c].used => invoice.submitted = 0
        BY <3>b DEF RowInv
      <4>4. QED
        BY <3>b, <3>d, <3>e, <3>f, <4>2, <4>3 DEF RowInv
    <3>3. ReportInv'
      BY <2>9, <3>a, <3>b, <3>c, <3>d, <3>e, Recorded, StateOfTrue DEF OwnerInv, RowInv, ReportInv, Owner, PC, Told, ResultOf
    <3>4. ResultInv'
      <4>1. \A d \in Callers : result[d] \notin {"completed", "failed", "price_changed"}
        BY <3>b DEF ResultInv
      <4>2. CASE Owes(answer[c])
        BY <2>9, <4>1, <4>2, Recorded DEF ResultInv
      <4>3. CASE ~Owes(answer[c])
        <5>1. result' = [result EXCEPT ![c] = ResultOf(attempt'.state)]
          BY <2>9, <4>3, Recorded
        <5>2. QED
          BY <4>1, <5>1 DEF ResultInv, ResultOf
      <4>4. QED
        BY <4>2, <4>3
    <3>5. QED
      BY <3>1, <3>2, <3>3, <3>4
  <2>10. ASSUME NEW c \in Callers, Claim(c) PROVE IInv'
    <3>1. OwnerInv'
      BY <2>10 DEF OwnerInv, RowInv, ReportInv, Owner, PC, Claim, Goto
    <3>2. RowInv'
      BY <2>10 DEF OwnerInv, RowInv, Owner, PC, Claim, Goto
    <3>3. ReportInv'
      BY <2>10 DEF OwnerInv, RowInv, ReportInv, Owner, PC, Told, Claim, Goto
    <3>4. ResultInv'
      BY <2>10 DEF OwnerInv, RowInv, ResultInv, Owner, PC, Claim, Goto
    <3>5. QED
      BY <3>1, <3>2, <3>3, <3>4
  <2>11. ASSUME NEW c \in Callers, Post(c) PROVE IInv'
    <3>1. OwnerInv'
      BY <2>11 DEF OwnerInv, RowInv, ReportInv, Owner, PC, Post, Goto
    <3>2. RowInv'
      BY <2>11 DEF OwnerInv, RowInv, Owner, PC, Post, Goto
    <3>3. ReportInv'
      BY <2>11 DEF OwnerInv, RowInv, ReportInv, Owner, PC, Told, Post, Goto
    <3>4. ResultInv'
      BY <2>11 DEF OwnerInv, RowInv, ResultInv, Owner, PC, Post, Goto
    <3>5. QED
      BY <3>1, <3>2, <3>3, <3>4
  <2>12. ASSUME NEW c \in Callers, Delivered(c) PROVE IInv'
    <3>1. OwnerInv'
      BY <2>12 DEF OwnerInv, RowInv, ReportInv, Owner, PC, Delivered, Finish, Goto, ResultOf
    <3>2. RowInv'
      BY <2>12 DEF OwnerInv, RowInv, Owner, PC, Delivered, Finish, Goto, ResultOf
    <3>3. ReportInv'
      BY <2>12 DEF OwnerInv, RowInv, ReportInv, Owner, PC, Told, Delivered, Finish, Goto, ResultOf
    <3>4. ResultInv'
      BY <2>12 DEF OwnerInv, RowInv, ResultInv, Owner, PC, Delivered, Finish, Goto, ResultOf
    <3>5. QED
      BY <3>1, <3>2, <3>3, <3>4
  <2>13. ASSUME NEW c \in Callers, Return(c) PROVE IInv'
    <3>1. OwnerInv'
      BY <2>13 DEF OwnerInv, RowInv, ReportInv, Owner, PC, Return, Forget, Goto, NoArg, NoAnswer
    <3>2. RowInv'
      BY <2>13 DEF OwnerInv, RowInv, Owner, PC, Return, Forget, Goto, NoArg, NoAnswer
    <3>3. ReportInv'
      BY <2>13 DEF OwnerInv, RowInv, ReportInv, Owner, PC, Told, Return, Forget, Goto, NoArg, NoAnswer
    <3>4. ResultInv'
      BY <2>13 DEF OwnerInv, RowInv, ResultInv, Owner, PC, Return, Forget, Goto, NoArg, NoAnswer
    <3>5. QED
      BY <3>1, <3>2, <3>3, <3>4
  <2>14. ASSUME NEW c \in Callers, Crash(c) PROVE IInv'
    <3>1. OwnerInv'
      BY <2>14 DEF OwnerInv, RowInv, ReportInv, Owner, PC, Crash, Forget, Goto, NoArg, NoAnswer
    <3>2. RowInv'
      BY <2>14 DEF OwnerInv, RowInv, Owner, PC, Crash, Forget, Goto, NoArg, NoAnswer
    <3>3. ReportInv'
      BY <2>14 DEF OwnerInv, RowInv, ReportInv, Owner, PC, Told, Crash, Forget, Goto, NoArg, NoAnswer
    <3>4. ResultInv'
      BY <2>14 DEF OwnerInv, RowInv, ResultInv, Owner, PC, Crash, Forget, Goto, NoArg, NoAnswer
    <3>5. QED
      BY <3>1, <3>2, <3>3, <3>4
  <2>15. CASE Settle
    <3>1. OwnerInv'
      BY <2>15 DEF OwnerInv, RowInv, ReportInv, Owner, PC, Settle
    <3>2. RowInv'
      BY <2>15 DEF OwnerInv, RowInv, Owner, PC, Settle
    <3>3. ReportInv'
      BY <2>15 DEF OwnerInv, RowInv, ReportInv, Owner, PC, Told, Settle
    <3>4. ResultInv'
      BY <2>15 DEF OwnerInv, RowInv, ResultInv, Owner, PC, Settle
    <3>5. QED
      BY <3>1, <3>2, <3>3, <3>4
  <2>16. CASE UNCHANGED vars
    <3>1. OwnerInv'
      BY <2>16 DEF OwnerInv, RowInv, ReportInv, Owner, PC, vars
    <3>2. RowInv'
      BY <2>16 DEF OwnerInv, RowInv, Owner, PC, vars
    <3>3. ReportInv'
      BY <2>16 DEF OwnerInv, RowInv, ReportInv, Owner, PC, Told, vars
    <3>4. ResultInv'
      BY <2>16 DEF OwnerInv, RowInv, ResultInv, Owner, PC, vars
    <3>5. QED
      BY <3>1, <3>2, <3>3, <3>4
  <2>17. QED
    BY <2>1, <2>2, <2>3, <2>4, <2>5, <2>6, <2>7, <2>8, <2>9, <2>10, <2>11, <2>12, <2>13, <2>14, <2>15, <2>16 DEF Next, Step
<1>3. QED
  BY <1>1, <1>2, InvoiceTyping, PTL DEF Spec

-----------------------------------------------------------------------------
\* One card is put to the invoice, after its exposure was written down and with
\* the credential of the row's session.
THEOREM InvoicePaidOnce == Spec => []PaidOnce
<1>1. IInv => PaidOnce
  BY DEF IInv, RowInv, PaidOnce
<1>2. QED
  BY <1>1, InvoiceInvariance, PTL

\* The status report is posted once, for the session whose card was used, and
\* says what the vendor decided.
THEOREM InvoiceReports == Spec => []ReportsAreTrue
<1>1. TypeOK /\ IInv => ReportsAreTrue
  <2> SUFFICES ASSUME TypeOK, IInv
               PROVE  ReportsAreTrue
    OBVIOUS
  <2>1. posts <= 1
    BY DEF IInv, ReportInv
  <2>2. ASSUME NEW s \in Sessions, prava[s] # "awaiting"
        PROVE  /\ s = invoice.session
               /\ invoice.status = IF prava[s] = "completed" THEN "paid" ELSE "declined"
    <3>1. /\ s = attempt.session /\ prava[s] = Told(attempt.reportStatus)
          /\ attempt.reportStatus \in {"APPROVED", "DECLINED"}
      BY <2>2 DEF IInv, ReportInv, TypeOK, Attempt
    <3>2. invoice.status = IF attempt.reportStatus = "APPROVED" THEN "paid" ELSE "declined"
      BY <3>1 DEF IInv, ReportInv, RowInv
    <3>3. invoice.session = attempt.session
      BY <3>2 DEF IInv, RowInv, TypeOK
    <3>4. QED
      BY <3>1, <3>2, <3>3 DEF Told
  <2>3. QED
    BY <2>1, <2>2 DEF ReportsAreTrue
<1>2. QED
  BY <1>1, InvoiceTyping, InvoiceInvariance, PTL

\* No caller carries a false outcome out of the boundary.
THEOREM InvoiceOutcomes == Spec => []OutcomesAreTrue
<1>1. IInv => OutcomesAreTrue
  BY DEF IInv, ResultInv, RowInv, OutcomesAreTrue
<1>2. QED
  BY <1>1, InvoiceInvariance, PTL

-----------------------------------------------------------------------------
\* Every run of this boundary, too, is a run of the abstract purchase.
THEOREM InvoiceRefinement == Spec => KeepsThePromise
<1>1. Init => Promise!Init
  BY DEF Init, NoAttempt, Promise!Init, Concluded, ToldPrava
<1>2. TypeOK /\ IInv /\ [Next]_vars => [Promise!Next]_(Promise!vars)
  <2> SUFFICES ASSUME TypeOK, IInv, [Next]_vars
               PROVE  Promise!Next \/ UNCHANGED Promise!vars
    OBVIOUS
  <2> USE DEF TypeOK
  <2>1. CASE UNCHANGED <<attempt, invoice, prava>>
    BY <2>1 DEF Promise!vars, Concluded, ToldPrava
  <2>2. ASSUME NEW c \in Callers, Reserve(c) PROVE Promise!Next \/ UNCHANGED Promise!vars
    <3>1. CASE attempt.state # "absent"
      BY <2>2, <2>1, <3>1 DEF Reserve
    <3>2. CASE attempt.state = "absent"
      <4>1. invoice.status = "open" /\ UNCHANGED <<invoice, prava>>
        BY <2>2, <3>2 DEF Reserve, IInv, RowInv
      <4>2. attempt'.state = "reserved"
        BY <2>2, <3>2 DEF Reserve, NoAttempt
      <4>3. QED
        BY <3>2, <4>1, <4>2 DEF Promise!Next, Promise!PlaceOrder, Concluded, ToldPrava
    <3>3. QED
      BY <3>1, <3>2
  <2>3. ASSUME NEW c \in Callers, Expose(c) PROVE UNCHANGED Promise!vars
    BY <2>3 DEF Expose, Swap, Promise!vars, Concluded, ToldPrava, Attempt
  <2>4. ASSUME NEW c \in Callers, Execute(c) PROVE Promise!Next \/ UNCHANGED Promise!vars
    <3>1. /\ attempt.state = "executing" /\ invoice.submitted = 0 /\ invoice.status = "open"
          /\ UNCHANGED <<attempt, prava>>
      BY <2>4 DEF Execute, IInv, OwnerInv, RowInv
    <3>2. CASE UNCHANGED invoice
      BY <2>1, <3>1, <3>2
    <3>3. CASE invoice'.submitted = 1 /\ invoice'.status = "processing"
      BY <3>1, <3>3 DEF Promise!Next, Promise!Submit, Concluded, ToldPrava
    <3>4. QED
      BY <2>4, <3>1, <3>2, <3>3 DEF Execute
  <2>5. ASSUME NEW c \in Callers, Record(c) PROVE Promise!Next \/ UNCHANGED Promise!vars
    <3>1. answer[c] \in Answer
      OBVIOUS
    <3>2. /\ attempt.state = "executing" /\ UNCHANGED <<invoice, prava>>
          /\ answer[c].used <=> invoice.submitted > 0
          /\ answer[c].used /\ answer[c].word = "completed" => invoice.status = "paid"
          /\ answer[c].used /\ answer[c].word = "failed" => invoice.status = "declined"
      BY <2>5 DEF Record, IInv, OwnerInv
    <3>3. /\ attempt'.state = StateOf(answer[c])
          /\ attempt'.used = UseKnown(answer[c])
      BY <2>5, Recorded
    <3>4. CASE attempt'.state \in {"ambiguous", "pending"}
      BY <3>2, <3>4 DEF Promise!vars, Concluded, ToldPrava
    <3>5. CASE attempt'.state \in {"completed", "declined", "price_changed"}
      BY <3>1, <3>2, <3>3, <3>5, StateOfTrue
         DEF Promise!Next, Promise!Conclude, Promise!Decided, Concluded, ToldPrava
    <3>6. QED
      BY <3>1, <3>3, <3>4, <3>5, StateOfType
  <2>6. ASSUME NEW c \in Callers, Claim(c) \/ Delivered(c) PROVE UNCHANGED Promise!vars
    <3>1. /\ UNCHANGED <<invoice, prava>>
          /\ attempt'.state = attempt.state /\ attempt'.used = attempt.used
      BY <2>6 DEF Claim, Delivered, Attempt
    <3>2. QED
      BY <3>1 DEF Promise!vars, Concluded, ToldPrava
  <2>7. ASSUME NEW c \in Callers, Post(c) PROVE Promise!Next \/ UNCHANGED Promise!vars
    <3>1. /\ attempt.session \in Sessions /\ posts = 0 /\ UNCHANGED <<attempt, invoice>>
          /\ attempt.reportState = "sending"
      BY <2>7 DEF Post, IInv, OwnerInv, Owner
    <3>2. /\ \A s \in Sessions : prava[s] = "awaiting"
          /\ \/ attempt.reportStatus = "APPROVED" /\ attempt.state = "completed"
             \/ attempt.reportStatus = "DECLINED" /\ attempt.state = "declined" /\ attempt.used
      BY <3>1 DEF IInv, ReportInv, Attempt
    <3>3. CASE prava' = [prava EXCEPT ![attempt.session] = Told(attempt.reportStatus)]
      BY <3>1, <3>2, <3>3
         DEF Told, Promise!Next, Promise!Tell, Promise!Decided, Concluded, ToldPrava
    <3>4. QED
      BY <2>1, <2>7, <3>1, <3>3 DEF Post
  <2>8. CASE Settle
    BY <2>8 DEF Settle, IInv, RowInv, Promise!Next, Promise!Settle, Promise!Decided,
                Concluded, ToldPrava
  <2>9. QED
    BY <2>1, <2>2, <2>3, <2>4, <2>5, <2>6, <2>7, <2>8
       DEF Next, Step, vars, Complete, Reconcile, Lookup, Consume, Say, Return, Crash
<1>3. QED
  BY <1>1, <1>2, InvoiceTyping, InvoiceInvariance, PTL DEF Spec, KeepsThePromise, Promise!Spec
=============================================================================
