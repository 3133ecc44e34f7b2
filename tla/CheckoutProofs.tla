---------------------------- MODULE CheckoutProofs ----------------------------
(***************************************************************************)
(* Theorems of module Checkout, for any number of callers, any amounts and *)
(* sessions and any number of crashes.                                     *)
(***************************************************************************)
EXTENDS Checkout, TLAPS

\* The rows a caller's steps write are rows of the table.
LEMMA SettledType ==
    ASSUME NEW row \in Attempt, NEW copy \in Attempt, NEW o \in Obs
    PROVE  Settled(row, copy, o) \in Attempt
<1> DEFINE status == IF o = "approved" THEN "APPROVED" ELSE "DECLINED"
           owed == copy.exposed /\ copy.reportState # "confirmed"
           decided == IF o = "approved" THEN "completed" ELSE "declined"
           told == IF owed THEN status ELSE row.reportStatus
           due == IF owed THEN "pending" ELSE row.reportState
<1>1. decided \in AttemptState
  BY DEF AttemptState
<1>2. told \in ReportStatus
  BY DEF Attempt, ReportStatus
<1>3. due \in ReportState
  BY DEF Attempt, ReportState
<1>4. Settled(row, copy, o) = [row EXCEPT !.state = decided,
                                          !.reportStatus = told,
                                          !.reportState = due]
  BY DEF Settled
<1>5. QED
  <2> HIDE DEF decided, told, due
  <2>1. QED
    BY <1>1, <1>2, <1>3, <1>4 DEF Attempt

LEMMA StateType ==
    ASSUME NEW row \in Attempt, NEW st \in AttemptState
    PROVE  [row EXCEPT !.state = st] \in Attempt
BY DEF Attempt

LEMMA ReportType ==
    ASSUME NEW row \in Attempt, NEW st \in ReportState
    PROVE  [row EXCEPT !.reportState = st] \in Attempt
BY DEF Attempt

\* Where a caller goes, and what it reports.
LEMMA GotoType ==
    ASSUME NEW c \in Callers, TypeOK
    PROVE  /\ \A l \in PC : Goto(c, l) => pc' \in [Callers -> PC]
           /\ \A r \in Result : Finish(c, r) => /\ pc' \in [Callers -> PC]
                                                /\ result' \in [Callers -> Result]
<1>1. \A l \in PC : Goto(c, l) => pc' \in [Callers -> PC]
  BY DEF TypeOK, Goto
<1>2. "done" \in PC
  BY DEF PC
<1>3. QED
  BY <1>1, <1>2 DEF TypeOK, Finish

LEMMA ResumeType ==
    ASSUME NEW c \in Callers, NEW row \in Attempt, TypeOK, Resume(c, row)
    PROVE  /\ seen' \in [Callers -> Attempt]
           /\ pc' \in [Callers -> PC]
           /\ result' \in [Callers -> Result]
<1>1. seen' \in [Callers -> Attempt]
  BY DEF Resume, TypeOK
<1>2. CASE row.state \in {"completed", "declined"}
  BY <1>1, <1>2, GotoType DEF Resume, TypeOK, PC, Result
<1>3. CASE row.state \in {"failed", "price_changed"}
  BY <1>1, <1>3, GotoType DEF Resume, TypeOK, PC, Result
<1>4. CASE row.state \notin {"completed", "declined", "failed", "price_changed"}
  BY <1>1, <1>4, GotoType DEF Resume, TypeOK, PC, Result
<1>5. QED
  BY <1>2, <1>3, <1>4

LEMMA ForgetType ==
    ASSUME NEW c \in Callers, TypeOK, Forget(c)
    PROVE  /\ pc' \in [Callers -> PC]
           /\ arg' \in [Callers -> [amount : Amounts \cup {0},
                                    session : Sessions \cup {NoSession}]]
           /\ seen' \in [Callers -> Attempt]
           /\ obs' \in [Callers -> Obs]
           /\ result' \in [Callers -> Result]
BY DEF Forget, TypeOK, Goto, PC, NoArg, NoAttempt, Attempt, AttemptState,
       ReportState, ReportStatus, Obs, Result

-----------------------------------------------------------------------------
LEMMA TypedAtFirst == Init => TypeOK
BY DEF Init, TypeOK, NoAttempt, NoArg, Attempt, AttemptState, ReportState,
       ReportStatus, Merchant, PC, Obs, Result

LEMMA TypeKept ==
    ASSUME TypeOK, [Next]_vars
    PROVE  TypeOK'
<1> USE DEF TypeOK
<1>1. ASSUME NEW c \in Callers, NEW a \in Amounts, NEW s \in Sessions, Complete(c, a, s)
      PROVE TypeOK'
  BY <1>1 DEF Complete, remote, Goto, PC
<1>2. ASSUME NEW c \in Callers, Reconcile(c) PROVE TypeOK'
  BY <1>2 DEF Reconcile, remote, Goto, PC
<1>3. ASSUME NEW c \in Callers, Lookup(c) PROVE TypeOK'
  BY <1>3, ResumeType DEF Lookup, remote, Goto, Finish, PC, Result
<1>4. ASSUME NEW c \in Callers, Reserve(c) PROVE TypeOK'
  <2>1. [NoAttempt EXCEPT !.state = "reserved", !.amount = arg[c].amount,
                          !.session = arg[c].session] \in Attempt
    BY DEF Attempt, NoAttempt, AttemptState, ReportState, ReportStatus
  <2>2. attempt' \in Attempt
    BY <1>4, <2>1 DEF Reserve
  <2>3. CASE Resume(c, attempt) /\ UNCHANGED attempt
    BY <1>4, <2>3, ResumeType DEF Reserve, remote
  <2>4. CASE ~(Resume(c, attempt) /\ UNCHANGED attempt)
    BY <1>4, <2>2, <2>4 DEF Reserve, remote, Goto, Finish, PC, Result
  <2>5. QED
    BY <2>3, <2>4
<1>5. ASSUME NEW c \in Callers, BeginOrder(c) PROVE TypeOK'
  <2>1. [attempt EXCEPT !.state = "creating_order"] \in Attempt
    BY StateType DEF AttemptState
  <2>2. attempt' \in Attempt
    BY <1>5, <2>1 DEF BeginOrder, Swap, Refused
  <2>3. pc' \in [Callers -> PC] /\ result' \in [Callers -> Result]
    BY <1>5 DEF BeginOrder, Refused, Goto, Finish, PC, Result
  <2>4. QED
    BY <1>5, <2>2, <2>3 DEF BeginOrder, remote
<1>6. ASSUME NEW c \in Callers, CheckCart(c) PROVE TypeOK'
  <2>1. [attempt EXCEPT !.state = "failed"] \in Attempt
    BY StateType DEF AttemptState
  <2>2. attempt' \in Attempt
    BY <1>6, <2>1 DEF CheckCart, Swap, Refused
  <2>3. pc' \in [Callers -> PC] /\ result' \in [Callers -> Result]
    BY <1>6 DEF CheckCart, Refused, Goto, Finish, PC, Result
  <2>4. QED
    BY <1>6, <2>2, <2>3 DEF CheckCart, remote
<1>7. ASSUME NEW c \in Callers, CreateOrder(c) PROVE TypeOK'
  <2>1. CASE obs' = [obs EXCEPT ![c] = "lost"] /\ UNCHANGED merchant
    BY <1>7, <2>1 DEF CreateOrder, Goto, PC, Obs
  <2>2. ASSUME NEW a \in Amounts, NEW o \in {"created", "lost", "invalid"},
               merchant' = [merchant EXCEPT !.created = @ + 1, !.amount = a,
                                            !.status = "open"],
               obs' = [obs EXCEPT ![c] = o]
        PROVE  TypeOK'
    <3>1. merchant' \in Merchant
      <4>1. merchant.created + 1 \in Nat
        BY DEF Merchant
      <4>2. QED
        BY <2>2, <4>1 DEF Merchant
    <3>2. obs' \in [Callers -> Obs]
      BY <2>2 DEF Obs
    <3>3. QED
      BY <1>7, <3>1, <3>2 DEF CreateOrder, Goto, PC
  <2>3. QED
    BY <1>7, <2>1, <2>2 DEF CreateOrder
<1>8. ASSUME NEW c \in Callers, RecordOrder(c) PROVE TypeOK'
  <2>1. [attempt EXCEPT !.state = "order_created", !.order = TRUE] \in Attempt
    BY DEF Attempt, AttemptState
  <2>2. [attempt EXCEPT !.state = "ambiguous"] \in Attempt
    BY StateType DEF AttemptState
  <2>3. attempt' \in Attempt
    BY <1>8, <2>1, <2>2 DEF RecordOrder, Swap, Refused
  <2>4. pc' \in [Callers -> PC] /\ result' \in [Callers -> Result]
    BY <1>8 DEF RecordOrder, Refused, Goto, Finish, PC, Result
  <2>5. QED
    BY <1>8, <2>3, <2>4 DEF RecordOrder, remote
<1>9. ASSUME NEW c \in Callers, CheckPrice(c) PROVE TypeOK'
  <2>1. [attempt EXCEPT !.state = "price_changed"] \in Attempt
    BY StateType DEF AttemptState
  <2>2. [attempt EXCEPT !.state = "executing", !.exposed = TRUE] \in Attempt
    BY DEF Attempt, AttemptState
  <2>3. attempt' \in Attempt
    BY <1>9, <2>1, <2>2 DEF CheckPrice, Swap, Refused
  <2>4. pc' \in [Callers -> PC] /\ result' \in [Callers -> Result]
    BY <1>9 DEF CheckPrice, Refused, Goto, Finish, PC, Result
  <2>5. QED
    BY <1>9, <2>3, <2>4 DEF CheckPrice, remote
<1>10. ASSUME NEW c \in Callers, Consume(c) PROVE TypeOK'
  BY <1>10 DEF Consume, remote, Goto, Finish, PC, Result
<1>11. ASSUME NEW c \in Callers, Execute(c) PROVE TypeOK'
  <2>1. merchant' \in Merchant
    <3>1. merchant.submitted + 1 \in Nat
      BY DEF Merchant
    <3>2. [merchant EXCEPT !.submitted = @ + 1,
              !.status = IF @ = "open" THEN "processing" ELSE @] \in Merchant
      BY <3>1 DEF Merchant
    <3>3. QED
      BY <1>11, <3>2 DEF Execute
  <2>2. obs' \in [Callers -> Obs]
    BY <1>11 DEF Execute, Obs
  <2>3. QED
    BY <1>11, <2>1, <2>2 DEF Execute, Goto, PC
<1>12. ASSUME NEW c \in Callers, Executed(c) PROVE TypeOK'
  <2>1. [attempt EXCEPT !.state = "ambiguous"] \in Attempt
    BY StateType DEF AttemptState
  <2>2. attempt' \in Attempt
    BY <1>12, <2>1 DEF Executed, Swap, Refused
  <2>3. pc' \in [Callers -> PC] /\ result' \in [Callers -> Result]
    BY <1>12 DEF Executed, Refused, Goto, Finish, PC, Result
  <2>4. QED
    BY <1>12, <2>2, <2>3 DEF Executed, remote
<1>13. ASSUME NEW c \in Callers, Reread(c) PROVE TypeOK'
  BY <1>13, ResumeType DEF Reread, remote, Goto, Finish, PC, Result
<1>14. ASSUME NEW c \in Callers, ReconcileOrder(c) PROVE TypeOK'
  BY <1>14 DEF ReconcileOrder, remote, Goto, PC, Obs
<1>15. ASSUME NEW c \in Callers, PersistOutcome(c) PROVE TypeOK'
  <2>1. [attempt EXCEPT !.state = "pending"] \in Attempt
    BY DEF Attempt, AttemptState
  <2>2. Settled(attempt, seen[c], obs[c]) \in Attempt
    BY SettledType
  <2>3. attempt' \in Attempt
    BY <1>15, <2>1, <2>2 DEF PersistOutcome
  <2>4. CASE obs[c] = "pending"
    BY <1>15, <2>3, <2>4 DEF PersistOutcome, remote, Goto, Finish, PC, Result
  <2>5. CASE obs[c] # "pending"
    <3>1. pc' \in [Callers -> PC]
      BY <1>15, <2>5, GotoType DEF PersistOutcome, PC
    <3>2. seen' \in [Callers -> Attempt] /\ result' \in [Callers -> Result]
      BY <1>15, <2>3, <2>5 DEF PersistOutcome, Result
    <3>3. QED
      BY <1>15, <2>3, <2>5, <3>1, <3>2 DEF PersistOutcome, remote
  <2>6. QED
    BY <2>4, <2>5
<1>16. ASSUME NEW c \in Callers, DeliverReport(c) PROVE TypeOK'
  <2>1. attempt' \in Attempt
    BY <1>16, ReportType DEF DeliverReport, ReportState
  <2>2. pc' \in [Callers -> PC] /\ result' \in [Callers -> Result]
    BY <1>16, GotoType DEF DeliverReport, PC, Result
  <2>3. QED
    BY <1>16, <2>1, <2>2 DEF DeliverReport, remote
<1>17. ASSUME NEW c \in Callers, ConfirmReport(c) PROVE TypeOK'
  <2>1. attempt' \in Attempt
    BY <1>17, ReportType DEF ConfirmReport, ReportState
  <2>2. pc' \in [Callers -> PC] /\ result' \in [Callers -> Result]
    BY <1>17, GotoType DEF ConfirmReport, PC, Result
  <2>3. QED
    BY <1>17, <2>1, <2>2 DEF ConfirmReport, remote
<1>18. ASSUME NEW c \in Callers, PostReport(c) PROVE TypeOK'
  <2>1. pc' \in [Callers -> PC]
    BY <1>18, GotoType DEF PostReport, PC
  <2>2. obs' \in [Callers -> Obs] /\ posts' \in Nat
    BY <1>18 DEF PostReport, Obs
  <2>3. prava' \in [Sessions -> {"awaiting", "completed", "failed"}]
    BY <1>18 DEF PostReport, Told
  <2>4. QED
    BY <1>18, <2>1, <2>2, <2>3 DEF PostReport
<1>19. ASSUME NEW c \in Callers, RecordReport(c) PROVE TypeOK'
  <2>1. attempt' \in Attempt
    BY <1>19, ReportType DEF RecordReport, ReportState
  <2>2. pc' \in [Callers -> PC] /\ result' \in [Callers -> Result]
    BY <1>19, GotoType DEF RecordReport, PC, Result
  <2>3. QED
    BY <1>19, <2>1, <2>2 DEF RecordReport, remote
<1>20. ASSUME NEW c \in Callers, Return(c) PROVE TypeOK'
  BY <1>20, ForgetType DEF Return, remote
<1>21. ASSUME NEW c \in Callers, Crash(c) PROVE TypeOK'
  BY <1>21, ForgetType DEF Crash, remote
<1>22. CASE Settle
  BY <1>22 DEF Settle, Merchant
<1>23. CASE UNCHANGED vars
  BY <1>23 DEF vars
<1>24. QED
  BY <1>1, <1>2, <1>3, <1>4, <1>5, <1>6, <1>7, <1>8, <1>9, <1>10, <1>11, <1>12,
     <1>13, <1>14, <1>15, <1>16, <1>17, <1>18, <1>19, <1>20, <1>21, <1>22, <1>23
     DEF Next, Step

\* Every variable keeps its type, whatever the code does.
THEOREM Typing == Spec => []TypeOK
BY TypedAtFirst, TypeKept, PTL DEF Spec

-----------------------------------------------------------------------------
\* A caller that only leaves the boundary, with a true result or an exception.
LEMMA LeavingKeeps ==
    ASSUME NEW c \in Callers, NEW r \in Result, TypeOK, IInv, Finish(c, r),
           r \notin {"completed", "price_changed"},
           UNCHANGED <<attempt, merchant, prava, posts, arg, seen, obs>>
    PROVE  IInv'
<1> USE DEF TypeOK, IInv, Goto, Finish
<1>1. OwnerInv'
  BY DEF OwnerInv, RowInv, CallerInv, Owner, Live, PC
<1>2. RowInv'
  BY DEF OwnerInv, RowInv, CallerInv, ExposureIsDurable, Owner, Live, PC
<1>3. CallerInv'
  BY DEF OwnerInv, RowInv, CallerInv, Owner, Live, PC
<1>4. ReportInv'
  BY DEF OwnerInv, RowInv, CallerInv, ReportInv, Told, Live, PC, Owner
<1>5. QED
  BY <1>1, <1>2, <1>3, <1>4

\* A caller that looks at the row it read, before its first remote call.
LEMMA ResumingKeeps ==
    ASSUME NEW c \in Callers, TypeOK, IInv, Resume(c, attempt), attempt.state # "absent",
           pc[c] \in {"lookup", "reserve", "reread"},
           UNCHANGED <<attempt, merchant, prava, posts, arg, obs>>
    PROVE  IInv'
<1> USE DEF TypeOK, IInv, Goto, Finish
<1>a. attempt.order => attempt.state \in Live \cup {"completed", "declined", "price_changed"}
  BY DEF RowInv
<1>b. /\ pc'[c] \in {"deliver", "done", "observe"}
      /\ \A d \in Callers : d # c => pc'[d] = pc[d]
      /\ \A d \in Callers : d # c => seen'[d] = seen[d] /\ result'[d] = result[d]
      /\ seen'[c] = attempt
      /\ pc'[c] = "observe" => attempt.state \in Live
      /\ result'[c] = "completed" => attempt.state = "completed" \/ result[c] = "completed"
      /\ result'[c] = "price_changed" =>
             attempt.state = "price_changed" \/ result[c] = "price_changed"
  BY <1>a DEF Resume, Live
<1>1. OwnerInv'
  BY <1>b DEF OwnerInv, RowInv, CallerInv, Owner, Live, PC
<1>2. RowInv'
  BY <1>b DEF OwnerInv, RowInv, CallerInv, ExposureIsDurable, Owner, Live, PC
<1>3. CallerInv'
  BY <1>b DEF OwnerInv, RowInv, CallerInv, Owner, Live, PC
<1>4. ReportInv'
  BY <1>b DEF OwnerInv, RowInv, CallerInv, ReportInv, Told, Live, PC, Owner
<1>5. QED
  BY <1>1, <1>2, <1>3, <1>4

LEMMA InvariantAtFirst == Init => IInv
BY DEF Init, IInv, OwnerInv, RowInv, CallerInv, ReportInv, ExposureIsDurable,
       NoAttempt, NoArg, Owner, Live

LEMMA InvariantKept ==
    ASSUME TypeOK, IInv, [Next]_vars
    PROVE  IInv'
<1> USE DEF TypeOK, IInv
<1>1. ASSUME NEW c \in Callers, NEW a \in Amounts, NEW s \in Sessions, Complete(c, a, s)
      PROVE  IInv'
  <2>1. OwnerInv'
    BY <1>1 DEF OwnerInv, RowInv, CallerInv, Owner, Live, PC, Complete, remote, Goto
  <2>2. RowInv'
    BY <1>1 DEF OwnerInv, RowInv, CallerInv, ExposureIsDurable, Owner, Live, PC, Complete, remote, Goto
  <2>3. CallerInv'
    BY <1>1 DEF OwnerInv, RowInv, CallerInv, Owner, Live, PC, Complete, remote, Goto
  <2>4. ReportInv'
    BY <1>1 DEF OwnerInv, RowInv, CallerInv, ReportInv, Told, Live, PC, Owner, Complete, remote, Goto
  <2>5. QED
    BY <2>1, <2>2, <2>3, <2>4
<1>2. ASSUME NEW c \in Callers, Reconcile(c) PROVE IInv'
  <2>1. OwnerInv'
    BY <1>2 DEF OwnerInv, RowInv, CallerInv, Owner, Live, PC, Reconcile, remote, Goto
  <2>2. RowInv'
    BY <1>2 DEF OwnerInv, RowInv, CallerInv, ExposureIsDurable, Owner, Live, PC, Reconcile, remote, Goto
  <2>3. CallerInv'
    BY <1>2 DEF OwnerInv, RowInv, CallerInv, Owner, Live, PC, Reconcile, remote, Goto
  <2>4. ReportInv'
    BY <1>2 DEF OwnerInv, RowInv, CallerInv, ReportInv, Told, Live, PC, Owner, Reconcile, remote, Goto
  <2>5. QED
    BY <2>1, <2>2, <2>3, <2>4
<1>3. ASSUME NEW c \in Callers, Lookup(c) PROVE IInv'
  <2>1. CASE attempt.state # "absent" /\ attempt.amount = arg[c].amount
    BY <1>3, <2>1, ResumingKeeps DEF Lookup, remote
  <2>2. CASE attempt.state = "absent" /\ pc' = [pc EXCEPT ![c] = "reserve"]
    <3>a. /\ pc[c] = "lookup"
          /\ UNCHANGED <<attempt, merchant, prava, posts, arg, seen, obs, result>>
      BY <1>3, <2>2 DEF Lookup, remote, Finish, Goto
    <3>1. OwnerInv'
      BY <2>2, <3>a DEF OwnerInv, RowInv, CallerInv, Owner, Live, PC
    <3>2. RowInv'
      BY <2>2, <3>a DEF OwnerInv, RowInv, CallerInv, ExposureIsDurable, Owner, Live, PC
    <3>3. CallerInv'
      BY <2>2, <3>a DEF OwnerInv, RowInv, CallerInv, Owner, Live, PC
    <3>4. ReportInv'
      BY <2>2, <3>a DEF OwnerInv, RowInv, CallerInv, ReportInv, Told, Live, PC, Owner
    <3>5. QED
      BY <3>1, <3>2, <3>3, <3>4
  <2>3. QED
    BY <1>3, <2>1, <2>2, LeavingKeeps DEF Lookup, remote, Goto, Result
<1>4. ASSUME NEW c \in Callers, Reserve(c) PROVE IInv'
  <2>1. CASE attempt.state = "absent"
    <3>a. /\ attempt'.state = "reserved" /\ ~attempt'.order
          /\ attempt'.session = arg[c].session /\ attempt'.reportStatus = "none"
          /\ attempt'.reportState = "not_required"
          /\ merchant.created = 0 /\ merchant.submitted = 0
          /\ attempt.reportStatus = "none" /\ posts = 0
      BY <1>4, <2>1 DEF Reserve, NoAttempt, RowInv, ReportInv, Attempt, ReportStatus
    <3>b. /\ pc' = [pc EXCEPT ![c] = "begin"] /\ pc[c] = "reserve"
          /\ UNCHANGED <<merchant, prava, posts, arg, seen, obs, result>>
      BY <1>4, <2>1 DEF Reserve, remote, Goto
    <3>1. OwnerInv'
      BY <1>4, <2>1, <3>a, <3>b DEF OwnerInv, RowInv, CallerInv, Owner, Live, PC
    <3>2. RowInv'
      BY <1>4, <2>1, <3>a, <3>b DEF OwnerInv, RowInv, CallerInv, ExposureIsDurable, Owner, Live, PC
    <3>3. CallerInv'
      BY <1>4, <2>1, <3>a, <3>b DEF OwnerInv, RowInv, CallerInv, Owner, Live, PC
    <3>4. ReportInv'
      BY <1>4, <2>1, <3>a, <3>b DEF OwnerInv, RowInv, CallerInv, ReportInv, Told, Live, PC, Owner
    <3>5. QED
      BY <3>1, <3>2, <3>3, <3>4
  <2>2. CASE attempt.state # "absent" /\ attempt.amount = arg[c].amount
             /\ attempt.session = arg[c].session
    BY <1>4, <2>2, ResumingKeeps DEF Reserve, remote
  <2>3. QED
    BY <1>4, <2>1, <2>2, LeavingKeeps DEF Reserve, remote, Result
<1>5. ASSUME NEW c \in Callers, BeginOrder(c) PROVE IInv'
  <2>1. CASE Refused(c, {"reserved"})
    BY <1>5, <2>1, LeavingKeeps DEF BeginOrder, Refused, remote, Result
  <2>2. CASE attempt.state = "reserved"
    <3>a. /\ pc[c] = "begin" /\ pc' = [pc EXCEPT ![c] = "cart"]
          /\ attempt.state = "reserved" /\ attempt'.state = "creating_order"
          /\ attempt'.amount = attempt.amount /\ attempt'.session = attempt.session
          /\ attempt'.order = attempt.order /\ attempt'.exposed = attempt.exposed
          /\ attempt'.reportStatus = attempt.reportStatus /\ attempt'.reportState = attempt.reportState
          /\ UNCHANGED <<merchant, prava, posts, arg, seen, obs, result>>
      BY <1>5, <2>2 DEF BeginOrder, Swap, Refused, remote, Goto, Finish, Attempt
    <3>1. OwnerInv'
      BY <2>2, <3>a DEF OwnerInv, RowInv, CallerInv, Owner, Live, PC
    <3>2. RowInv'
      BY <2>2, <3>a DEF OwnerInv, RowInv, CallerInv, ExposureIsDurable, Owner, Live, PC
    <3>3. CallerInv'
      BY <2>2, <3>a DEF OwnerInv, RowInv, CallerInv, Owner, Live, PC
    <3>4. ReportInv'
      BY <2>2, <3>a DEF OwnerInv, RowInv, CallerInv, ReportInv, Told, Live, PC, Owner
    <3>5. QED
      BY <3>1, <3>2, <3>3, <3>4
  <2>3. QED
    BY <1>5, <2>1, <2>2 DEF BeginOrder, Swap, remote, Goto
<1>6. ASSUME NEW c \in Callers, CheckCart(c) PROVE IInv'
  <2>1. CASE Refused(c, {"creating_order"})
    BY <1>6, <2>1, LeavingKeeps DEF CheckCart, Refused, remote, Result
  <2>2. CASE pc' = [pc EXCEPT ![c] = "create"]
    <3>a. /\ pc[c] = "cart" /\ pc' = [pc EXCEPT ![c] = "create"]
          /\ UNCHANGED <<attempt, merchant, prava, posts, arg, seen, obs, result>>
      BY <1>6, <2>2 DEF CheckCart, Swap, Refused, remote, Goto, Finish, Attempt
    <3>1. OwnerInv'
      BY <2>2, <3>a DEF OwnerInv, RowInv, CallerInv, Owner, Live, PC
    <3>2. RowInv'
      BY <2>2, <3>a DEF OwnerInv, RowInv, CallerInv, ExposureIsDurable, Owner, Live, PC
    <3>3. CallerInv'
      BY <2>2, <3>a DEF OwnerInv, RowInv, CallerInv, Owner, Live, PC
    <3>4. ReportInv'
      BY <2>2, <3>a DEF OwnerInv, RowInv, CallerInv, ReportInv, Told, Live, PC, Owner
    <3>5. QED
      BY <3>1, <3>2, <3>3, <3>4
  <2>3. CASE attempt.state = "creating_order" /\ pc' # [pc EXCEPT ![c] = "create"]
    <3>a. /\ pc[c] = "cart" /\ pc' = [pc EXCEPT ![c] = "done"]
          /\ attempt.state = "creating_order" /\ attempt'.state = "failed"
          /\ attempt'.amount = attempt.amount /\ attempt'.session = attempt.session
          /\ attempt'.order = attempt.order /\ attempt'.exposed = attempt.exposed
          /\ attempt'.reportStatus = attempt.reportStatus /\ attempt'.reportState = attempt.reportState
          /\ UNCHANGED <<merchant, prava, posts, arg, seen, obs>>
          /\ result' = [result EXCEPT ![c] = "failed"]
      BY <1>6, <2>3 DEF CheckCart, Swap, Refused, remote, Goto, Finish, Attempt
    <3>1. OwnerInv'
      BY <2>3, <3>a DEF OwnerInv, RowInv, CallerInv, Owner, Live, PC
    <3>2. RowInv'
      BY <2>3, <3>a DEF OwnerInv, RowInv, CallerInv, ExposureIsDurable, Owner, Live, PC
    <3>3. CallerInv'
      BY <2>3, <3>a DEF OwnerInv, RowInv, CallerInv, Owner, Live, PC
    <3>4. ReportInv'
      BY <2>3, <3>a DEF OwnerInv, RowInv, CallerInv, ReportInv, Told, Live, PC, Owner
    <3>5. QED
      BY <3>1, <3>2, <3>3, <3>4
  <2>4. QED
    BY <1>6, <2>1, <2>2, <2>3 DEF CheckCart, Swap, remote, Goto
<1>7. ASSUME NEW c \in Callers, CreateOrder(c) PROVE IInv'
  <2>1. /\ pc[c] = "create" /\ pc' = [pc EXCEPT ![c] = "record"]
        /\ UNCHANGED <<attempt, prava, posts, arg, seen, result>>
    BY <1>7 DEF CreateOrder, Goto
  <2>2. /\ merchant.created = 0 /\ merchant.submitted = 0
        /\ attempt.state = "creating_order" /\ ~attempt.order
    BY <2>1 DEF OwnerInv, RowInv, Owner
  <2>3. CASE obs' = [obs EXCEPT ![c] = "lost"] /\ UNCHANGED merchant
    <3>1. OwnerInv'
      BY <2>1, <2>2, <2>3 DEF OwnerInv, RowInv, CallerInv, Owner, Live, PC
    <3>2. RowInv'
      BY <2>1, <2>2, <2>3 DEF OwnerInv, RowInv, CallerInv, ExposureIsDurable, Owner, Live, PC
    <3>3. CallerInv'
      BY <2>1, <2>2, <2>3 DEF OwnerInv, RowInv, CallerInv, Owner, Live, PC
    <3>4. ReportInv'
      BY <2>1, <2>2, <2>3 DEF OwnerInv, RowInv, CallerInv, ReportInv, Told, Live, PC, Owner
    <3>5. QED
      BY <3>1, <3>2, <3>3, <3>4
  <2>4. ASSUME NEW a \in Amounts, NEW o \in {"created", "lost", "invalid"},
               merchant' = [merchant EXCEPT !.created = @ + 1, !.amount = a,
                                            !.status = "open"],
               obs' = [obs EXCEPT ![c] = o]
        PROVE  IInv'
    <3>a. merchant'.created = 1 /\ merchant'.submitted = 0 /\ merchant'.status = "open"
      BY <2>2, <2>4 DEF Merchant
    <3>1. OwnerInv'
      BY <2>1, <2>2, <2>4, <3>a DEF OwnerInv, RowInv, CallerInv, Owner, Live, PC
    <3>2. RowInv'
      BY <2>1, <2>2, <2>4, <3>a DEF OwnerInv, RowInv, CallerInv, ExposureIsDurable, Owner, Live, PC
    <3>3. CallerInv'
      BY <2>1, <2>2, <2>4, <3>a DEF OwnerInv, RowInv, CallerInv, Owner, Live, PC
    <3>4. ReportInv'
      BY <2>1, <2>2, <2>4, <3>a DEF OwnerInv, RowInv, CallerInv, ReportInv, Told, Live, PC, Owner
    <3>5. QED
      BY <3>1, <3>2, <3>3, <3>4
  <2>5. QED
    BY <1>7, <2>3, <2>4 DEF CreateOrder
<1>8. ASSUME NEW c \in Callers, RecordOrder(c) PROVE IInv'
  <2>1. CASE Refused(c, {"creating_order"})
    BY <1>8, <2>1, LeavingKeeps DEF RecordOrder, Refused, remote, Result
  <2>2. CASE attempt.state = "creating_order" /\ obs[c] = "created"
    <3>a. /\ pc[c] = "record" /\ pc' = [pc EXCEPT ![c] = "price"]
          /\ attempt.state = "creating_order" /\ attempt'.state = "order_created"
          /\ attempt'.order = TRUE
          /\ attempt'.amount = attempt.amount /\ attempt'.session = attempt.session
          /\ attempt'.exposed = attempt.exposed /\ attempt'.reportStatus = attempt.reportStatus
          /\ attempt'.reportState = attempt.reportState
          /\ UNCHANGED <<merchant, prava, posts, arg, seen, obs, result>>
      BY <1>8, <2>2 DEF RecordOrder, Swap, Refused, remote, Goto, Finish, Attempt
    <3>1. OwnerInv'
      BY <2>2, <3>a DEF OwnerInv, RowInv, CallerInv, Owner, Live, PC
    <3>2. RowInv'
      BY <2>2, <3>a DEF OwnerInv, RowInv, CallerInv, ExposureIsDurable, Owner, Live, PC
    <3>3. CallerInv'
      BY <2>2, <3>a DEF OwnerInv, RowInv, CallerInv, Owner, Live, PC
    <3>4. ReportInv'
      BY <2>2, <3>a DEF OwnerInv, RowInv, CallerInv, ReportInv, Told, Live, PC, Owner
    <3>5. QED
      BY <3>1, <3>2, <3>3, <3>4
  <2>3. CASE attempt.state = "creating_order" /\ obs[c] # "created"
    <3>a. /\ pc[c] = "record" /\ pc' = [pc EXCEPT ![c] = "done"]
          /\ attempt.state = "creating_order" /\ attempt'.state = "ambiguous"
          /\ attempt'.amount = attempt.amount /\ attempt'.session = attempt.session
          /\ attempt'.order = attempt.order /\ attempt'.exposed = attempt.exposed
          /\ attempt'.reportStatus = attempt.reportStatus /\ attempt'.reportState = attempt.reportState
          /\ UNCHANGED <<merchant, prava, posts, arg, seen, obs>>
          /\ result' = [result EXCEPT ![c] = IF obs[c] = "lost" THEN "pending" ELSE "raised"]
      BY <1>8, <2>3 DEF RecordOrder, Swap, Refused, remote, Goto, Finish, Attempt
    <3>1. OwnerInv'
      BY <2>3, <3>a DEF OwnerInv, RowInv, CallerInv, Owner, Live, PC
    <3>2. RowInv'
      BY <2>3, <3>a DEF OwnerInv, RowInv, CallerInv, ExposureIsDurable, Owner, Live, PC
    <3>3. CallerInv'
      BY <2>3, <3>a DEF OwnerInv, RowInv, CallerInv, Owner, Live, PC
    <3>4. ReportInv'
      BY <2>3, <3>a DEF OwnerInv, RowInv, CallerInv, ReportInv, Told, Live, PC, Owner
    <3>5. QED
      BY <3>1, <3>2, <3>3, <3>4
  <2>4. QED
    BY <1>8, <2>1, <2>2, <2>3 DEF RecordOrder, Swap, remote, Goto
<1>9. ASSUME NEW c \in Callers, CheckPrice(c) PROVE IInv'
  <2>1. CASE Refused(c, {"order_created"})
    BY <1>9, <2>1, LeavingKeeps DEF CheckPrice, Refused, remote, Result
  <2>2. CASE attempt.state = "order_created" /\ merchant.amount # attempt.amount
    <3>a. /\ pc[c] = "price" /\ pc' = [pc EXCEPT ![c] = "done"]
          /\ attempt.state = "order_created" /\ attempt'.state = "price_changed"
          /\ attempt'.amount = attempt.amount /\ attempt'.session = attempt.session
          /\ attempt'.order = attempt.order /\ attempt'.exposed = attempt.exposed
          /\ attempt'.reportStatus = attempt.reportStatus /\ attempt'.reportState = attempt.reportState
          /\ UNCHANGED <<merchant, prava, posts, arg, seen, obs>>
          /\ result' = [result EXCEPT ![c] = "price_changed"]
      BY <1>9, <2>2 DEF CheckPrice, Swap, Refused, remote, Goto, Finish, Attempt
    <3>1. OwnerInv'
      BY <2>2, <3>a DEF OwnerInv, RowInv, CallerInv, Owner, Live, PC
    <3>2. RowInv'
      BY <2>2, <3>a DEF OwnerInv, RowInv, CallerInv, ExposureIsDurable, Owner, Live, PC
    <3>3. CallerInv'
      BY <2>2, <3>a DEF OwnerInv, RowInv, CallerInv, Owner, Live, PC
    <3>4. ReportInv'
      BY <2>2, <3>a DEF OwnerInv, RowInv, CallerInv, ReportInv, Told, Live, PC, Owner
    <3>5. QED
      BY <3>1, <3>2, <3>3, <3>4
  <2>3. CASE attempt.state = "order_created" /\ merchant.amount = attempt.amount
    <3>a. /\ pc[c] = "price" /\ pc' = [pc EXCEPT ![c] = "consume"]
          /\ attempt.state = "order_created" /\ attempt'.state = "executing"
          /\ attempt'.exposed = TRUE
          /\ attempt'.amount = attempt.amount /\ attempt'.session = attempt.session
          /\ attempt'.order = attempt.order /\ attempt'.reportStatus = attempt.reportStatus
          /\ attempt'.reportState = attempt.reportState
          /\ UNCHANGED <<merchant, prava, posts, arg, seen, obs, result>>
          /\ merchant.amount = attempt.amount
      BY <1>9, <2>3 DEF CheckPrice, Swap, Refused, remote, Goto, Finish, Attempt
    <3>1. OwnerInv'
      BY <2>3, <3>a DEF OwnerInv, RowInv, CallerInv, Owner, Live, PC
    <3>2. RowInv'
      BY <2>3, <3>a DEF OwnerInv, RowInv, CallerInv, ExposureIsDurable, Owner, Live, PC
    <3>3. CallerInv'
      BY <2>3, <3>a DEF OwnerInv, RowInv, CallerInv, Owner, Live, PC
    <3>4. ReportInv'
      BY <2>3, <3>a DEF OwnerInv, RowInv, CallerInv, ReportInv, Told, Live, PC, Owner
    <3>5. QED
      BY <3>1, <3>2, <3>3, <3>4
  <2>4. QED
    BY <1>9, <2>1, <2>2, <2>3 DEF CheckPrice, Swap, remote, Goto
<1>10. ASSUME NEW c \in Callers, Consume(c) PROVE IInv'
  <2>1. CASE pc' = [pc EXCEPT ![c] = "execute"]
    <3>1. OwnerInv'
      BY <1>10, <2>1 DEF OwnerInv, RowInv, CallerInv, Owner, Live, PC, Consume, remote, Goto, Finish
    <3>2. RowInv'
      BY <1>10, <2>1 DEF OwnerInv, RowInv, CallerInv, ExposureIsDurable, Owner, Live, PC, Consume, remote, Goto, Finish
    <3>3. CallerInv'
      BY <1>10, <2>1 DEF OwnerInv, RowInv, CallerInv, Owner, Live, PC, Consume, remote, Goto, Finish
    <3>4. ReportInv'
      BY <1>10, <2>1 DEF OwnerInv, RowInv, CallerInv, ReportInv, Told, Live, PC, Owner, Consume, remote, Goto, Finish
    <3>5. QED
      BY <3>1, <3>2, <3>3, <3>4
  <2>2. QED
    BY <1>10, <2>1, LeavingKeeps DEF Consume, remote, Goto, Result
<1>11. ASSUME NEW c \in Callers, Execute(c) PROVE IInv'
  <2>1. /\ pc[c] = "execute" /\ pc' = [pc EXCEPT ![c] = "executed"]
        /\ UNCHANGED <<attempt, prava, posts, arg, seen, result>>
        /\ \A d \in Callers : d # c => obs'[d] = obs[d]
    BY <1>11 DEF Execute, Goto
  <2>2. /\ merchant.submitted = 0 /\ merchant.created = 1
        /\ attempt.exposed /\ attempt.order /\ merchant.amount = attempt.amount
        /\ attempt.state \notin {"absent", "failed", "price_changed"}
        /\ merchant.status \in {"open", "declined"}
    BY <2>1 DEF OwnerInv, RowInv, Owner
  <2>3. CASE UNCHANGED merchant
    <3>1. OwnerInv'
      BY <2>1, <2>2, <2>3 DEF OwnerInv, RowInv, CallerInv, Owner, Live, PC
    <3>2. RowInv'
      BY <2>1, <2>2, <2>3 DEF OwnerInv, RowInv, CallerInv, ExposureIsDurable, Owner, Live, PC
    <3>3. CallerInv'
      BY <2>1, <2>2, <2>3 DEF OwnerInv, RowInv, CallerInv, Owner, Live, PC
    <3>4. ReportInv'
      BY <2>1, <2>2, <2>3 DEF OwnerInv, RowInv, CallerInv, ReportInv, Told, Live, PC, Owner
    <3>5. QED
      BY <3>1, <3>2, <3>3, <3>4
  <2>4. CASE merchant' = [merchant EXCEPT !.submitted = @ + 1,
                  !.status = IF @ = "open" THEN "processing" ELSE @]
    <3>a. /\ merchant'.submitted = 1 /\ merchant'.created = 1
          /\ merchant'.amount = merchant.amount
          /\ merchant'.status = IF merchant.status = "open" THEN "processing"
                                ELSE merchant.status
      BY <2>2, <2>4 DEF Merchant
    <3>1. OwnerInv'
      BY <2>1, <2>2, <3>a DEF OwnerInv, RowInv, CallerInv, Owner, Live, PC
    <3>2. RowInv'
      BY <2>1, <2>2, <3>a DEF OwnerInv, RowInv, CallerInv, ExposureIsDurable, Owner, Live, PC
    <3>3. CallerInv'
      BY <2>1, <2>2, <3>a DEF OwnerInv, RowInv, CallerInv, Owner, Live, PC
    <3>4. ReportInv'
      BY <2>1, <2>2, <3>a DEF OwnerInv, RowInv, CallerInv, ReportInv, Told, Live, PC, Owner
    <3>5. QED
      BY <3>1, <3>2, <3>3, <3>4
  <2>5. QED
    BY <1>11, <2>3, <2>4 DEF Execute
<1>12. ASSUME NEW c \in Callers, Executed(c) PROVE IInv'
  <2>1. CASE Refused(c, {"executing"})
    BY <1>12, <2>1, LeavingKeeps DEF Executed, Refused, remote, Result
  <2>2. CASE attempt.state = "executing" /\ obs[c] = "ok"
    <3>a. /\ pc[c] = "executed" /\ pc' = [pc EXCEPT ![c] = "reread"]
          /\ UNCHANGED <<attempt, merchant, prava, posts, arg, seen, obs, result>>
      BY <1>12, <2>2 DEF Executed, Swap, Refused, remote, Goto, Finish, Attempt
    <3>1. OwnerInv'
      BY <2>2, <3>a DEF OwnerInv, RowInv, CallerInv, Owner, Live, PC
    <3>2. RowInv'
      BY <2>2, <3>a DEF OwnerInv, RowInv, CallerInv, ExposureIsDurable, Owner, Live, PC
    <3>3. CallerInv'
      BY <2>2, <3>a DEF OwnerInv, RowInv, CallerInv, Owner, Live, PC
    <3>4. ReportInv'
      BY <2>2, <3>a DEF OwnerInv, RowInv, CallerInv, ReportInv, Told, Live, PC, Owner
    <3>5. QED
      BY <3>1, <3>2, <3>3, <3>4
  <2>3. CASE attempt.state = "executing" /\ obs[c] # "ok"
    <3>a. /\ pc[c] = "executed" /\ pc' = [pc EXCEPT ![c] = "reread"]
          /\ attempt.state = "executing" /\ attempt'.state = "ambiguous"
          /\ attempt'.amount = attempt.amount /\ attempt'.session = attempt.session
          /\ attempt'.order = attempt.order /\ attempt'.exposed = attempt.exposed
          /\ attempt'.reportStatus = attempt.reportStatus /\ attempt'.reportState = attempt.reportState
          /\ UNCHANGED <<merchant, prava, posts, arg, seen, obs, result>>
      BY <1>12, <2>3 DEF Executed, Swap, Refused, remote, Goto, Finish, Attempt
    <3>1. OwnerInv'
      BY <2>3, <3>a DEF OwnerInv, RowInv, CallerInv, Owner, Live, PC
    <3>2. RowInv'
      BY <2>3, <3>a DEF OwnerInv, RowInv, CallerInv, ExposureIsDurable, Owner, Live, PC
    <3>3. CallerInv'
      BY <2>3, <3>a DEF OwnerInv, RowInv, CallerInv, Owner, Live, PC
    <3>4. ReportInv'
      BY <2>3, <3>a DEF OwnerInv, RowInv, CallerInv, ReportInv, Told, Live, PC, Owner
    <3>5. QED
      BY <3>1, <3>2, <3>3, <3>4
  <2>4. QED
    BY <1>12, <2>1, <2>2, <2>3 DEF Executed, Swap, remote, Goto
<1>13. ASSUME NEW c \in Callers, Reread(c) PROVE IInv'
  BY <1>13, ResumingKeeps, LeavingKeeps DEF Reread, remote, Result
<1>14. ASSUME NEW c \in Callers, ReconcileOrder(c) PROVE IInv'
  <2>1. OwnerInv'
    BY <1>14 DEF OwnerInv, RowInv, CallerInv, Owner, Live, PC, ReconcileOrder, remote, Goto
  <2>2. RowInv'
    BY <1>14 DEF OwnerInv, RowInv, CallerInv, ExposureIsDurable, Owner, Live, PC, ReconcileOrder, remote, Goto
  <2>3. CallerInv'
    BY <1>14 DEF OwnerInv, RowInv, CallerInv, Owner, Live, PC, ReconcileOrder, remote, Goto
  <2>4. ReportInv'
    BY <1>14 DEF OwnerInv, RowInv, CallerInv, ReportInv, Told, Live, PC, Owner, ReconcileOrder, remote, Goto
  <2>5. QED
    BY <2>1, <2>2, <2>3, <2>4
<1>15. ASSUME NEW c \in Callers, PersistOutcome(c) PROVE IInv'
  <2> DEFINE won == attempt.state = seen[c].state
  <2>1. /\ pc[c] = "persist" /\ UNCHANGED <<merchant, prava, posts, arg, obs>>
    BY <1>15 DEF PersistOutcome, remote
  <2>2. /\ seen[c].state \in Live /\ attempt.state # "absent"
        /\ seen[c].session \in Sessions /\ attempt.session \in Sessions
        /\ obs[c] = "approved" => merchant.status = "paid"
        /\ obs[c] = "declined" => merchant.status = "declined"
        /\ obs[c] \in {"approved", "declined", "pending"}
    BY <2>1 DEF CallerInv, RowInv
  <2>3. CASE obs[c] = "pending"
    <3>a. /\ pc' = [pc EXCEPT ![c] = "done"] /\ UNCHANGED seen
          /\ result' = [result EXCEPT ![c] = "pending"]
          /\ attempt'.amount = attempt.amount /\ attempt'.session = attempt.session
          /\ attempt'.order = attempt.order /\ attempt'.exposed = attempt.exposed
          /\ attempt'.reportStatus = attempt.reportStatus
          /\ attempt'.reportState = attempt.reportState
          /\ IF won THEN attempt'.state = "pending" ELSE attempt'.state = attempt.state
      BY <1>15, <2>3 DEF PersistOutcome, Goto, Finish, Attempt
    <3>1. OwnerInv'
      BY <2>1, <2>2, <2>3, <3>a DEF OwnerInv, RowInv, CallerInv, Owner, Live, PC
    <3>2. RowInv'
      BY <2>1, <2>2, <2>3, <3>a DEF OwnerInv, RowInv, CallerInv, ExposureIsDurable, Owner, Live, PC
    <3>3. CallerInv'
      BY <2>1, <2>2, <2>3, <3>a DEF OwnerInv, RowInv, CallerInv, Owner, Live, PC
    <3>4. ReportInv'
      BY <2>1, <2>2, <2>3, <3>a DEF OwnerInv, RowInv, CallerInv, ReportInv, Told, Live, PC, Owner
    <3>5. QED
      BY <3>1, <3>2, <3>3, <3>4
  <2>4. CASE obs[c] # "pending"
    <3>a. /\ pc' = [pc EXCEPT ![c] = "deliver"] /\ seen' = [seen EXCEPT ![c] = attempt']
          /\ result' = [result EXCEPT ![c] =
                           IF obs[c] = "approved" THEN "completed" ELSE "failed"]
          /\ attempt'.amount = attempt.amount /\ attempt'.session = attempt.session
          /\ attempt'.order = attempt.order /\ attempt'.exposed = attempt.exposed
      <4>1. /\ pc' = [pc EXCEPT ![c] = "deliver"] /\ seen' = [seen EXCEPT ![c] = attempt']
            /\ result' = [result EXCEPT ![c] =
                             IF obs[c] = "approved" THEN "completed" ELSE "failed"]
            /\ attempt' = attempt \/ attempt' = Settled(attempt, seen[c], obs[c])
        BY <1>15, <2>4 DEF PersistOutcome, Goto
      <4>2. ASSUME NEW row \in Attempt, row = Settled(attempt, seen[c], obs[c])
            PROVE  /\ row.amount = attempt.amount /\ row.session = attempt.session
                   /\ row.order = attempt.order /\ row.exposed = attempt.exposed
        BY <4>2 DEF Settled, Attempt
      <4>3. Settled(attempt, seen[c], obs[c]) \in Attempt
        BY SettledType DEF TypeOK
      <4>4. QED
        BY <4>1, <4>2, <4>3
    <3>b. CASE ~won
      <4>a. attempt' = attempt
        BY <1>15, <2>4, <3>b DEF PersistOutcome
      <4>1. OwnerInv'
        BY <2>1, <2>2, <2>4, <3>a, <4>a DEF OwnerInv, RowInv, CallerInv, Owner, Live, PC
      <4>2. RowInv'
        BY <2>1, <2>2, <2>4, <3>a, <4>a DEF OwnerInv, RowInv, CallerInv, ExposureIsDurable, Owner, Live, PC
      <4>3. CallerInv'
        BY <2>1, <2>2, <2>4, <3>a, <4>a DEF OwnerInv, RowInv, CallerInv, Owner, Live, PC
      <4>4. ReportInv'
        BY <2>1, <2>2, <2>4, <3>a, <4>a DEF OwnerInv, RowInv, CallerInv, ReportInv, Told, Live, PC, Owner
      <4>5. QED
        BY <4>1, <4>2, <4>3, <4>4
    <3>c. CASE won
      <4>a. /\ attempt.reportStatus = "none" /\ attempt.reportState = "not_required"
            /\ posts = 0
        BY <2>2, <3>c DEF ReportInv, RowInv, Live, Attempt, ReportStatus
      <4>b. /\ attempt'.state = IF obs[c] = "approved" THEN "completed" ELSE "declined"
            /\ \/ /\ attempt'.reportStatus = "none"
                  /\ attempt'.reportState = "not_required"
               \/ /\ attempt'.reportStatus =
                         IF obs[c] = "approved" THEN "APPROVED" ELSE "DECLINED"
                  /\ attempt'.reportState = "pending"
        BY <1>15, <2>4, <3>c, <4>a DEF PersistOutcome, Settled, Attempt
      <4>1. OwnerInv'
        BY <2>1, <2>2, <2>4, <3>a, <3>c, <4>a, <4>b DEF OwnerInv, RowInv, CallerInv, Owner, Live, PC
      <4>2. RowInv'
        BY <2>1, <2>2, <2>4, <3>a, <3>c, <4>a, <4>b DEF OwnerInv, RowInv, CallerInv, ExposureIsDurable, Owner, Live, PC
      <4>3. CallerInv'
        BY <2>1, <2>2, <2>4, <3>a, <3>c, <4>a, <4>b DEF OwnerInv, RowInv, CallerInv, Owner, Live, PC
      <4>4. ReportInv'
        BY <2>1, <2>2, <2>4, <3>a, <3>c, <4>a, <4>b DEF OwnerInv, RowInv, CallerInv, ReportInv, Told, Live, PC, Owner
      <4>5. QED
        BY <4>1, <4>2, <4>3, <4>4
    <3>d. QED
      BY <3>b, <3>c
  <2>5. QED
    BY <2>3, <2>4
<1>16. ASSUME NEW c \in Callers, DeliverReport(c) PROVE IInv'
  <2>1. CASE pc' = [pc EXCEPT ![c] = "post"]
    <3>a. /\ attempt.reportState = "pending"
          /\ pc[c] = "deliver" /\ pc' = [pc EXCEPT ![c] = "post"]
          /\ attempt'.reportState = "sending"
          /\ attempt'.state = attempt.state /\ attempt'.amount = attempt.amount
          /\ attempt'.session = attempt.session /\ attempt'.order = attempt.order
          /\ attempt'.exposed = attempt.exposed /\ attempt'.reportStatus = attempt.reportStatus
          /\ UNCHANGED <<merchant, prava, posts, arg, seen, obs, result>>
      BY <1>16, <2>1 DEF DeliverReport, remote, Goto, Finish, Attempt
    <3>1. OwnerInv'
      BY <1>16, <2>1, <3>a DEF OwnerInv, RowInv, CallerInv, Owner, Live, PC
    <3>2. RowInv'
      BY <1>16, <2>1, <3>a DEF OwnerInv, RowInv, CallerInv, ExposureIsDurable, Owner, Live, PC
    <3>3. CallerInv'
      BY <1>16, <2>1, <3>a DEF OwnerInv, RowInv, CallerInv, Owner, Live, PC
    <3>4. ReportInv'
      BY <1>16, <2>1, <3>a DEF OwnerInv, RowInv, CallerInv, ReportInv, Told, Live, PC, Owner
    <3>5. QED
      BY <3>1, <3>2, <3>3, <3>4
  <2>2. CASE pc' = [pc EXCEPT ![c] = "confirm"]
    <3>a. /\ pc[c] = "deliver" /\ UNCHANGED <<attempt, merchant, prava, posts, arg, seen, obs, result>>
          /\ prava[seen[c].session] = Told(seen[c].reportStatus)
      BY <1>16, <2>2 DEF DeliverReport, remote, Goto, Finish, Attempt
    <3>1. OwnerInv'
      BY <1>16, <2>2, <3>a DEF OwnerInv, RowInv, CallerInv, Owner, Live, PC
    <3>2. RowInv'
      BY <1>16, <2>2, <3>a DEF OwnerInv, RowInv, CallerInv, ExposureIsDurable, Owner, Live, PC
    <3>3. CallerInv'
      BY <1>16, <2>2, <3>a DEF OwnerInv, RowInv, CallerInv, Owner, Live, PC
    <3>4. ReportInv'
      BY <1>16, <2>2, <3>a DEF OwnerInv, RowInv, CallerInv, ReportInv, Told, Live, PC, Owner
    <3>5. QED
      BY <3>1, <3>2, <3>3, <3>4
  <2>3. CASE pc' = [pc EXCEPT ![c] = "done"] /\ UNCHANGED result
    <3>a. pc[c] = "deliver" /\ UNCHANGED <<attempt, merchant, prava, posts, arg, seen, obs, result>>
      BY <1>16, <2>3 DEF DeliverReport, remote, Goto, Finish, Attempt
    <3>1. OwnerInv'
      BY <1>16, <2>3, <3>a DEF OwnerInv, RowInv, CallerInv, Owner, Live, PC
    <3>2. RowInv'
      BY <1>16, <2>3, <3>a DEF OwnerInv, RowInv, CallerInv, ExposureIsDurable, Owner, Live, PC
    <3>3. CallerInv'
      BY <1>16, <2>3, <3>a DEF OwnerInv, RowInv, CallerInv, Owner, Live, PC
    <3>4. ReportInv'
      BY <1>16, <2>3, <3>a DEF OwnerInv, RowInv, CallerInv, ReportInv, Told, Live, PC, Owner
    <3>5. QED
      BY <3>1, <3>2, <3>3, <3>4
  <2>4. QED
    BY <1>16, <2>1, <2>2, <2>3, LeavingKeeps DEF DeliverReport, remote, Goto, Result
<1>17. ASSUME NEW c \in Callers, ConfirmReport(c) PROVE IInv'
  <2>1. CASE attempt.reportState = seen[c].reportState
    <3>a. /\ pc[c] = "confirm" /\ pc' = [pc EXCEPT ![c] = "done"]
          /\ attempt'.reportState = "confirmed"
          /\ attempt'.state = attempt.state /\ attempt'.amount = attempt.amount
          /\ attempt'.session = attempt.session /\ attempt'.order = attempt.order
          /\ attempt'.exposed = attempt.exposed /\ attempt'.reportStatus = attempt.reportStatus
          /\ UNCHANGED <<merchant, prava, posts, arg, seen, obs, result>>
      BY <1>17, <2>1 DEF ConfirmReport, remote, Goto, Finish, Attempt
    <3>1. OwnerInv'
      BY <1>17, <2>1, <3>a DEF OwnerInv, RowInv, CallerInv, Owner, Live, PC
    <3>2. RowInv'
      BY <1>17, <2>1, <3>a DEF OwnerInv, RowInv, CallerInv, ExposureIsDurable, Owner, Live, PC
    <3>3. CallerInv'
      BY <1>17, <2>1, <3>a DEF OwnerInv, RowInv, CallerInv, Owner, Live, PC
    <3>4. ReportInv'
      BY <1>17, <2>1, <3>a DEF OwnerInv, RowInv, CallerInv, ReportInv, Told, Live, PC, Owner
    <3>5. QED
      BY <3>1, <3>2, <3>3, <3>4
  <2>2. QED
    BY <1>17, <2>1, LeavingKeeps DEF ConfirmReport, remote, Goto, Result
<1>18. ASSUME NEW c \in Callers, PostReport(c) PROVE IInv'
  <2>1. OwnerInv'
    BY <1>18 DEF OwnerInv, RowInv, CallerInv, Owner, Live, PC, PostReport, Goto
  <2>2. RowInv'
    BY <1>18 DEF OwnerInv, RowInv, CallerInv, ExposureIsDurable, Owner, Live, PC, PostReport, Goto
  <2>3. CallerInv'
    BY <1>18 DEF OwnerInv, RowInv, CallerInv, Owner, Live, PC, PostReport, Goto
  <2>4. ReportInv'
    BY <1>18 DEF OwnerInv, RowInv, CallerInv, ReportInv, Told, Live, PC, Owner, PostReport, Goto
  <2>5. QED
    BY <2>1, <2>2, <2>3, <2>4
<1>19. ASSUME NEW c \in Callers, RecordReport(c) PROVE IInv'
  <2>1. CASE attempt.reportState = "sending"
    <3>a. /\ pc[c] = "posted" /\ pc' = [pc EXCEPT ![c] = "done"]
          /\ attempt'.reportState = CASE obs[c] = "ok" -> "confirmed"
                                    [] obs[c] = "expired" -> "mandate_expired"
                                    [] OTHER -> "ambiguous"
          /\ attempt'.state = attempt.state /\ attempt'.amount = attempt.amount
          /\ attempt'.session = attempt.session /\ attempt'.order = attempt.order
          /\ attempt'.exposed = attempt.exposed /\ attempt'.reportStatus = attempt.reportStatus
          /\ UNCHANGED <<merchant, prava, posts, arg, seen, obs, result>>
      BY <1>19, <2>1 DEF RecordReport, remote, Goto, Finish, Attempt
    <3>1. OwnerInv'
      BY <1>19, <2>1, <3>a DEF OwnerInv, RowInv, CallerInv, Owner, Live, PC
    <3>2. RowInv'
      BY <1>19, <2>1, <3>a DEF OwnerInv, RowInv, CallerInv, ExposureIsDurable, Owner, Live, PC
    <3>3. CallerInv'
      BY <1>19, <2>1, <3>a DEF OwnerInv, RowInv, CallerInv, Owner, Live, PC
    <3>4. ReportInv'
      BY <1>19, <2>1, <3>a DEF OwnerInv, RowInv, CallerInv, ReportInv, Told, Live, PC, Owner
    <3>5. QED
      BY <3>1, <3>2, <3>3, <3>4
  <2>2. QED
    BY <1>19, <2>1, LeavingKeeps DEF RecordReport, remote, Goto, Result
<1>20. ASSUME NEW c \in Callers, Return(c) PROVE IInv'
  <2>1. OwnerInv'
    BY <1>20 DEF OwnerInv, RowInv, CallerInv, Owner, Live, PC, Return, Forget, NoArg, NoAttempt, remote, Goto
  <2>2. RowInv'
    BY <1>20 DEF OwnerInv, RowInv, CallerInv, ExposureIsDurable, Owner, Live, PC, Return, Forget, NoArg, NoAttempt, remote, Goto
  <2>3. CallerInv'
    BY <1>20 DEF OwnerInv, RowInv, CallerInv, Owner, Live, PC, Return, Forget, NoArg, NoAttempt, remote, Goto
  <2>4. ReportInv'
    BY <1>20 DEF OwnerInv, RowInv, CallerInv, ReportInv, Told, Live, PC, Owner, Return, Forget, NoArg, NoAttempt, remote, Goto
  <2>5. QED
    BY <2>1, <2>2, <2>3, <2>4
<1>21. ASSUME NEW c \in Callers, Crash(c) PROVE IInv'
  <2>1. OwnerInv'
    BY <1>21 DEF OwnerInv, RowInv, CallerInv, Owner, Live, PC, Crash, Forget, NoArg, NoAttempt, remote, Goto
  <2>2. RowInv'
    BY <1>21 DEF OwnerInv, RowInv, CallerInv, ExposureIsDurable, Owner, Live, PC, Crash, Forget, NoArg, NoAttempt, remote, Goto
  <2>3. CallerInv'
    BY <1>21 DEF OwnerInv, RowInv, CallerInv, Owner, Live, PC, Crash, Forget, NoArg, NoAttempt, remote, Goto
  <2>4. ReportInv'
    BY <1>21 DEF OwnerInv, RowInv, CallerInv, ReportInv, Told, Live, PC, Owner, Crash, Forget, NoArg, NoAttempt, remote, Goto
  <2>5. QED
    BY <2>1, <2>2, <2>3, <2>4
<1>22. CASE Settle
  <2>1. OwnerInv'
    BY <1>22 DEF OwnerInv, RowInv, CallerInv, Owner, Live, PC, Settle, Merchant
  <2>2. RowInv'
    BY <1>22 DEF OwnerInv, RowInv, CallerInv, ExposureIsDurable, Owner, Live, PC, Settle, Merchant
  <2>3. CallerInv'
    BY <1>22 DEF OwnerInv, RowInv, CallerInv, Owner, Live, PC, Settle, Merchant
  <2>4. ReportInv'
    BY <1>22 DEF OwnerInv, RowInv, CallerInv, ReportInv, Told, Live, PC, Owner, Settle, Merchant
  <2>5. QED
    BY <2>1, <2>2, <2>3, <2>4
<1>23. CASE UNCHANGED vars
  <2>1. OwnerInv'
    BY <1>23 DEF OwnerInv, RowInv, CallerInv, Owner, Live, PC, vars
  <2>2. RowInv'
    BY <1>23 DEF OwnerInv, RowInv, CallerInv, ExposureIsDurable, Owner, Live, PC, vars
  <2>3. CallerInv'
    BY <1>23 DEF OwnerInv, RowInv, CallerInv, Owner, Live, PC, vars
  <2>4. ReportInv'
    BY <1>23 DEF OwnerInv, RowInv, CallerInv, ReportInv, Told, Live, PC, Owner, vars
  <2>5. QED
    BY <2>1, <2>2, <2>3, <2>4
<1>24. QED
  BY <1>1, <1>2, <1>3, <1>4, <1>5, <1>6, <1>7, <1>8, <1>9, <1>10, <1>11, <1>12, <1>13, <1>14, <1>15, <1>16, <1>17, <1>18, <1>19, <1>20, <1>21, <1>22, <1>23
     DEF Next, Step

\* The inductive invariant: the owner of the row, the row against the merchant,
\* what callers hold, and the report owed to Prava.
THEOREM Invariance == Spec => []IInv
BY InvariantAtFirst, InvariantKept, Typing, PTL DEF Spec

-----------------------------------------------------------------------------
\* One idempotency key, any number of callers, retries and crashes: at most one
\* merchant order, and at most one payment submitted to it.
THEOREM OneOrder == Spec => []AtMostOneOrder
<1>1. IInv => AtMostOneOrder
  BY DEF IInv, RowInv, AtMostOneOrder
<1>2. QED
  BY <1>1, Invariance, PTL

THEOREM OneSubmission == Spec => []AtMostOneSubmission
<1>1. IInv => AtMostOneSubmission
  BY DEF IInv, RowInv, AtMostOneSubmission
<1>2. QED
  BY <1>1, Invariance, PTL

\* Whoever pays has made the exposure durable first, on an order of the amount.
THEOREM Exposure == Spec => []ExposureIsDurable
<1>1. IInv => ExposureIsDurable
  BY DEF IInv, RowInv
<1>2. QED
  BY <1>1, Invariance, PTL

\* The status report is posted once, and says what the merchant decided.
THEOREM OneReport == Spec => []AtMostOneReport
<1>1. IInv => AtMostOneReport
  BY DEF IInv, ReportInv, AtMostOneReport
<1>2. QED
  BY <1>1, Invariance, PTL

\* Nothing is done twice under one idempotency key.
THEOREM NothingTwice == Spec => []AtMostOnce
<1>1. AtMostOneOrder /\ AtMostOneSubmission /\ AtMostOneReport => AtMostOnce
  BY DEF AtMostOnce
<1>2. QED
  BY <1>1, OneOrder, OneSubmission, OneReport, PTL

\* What Prava was told is what the merchant decided, on the session of the attempt.
THEOREM TrueReports == Spec => []ReportsAreTrue
<1>1. TypeOK /\ IInv => ReportsAreTrue
  <2> SUFFICES ASSUME TypeOK, IInv, NEW s \in Sessions, prava[s] # "awaiting"
               PROVE  /\ s = attempt.session
                      /\ merchant.status = IF prava[s] = "completed" THEN "paid"
                                           ELSE "declined"
    BY DEF ReportsAreTrue
  <2>1. /\ s = attempt.session /\ attempt.reportStatus # "none"
        /\ prava[s] = Told(attempt.reportStatus)
    BY DEF IInv, ReportInv
  <2>2. attempt.reportStatus \in {"APPROVED", "DECLINED"}
    BY <2>1 DEF TypeOK, Attempt, ReportStatus
  <2>3. merchant.status = IF attempt.reportStatus = "APPROVED" THEN "paid" ELSE "declined"
    BY <2>2 DEF IInv, ReportInv, RowInv
  <2>4. QED
    BY <2>1, <2>2, <2>3 DEF Told
<1>2. QED
  BY <1>1, Typing, Invariance, PTL

\* No caller carries a false outcome out of the boundary.
THEOREM TrueOutcomes == Spec => []OutcomesAreTrue
<1>1. IInv => OutcomesAreTrue
  BY DEF IInv, CallerInv, RowInv, OutcomesAreTrue
<1>2. QED
  BY <1>1, Invariance, PTL

-----------------------------------------------------------------------------
(* Checkout implements PurchaseOnce, and a decided attempt is final.        *)

\* States in which nothing is concluded yet.
Undecided == {"absent", "reserved", "creating_order"} \cup Live

\* What a step does to the row's state, the merchant and Prava: nothing that
\* matters, or one of the six ways in which a purchase moves on.
Idles ==
    /\ UNCHANGED <<merchant, prava>>
    /\ attempt'.state = attempt.state \/ {attempt.state, attempt'.state} \subseteq Undecided

GivesUp ==
    /\ UNCHANGED <<merchant, prava>>
    /\ attempt.state \in Undecided /\ merchant.submitted = 0
    /\ attempt'.state \in {"failed", "price_changed"}

Learns ==
    /\ UNCHANGED <<merchant, prava>>
    /\ attempt.state \in Undecided
    /\ \/ attempt'.state = "completed" /\ merchant.status = "paid"
       \/ attempt'.state = "declined" /\ merchant.status = "declined"

Orders ==
    /\ UNCHANGED <<attempt, prava>>
    /\ attempt.state \in Undecided
    /\ merchant.status = "none" /\ merchant'.status = "open"
    /\ merchant'.submitted = merchant.submitted

Pays ==
    /\ UNCHANGED <<attempt, prava>>
    /\ attempt.state \in Undecided \cup {"declined"}
    /\ merchant.submitted = 0 /\ merchant'.submitted = 1
    /\ merchant.status \in {"open", "declined"}
    /\ attempt.state = "declined" => merchant.status = "declined"
    /\ merchant'.status = IF merchant.status = "open" THEN "processing" ELSE merchant.status

Settles ==
    /\ UNCHANGED <<attempt, prava>>
    /\ merchant'.submitted = merchant.submitted
    /\ \/ merchant.status = "processing" /\ merchant'.status \in {"paid", "declined"}
       \/ merchant.status = "open" /\ merchant'.status = "declined"

Tells ==
    /\ UNCHANGED <<attempt, merchant>>
    /\ \A s \in Sessions : prava[s] = "awaiting"
    /\ attempt.session \in Sessions
    /\ \/ attempt.state = "completed" /\ prava' = [prava EXCEPT ![attempt.session] = "completed"]
       \/ attempt.state = "declined" /\ prava' = [prava EXCEPT ![attempt.session] = "failed"]

\* Every step of the code is of one of these shapes.
LEMMA StepShapes ==
    ASSUME TypeOK, IInv, [Next]_vars
    PROVE  Idles \/ GivesUp \/ Learns \/ Orders \/ Pays \/ Settles \/ Tells
<1> USE DEF TypeOK, IInv
<1>1. ASSUME NEW c \in Callers, UNCHANGED <<attempt, merchant, prava>> PROVE Idles
  BY <1>1 DEF Idles
<1>2. ASSUME NEW c \in Callers, Reserve(c) PROVE Idles
  BY <1>2 DEF Idles, Reserve, NoAttempt, Undecided, remote
<1>3. ASSUME NEW c \in Callers, BeginOrder(c) PROVE Idles
  BY <1>3 DEF Idles, BeginOrder, Swap, Refused, Undecided, remote, Attempt
<1>4. ASSUME NEW c \in Callers, CheckCart(c) PROVE Idles \/ GivesUp
  <2>1. pc[c] = "cart" /\ merchant.submitted = 0
    BY <1>4 DEF CheckCart, OwnerInv, Owner
  <2>2. QED
    BY <1>4, <2>1 DEF Idles, GivesUp, CheckCart, Swap, Refused, Undecided, remote, Attempt
<1>5. ASSUME NEW c \in Callers, CreateOrder(c) PROVE Idles \/ Orders
  <2>1. merchant.status = "none" /\ attempt.state = "creating_order"
    BY <1>5 DEF CreateOrder, OwnerInv, RowInv, Owner
  <2>2. CASE UNCHANGED merchant
    BY <1>5, <2>2 DEF CreateOrder, Idles
  <2>3. ASSUME NEW a \in Amounts,
               merchant' = [merchant EXCEPT !.created = @ + 1, !.amount = a, !.status = "open"]
        PROVE  Orders
    BY <1>5, <2>1, <2>3 DEF CreateOrder, Orders, Undecided, Merchant
  <2>4. QED
    BY <1>5, <2>2, <2>3 DEF CreateOrder
<1>6. ASSUME NEW c \in Callers, RecordOrder(c) PROVE Idles
  BY <1>6 DEF Idles, RecordOrder, Swap, Refused, Undecided, Live, remote, Attempt
<1>7. ASSUME NEW c \in Callers, CheckPrice(c) PROVE Idles \/ GivesUp
  <2>1. merchant.submitted = 0
    BY <1>7 DEF CheckPrice, OwnerInv, Owner
  <2>2. QED
    BY <1>7, <2>1 DEF Idles, GivesUp, CheckPrice, Swap, Refused, Undecided, Live, remote, Attempt
<1>8. ASSUME NEW c \in Callers, Execute(c) PROVE Idles \/ Pays
  <2>1. /\ merchant.submitted = 0 /\ merchant.status \in {"open", "declined"}
        /\ attempt.state \in Undecided \cup {"declined"}
        /\ attempt.state = "declined" => merchant.status = "declined"
    BY <1>8 DEF Execute, OwnerInv, RowInv, Owner, Undecided, Attempt, AttemptState, Live
  <2>2. CASE UNCHANGED merchant
    BY <1>8, <2>2 DEF Execute, Idles
  <2>3. CASE merchant' = [merchant EXCEPT !.submitted = @ + 1,
                  !.status = IF @ = "open" THEN "processing" ELSE @]
    BY <1>8, <2>1, <2>3 DEF Execute, Pays, Merchant
  <2>4. QED
    BY <1>8, <2>2, <2>3 DEF Execute
<1>9. ASSUME NEW c \in Callers, Executed(c) PROVE Idles
  BY <1>9 DEF Idles, Executed, Swap, Refused, Undecided, Live, remote, Attempt
<1>10. ASSUME NEW c \in Callers, PersistOutcome(c) PROVE Idles \/ Learns
  <2>1. /\ seen[c].state \in Live
        /\ obs[c] = "approved" => merchant.status = "paid"
        /\ obs[c] = "declined" => merchant.status = "declined"
        /\ obs[c] \in {"approved", "declined", "pending"}
    BY <1>10 DEF PersistOutcome, CallerInv
  <2>2. CASE attempt.state # seen[c].state
    BY <1>10, <2>2 DEF PersistOutcome, Idles, remote
  <2>3. CASE attempt.state = seen[c].state /\ obs[c] = "pending"
    BY <1>10, <2>1, <2>3 DEF PersistOutcome, Idles, Undecided, Live, remote, Attempt
  <2>4. CASE attempt.state = seen[c].state /\ obs[c] # "pending"
    <3>1. attempt'.state = IF obs[c] = "approved" THEN "completed" ELSE "declined"
      BY <1>10, <2>4 DEF PersistOutcome, Settled, Attempt
    <3>2. QED
      BY <1>10, <2>1, <2>4, <3>1 DEF PersistOutcome, Learns, Undecided, remote
  <2>5. QED
    BY <2>2, <2>3, <2>4
<1>11. ASSUME NEW c \in Callers, DeliverReport(c) PROVE Idles
  BY <1>11 DEF Idles, DeliverReport, remote, Attempt
<1>12. ASSUME NEW c \in Callers, ConfirmReport(c) PROVE Idles
  BY <1>12 DEF Idles, ConfirmReport, remote, Attempt
<1>13. ASSUME NEW c \in Callers, PostReport(c) PROVE Idles \/ Tells
  <2>1. posts = 0 /\ attempt.reportStatus # "none"
    BY <1>13 DEF PostReport, ReportInv
  <2>2. /\ \A s \in Sessions : prava[s] = "awaiting"
        /\ \/ attempt.reportStatus = "APPROVED" /\ attempt.state = "completed"
           \/ attempt.reportStatus = "DECLINED" /\ attempt.state = "declined"
    BY <2>1 DEF ReportInv, Attempt, ReportStatus
  <2>3. attempt.session \in Sessions
    BY <2>2 DEF RowInv
  <2>4. QED
    BY <1>13, <2>2, <2>3 DEF PostReport, Idles, Tells, Told
<1>14. ASSUME NEW c \in Callers, RecordReport(c) PROVE Idles
  BY <1>14 DEF Idles, RecordReport, remote, Attempt
<1>15. CASE Settle
  BY <1>15 DEF Settle, Settles, Merchant
<1>16. CASE UNCHANGED <<attempt, merchant, prava>>
  BY <1>16 DEF Idles
<1>17. QED
  BY <1>2, <1>3, <1>4, <1>5, <1>6, <1>7, <1>8, <1>9, <1>10, <1>11, <1>12, <1>13,
     <1>14, <1>15, <1>16
     DEF Next, Step, vars, remote, Complete, Reconcile, Lookup, Consume, Reread,
         ReconcileOrder, Return, Crash

-----------------------------------------------------------------------------
\* A decided attempt stays decided, whatever stale copies callers still hold.
THEOREM DecidedFinal == Spec => DecidedIsFinal
<1>1. TypeOK /\ IInv /\ [Next]_vars =>
        [attempt.state \in {"completed", "declined", "failed", "price_changed"}
           => attempt'.state = attempt.state]_vars
  BY StepShapes DEF Idles, GivesUp, Learns, Orders, Pays, Settles, Tells, Undecided, Live
<1>2. QED
  BY <1>1, Typing, Invariance, PTL DEF Spec, DecidedIsFinal

-----------------------------------------------------------------------------
\* Every run of the code is a run of the abstract purchase: each step is a step
\* of PurchaseOnce or changes nothing it can see.
THEOREM Refinement == Spec => KeepsThePromise
<1>1. Init => Promise!Init
  BY DEF Init, NoAttempt, Promise!Init, Concluded, ToldPrava
<1>2. TypeOK /\ IInv /\ [Next]_vars => [Promise!Next]_(Promise!vars)
  <2> SUFFICES ASSUME TypeOK, IInv, [Next]_vars
               PROVE  Promise!Next \/ UNCHANGED Promise!vars
    OBVIOUS
  <2>1. CASE Idles
    BY <2>1 DEF Idles, Promise!vars, Concluded, ToldPrava, Undecided, Live
  <2>2. CASE GivesUp
    BY <2>2 DEF GivesUp, Promise!Next, Promise!Conclude, Concluded, ToldPrava, Undecided, Live
  <2>3. CASE Learns
    BY <2>3 DEF Learns, Promise!Next, Promise!Conclude, Promise!Decided, Concluded, ToldPrava, Undecided, Live
  <2>4. CASE Orders
    BY <2>4 DEF Orders, Promise!Next, Promise!PlaceOrder, Concluded, ToldPrava, Undecided, Live
  <2>5. CASE Pays
    BY <2>5 DEF Pays, Promise!Next, Promise!Submit, Concluded, ToldPrava, Undecided, Live
  <2>6. CASE Settles
    BY <2>6 DEF Settles, Promise!Next, Promise!Settle, Promise!Decided, Concluded, ToldPrava
  <2>7. CASE Tells
    BY <2>7 DEF Tells, TypeOK, Promise!Next, Promise!Tell, Promise!Decided, Concluded, ToldPrava
  <2>8. QED
    BY <2>1, <2>2, <2>3, <2>4, <2>5, <2>6, <2>7, StepShapes
<1>3. QED
  BY <1>1, <1>2, Typing, Invariance, PTL DEF Spec, KeepsThePromise, Promise!Spec

-----------------------------------------------------------------------------
(* What a step inside the boundary looks like to whoever called it.         *)

\* The row is bound to the session of its creator; a decided merchant and a dead
\* attempt stay what they are; "failed" is only said of a dead or declined attempt,
\* or before there is one.
OutsideView(c) ==
    /\ arg' = arg /\ pc[c] \notin {"idle", "done"}
    /\ \A d \in Callers \ {c} : pc'[d] = pc[d] /\ result'[d] = result[d]
    /\ pc'[c] \in {"lookup", "reserve"} => pc[c] = "lookup"
    /\ attempt.state # "absent" =>
           attempt'.state # "absent" /\ attempt'.session = attempt.session
    /\ attempt.state = "absent" /\ attempt'.state # "absent" =>
           pc[c] = "reserve" /\ attempt'.session = arg[c].session
    /\ merchant.status \in {"paid", "declined"} =>
           merchant'.status = merchant.status /\ merchant'.amount = merchant.amount
    /\ attempt.state \in {"failed", "price_changed"} => attempt'.state = attempt.state
    /\ result'[c] = "failed" =>
           \/ result[c] = "failed" \/ attempt'.state = "failed"
           \/ merchant'.status = "declined"
           \/ /\ pc[c] = "lookup" /\ pc'[c] = "done"
              /\ attempt.state = "absent" /\ attempt'.state = "absent"

\* A row that is read before the first remote call yields "failed" only for an
\* attempt that failed or was declined.
LEMMA ResumedFailure ==
    ASSUME TypeOK, IInv, NEW c \in Callers, Resume(c, attempt), result'[c] = "failed"
    PROVE  result[c] = "failed" \/ attempt.state = "failed" \/ merchant.status = "declined"
BY DEF TypeOK, IInv, RowInv, Resume, Finish, Goto

LEMMA StepSeenFromOutside ==
    ASSUME TypeOK, IInv, NEW c \in Callers, Step(c)
    PROVE  OutsideView(c)
<1> USE DEF TypeOK, Goto, Finish, remote, OutsideView
<1>1. ASSUME Lookup(c) PROVE OutsideView(c)
  BY <1>1, ResumedFailure DEF Lookup, Resume
<1>2. ASSUME Reserve(c) PROVE OutsideView(c)
  BY <1>2, ResumedFailure DEF Reserve, Resume, NoAttempt
<1>3. ASSUME BeginOrder(c) PROVE OutsideView(c)
  BY <1>3 DEF BeginOrder, Swap, Refused, Attempt
<1>4. ASSUME CheckCart(c) PROVE OutsideView(c)
  BY <1>4 DEF CheckCart, Swap, Refused, Attempt
<1>5. ASSUME CreateOrder(c) PROVE OutsideView(c)
  BY <1>5 DEF CreateOrder, IInv, OwnerInv, RowInv, Merchant
<1>6. ASSUME RecordOrder(c) PROVE OutsideView(c)
  BY <1>6 DEF RecordOrder, Swap, Refused, Attempt
<1>7. ASSUME CheckPrice(c) PROVE OutsideView(c)
  BY <1>7 DEF CheckPrice, Swap, Refused, Attempt
<1>8. ASSUME Consume(c) PROVE OutsideView(c)
  BY <1>8 DEF Consume, Swap, Refused, Attempt
<1>9. ASSUME Execute(c) PROVE OutsideView(c)
  BY <1>9 DEF Execute, Merchant
<1>10. ASSUME Executed(c) PROVE OutsideView(c)
  BY <1>10 DEF Executed, Swap, Refused, Attempt
<1>11. ASSUME Reread(c) PROVE OutsideView(c)
  BY <1>11, ResumedFailure DEF Reread, Resume
<1>12. ASSUME ReconcileOrder(c) PROVE OutsideView(c)
  BY <1>12 DEF ReconcileOrder, Swap, Refused, Attempt
<1>13. ASSUME PersistOutcome(c) PROVE OutsideView(c)
  <2>1. /\ seen[c].state \in Live /\ obs[c] \in {"approved", "declined", "pending"}
        /\ obs[c] = "declined" => merchant.status = "declined"
    BY <1>13 DEF PersistOutcome, IInv, CallerInv
  <2>2. \/ attempt' = attempt
        \/ /\ attempt.state \in Live
           /\ attempt'.session = attempt.session
           /\ attempt'.state \in {"pending", "completed", "declined"}
    <3>1. CASE attempt.state # seen[c].state
      BY <1>13, <3>1 DEF PersistOutcome
    <3>2. CASE attempt.state = seen[c].state /\ obs[c] = "pending"
      <4>1. attempt' = [attempt EXCEPT !.state = "pending"]
        BY <1>13, <3>2 DEF PersistOutcome
      <4>2. QED
        BY <2>1, <3>2, <4>1 DEF Attempt
    <3>3. CASE attempt.state = seen[c].state /\ obs[c] # "pending"
      <4>1. attempt' = Settled(attempt, seen[c], obs[c])
        BY <1>13, <3>3 DEF PersistOutcome
      <4>2. QED
        BY <2>1, <3>3, <4>1 DEF Settled, Attempt
    <3>4. QED
      BY <3>1, <3>2, <3>3
  <2>3. /\ pc[c] = "persist" /\ pc'[c] \in {"done", "deliver"} /\ arg' = arg
        /\ \A d \in Callers \ {c} : pc'[d] = pc[d] /\ result'[d] = result[d]
        /\ merchant' = merchant
        /\ result'[c] = "failed" => obs[c] = "declined"
    BY <1>13, <2>1 DEF PersistOutcome
  <2>4. QED
    BY <2>1, <2>2, <2>3 DEF Live
<1>14. ASSUME DeliverReport(c) PROVE OutsideView(c)
  BY <1>14 DEF DeliverReport, Swap, Refused, Attempt
<1>15. ASSUME ConfirmReport(c) PROVE OutsideView(c)
  BY <1>15 DEF ConfirmReport, Swap, Refused, Attempt
<1>16. ASSUME PostReport(c) PROVE OutsideView(c)
  BY <1>16 DEF PostReport, Swap, Refused, Attempt
<1>17. ASSUME RecordReport(c) PROVE OutsideView(c)
  BY <1>17 DEF RecordReport, Swap, Refused, Attempt
<1>18. QED
  BY <1>1, <1>2, <1>3, <1>4, <1>5, <1>6, <1>7, <1>8, <1>9, <1>10, <1>11, <1>12, <1>13, <1>14, <1>15, <1>16, <1>17 DEF Step
=============================================================================
