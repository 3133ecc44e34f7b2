---------------------------- MODULE WorkflowProofs ----------------------------
(***************************************************************************)
(* Theorems of module Workflow, for any number of requests, any amounts    *)
(* and sessions and any number of crashes.  What the boundary promises is  *)
(* taken from the proofs of module Checkout (P below): the workflow's      *)
(* requests reach the boundary only through its own operations, so every   *)
(* step of the workflow is a step of Checkout or leaves it alone.          *)
(***************************************************************************)
EXTENDS Workflow, TLAPS

P == INSTANCE CheckoutProofs

-----------------------------------------------------------------------------
(* The boundary as the workflow sees it (B) and as its proofs state it (P). *)

\* P's facts hold under the assumptions of Checkout, which are Workflow's.
LEMMA Assumptions ==
    Amounts \subseteq Nat \ {0} /\ NoSession \notin Sessions /\ MaxCrashes \in Nat
BY AmountsAssumption, SessionsAssumption, MaxCrashesAssumption

LEMMA SameStart == B!Init => P!Init
BY DEF B!Init, P!Init, B!NoAttempt, P!NoAttempt, B!NoArg, P!NoArg

LEMMA SameType == (B!TypeOK <=> P!TypeOK) /\ (B!TypeOK' <=> P!TypeOK')
BY DEF B!TypeOK, P!TypeOK, B!Attempt, P!Attempt, B!Merchant, P!Merchant, B!PC, P!PC, B!Obs,
       P!Obs, B!Result, P!Result, B!AttemptState, P!AttemptState, B!ReportState,
       P!ReportState, B!ReportStatus, P!ReportStatus

LEMMA SameInvariant == (B!IInv <=> P!IInv) /\ (B!IInv' <=> P!IInv')
BY DEF B!IInv, P!IInv, B!OwnerInv, P!OwnerInv, B!RowInv, P!RowInv, B!CallerInv, P!CallerInv,
       B!ReportInv, P!ReportInv, B!ExposureIsDurable, P!ExposureIsDurable, B!Owner, P!Owner,
       B!Live, P!Live, B!Told, P!Told

LEMMA SameStep == ASSUME NEW c PROVE B!Step(c) => P!Step(c)
BY DEF B!Step, P!Step, B!Lookup, P!Lookup, B!Reserve, P!Reserve, B!BeginOrder, P!BeginOrder,
       B!CheckCart, P!CheckCart, B!CreateOrder, P!CreateOrder, B!RecordOrder, P!RecordOrder,
       B!CheckPrice, P!CheckPrice, B!Consume, P!Consume, B!Execute, P!Execute, B!Executed,
       P!Executed, B!Reread, P!Reread, B!ReconcileOrder, P!ReconcileOrder, B!PersistOutcome,
       P!PersistOutcome, B!DeliverReport, P!DeliverReport, B!ConfirmReport, P!ConfirmReport,
       B!PostReport, P!PostReport, B!RecordReport, P!RecordReport, B!Resume, P!Resume,
       B!Finish, P!Finish, B!Goto, P!Goto, B!Swap, P!Swap, B!Refused, P!Refused, B!Settled,
       P!Settled, B!Told, P!Told, B!NoAttempt, P!NoAttempt, B!remote, P!remote

LEMMA SameNext == [B!Next]_(B!vars) => [P!Next]_(P!vars)
<1>1. ASSUME NEW c PROVE B!Step(c) => P!Step(c)
  BY SameStep
<1>2. QED
  BY <1>1 DEF B!Next, P!Next, B!vars, P!vars, B!Complete, P!Complete, B!Reconcile,
         P!Reconcile, B!Return, P!Return, B!Crash, P!Crash, B!Settle, P!Settle, B!Goto,
         P!Goto, B!Forget, P!Forget, B!NoAttempt, P!NoAttempt, B!NoArg, P!NoArg, B!remote,
         P!remote

\* The boundary keeps its types and its inductive invariant, whoever calls it.
LEMMA BoundaryAtFirst == B!Init => B!TypeOK /\ B!IInv
<1>1. P!Init => P!TypeOK
  BY P!TypedAtFirst, Assumptions
<1>2. P!Init => P!IInv
  BY P!InvariantAtFirst, Assumptions
<1>3. QED
  BY <1>1, <1>2, SameStart, SameType, SameInvariant

LEMMA BoundaryKept ==
    ASSUME B!TypeOK, [B!Next]_(B!vars)
    PROVE  B!TypeOK' /\ (B!IInv => B!IInv')
<1>1. P!TypeOK /\ [P!Next]_(P!vars)
  BY SameType, SameNext
<1>2. P!TypeOK'
  BY <1>1, P!TypeKept, Assumptions
<1>3. P!IInv => P!IInv'
  BY <1>1, P!InvariantKept, Assumptions
<1>4. QED
  BY <1>2, <1>3, SameType, SameInvariant

LEMMA InsideSeen ==
    ASSUME B!TypeOK, B!IInv, NEW c \in Callers, B!Step(c)
    PROVE  P!OutsideView(c)
<1>1. P!TypeOK /\ P!IInv /\ P!Step(c)
  BY SameType, SameInvariant, SameStep
<1>2. QED
  BY <1>1, P!StepSeenFromOutside, Assumptions

-----------------------------------------------------------------------------
\* The requests reach the boundary through its operations only.
LEMMA StepMaps ==
    ASSUME TypeOK, ControlInv, [Next]_vars
    PROVE  [B!Next]_(B!vars)
<1> USE DEF boundary, B!vars
<1>1. ASSUME NEW c \in Callers, EnterCheckout(c) PROVE B!Next
  <2>1. mine[c].amount \in Amounts /\ cred[c] \in Sessions
    BY <1>1 DEF EnterCheckout, B!Complete, ControlInv, TypeOK, Run
  <2>2. QED
    BY <1>1, <2>1 DEF EnterCheckout, B!Next
<1>2. ASSUME NEW c \in Callers, Inside(c) PROVE B!Next
  BY <1>2 DEF Inside, B!Next
<1>3. ASSUME NEW c \in Callers, FinishCheckout(c) PROVE B!Next
  BY <1>3 DEF FinishCheckout, B!Next
<1>4. ASSUME NEW c \in Callers, Reconcile(c) PROVE B!Next
  BY <1>4 DEF Reconcile, B!Next
<1>5. ASSUME NEW c \in Callers, Crash(c) PROVE B!Next
  BY <1>5 DEF Crash, B!Next
<1>6. CASE Settle
  BY <1>6 DEF Settle, B!Next
<1>7. ASSUME NEW c \in Callers, Load(c) \/ Commit(c) \/ Recover(c) \/ Guard(c)
      PROVE  UNCHANGED B!vars
  BY <1>7 DEF Load, Commit, Recover, Guard
<1>8. ASSUME NEW c \in Callers, Act(c) \/ Reapprove(c) \/ Resume(c) \/ Poll(c)
      PROVE  UNCHANGED B!vars
  BY <1>8 DEF Act, Reapprove, Resume, Poll, Read
<1>9. ASSUME NEW c \in Callers, AwaitMandate(c) \/ Revalidate(c) \/ MarkExpired(c)
      PROVE  UNCHANGED B!vars
  BY <1>9 DEF AwaitMandate, Revalidate, MarkExpired
<1>10. ASSUME NEW c \in Callers, CompleteAtomically(c) \/ ApplyEffects(c) \/ Repair(c)
       PROVE  UNCHANGED B!vars
  BY <1>10 DEF CompleteAtomically, ApplyEffects, Repair
<1>11. ASSUME NEW s \in Sessions, Decide(s) PROVE UNCHANGED B!vars
  BY <1>11 DEF Decide
<1>12. CASE UNCHANGED vars
  BY <1>12 DEF vars
<1>13. QED
  BY <1>1, <1>2, <1>3, <1>4, <1>5, <1>6, <1>7, <1>8, <1>9, <1>10, <1>11, <1>12
     DEF Next, Serve

-----------------------------------------------------------------------------
(* The control of one request.                                              *)

\* The columns of a request other than c are left alone.
Others(c) ==
    \A d \in Callers \ {c} : /\ at'[d] = at[d] /\ mine'[d] = mine[d]
                             /\ cred'[d] = cred[d] /\ todo'[d] = todo[d]

RequestsTyped ==
    /\ at \in [Callers -> At]
    /\ mine \in [Callers -> Run \cup {Unread}]
    /\ cred \in [Callers -> Sessions \cup {NoSession}]
    /\ todo \in [Callers -> Transition]

LEMMA MoveType ==
    ASSUME NEW from \in SUBSET State, NEW to \in State
    PROVE  /\ Move(from, to) \in Transition
           /\ Move(from, to).from = from /\ Move(from, to).to = to
           /\ Move(from, to).amount = 0 /\ Move(from, to).session = NoSession
           /\ Move(from, to).next = "idle"
BY DEF Move, Nothing, Transition, At, State, Open, Terminal

LEMMA PlanDoes ==
    ASSUME RequestsTyped, NEW c \in Callers, NEW t \in Transition, Plan(c, t)
    PROVE  /\ at'[c] = "load" /\ todo'[c] = t /\ mine'[c] = Unread
           /\ at' \in [Callers -> At] /\ mine' \in [Callers -> Run \cup {Unread}]
           /\ todo' \in [Callers -> Transition]
           /\ \A d \in Callers \ {c} : at'[d] = at[d] /\ mine'[d] = mine[d] /\ todo'[d] = todo[d]
BY DEF Plan, Goto, RequestsTyped, At

LEMMA EndDoes ==
    ASSUME RequestsTyped, NEW c \in Callers, End(c)
    PROVE  RequestsTyped' /\ Others(c) /\ at'[c] = "idle" /\ cred'[c] = NoSession
<1>1. Nothing \in Transition
  BY DEF Nothing, Transition, At, State, Terminal
<1>2. QED
  BY <1>1 DEF End, Goto, RequestsTyped, Others, At

LEMMA RaiseDoes ==
    ASSUME RequestsTyped, NEW c \in Callers, Raise(c)
    PROVE  /\ RequestsTyped' /\ Others(c)
           /\ \/ at'[c] = "idle" /\ cred'[c] = NoSession
              \/ at'[c] = "guard" /\ cred'[c] = cred[c]
<1>1. Nothing \in Transition
  BY DEF Nothing, Transition, At, State, Terminal
<1>2. CASE cred[c] = NoSession
  BY <1>2, EndDoes DEF Raise
<1>3. CASE cred[c] # NoSession
  BY <1>1, <1>3 DEF Raise, Goto, RequestsTyped, Others, At
<1>4. QED
  BY <1>2, <1>3

-----------------------------------------------------------------------------
(* Steps of a request outside the boundary.                                 *)

\* The request is outside the boundary after the step, the run and the attempt are
\* as they were, and no approval is lost.
Quiet(c) ==
    /\ UNCHANGED <<attempt, merchant, run, txn>> /\ slips \subseteq slips'
    /\ \A s \in Sessions : Sworn(s) => Sworn(s)'
    /\ Others(c)
    /\ \A d \in Callers \ {c} : /\ pc'[d] = pc[d] /\ result'[d] = result[d]
                                /\ arg'[d] = arg[d]
    /\ pc'[c] = "idle"
    /\ \/ result'[c] = "none"
       \/ at[c] # "checkout" /\ result'[c] = result[c]

\* A request that goes on without planning a transition.
LEMMA QuietMoves ==
    ASSUME TypeOK, WInv, NEW c \in Callers, Quiet(c), cred'[c] \in {cred[c], NoSession},
           at'[c] \in {"idle", "guard", "effects", "complete", "reapprove", "await",
                       "poll", "recover"},
           at'[c] \in {"idle", "recover"} => cred'[c] = NoSession,
           at'[c] \in {"await", "poll", "recover"} => mine'[c] \in Run /\ mine'[c] = run,
           at'[c] = "recover" => run.state \in {"mandate_approved", "quote_revalidated"},
           at'[c] = "complete" =>
               /\ merchant.status = "paid"
               /\ todo'[c].from \in {{"quote_revalidated"}, {"checkout_pending"}}
    PROVE  WInv'
<1> USE DEF WInv, Quiet, Others
<1>1. ControlInv'
  BY DEF ControlInv, Foreseen
<1>2. ApprovalInv'
  BY DEF ApprovalInv, Sworn
<1>3. BookingInv'
  BY DEF BookingInv
<1>4. \A d \in Callers : /\ Driving(d)' => Driving(d)
                         /\ Revalidating(d)' => Revalidating(d)
                         /\ GivingUp(d)' => GivingUp(d) /\ todo'[d] = todo[d]
                         /\ Settling(d)' => Settling(d) \/ run.state = "quote_revalidated"
                         /\ Finishing(d)' => Finishing(d) /\ todo'[d] = todo[d]
  BY DEF Driving, Revalidating, GivingUp, Finishing, Settling, Planning
<1>5. RoundInv'
  BY <1>4 DEF RoundInv, Dead, Late, Kept
<1>6. KeepingInv'
  BY <1>4 DEF KeepingInv, Over, Dead, ControlInv
<1>7. QED
  BY <1>1, <1>2, <1>3, <1>5, <1>6

\* A request that plans a transition.
LEMMA QuietPlans ==
    ASSUME TypeOK, WInv, NEW c \in Callers, NEW t, Quiet(c),
           at'[c] = "load", todo'[c] = t, Foreseen(t, cred'[c]),
           cred'[c] # NoSession => Sworn(cred'[c]),
           t.from = {"mandate_approved"} /\ cred'[c] # NoSession => Revalidating(c),
           t.from = {"quote_revalidated"} /\ cred'[c] # NoSession => Driving(c),
           t.from \in {{"quote_revalidated"}, {"checkout_pending"}} =>
               /\ Settling(c) \/ run.state \in Late
               /\ t.to = "reapproval_required" => Dead
               /\ t.to = "failed" /\ slips' = {} /\ ~Over =>
                      attempt.state = "absent" /\ \A d \in Callers \ {c} : ~Driving(d)
    PROVE  WInv'
<1> USE DEF WInv, Quiet, Others
<1>1. ControlInv'
  BY DEF ControlInv
<1>2. ApprovalInv'
  BY DEF ApprovalInv, Sworn
<1>3. BookingInv'
  BY DEF BookingInv
<1>4. \A d \in Callers : /\ Driving(d)' => Driving(d)
                         /\ Revalidating(d)' => Revalidating(d)
  BY DEF Driving, Revalidating, Planning
<1>5. \A d \in Callers \ {c} :
          /\ GivingUp(d)' => GivingUp(d) /\ todo'[d] = todo[d]
          /\ Settling(d)' => Settling(d)
          /\ Finishing(d)' => Finishing(d) /\ todo'[d] = todo[d]
  BY DEF GivingUp, Finishing, Settling, Planning
<1>6. /\ GivingUp(c)' => /\ t.from \in {{"quote_revalidated"}, {"checkout_pending"}}
                         /\ t.to = "failed"
      /\ Settling(c)' => t.from \in {{"quote_revalidated"}, {"checkout_pending"}}
      /\ Finishing(c)' => t.from \in {{"quote_revalidated"}, {"checkout_pending"}}
  BY DEF GivingUp, Finishing, Settling, Planning
<1>7. RoundInv'
  BY <1>4, <1>5, <1>6 DEF RoundInv, Dead
<1>8. KeepingInv'
  BY <1>4, <1>5, <1>6 DEF KeepingInv, Over, Dead
<1>9. QED
  BY <1>1, <1>2, <1>3, <1>7, <1>8

\* What is known before a step.
LEMMA Before ==
    ASSUME TypeOK, WInv, NEW c \in Callers
    PROVE  /\ RequestsTyped /\ run \in Run
           /\ at[c] \notin {"checkout", "reconcile"} => pc[c] = "idle"
           /\ at[c] \in {"idle", "recover", "reconcile"} => cred[c] = NoSession
           /\ cred[c] # NoSession => Sworn(cred[c])
BY DEF TypeOK, RequestsTyped, WInv, ControlInv, ApprovalInv

\* Outside the boundary, a step that leaves boundary, row and approvals is quiet.
LEMMA StaysQuiet ==
    ASSUME TypeOK, WInv, NEW c \in Callers, Others(c), at[c] \notin {"checkout", "reconcile"},
           UNCHANGED <<boundary, run, txn, mandate>>, slips \subseteq slips'
    PROVE  Quiet(c)
BY Before DEF Quiet, boundary, Sworn

LEMMA EndKeeps ==
    ASSUME TypeOK, WInv, NEW c \in Callers, End(c), at[c] \notin {"checkout", "reconcile"},
           UNCHANGED <<boundary, run, txn, mandate>>, slips \subseteq slips'
    PROVE  RequestsTyped' /\ WInv'
BY Before, EndDoes, StaysQuiet, QuietMoves

LEMMA RaiseKeeps ==
    ASSUME TypeOK, WInv, NEW c \in Callers, Raise(c), at[c] \notin {"checkout", "reconcile"},
           UNCHANGED <<boundary, run, txn, mandate>>, slips \subseteq slips'
    PROVE  RequestsTyped' /\ WInv'
BY Before, RaiseDoes, StaysQuiet, QuietMoves

LEMMA ReadKeeps ==
    ASSUME TypeOK, WInv, NEW c \in Callers, NEW label \in {"await", "poll", "recover"},
           Read(c, label),
           label = "recover" => run.state \in {"mandate_approved", "quote_revalidated"}
    PROVE  RequestsTyped' /\ WInv'
<1>1. /\ RequestsTyped' /\ Others(c) /\ at'[c] = label /\ mine'[c] = run
      /\ cred'[c] = cred[c]
  BY Before DEF Read, Goto, RequestsTyped, Others, At
<1>2. Quiet(c)
  BY <1>1, StaysQuiet DEF Read, row
<1>3. QED
  BY <1>1, <1>2, Before, QuietMoves DEF Read

LEMMA LoadKeeps ==
    ASSUME TypeOK, WInv, NEW c \in Callers, Load(c)
    PROVE  RequestsTyped' /\ WInv'
<1>1. CASE run.state \notin todo[c].from
  BY <1>1, RaiseKeeps DEF Load, row
<1>2. CASE run.state \in todo[c].from
  <2>1. /\ RequestsTyped' /\ Others(c) /\ at[c] = "load" /\ at'[c] = "commit"
        /\ mine'[c] = run /\ UNCHANGED <<cred, todo, boundary, row, mandate>>
    BY <1>2, Before DEF Load, Goto, RequestsTyped, Others, At
  <2>2. \A d \in Callers : /\ Driving(d)' <=> Driving(d)
                           /\ Revalidating(d)' <=> Revalidating(d)
                           /\ GivingUp(d)' <=> GivingUp(d)
                           /\ Settling(d)' <=> Settling(d)
                           /\ Finishing(d)' <=> Finishing(d)
    BY <2>1 DEF Driving, Revalidating, GivingUp, Finishing, Settling, Planning, Others
  <2>3. ControlInv'
    BY <1>2, <2>1, Before DEF WInv, ControlInv, Others, boundary
  <2>4. ApprovalInv' /\ BookingInv'
    BY <2>1 DEF WInv, ApprovalInv, BookingInv, Sworn, Others, boundary, row
  <2>5. RoundInv'
    BY <2>1, <2>2 DEF WInv, RoundInv, Dead, boundary, row
  <2>6. KeepingInv'
    BY <2>1, <2>2 DEF WInv, KeepingInv, Over, Dead, Others, boundary, row
  <2>7. QED
    BY <2>1, <2>3, <2>4, <2>5, <2>6 DEF WInv
<1>3. QED
  BY <1>1, <1>2

\* A planned transition as the lemmas above want it, for a request outside the
\* boundary.
LEMMA PlanKeeps ==
    ASSUME TypeOK, WInv, NEW c \in Callers, NEW t \in Transition, Plan(c, t),
           at[c] \notin {"checkout", "reconcile"},
           UNCHANGED <<boundary, run, txn, mandate>>, slips \subseteq slips',
           NEW s \in Sessions \cup {NoSession}, cred' = [cred EXCEPT ![c] = s],
           Foreseen(t, s), s # NoSession => Sworn(s),
           t.from = {"mandate_approved"} /\ s # NoSession => Revalidating(c),
           t.from = {"quote_revalidated"} => s = NoSession,
           t.from \in {{"quote_revalidated"}, {"checkout_pending"}} =>
               /\ Settling(c) \/ run.state \in Late
               /\ t.to # "reapproval_required"
               /\ t.to = "failed" /\ slips' = {} /\ ~Over =>
                      attempt.state = "absent" /\ \A d \in Callers \ {c} : ~Driving(d)
    PROVE  RequestsTyped' /\ WInv'
<1>1. cred'[c] = s /\ cred' \in [Callers -> Sessions \cup {NoSession}]
      /\ \A d \in Callers \ {c} : cred'[d] = cred[d]
  BY Before DEF RequestsTyped
<1>2. /\ RequestsTyped' /\ Others(c) /\ at'[c] = "load" /\ todo'[c] = t
  BY <1>1, Before, PlanDoes DEF RequestsTyped, Others
<1>3. Quiet(c)
  BY <1>2, StaysQuiet
<1>4. QED
  BY <1>1, <1>2, <1>3, QuietPlans

\* The same, for a request that keeps whatever credential it has.
LEMMA PlanAsIs ==
    ASSUME TypeOK, WInv, NEW c \in Callers, NEW t \in Transition, Plan(c, t),
           at[c] \notin {"checkout", "reconcile"},
           UNCHANGED <<boundary, run, txn, mandate, cred>>, slips \subseteq slips',
           Foreseen(t, cred[c]),
           t.from = {"mandate_approved"} /\ cred[c] # NoSession => Revalidating(c),
           t.from = {"quote_revalidated"} => cred[c] = NoSession,
           t.from \in {{"quote_revalidated"}, {"checkout_pending"}} =>
               /\ Settling(c) \/ run.state \in Late
               /\ t.to # "reapproval_required"
               /\ t.to = "failed" /\ slips' = {} /\ ~Over =>
                      attempt.state = "absent" /\ \A d \in Callers \ {c} : ~Driving(d)
    PROVE  RequestsTyped' /\ WInv'
<1>1. cred' = [cred EXCEPT ![c] = cred[c]] /\ cred[c] \in Sessions \cup {NoSession}
  BY Before DEF RequestsTyped
<1>2. QED
  BY <1>1, Before, PlanKeeps

LEMMA AnswerableStates == Answerable \subseteq State
BY DEF Answerable, State, Open

LEMMA ActKeeps ==
    ASSUME TypeOK, WInv, NEW c \in Callers, Act(c)
    PROVE  RequestsTyped' /\ WInv'
<1> USE Before DEF row
<1>1. at[c] = "idle" /\ UNCHANGED <<boundary, row, mandate, cred>>
  BY DEF Act
<1>2. CASE Goto(c, "reapprove") /\ UNCHANGED <<mine, todo>>
  <2>1. RequestsTyped' /\ Others(c) /\ at'[c] = "reapprove" /\ cred'[c] = cred[c]
    BY <1>1, <1>2 DEF Goto, RequestsTyped, Others, At
  <2>2. Quiet(c)
    BY <1>1, <2>1, StaysQuiet
  <2>3. QED
    BY <2>1, <2>2, QuietMoves
<1>3. ASSUME NEW to \in {"skipped", "passkey_pending"}, Plan(c, Move(Answerable, to))
      PROVE  RequestsTyped' /\ WInv'
  <2>1. /\ Move(Answerable, to) \in Transition /\ Foreseen(Move(Answerable, to), cred[c])
        /\ Move(Answerable, to).from = Answerable
    BY AnswerableStates, MoveType DEF State, Open, Terminal, Foreseen
  <2>2. QED
    BY <1>1, <1>3, <2>1, PlanAsIs DEF Answerable
<1>4. ASSUME NEW a \in Amounts, NEW to \in {"reapproval_required", "notified"},
             Plan(c, [Move(Answerable, to) EXCEPT !.amount = a])
      PROVE  RequestsTyped' /\ WInv'
  <2> DEFINE t == [Move(Answerable, to) EXCEPT !.amount = a]
  <2>1. /\ t \in Transition
        /\ t.from = Answerable /\ t.to = to /\ t.next = "idle"
    BY AnswerableStates DEF Move, Nothing, Transition, At, State, Open, Terminal
  <2>2. Foreseen(t, cred[c]) /\ Plan(c, t)
    BY <1>4, <2>1 DEF Foreseen
  <2> HIDE DEF t
  <2>3. QED
    BY <1>1, <2>1, <2>2, PlanAsIs DEF Answerable
<1>5. QED
  BY <1>2, <1>3, <1>4 DEF Act

\* A new intent for the fresh amount does not touch an earlier approval.
LEMMA ReapproveKeeps ==
    ASSUME TypeOK, WInv, NEW c \in Callers, Reapprove(c)
    PROVE  RequestsTyped' /\ WInv'
<1> USE Before DEF row
<1>1. at[c] = "reapprove" /\ UNCHANGED <<boundary, row>>
  BY DEF Reapprove
<1>2. \A s \in Sessions : Sworn(s) => Sworn(s)'
  BY DEF Reapprove, Sworn, TypeOK
<1>3. ASSUME End(c) PROVE RequestsTyped' /\ WInv'
  <2>1. RequestsTyped' /\ Others(c) /\ at'[c] = "idle" /\ cred'[c] = NoSession
    BY <1>3, EndDoes
  <2>2. Quiet(c)
    BY <1>1, <1>2, <2>1 DEF Quiet, boundary
  <2>3. QED
    BY <2>1, <2>2, QuietMoves
<1>4. ASSUME NEW s \in Sessions, NEW a \in Amounts, UNCHANGED cred,
             Plan(c, [Move({"reapproval_required"}, "passkey_pending")
                        EXCEPT !.amount = a, !.session = s])
      PROVE  RequestsTyped' /\ WInv'
  <2> DEFINE t == [Move({"reapproval_required"}, "passkey_pending")
                      EXCEPT !.amount = a, !.session = s]
  <2>1. /\ t \in Transition /\ t.from = {"reapproval_required"}
        /\ t.to = "passkey_pending" /\ t.next = "idle"
    BY DEF Move, Nothing, Transition, At, State, Open, Terminal
  <2>2. Plan(c, t)
    BY <1>4
  <2> HIDE DEF t
  <2>3. Foreseen(t, cred[c])
    BY <2>1 DEF Foreseen, Answerable
  <2>4. /\ RequestsTyped' /\ Others(c) /\ at'[c] = "load" /\ todo'[c] = t
    BY <1>4, <2>1, <2>2, PlanDoes DEF RequestsTyped, Others
  <2>5. Quiet(c)
    BY <1>1, <1>2, <2>4 DEF Quiet, boundary
  <2>6. QED
    BY <1>4, <2>1, <2>3, <2>4, <2>5, QuietPlans
<1>5. QED
  BY <1>3, <1>4 DEF Reapprove

\* The recovery gives a run up only for want of an attempt; if it does so while
\* nobody holds a credential, nobody is about to make one.
LEMMA RecoverKeeps ==
    ASSUME TypeOK, WInv, NEW c \in Callers, Recover(c)
    PROVE  RequestsTyped' /\ WInv'
<1> USE Before DEF row
<1>1. /\ at[c] = "recover" /\ UNCHANGED <<boundary, run, txn, mandate>>
      /\ slips \subseteq slips'
  BY DEF Recover
<1>2. CASE attempt.state # "absent"
  BY <1>1, <1>2, EndKeeps DEF Recover
<1>3. CASE attempt.state = "absent"
  <2> DEFINE t == Move({mine[c].state}, "failed")
  <2>1. mine[c].state \in {"mandate_approved", "quote_revalidated"}
    BY <1>1 DEF WInv, ControlInv
  <2>2. t \in Transition /\ t.from = {mine[c].state} /\ t.to = "failed" /\ t.next = "idle"
    BY <2>1, MoveType DEF State, Open, Terminal
  <2>3. Plan(c, t) /\ UNCHANGED cred
    BY <1>3 DEF Recover
  <2>4. slips' = {} => \A d \in Callers \ {c} : cred[d] = NoSession
    BY <1>3 DEF Recover
  <2>5. \A d \in Callers : cred[d] = NoSession => ~Driving(d)
    BY SessionsAssumption DEF Driving, Revalidating, WInv, ControlInv
  <2> HIDE DEF t
  <2>6. Foreseen(t, cred[c])
    BY <2>1, <2>2 DEF Foreseen
  <2>7. t.from \in {{"quote_revalidated"}, {"checkout_pending"}} => Settling(c)
    BY <1>1, <2>1, <2>2 DEF Settling, Finishing
  <2>8. QED
    BY <1>1, <1>3, <2>2, <2>3, <2>4, <2>5, <2>6, <2>7, PlanAsIs
<1>4. QED
  BY <1>2, <1>3

LEMMA PendingPlanKeeps ==
    ASSUME TypeOK, WInv, NEW c \in Callers, NEW to \in {"rejected", "expired", "failed"},
           Plan(c, Move({"passkey_pending"}, to)), UNCHANGED cred,
           at[c] \notin {"checkout", "reconcile"},
           UNCHANGED <<boundary, run, txn, mandate>>, slips \subseteq slips'
    PROVE  RequestsTyped' /\ WInv'
<1> DEFINE t == Move({"passkey_pending"}, to)
<1>1. t \in Transition /\ t.from = {"passkey_pending"} /\ t.to = to /\ t.next = "idle"
  BY MoveType DEF State, Open, Terminal
<1>2. Plan(c, t)
  OBVIOUS
<1> HIDE DEF t
<1>3. Foreseen(t, cred[c])
  BY <1>1 DEF Foreseen
<1>4. QED
  BY <1>1, <1>2, <1>3, PlanAsIs

\* A request takes a credential only from an approved session.
LEMMA AwaitKeeps ==
    ASSUME TypeOK, WInv, NEW c \in Callers, AwaitMandate(c)
    PROVE  RequestsTyped' /\ WInv'
<1> USE Before DEF row
<1>1. at[c] = "await" /\ UNCHANGED <<boundary, row, mandate>>
  BY DEF AwaitMandate
<1>2. mine[c].session \in Sessions
  BY <1>1 DEF WInv, ControlInv, Run
<1>3. CASE End(c)
  BY <1>1, <1>3, EndKeeps
<1>4. ASSUME NEW to \in {"rejected", "expired"}, UNCHANGED cred,
             Plan(c, Move({"passkey_pending"}, to))
      PROVE  RequestsTyped' /\ WInv'
  BY <1>1, <1>4, PendingPlanKeeps
<1>5. ASSUME mandate[mine[c].session] \in {"approved", "lapsed"},
             cred' = [cred EXCEPT ![c] = mine[c].session],
             Plan(c, [Move({"passkey_pending"}, "mandate_approved")
                        EXCEPT !.next = "revalidate"])
      PROVE  RequestsTyped' /\ WInv'
  <2> DEFINE t == [Move({"passkey_pending"}, "mandate_approved") EXCEPT !.next = "revalidate"]
  <2>1. /\ t \in Transition /\ t.from = {"passkey_pending"}
        /\ t.to = "mandate_approved" /\ t.next = "revalidate"
    BY DEF Move, Nothing, Transition, At, State, Open, Terminal
  <2>2. Plan(c, t)
    BY <1>5
  <2> HIDE DEF t
  <2>3. Foreseen(t, mine[c].session) /\ Sworn(mine[c].session)
    BY <1>2, <1>5, <2>1 DEF Foreseen, Sworn
  <2>4. QED
    BY <1>1, <1>2, <1>5, <2>1, <2>2, <2>3, PlanKeeps
<1>6. QED
  BY <1>3, <1>4, <1>5 DEF AwaitMandate

\* The transition out of "mandate_approved", by the request that carries the approval.
LEMMA RevalidateKeeps ==
    ASSUME TypeOK, WInv, NEW c \in Callers, Revalidate(c)
    PROVE  RequestsTyped' /\ WInv'
<1> USE Before DEF row
<1>1. at[c] = "revalidate" /\ UNCHANGED <<boundary, row, mandate>>
  BY DEF Revalidate
<1>2. Revalidating(c) /\ cred[c] \in Sessions
  BY <1>1 DEF Revalidating, WInv, ControlInv
<1>3. CASE Raise(c)
  BY <1>1, <1>3, RaiseKeeps
<1>4. CASE Plan(c, Move({"mandate_approved"}, "failed")) /\ UNCHANGED cred
  <2>1. /\ Move({"mandate_approved"}, "failed") \in Transition
        /\ Move({"mandate_approved"}, "failed").from = {"mandate_approved"}
        /\ Foreseen(Move({"mandate_approved"}, "failed"), cred[c])
    BY MoveType DEF State, Open, Terminal, Foreseen
  <2>2. QED
    BY <1>1, <1>2, <1>4, <2>1, PlanAsIs
<1>5. ASSUME NEW fresh \in Amounts, UNCHANGED cred,
             Plan(c, [Move({"mandate_approved"}, "reapproval_required")
                        EXCEPT !.amount = fresh])
      PROVE  RequestsTyped' /\ WInv'
  <2> DEFINE t == [Move({"mandate_approved"}, "reapproval_required") EXCEPT !.amount = fresh]
  <2>1. /\ t \in Transition /\ t.from = {"mandate_approved"}
        /\ t.to = "reapproval_required" /\ t.next = "idle"
    BY DEF Move, Nothing, Transition, At, State, Open, Terminal
  <2>2. Plan(c, t)
    BY <1>5
  <2> HIDE DEF t
  <2>3. Foreseen(t, cred[c])
    BY <1>2, <2>1 DEF Foreseen
  <2>4. QED
    BY <1>1, <1>2, <1>5, <2>1, <2>2, <2>3, PlanAsIs
<1>6. ASSUME NEW fresh \in Amounts, UNCHANGED cred,
             Plan(c, [Move({"mandate_approved"}, "quote_revalidated")
                        EXCEPT !.amount = fresh, !.next = "checkout"])
      PROVE  RequestsTyped' /\ WInv'
  <2> DEFINE t == [Move({"mandate_approved"}, "quote_revalidated")
                      EXCEPT !.amount = fresh, !.next = "checkout"]
  <2>1. /\ t \in Transition /\ t.from = {"mandate_approved"}
        /\ t.to = "quote_revalidated" /\ t.next = "checkout"
    BY DEF Move, Nothing, Transition, At, State, Open, Terminal
  <2>2. Plan(c, t)
    BY <1>6
  <2> HIDE DEF t
  <2>3. Foreseen(t, cred[c])
    BY <1>2, <2>1 DEF Foreseen
  <2>4. QED
    BY <1>1, <1>2, <1>6, <2>1, <2>2, <2>3, PlanAsIs
<1>7. QED
  BY <1>3, <1>4, <1>5, <1>6 DEF Revalidate

\* The guard gives the credential up before it plans anything.
LEMMA GuardKeeps ==
    ASSUME TypeOK, WInv, NEW c \in Callers, Guard(c)
    PROVE  RequestsTyped' /\ WInv'
<1> USE Before DEF row
<1>1. /\ at[c] = "guard" /\ UNCHANGED <<boundary, row, mandate>>
      /\ cred' = [cred EXCEPT ![c] = NoSession]
  BY DEF Guard
<1>2. CASE Goto(c, "idle") /\ UNCHANGED <<mine, todo>>
  <2>1. RequestsTyped' /\ Others(c) /\ at'[c] = "idle" /\ cred'[c] = NoSession
    BY <1>1, <1>2 DEF Goto, RequestsTyped, Others, At
  <2>2. QED
    BY <1>1, <2>1, StaysQuiet, QuietMoves
<1>3. ASSUME NEW s \in {"passkey_pending", "mandate_approved"}, Plan(c, Move({s}, "failed"))
      PROVE  RequestsTyped' /\ WInv'
  <2> DEFINE t == Move({s}, "failed")
  <2>1. t \in Transition /\ t.from = {s} /\ t.to = "failed" /\ t.next = "idle"
    BY MoveType DEF State, Open, Terminal
  <2>2. Plan(c, t)
    BY <1>3
  <2> HIDE DEF t
  <2>3. Foreseen(t, NoSession)
    BY <2>1 DEF Foreseen
  <2>4. QED
    BY <1>1, <2>1, <2>2, <2>3, PlanKeeps
<1>4. CASE run.state = "quote_revalidated"
           /\ Plan(c, Move({"quote_revalidated"}, "checkout_pending"))
  <2> DEFINE t == Move({"quote_revalidated"}, "checkout_pending")
  <2>1. /\ t \in Transition /\ t.from = {"quote_revalidated"}
        /\ t.to = "checkout_pending" /\ t.next = "idle"
    BY MoveType DEF State, Open, Terminal
  <2>2. Plan(c, t)
    BY <1>4
  <2> HIDE DEF t
  <2>3. Foreseen(t, NoSession)
    BY <2>1 DEF Foreseen
  <2>4. QED
    BY <1>1, <1>4, <2>1, <2>2, <2>3, PlanKeeps DEF Late, Kept
<1>5. QED
  BY <1>2, <1>3, <1>4 DEF Guard

LEMMA MarkExpiredKeeps ==
    ASSUME TypeOK, WInv, NEW c \in Callers, MarkExpired(c)
    PROVE  RequestsTyped' /\ WInv'
<1>1. at[c] = "poll" /\ UNCHANGED <<boundary, row, mandate>>
  BY DEF MarkExpired
<1>2. QED
  BY <1>1, EndKeeps, PendingPlanKeeps DEF MarkExpired, row

LEMMA RepairKeeps ==
    ASSUME TypeOK, WInv, NEW c \in Callers, Repair(c)
    PROVE  RequestsTyped' /\ WInv'
<1>1. /\ RequestsTyped' /\ Others(c) /\ at[c] = "idle" /\ at'[c] = "effects"
      /\ cred'[c] = cred[c] /\ UNCHANGED <<boundary, row, mandate>>
  BY Before DEF Repair, Goto, RequestsTyped, Others, At
<1>2. QED
  BY <1>1, StaysQuiet, QuietMoves DEF row

LEMMA EffectsKeep ==
    ASSUME TypeOK, WInv, NEW c \in Callers, ApplyEffects(c)
    PROVE  RequestsTyped' /\ WInv'
<1>1. at[c] = "effects" /\ UNCHANGED <<boundary, mandate, run, txn, slips>>
  BY DEF ApplyEffects
<1>2. QED
  BY <1>1, EndKeeps, RaiseKeeps DEF ApplyEffects

-----------------------------------------------------------------------------
(* The two writers of the row.                                              *)

\* A booking is for the amount the merchant was paid.
LEMMA CompleteKeeps ==
    ASSUME TypeOK, B!IInv, WInv, NEW c \in Callers, CompleteAtomically(c)
    PROVE  RequestsTyped' /\ WInv'
<1> USE Before
<1>1. /\ at[c] = "complete" /\ UNCHANGED <<boundary, mandate, slips>>
      /\ merchant.status = "paid"
      /\ todo[c].from \in {{"quote_revalidated"}, {"checkout_pending"}}
  BY DEF CompleteAtomically, WInv, BookingInv, ControlInv
<1>2. CASE Raise(c) /\ UNCHANGED row
  BY <1>1, <1>2, RaiseKeeps DEF row
<1>3. CASE Goto(c, "effects") /\ UNCHANGED <<row, mine, cred, todo>>
  <2>1. RequestsTyped' /\ Others(c) /\ at'[c] = "effects" /\ cred'[c] = cred[c]
    BY <1>3 DEF Goto, RequestsTyped, Others, At
  <2>2. QED
    BY <1>1, <1>3, <2>1, StaysQuiet, QuietMoves DEF row
<1>4. CASE /\ attempt.amount = run.amount /\ run.state \in todo[c].from
           /\ txn' = attempt.amount
           /\ run' = [run EXCEPT !.state = "completed", !.active = FALSE]
           /\ Goto(c, "effects") /\ UNCHANGED <<mine, cred, todo>>
  <2>1. RequestsTyped' /\ Others(c) /\ at'[c] = "effects" /\ UNCHANGED <<mine, cred, todo>>
    BY <1>4 DEF Goto, RequestsTyped, Others, At
  <2>2. run'.state = "completed" /\ run.state \in {"quote_revalidated", "checkout_pending"}
    BY <1>1, <1>4 DEF Run
  <2>3. merchant.submitted > 0 /\ attempt.state # "absent"
    BY <1>1 DEF B!IInv, B!RowInv, TypeOK, B!TypeOK, B!Merchant
  <2>4. txn' = merchant.amount /\ txn' # 0
    BY <1>4, <2>3, AmountsAssumption DEF B!IInv, B!RowInv, B!ExposureIsDurable, Run
  <2>5. \A d \in Callers : /\ Driving(d)' => Driving(d)
                           /\ Revalidating(d)' => Revalidating(d)
                           /\ GivingUp(d)' => GivingUp(d) /\ todo'[d] = todo[d]
                           /\ Settling(d)' => Settling(d)
                           /\ Finishing(d)' => Finishing(d)
    BY <2>1 DEF Driving, Revalidating, GivingUp, Finishing, Settling, Planning, Others
  <2>6. ControlInv'
    BY <1>1, <2>1 DEF WInv, ControlInv, Others, boundary
  <2>7. ApprovalInv'
    BY <1>1, <2>1 DEF WInv, ApprovalInv, Sworn, Others, boundary
  <2>8. BookingInv'
    BY <1>1, <2>1, <2>4 DEF WInv, BookingInv, Others, boundary
  <2>9. RoundInv'
    BY <1>1, <2>1, <2>2, <2>5 DEF WInv, RoundInv, Dead, Late, Kept, boundary
  <2>10. KeepingInv'
    BY <1>1, <2>1, <2>2, <2>5 DEF WInv, KeepingInv, Over, Dead, Kept, Others, boundary
  <2>11. QED
    BY <2>1, <2>6, <2>7, <2>8, <2>9, <2>10 DEF WInv
<1>5. QED
  BY <1>2, <1>3, <1>4 DEF CompleteAtomically

\* What a transition writes: its target state or, if a column is as it was when the
\* row was loaded, nothing.  It is an overwrite unless the run is in a state the
\* transition expects.
LEMMA CommitDoes ==
    ASSUME TypeOK, WInv, NEW c \in Callers, Commit(c)
    PROVE  /\ at[c] = "commit" /\ Foreseen(todo[c], cred[c])
           /\ UNCHANGED <<boundary, mandate, txn>>
           /\ run' \in Run /\ run'.state \in {run.state, todo[c].to} /\ slips \subseteq slips'
           /\ "overwrite" \notin slips' =>
                  run.state \in todo[c].from /\ run'.state = todo[c].to
           /\ RequestsTyped' /\ Others(c) /\ at'[c] = todo[c].next
           /\ cred'[c] = IF todo[c].next = "idle" THEN NoSession ELSE cred[c]
           /\ todo[c].next # "idle" => mine'[c] \in Run
<1> USE Before
<1> DEFINE old == mine[c]
           t == todo[c]
           new == [state |-> t.to,
                   amount |-> IF t.amount = 0 THEN old.amount ELSE t.amount,
                   session |-> IF t.session = NoSession THEN old.session ELSE t.session,
                   active |-> t.to \notin Terminal]
<1>1. /\ at[c] = "commit" /\ Foreseen(t, cred[c]) /\ old \in Run /\ old.state \in t.from
      /\ UNCHANGED <<boundary, mandate, txn>> /\ t \in Transition
  BY DEF Commit, WInv, ControlInv, RequestsTyped
<1>2. new \in Run
  BY <1>1 DEF Run, Transition
<1>3. run' = [f \in DOMAIN run |-> IF new[f] = old[f] THEN run[f] ELSE new[f]]
  BY DEF Commit
<1>4. run' = [state |-> IF new.state = old.state THEN run.state ELSE new.state,
              amount |-> IF new.amount = old.amount THEN run.amount ELSE new.amount,
              session |-> IF new.session = old.session THEN run.session ELSE new.session,
              active |-> IF new.active = old.active THEN run.active ELSE new.active]
  BY <1>3 DEF Run
<1>5. run' \in Run
  BY <1>2, <1>4 DEF Run
<1>6. run'.state \in {run.state, t.to} /\ (run.state = old.state => run'.state = t.to)
  BY <1>4
<1>7. slips \subseteq slips' /\ ("overwrite" \notin slips' => run.state = old.state)
  BY DEF Commit
<1>8. CASE t.next = "idle"
  <2>1. RequestsTyped' /\ Others(c) /\ at'[c] = "idle" /\ cred'[c] = NoSession
    BY <1>8, EndDoes DEF Commit
  <2>2. QED
    BY <1>1, <1>5, <1>6, <1>7, <1>8, <2>1
<1>9. CASE t.next # "idle"
  <2>1. /\ mine' = [mine EXCEPT ![c] = new] /\ Goto(c, t.next)
        /\ todo' = [todo EXCEPT ![c] = Nothing] /\ UNCHANGED cred
    BY <1>9 DEF Commit
  <2>2. Nothing \in Transition
    BY DEF Nothing, Transition, At, State, Terminal
  <2> HIDE DEF new
  <2>3. /\ RequestsTyped' /\ Others(c) /\ at'[c] = t.next /\ mine'[c] \in Run
        /\ cred'[c] = cred[c]
    BY <1>1, <1>2, <2>1, <2>2 DEF Goto, RequestsTyped, Others, Transition
  <2>4. QED
    BY <1>1, <1>5, <1>6, <1>7, <1>9, <2>3
<1>10. QED
  BY <1>8, <1>9

LEMMA CommitKeeps ==
    ASSUME TypeOK, WInv, NEW c \in Callers, Commit(c)
    PROVE  RequestsTyped' /\ WInv'
<1> USE Before, CommitDoes
<1> DEFINE t == todo[c]
<1>1. /\ t.next \in {"idle", "revalidate", "checkout"}
      /\ t.next = "revalidate" => t.from = {"passkey_pending"} /\ t.to = "mandate_approved"
      /\ t.next = "checkout" => t.from = {"mandate_approved"} /\ t.to = "quote_revalidated"
      /\ t.next # "idle" => cred[c] \in Sessions
      /\ t.to # "completed"
  BY DEF Foreseen
<1>2. ControlInv'
  BY <1>1 DEF WInv, ControlInv, Others, boundary
<1>3. ApprovalInv'
  BY <1>1 DEF WInv, ApprovalInv, Sworn, Others, boundary
<1>4. BookingInv'
  BY <1>1 DEF WInv, BookingInv, Others, boundary
<1>5. \A d \in Callers \ {c} : /\ Driving(d)' <=> Driving(d)
                               /\ Revalidating(d)' <=> Revalidating(d)
                               /\ GivingUp(d)' <=> GivingUp(d)
                               /\ (Settling(d)' <=> Settling(d)) /\ todo'[d] = todo[d]
                               /\ Finishing(d)' <=> Finishing(d)
  BY DEF Driving, Revalidating, GivingUp, Finishing, Settling, Planning, Others
<1>6. /\ Driving(c)' => t.next # "idle" /\ cred[c] # NoSession
      /\ Revalidating(c)' => t.next = "revalidate"
      /\ Settling(c)' => t.next = "checkout"
      /\ ~GivingUp(c)' /\ ~Finishing(c)'
  BY <1>1, SessionsAssumption DEF Driving, Revalidating, GivingUp, Finishing, Settling, Planning
<1>7. \A d \in Callers : Driving(d) => Revalidating(d) \/ Settling(d)
  BY DEF Driving, Settling, Finishing, Planning
<1>8. RoundInv'
  <2> SUFFICES ASSUME "overwrite" \notin slips', ~Dead'
               PROVE  /\ \A d, e \in Callers : Driving(d)' /\ Driving(e)' => d = e
                      /\ attempt'.state # "absent" => run'.state \in Late
                      /\ \A d \in Callers :
                          /\ Revalidating(d)' => run'.state \in {"mandate_approved", "failed"}
                          /\ Settling(d)' => run'.state \in Late
                          /\ Finishing(d)' => todo'[d].to # "reapproval_required"
    BY DEF RoundInv
  <2>1. /\ "overwrite" \notin slips /\ ~Dead
        /\ run.state \in t.from /\ run'.state = t.to
    BY DEF Dead, boundary
  <2>2. /\ \A d, e \in Callers : Driving(d) /\ Driving(e) => d = e
        /\ attempt.state # "absent" => run.state \in Late
        /\ \A d \in Callers :
            /\ Revalidating(d) => run.state \in {"mandate_approved", "failed"}
            /\ Settling(d) => run.state \in Late
            /\ Finishing(d) => todo[d].to # "reapproval_required"
    BY <2>1 DEF WInv, RoundInv
  <2>3. CASE t.from \subseteq Answerable \/ t.from = {"passkey_pending"}
    <3>1. run.state \notin Late /\ run.state \notin {"mandate_approved", "failed"}
      BY <2>1, <2>3 DEF Answerable, Late, Kept
    <3>2. attempt.state = "absent"
          /\ \A d \in Callers : ~Revalidating(d) /\ ~Settling(d) /\ ~Driving(d)
      BY <2>2, <3>1, <1>7
    <3>3. t.next # "checkout"
      BY <1>1, <2>3 DEF Answerable
    <3>4. QED
      BY <1>1, <1>5, <1>6, <2>1, <2>2, <3>2, <3>3 DEF RoundInv, boundary
  <2>4. CASE t.from = {"mandate_approved"}
    <3>1. run.state = "mandate_approved" /\ run.state \notin Late
      BY <2>1, <2>4 DEF Late, Kept
    <3>2. attempt.state = "absent" /\ \A d \in Callers : ~Settling(d)
      BY <2>2, <3>1
    <3>3. cred[c] # NoSession => \A d \in Callers \ {c} : ~Revalidating(d) /\ ~Driving(d)
      BY <2>2, <2>4, <1>7, <3>2 DEF Driving, Revalidating, Planning
    <3>4. /\ t.to \in {"failed", "reapproval_required", "quote_revalidated"}
          /\ t.to # "failed" => cred[c] # NoSession
      BY <2>4, SessionsAssumption DEF Foreseen, Answerable
    <3>5. CASE t.to = "failed"
      BY <1>1, <1>5, <1>6, <2>1, <2>2, <3>2, <3>5 DEF RoundInv, boundary
    <3>6. CASE t.to # "failed"
      BY <1>1, <1>5, <1>6, <2>1, <2>2, <3>2, <3>3, <3>4, <3>6 DEF RoundInv, boundary, Late, Kept
    <3>7. QED
      BY <3>5, <3>6
  <2>5. CASE t.from \in {{"quote_revalidated"}, {"checkout_pending"}}
    <3>1. /\ run.state \in {"quote_revalidated", "checkout_pending"}
          /\ t.to # "reapproval_required"
      BY <2>1, <2>2, <2>5 DEF Finishing, Planning
    <3>2. t.to \in {"checkout_pending", "failed"} /\ t.next = "idle"
      BY <2>5, <3>1 DEF Foreseen, Answerable
    <3>3. \A d \in Callers : ~Revalidating(d)
      BY <2>2, <3>1
    <3>4. QED
      BY <1>5, <1>6, <2>1, <2>2, <3>2, <3>3 DEF RoundInv, boundary, Late, Kept
  <2>6. QED
    BY <2>3, <2>4, <2>5 DEF Foreseen
<1>9. KeepingInv'
  <2> SUFFICES ASSUME slips' = {}, ~Over' PROVE KeepingInv'
    BY DEF KeepingInv
  <2>1. /\ slips = {} /\ ~Over /\ ~Dead
        /\ run.state \in t.from /\ run'.state = t.to
    BY DEF Over, Dead, boundary
  <2>2. /\ attempt.state # "absent" => run.state \in Kept
        /\ \A d \in Callers :
            /\ at[d] = "checkout" => run.state \in Kept
            /\ result[d] = "failed" =>
                   at[d] = "checkout" /\ pc[d] = "done" /\ attempt.state = "absent"
            /\ GivingUp(d) => /\ attempt.state = "absent"
                              /\ \A e \in Callers \ {d} : ~Driving(e)
            /\ Settling(d) => run.state \in Late
    BY <2>1 DEF WInv, KeepingInv, RoundInv
  <2>3. CASE t.from \subseteq Answerable \/ t.from \in {{"passkey_pending"}, {"mandate_approved"}}
    <3>1. run.state \notin Late
      BY <2>1, <2>3 DEF Answerable, Late, Kept
    <3>2. attempt.state = "absent" /\ \A d \in Callers : ~Settling(d) /\ at[d] # "checkout"
      BY <2>2, <3>1 DEF Settling, Finishing, Late, Kept
    <3>3. \A d \in Callers : ~GivingUp(d)
      BY <3>2 DEF GivingUp, Finishing, Settling
    <3>4. at'[c] = "checkout" => run'.state \in Kept
      BY <1>1, <2>1 DEF Kept
    <3>5. QED
      BY <1>5, <1>6, <2>2, <3>2, <3>3, <3>4 DEF KeepingInv, Others, boundary
  <2>4. CASE t.from \in {{"quote_revalidated"}, {"checkout_pending"}}
    <3>1. /\ t.to \in {"checkout_pending", "failed"} /\ t.next = "idle"
      BY <2>1, <2>4 DEF Foreseen, Answerable, WInv, RoundInv, Finishing, Planning
    <3>2. t.to = "failed" => GivingUp(c)
      BY <2>4 DEF GivingUp, Finishing, Planning
    <3>3. t.to = "failed" => attempt.state = "absent"
                             /\ \A d \in Callers \ {c} : at[d] # "checkout"
      BY <2>2, <3>2 DEF Driving
    <3>4. QED
      BY <1>5, <1>6, <2>1, <2>2, <3>1, <3>3 DEF KeepingInv, Others, boundary, Kept
  <2>5. QED
    BY <2>3, <2>4 DEF Foreseen
<1>10. QED
  BY <1>2, <1>3, <1>4, <1>8, <1>9 DEF WInv

-----------------------------------------------------------------------------
(* Steps across the boundary, and those of the surroundings.                *)

LEMMA EnterCheckoutKeeps ==
    ASSUME TypeOK, WInv, NEW c \in Callers, EnterCheckout(c)
    PROVE  RequestsTyped' /\ WInv'
<1>1. /\ at[c] = "checkout" /\ pc[c] = "idle" /\ cred[c] \in Sessions /\ Sworn(cred[c])
      /\ pc'[c] = "lookup" /\ arg'[c].session = cred[c]
      /\ \A d \in Callers \ {c} : pc'[d] = pc[d] /\ arg'[d] = arg[d]
      /\ UNCHANGED <<attempt, merchant, result, row, mandate, at, mine, cred, todo>>
  BY SessionsAssumption
     DEF EnterCheckout, B!Complete, B!Goto, B!remote, TypeOK, B!TypeOK, WInv, ControlInv, ApprovalInv
<1>2. \A d \in Callers : /\ Driving(d)' <=> Driving(d)
                         /\ Revalidating(d)' <=> Revalidating(d)
                         /\ GivingUp(d)' <=> GivingUp(d)
                         /\ Settling(d)' <=> Settling(d)
                         /\ Finishing(d)' <=> Finishing(d)
  BY <1>1 DEF Driving, Revalidating, GivingUp, Finishing, Settling, Planning
<1>3. RequestsTyped'
  BY <1>1 DEF TypeOK, RequestsTyped
<1>4. ControlInv'
  BY <1>1 DEF WInv, ControlInv
<1>5. ApprovalInv' /\ BookingInv'
  BY <1>1 DEF WInv, ApprovalInv, BookingInv, Sworn, row
<1>6. RoundInv'
  BY <1>1, <1>2 DEF WInv, RoundInv, Dead, row
<1>7. KeepingInv'
  BY <1>1, <1>2 DEF WInv, KeepingInv, Over, Dead, row
<1>8. QED
  BY <1>3, <1>4, <1>5, <1>6, <1>7 DEF WInv

\* What happens inside reaches the run only through what is seen from outside.
LEMMA InsideKeeps ==
    ASSUME TypeOK, B!IInv, WInv, NEW c \in Callers, Inside(c)
    PROVE  RequestsTyped' /\ WInv'
<1>1. /\ at[c] \in {"checkout", "reconcile"}
      /\ UNCHANGED <<row, mandate, at, mine, cred, todo>>
  BY DEF Inside
<1>2. P!OutsideView(c)
  BY InsideSeen DEF Inside, TypeOK
<1>3. /\ pc'[c] \in {"lookup", "reserve"} => at[c] = "checkout"
      /\ attempt.state = "absent" /\ attempt'.state # "absent" =>
             /\ at[c] = "checkout" /\ Driving(c) /\ Settling(c)
             /\ Sworn(attempt'.session)
  BY <1>2 DEF P!OutsideView, WInv, ControlInv, ApprovalInv, Driving, Settling
<1>4. \A d \in Callers : /\ Driving(d)' <=> Driving(d)
                         /\ Revalidating(d)' <=> Revalidating(d)
                         /\ GivingUp(d)' <=> GivingUp(d)
                         /\ Settling(d)' <=> Settling(d)
                         /\ Finishing(d)' <=> Finishing(d)
  BY <1>1 DEF Driving, Revalidating, GivingUp, Finishing, Settling, Planning
<1>5. (Dead => Dead') /\ (Over => Over')
  BY <1>2 DEF P!OutsideView, Dead, Over
<1>6. RequestsTyped'
  BY <1>1 DEF TypeOK, RequestsTyped
<1>7. ControlInv'
  BY <1>1, <1>2, <1>3 DEF WInv, ControlInv, P!OutsideView
<1>8. ApprovalInv'
  <2>1. attempt'.state # "absent" => Sworn(attempt'.session)
    BY <1>2, <1>3 DEF P!OutsideView, WInv, ApprovalInv
  <2>2. \A d \in Callers : pc'[d] \in {"lookup", "reserve"} => pc[d] \in {"lookup", "reserve"}
    BY <1>2 DEF P!OutsideView
  <2>3. arg' = arg /\ cred' = cred /\ mandate' = mandate
    BY <1>1, <1>2 DEF P!OutsideView
  <2>4. QED
    BY <2>1, <2>2, <2>3 DEF WInv, ApprovalInv, Sworn
<1>9. BookingInv'
  BY <1>1, <1>2 DEF P!OutsideView, WInv, BookingInv, row
<1>10. RoundInv'
  <2> SUFFICES ASSUME "overwrite" \notin slips', ~Dead' PROVE RoundInv'
    BY DEF RoundInv
  <2>1. "overwrite" \notin slips /\ ~Dead
    BY <1>1, <1>5 DEF row
  <2>2. attempt'.state # "absent" => run.state \in Late
    BY <1>3, <2>1 DEF WInv, RoundInv
  <2>3. QED
    BY <1>1, <1>4, <2>1, <2>2 DEF WInv, RoundInv, row
<1>11. KeepingInv'
  <2> SUFFICES ASSUME slips' = {}, ~Over'
               PROVE  /\ attempt'.state # "absent" => run'.state \in Kept
                      /\ \A d \in Callers :
                          /\ at'[d] = "checkout" => run'.state \in Kept
                          /\ result'[d] = "failed" =>
                                 /\ at'[d] = "checkout" /\ pc'[d] = "done"
                                 /\ attempt'.state = "absent"
                          /\ GivingUp(d)' => /\ attempt'.state = "absent"
                                             /\ \A e \in Callers \ {d} : ~Driving(e)'
    BY DEF KeepingInv
  <2>1. slips = {} /\ ~Over /\ ~Dead
    BY <1>1, <1>5 DEF row, Over
  <2>2. /\ attempt.state # "absent" => run.state \in Kept
        /\ \A d \in Callers :
            /\ at[d] = "checkout" => run.state \in Kept
            /\ result[d] = "failed" =>
                   at[d] = "checkout" /\ pc[d] = "done" /\ attempt.state = "absent"
            /\ GivingUp(d) => /\ attempt.state = "absent"
                              /\ \A e \in Callers \ {d} : ~Driving(e)
        /\ \A d, e \in Callers : Driving(d) /\ Driving(e) => d = e
    BY <2>1 DEF WInv, KeepingInv, RoundInv
  <2>3. attempt'.state # "absent" => run.state \in Kept
    BY <1>3, <2>2
  <2>4. ASSUME NEW d \in Callers \ {c}, attempt.state = "absent", at[d] = "checkout" \/ GivingUp(d)
        PROVE  attempt'.state = "absent"
    BY <1>3, <2>2, <2>4 DEF Driving
  <2>5. ~GivingUp(c)
    BY <1>1 DEF GivingUp, Finishing, Planning
  <2>6. result'[c] = "failed" => /\ at[c] = "checkout" /\ pc'[c] = "done"
                                 /\ attempt'.state = "absent"
    BY <1>2, <2>2 DEF P!OutsideView, WInv, ControlInv, Over, Dead
  <2>7. ASSUME NEW d \in Callers \ {c}, result'[d] = "failed"
        PROVE  at[d] = "checkout" /\ pc'[d] = "done" /\ attempt'.state = "absent"
    BY <1>2, <2>2, <2>4, <2>7 DEF P!OutsideView
  <2>8. \A d \in Callers : GivingUp(d) => attempt'.state = "absent"
    BY <2>2, <2>4, <2>5
  <2>9. QED
    BY <1>1, <1>4, <2>2, <2>3, <2>6, <2>7, <2>8 DEF row
<1>12. QED
  BY <1>6, <1>7, <1>8, <1>9, <1>10, <1>11 DEF WInv

\* What the boundary returns says how the attempt stands.
LEMMA FinishCheckoutKeeps ==
    ASSUME TypeOK, B!IInv, WInv, NEW c \in Callers, FinishCheckout(c)
    PROVE  RequestsTyped' /\ WInv'
<1> DEFINE expected == IF at[c] = "checkout" THEN {"quote_revalidated"} ELSE {"checkout_pending"}
<1> USE Before
<1>1. /\ at[c] \in {"checkout", "reconcile"} /\ pc[c] = "done"
      /\ at[c] = "reconcile" => cred[c] = NoSession
      /\ UNCHANGED <<attempt, merchant, row, mandate>>
      /\ pc'[c] = "idle" /\ result'[c] = "none"
      /\ \A d \in Callers \ {c} : pc'[d] = pc[d] /\ result'[d] = result[d] /\ arg'[d] = arg[d]
  BY DEF FinishCheckout, B!Return, B!Forget, B!Goto, B!remote, TypeOK, B!TypeOK
<1>2. /\ result[c] = "completed" => merchant.status = "paid"
      /\ result[c] = "price_changed" => Dead
  BY DEF B!IInv, B!CallerInv, Dead
<1>3. result[c] = "failed" /\ slips' = {} /\ ~Over =>
          attempt.state = "absent" /\ \A d \in Callers \ {c} : ~Driving(d)
  BY <1>1 DEF WInv, KeepingInv, RoundInv, Over, Driving, row
<1>4. ASSUME Others(c) PROVE Quiet(c)
  BY <1>1, <1>4 DEF Quiet, Sworn, row
<1>5. Settling(c) /\ (expected = {"quote_revalidated"} => Driving(c))
  BY <1>1 DEF Settling, Driving
<1>6. ASSUME NEW to \in {"checkout_pending", "reapproval_required", "failed"},
             Plan(c, Move(expected, to)), UNCHANGED cred,
             to = "reapproval_required" => Dead,
             to = "failed" => result[c] = "failed"
      PROVE  RequestsTyped' /\ WInv'
  <2> DEFINE t == Move(expected, to)
  <2>1. expected \in SUBSET State /\ to \in State
    BY DEF State, Open, Terminal
  <2>2. /\ t \in Transition /\ t.from = expected /\ t.to = to /\ t.next = "idle"
    BY <2>1, MoveType
  <2>3. expected \in {{"quote_revalidated"}, {"checkout_pending"}}
    OBVIOUS
  <2> HIDE DEF t, expected
  <2>4. /\ RequestsTyped' /\ Others(c) /\ at'[c] = "load" /\ todo'[c] = t
    BY <1>6, <2>2, PlanDoes DEF RequestsTyped, Others, t
  <2>5. Foreseen(t, cred'[c])
    BY <2>2, <2>3 DEF Foreseen
  <2>6. Quiet(c)
    BY <2>4, <1>4
  <2>7. cred'[c] # NoSession => Sworn(cred'[c])
    BY <1>6
  <2>8. QED
    BY <1>3, <1>5, <1>6, <2>2, <2>3, <2>4, <2>5, <2>6, <2>7, QuietPlans
<1>7. CASE result[c] = "completed" /\ Goto(c, "complete") /\ UNCHANGED cred
           /\ todo' = [todo EXCEPT ![c] = Move(expected, "completed")]
           /\ mine' = [mine EXCEPT ![c] = Unread]
  <2> DEFINE t == Move(expected, "completed")
  <2>1. expected \in SUBSET State /\ "completed" \in State
    BY DEF State, Open, Terminal
  <2>2. t \in Transition /\ t.from = expected
    BY <2>1, MoveType
  <2>3. expected \in {{"quote_revalidated"}, {"checkout_pending"}}
    OBVIOUS
  <2> HIDE DEF t, expected
  <2>4. RequestsTyped' /\ Others(c) /\ at'[c] = "complete" /\ todo'[c] = t /\ cred'[c] = cred[c]
    BY <1>7, <2>2 DEF RequestsTyped, Others, Goto, At, t
  <2>5. QED
    BY <1>1, <1>2, <1>4, <1>7, <2>2, <2>3, <2>4, QuietMoves
<1>8. CASE Raise(c)
  BY <1>1, <1>4, <1>8, RaiseDoes, QuietMoves
<1>9. QED
  BY <1>2, <1>6, <1>7, <1>8 DEF FinishCheckout

LEMMA ReconcileKeeps ==
    ASSUME TypeOK, WInv, NEW c \in Callers, Reconcile(c)
    PROVE  RequestsTyped' /\ WInv'
<1> USE Before
<1>1. /\ at[c] = "idle" /\ run.state = "checkout_pending" /\ cred[c] = NoSession
      /\ at'[c] = "reconcile" /\ pc'[c] = "reread" /\ cred' = cred
      /\ RequestsTyped' /\ Others(c)
      /\ \A d \in Callers \ {c} : pc'[d] = pc[d]
      /\ UNCHANGED <<attempt, merchant, arg, result, row, mandate, todo>>
  BY DEF Reconcile, B!Reconcile, B!Goto, B!remote, TypeOK, B!TypeOK, Goto, RequestsTyped, Others, At
<1>2. \A d \in Callers : /\ Driving(d)' <=> Driving(d)
                         /\ Revalidating(d)' <=> Revalidating(d)
                         /\ GivingUp(d)' <=> GivingUp(d)
                         /\ Settling(d)' => Settling(d) \/ d = c
                         /\ Finishing(d)' <=> Finishing(d)
  BY <1>1 DEF Driving, Revalidating, GivingUp, Finishing, Settling, Planning, Others
<1>3. ControlInv'
  BY <1>1 DEF WInv, ControlInv, Others
<1>4. ApprovalInv' /\ BookingInv'
  BY <1>1 DEF WInv, ApprovalInv, BookingInv, Sworn, Others, row
<1>5. RoundInv'
  BY <1>1, <1>2 DEF WInv, RoundInv, Dead, Late, Kept, row
<1>6. KeepingInv'
  BY <1>1, <1>2 DEF WInv, KeepingInv, Over, Dead, Others, row
<1>7. QED
  BY <1>1, <1>3, <1>4, <1>5, <1>6 DEF WInv

LEMMA CrashKeeps ==
    ASSUME TypeOK, WInv, NEW c \in Callers, Crash(c)
    PROVE  RequestsTyped' /\ WInv'
<1> USE Before
<1>1. RequestsTyped' /\ Others(c) /\ at'[c] = "idle" /\ cred'[c] = NoSession
  BY EndDoes DEF Crash
<1>2. Quiet(c)
  BY <1>1 DEF Crash, B!Crash, B!Forget, B!Goto, B!remote, TypeOK, B!TypeOK, Quiet, Sworn, row
<1>3. QED
  BY <1>1, <1>2, QuietMoves

\* A step of nobody's leaves the requests alone, loses no approval and no payment,
\* and brings nothing back to life.
LEMMA SurroundingsKeep ==
    ASSUME TypeOK, WInv, UNCHANGED <<attempt, pc, arg, result, row, at, mine, cred, todo>>,
           \A s \in Sessions : Sworn(s) => Sworn(s)',
           merchant'.amount = merchant.amount,
           merchant.status \in {"paid", "declined"} => merchant'.status = merchant.status
    PROVE  RequestsTyped' /\ WInv'
<1>1. \A d \in Callers : /\ Driving(d)' <=> Driving(d)
                         /\ Revalidating(d)' <=> Revalidating(d)
                         /\ GivingUp(d)' <=> GivingUp(d)
                         /\ Settling(d)' <=> Settling(d)
                         /\ Finishing(d)' <=> Finishing(d)
  BY DEF Driving, Revalidating, GivingUp, Finishing, Settling, Planning
<1>2. RequestsTyped' /\ ControlInv'
  BY DEF TypeOK, RequestsTyped, WInv, ControlInv
<1>3. ApprovalInv' /\ BookingInv'
  BY DEF WInv, ApprovalInv, BookingInv, Sworn, row
<1>4. RoundInv'
  BY <1>1 DEF WInv, RoundInv, Dead, row
<1>5. KeepingInv'
  BY <1>1 DEF WInv, KeepingInv, Over, Dead, row
<1>6. QED
  BY <1>2, <1>3, <1>4, <1>5 DEF WInv

-----------------------------------------------------------------------------
(* Every step keeps types and invariant.                                    *)

RowTyped ==
    /\ run \in Run
    /\ mandate \in [Sessions -> {"unused", "pending", "approved", "lapsed",
                                 "rejected", "expired"}]
    /\ txn \in Amounts \cup {0}
    /\ effects \in {"none", "pending", "completed"}
    /\ slips \subseteq {"overwrite", "early"}

LEMMA RowTypeKept ==
    ASSUME TypeOK, WInv, [Next]_vars
    PROVE  RowTyped'
<1> USE DEF row, RowTyped
<1>0. RowTyped
  BY DEF TypeOK
<1>1. ASSUME NEW c \in Callers, Load(c) \/ Guard(c) \/ Act(c) \/ Resume(c) \/ Poll(c)
      PROVE  RowTyped'
  BY <1>0, <1>1 DEF Load, Guard, Act, Resume, Poll, Read
<1>2. ASSUME NEW c \in Callers, EnterCheckout(c) \/ Inside(c) \/ FinishCheckout(c) \/ Reconcile(c)
      PROVE  RowTyped'
  BY <1>0, <1>2 DEF EnterCheckout, Inside, FinishCheckout, Reconcile
<1>3. ASSUME NEW c \in Callers, AwaitMandate(c) \/ Revalidate(c) \/ MarkExpired(c) \/ Repair(c)
      PROVE  RowTyped'
  BY <1>0, <1>3 DEF AwaitMandate, Revalidate, MarkExpired, Repair
<1>4. ASSUME NEW c \in Callers, Commit(c) PROVE RowTyped'
  <2>1. run' \in Run /\ UNCHANGED <<mandate, txn, effects>>
    BY <1>4, CommitDoes DEF Commit
  <2>2. QED
    BY <1>0, <1>4, <2>1 DEF Commit
<1>5. ASSUME NEW c \in Callers, Reapprove(c) PROVE RowTyped'
  BY <1>0, <1>5 DEF Reapprove
<1>6. ASSUME NEW c \in Callers, Recover(c) PROVE RowTyped'
  BY <1>0, <1>6 DEF Recover
<1>7. ASSUME NEW c \in Callers, CompleteAtomically(c) PROVE RowTyped'
  BY <1>0, <1>7 DEF CompleteAtomically, Run, State, Terminal
<1>8. ASSUME NEW c \in Callers, ApplyEffects(c) PROVE RowTyped'
  BY <1>0, <1>8 DEF ApplyEffects
<1>9. ASSUME NEW c \in Callers, Crash(c) PROVE RowTyped'
  BY <1>0, <1>9 DEF Crash
<1>10. ASSUME NEW s \in Sessions, Decide(s) PROVE RowTyped'
  BY <1>0, <1>10 DEF Decide
<1>11. CASE Settle \/ UNCHANGED vars
  BY <1>0, <1>11 DEF Settle, vars
<1>12. QED
  BY <1>1, <1>2, <1>3, <1>4, <1>5, <1>6, <1>7, <1>8, <1>9, <1>10, <1>11 DEF Next, Serve

LEMMA RequestsKept ==
    ASSUME TypeOK, B!IInv, WInv, [Next]_vars
    PROVE  RequestsTyped' /\ WInv'
<1>1. ASSUME NEW c \in Callers, Act(c) \/ Reconcile(c) \/ Repair(c) \/ Crash(c)
      PROVE  RequestsTyped' /\ WInv'
  BY <1>1, ActKeeps, ReconcileKeeps, RepairKeeps, CrashKeeps
<1>2. ASSUME NEW c \in Callers, Resume(c) \/ Poll(c)
      PROVE  RequestsTyped' /\ WInv'
  BY <1>2, ReadKeeps DEF Resume, Poll
<1>3. ASSUME NEW c \in Callers, Load(c) \/ Commit(c) \/ Reapprove(c) \/ Recover(c)
      PROVE  RequestsTyped' /\ WInv'
  BY <1>3, LoadKeeps, CommitKeeps, ReapproveKeeps, RecoverKeeps
<1>4. ASSUME NEW c \in Callers,
             AwaitMandate(c) \/ Revalidate(c) \/ EnterCheckout(c) \/ Inside(c)
      PROVE  RequestsTyped' /\ WInv'
  BY <1>4, AwaitKeeps, RevalidateKeeps, EnterCheckoutKeeps, InsideKeeps
<1>5. ASSUME NEW c \in Callers,
             FinishCheckout(c) \/ CompleteAtomically(c) \/ ApplyEffects(c) \/ Guard(c) \/ MarkExpired(c)
      PROVE  RequestsTyped' /\ WInv'
  BY <1>5, FinishCheckoutKeeps, CompleteKeeps, EffectsKeep, GuardKeeps, MarkExpiredKeeps
<1>6. ASSUME NEW s \in Sessions, Decide(s)
      PROVE  RequestsTyped' /\ WInv'
  <2>1. \A r \in Sessions : Sworn(r) => Sworn(r)'
    BY <1>6 DEF Decide, Sworn, TypeOK
  <2>2. QED
    BY <1>6, <2>1, SurroundingsKeep DEF Decide, boundary
<1>7. CASE Settle
  <2>1. \A r \in Sessions : Sworn(r) => Sworn(r)'
    BY <1>7 DEF Settle, Sworn
  <2>2. /\ merchant'.amount = merchant.amount
        /\ merchant.status \in {"paid", "declined"} => merchant'.status = merchant.status
    BY <1>7 DEF Settle, B!Settle, TypeOK, B!TypeOK, B!Merchant
  <2>3. QED
    BY <1>7, <2>1, <2>2, SurroundingsKeep DEF Settle, B!Settle
<1>8. CASE UNCHANGED vars
  BY <1>8, SurroundingsKeep DEF vars, boundary, Sworn
<1>9. QED
  BY <1>1, <1>2, <1>3, <1>4, <1>5, <1>6, <1>7, <1>8 DEF Next, Serve

LEMMA TypedAtFirst == Init => TypeOK
<1> SUFFICES ASSUME Init PROVE TypeOK
  OBVIOUS
<1>1. B!TypeOK
  BY BoundaryAtFirst DEF Init
<1>2. RowTyped
  BY DEF Init, RowTyped, Run, State, Open
<1>3. Nothing \in Transition
  BY DEF Nothing, Transition, At, State, Terminal
<1>4. RequestsTyped
  BY <1>3 DEF Init, RequestsTyped, At
<1>5. QED
  BY <1>1, <1>2, <1>4 DEF TypeOK, RowTyped, RequestsTyped

LEMMA InvariantAtFirst == Init => B!IInv /\ WInv
<1> SUFFICES ASSUME Init PROVE B!IInv /\ WInv
  OBVIOUS
<1>1. /\ B!IInv /\ attempt.state = "absent" /\ txn = 0 /\ run.state = "notified"
      /\ \A c \in Callers : /\ at[c] = "idle" /\ cred[c] = NoSession /\ pc[c] = "idle"
                            /\ result[c] = "none"
  BY BoundaryAtFirst DEF Init, B!Init, B!NoAttempt
<1>2. \A c \in Callers : ~Driving(c) /\ ~Settling(c) /\ ~Finishing(c)
  BY <1>1 DEF Driving, Revalidating, Settling, Finishing, Planning
<1>3. ControlInv /\ ApprovalInv /\ BookingInv
  BY <1>1 DEF ControlInv, ApprovalInv, BookingInv
<1>4. RoundInv /\ KeepingInv
  BY <1>1, <1>2 DEF RoundInv, KeepingInv, GivingUp, Revalidating, Driving
<1>5. QED
  BY <1>1, <1>3, <1>4 DEF WInv

LEMMA StepKeeps ==
    ASSUME TypeOK, B!IInv, WInv, [Next]_vars
    PROVE  TypeOK' /\ B!IInv' /\ WInv'
<1>1. B!TypeOK' /\ B!IInv'
  BY StepMaps, BoundaryKept DEF TypeOK, WInv
<1>2. QED
  BY <1>1, RowTypeKept, RequestsKept DEF TypeOK, RowTyped, RequestsTyped

-----------------------------------------------------------------------------
(* Theorems                                                                 *)

\* Every reachable state is typed and satisfies both invariants: the boundary's own,
\* whatever the workflow does above it, and the workflow's.
THEOREM Invariance == Spec => [](TypeOK /\ B!IInv /\ WInv)
<1>1. Init => TypeOK /\ B!IInv /\ WInv
  BY TypedAtFirst, InvariantAtFirst
<1>2. TypeOK /\ B!IInv /\ WInv /\ [Next]_vars => (TypeOK /\ B!IInv /\ WInv)'
  BY StepKeeps
<1>3. QED
  BY <1>1, <1>2, PTL DEF Spec

\* The columns of the run, of its transaction and of its requests keep their types:
\* no interleaving of loaded and written rows leaves a value nobody ever wrote.
THEOREM Typing == Spec => []TypeOK
BY Invariance, PTL

\* A payment is submitted only with a session its holder approved
\* (service.py resume_after_passkey hands the credential of that session on).
THEOREM Approved == Spec => []SubmittedWasApproved
<1>1. TypeOK /\ B!IInv /\ WInv => SubmittedWasApproved
  BY DEF TypeOK, B!TypeOK, B!Merchant, B!IInv, B!RowInv, WInv, ApprovalInv, Sworn,
         SubmittedWasApproved
<1>2. QED
  BY <1>1, Invariance, PTL

\* What complete_checkout_atomically books the merchant was paid, to the amount, and
\* a run is completed only with its booking.
THEOREM Booked == Spec => []BookedIsPaid
<1>1. WInv => BookedIsPaid
  BY DEF WInv, BookingInv, BookedIsPaid
<1>2. QED
  BY <1>1, Invariance, PTL

\* The run of a paid order stays on its way to "completed", the two named accidents
\* apart, however requests, retries, recoveries and crashes interleave.
THEOREM PaidStaysOpen == Spec => []PaidRunStaysOpen
<1>1. TypeOK /\ B!IInv /\ WInv => PaidRunStaysOpen
  <2> SUFFICES ASSUME TypeOK, B!IInv, WInv, merchant.status = "paid", slips = {}
               PROVE  run.state \in Kept
    BY DEF PaidRunStaysOpen, Kept
  <2>1. merchant.submitted # 0
    BY DEF B!IInv, B!RowInv
  <2>2. attempt.state \notin {"absent", "failed", "price_changed"}
    BY <2>1 DEF B!IInv, B!RowInv
  <2>3. ~Over
    BY <2>2 DEF Over, Dead
  <2>4. QED
    BY <2>2, <2>3 DEF WInv, KeepingInv
<1>2. QED
  BY <1>1, Invariance, PTL

\* A skipped, rejected or expired run has no payment behind it, lost updates of the
\* row apart.
THEOREM UnapprovedIsUnpaid == Spec => []NotApprovedIsNotPaid
<1>1. TypeOK /\ B!IInv /\ WInv => NotApprovedIsNotPaid
  <2> SUFFICES ASSUME TypeOK, B!IInv, WInv, "overwrite" \notin slips,
                      run.state \in {"skipped", "rejected", "expired"}
               PROVE  merchant.submitted = 0
    BY DEF NotApprovedIsNotPaid
  <2>1. CASE Dead
    BY <2>1 DEF Dead, B!IInv, B!RowInv
  <2>2. CASE ~Dead
    <3>1. attempt.state = "absent"
      BY <2>2 DEF WInv, RoundInv, Late, Kept
    <3>2. QED
      BY <3>1 DEF B!IInv, B!RowInv
  <2>3. QED
    BY <2>1, <2>2
<1>2. QED
  BY <1>1, Invariance, PTL
=============================================================================
