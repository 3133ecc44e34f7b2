---------------------------- MODULE PaymentsProofs ----------------------------
(***************************************************************************)
(* Theorems of module PravaPayments, for any number of tasks and sessions  *)
(* and any bounds: every interleaving of the event loop.                   *)
(***************************************************************************)
EXTENDS PravaPayments, FiniteSetTheorems, TLAPS

-----------------------------------------------------------------------------
(* The inductive invariant                                                 *)

\* A paying task owns the session it created until it ends.
HasCreated(t) == task[t].pc = "creating" /\ task[t].answer = "ok"
Owns(t) == HasCreated(t) \/ task[t].pc \in {"polling", "executing", "reporting", "revoking"}

OwnerInv ==
    \A t \in Tasks :
        /\ Owns(t) =>
             /\ task[t].session \in Sessions
             /\ remote[task[t].session] # "unused"
             /\ ~record[task[t].session].receipt
             /\ \A u \in Tasks \ {t} : Owns(u) => task[u].session # task[t].session
        /\ HasCreated(t) => record[task[t].session] = NoRecord
        /\ task[t].pc \in {"verifying", "refunding"} => task[t].session \in Sessions
        /\ task[t].pc = "verifying" => record[task[t].session].status # "none"

\* Where the card of an owner's session may have been charged.
ChargeInv ==
    \A t \in Tasks :
        LET s == task[t].session IN
        /\ HasCreated(t) \/ task[t].pc = "polling" => s \notin charged
        /\ task[t].pc = "executing" /\ task[t].answer \notin {"approved", "error"} =>
             s \notin charged
        /\ task[t].pc = "executing" /\ task[t].answer = "approved" => s \in charged
        /\ task[t].pc = "reporting" => (task[t].approved <=> s \in charged)
        /\ task[t].pc = "revoking" /\ s \in charged => s \in lost
        /\ task[t].pc = "refunding" => s \in charged /\ record[s].receipt

\* A session that is settled without a payment: nobody will charge its card any
\* more, and a charge that happened is among the lost ones.
Settled(s) ==
    /\ s \in charged => s \in lost
    /\ \A t \in Tasks : task[t].session = s =>
         /\ task[t].pc = "executing" => task[t].answer # "none"
         /\ HasCreated(t) \/ task[t].pc = "polling" =>
              remote[s] = "failed" /\ task[t].answer # "awaiting_result"

\* What Prava and the record say of a session.
SessionInv ==
    \A s \in Sessions :
        /\ remote[s] = "unused" => record[s] = NoRecord
        /\ remote[s] \in {"unused", "pending"} =>
             /\ s \notin charged
             /\ \A t \in Tasks : task[t].session = s =>
                  /\ task[t].pc \notin {"executing", "reporting"}
                  /\ task[t].pc = "polling" => task[t].answer # "awaiting_result"
        /\ remote[s] = "completed" => s \in charged
        /\ remote[s] = "failed" \/ record[s].status = "failed" => Settled(s)
        /\ record[s].status \in {"confirmed", "refunded"} => s \in charged

\* An answer about a session that has ended is still true.
AnswerInv ==
    \A t \in Tasks :
        task[t].pc \in {"polling", "verifying"} /\ task[t].answer \in {"completed", "failed"} =>
            remote[task[t].session] = task[t].answer

\* Without a race of two pay calls, one session is ever paid.
ChargedOnceInv ==
    "create" \notin raced =>
        /\ \A t, u \in Tasks : task[t].pc = "creating" /\ task[u].pc = "creating" => t = u
        /\ current # NoSession => \A t \in Tasks : task[t].pc # "creating"
        /\ \A t \in Tasks : task[t].pc \in {"polling", "executing", "reporting"} =>
             task[t].session = current
        /\ charged \subseteq {current}

\* Without one of the windows of a refund, it is asked for once.
RefundedOnceInv ==
    /\ \A s \in Sessions : refunds[s] > 0 => record[s].receipt
    /\ raced \cap {"refund", "verify", "lost_refund"} = {} =>
         /\ \A t, u \in Tasks : task[t].pc = "refunding" /\ task[u].pc = "refunding" => t = u
         /\ \A s \in Sessions :
              /\ refunds[s] \in {0, 1}
              /\ refunds[s] = 1 =>
                   /\ record[s].status = "refunded"
                   /\ \A t \in Tasks : task[t].pc = "refunding" => task[t].session # s

Inv == OwnerInv /\ ChargeInv /\ SessionInv /\ AnswerInv /\ ChargedOnceInv /\ RefundedOnceInv
IInv == TypeOK /\ Inv

-----------------------------------------------------------------------------
(* Typing                                                                  *)

LEMMA ConstantTypes == NoRecord \in Record /\ Idle \in Task
BY DEF NoRecord, Record, Statuses, Idle, Task, Waits, Answers

LEMMA TypeInit == Init => TypeOK
<1> SUFFICES ASSUME Init PROVE TypeOK
  OBVIOUS
<1>1. record \in [Sessions -> Record] /\ task \in [Tasks -> Task]
  BY ConstantTypes DEF Init
<1>2. remote \in [Sessions -> Remote]
  BY DEF Init, Remote
<1>3. cancels \in 0 .. MaxCancels /\ refunds \in [Sessions -> Nat]
  BY MaxCancelsAssumption DEF Init
<1>4. QED
  BY <1>1, <1>2, <1>3 DEF Init, TypeOK

\* What a step of one task leaves of the others.
Others(t) == \A u \in Tasks \ {t} : task'[u] = task[u]

LEMMA OneTask ==
    ASSUME NEW t \in Tasks, TypeOK, NEW new \in Task, task' = [task EXCEPT ![t] = new]
    PROVE  task' \in [Tasks -> Task] /\ task'[t] = new /\ Others(t)
BY DEF TypeOK, Others

LEMMA EndsTo ==
    ASSUME NEW t \in Tasks, TypeOK, Ends(t)
    PROVE  /\ task' \in [Tasks -> Task] /\ Others(t)
           /\ task'[t] = Idle /\ task'[t].pc = "idle"
<1>1. task' = [task EXCEPT ![t] = Idle]
  BY DEF Ends
<1>2. Idle.pc = "idle"
  BY DEF Idle
<1>3. QED
  BY <1>1, <1>2, OneTask, ConstantTypes

LEMMA GoesTo ==
    ASSUME NEW t \in Tasks, TypeOK, NEW pc \in Waits, Goes(t, pc)
    PROVE  /\ task' \in [Tasks -> Task] /\ Others(t)
           /\ task'[t].pc = pc /\ task'[t].answer = "none"
           /\ task'[t].session = task[t].session /\ task'[t].approved = task[t].approved
           /\ task'[t].terms = task[t].terms
<1> DEFINE new == [task[t] EXCEPT !.pc = pc, !.answer = "none"]
<1>1. task' = [task EXCEPT ![t] = new]
  BY DEF Goes
<1>2. /\ new \in Task /\ new.pc = pc /\ new.answer = "none"
      /\ new.session = task[t].session /\ new.approved = task[t].approved
      /\ new.terms = task[t].terms
  BY DEF TypeOK, Task, Answers
<1> HIDE DEF new
<1>3. QED
  BY <1>1, <1>2, OneTask

\* A task that gets an answer.
LEMMA Hears ==
    ASSUME NEW t \in Tasks, TypeOK, NEW answer \in Answers,
           task' = [task EXCEPT ![t].answer = answer]
    PROVE  /\ task' \in [Tasks -> Task] /\ Others(t)
           /\ task'[t].answer = answer /\ task'[t].pc = task[t].pc
           /\ task'[t].session = task[t].session /\ task'[t].approved = task[t].approved
<1> DEFINE new == [task[t] EXCEPT !.answer = answer]
<1>1. task' = [task EXCEPT ![t] = new]
  OBVIOUS
<1>2. /\ new \in Task /\ new.answer = answer /\ new.pc = task[t].pc
      /\ new.session = task[t].session /\ new.approved = task[t].approved
  BY DEF TypeOK, Task
<1> HIDE DEF new
<1>3. QED
  BY <1>1, <1>2, OneTask

\* What a write to one record leaves of the others.
LEMMA OneRecord ==
    ASSUME NEW s \in Sessions, TypeOK, NEW status \in Statuses,
           record' = [record EXCEPT ![s].status = status]
    PROVE  /\ record' \in [Sessions -> Record]
           /\ record'[s].status = status /\ record'[s].receipt = record[s].receipt
           /\ \A r \in Sessions \ {s} : record'[r] = record[r]
<1> DEFINE new == [record[s] EXCEPT !.status = status]
<1>1. record' = [record EXCEPT ![s] = new]
  OBVIOUS
<1>2. new \in Record /\ new.status = status /\ new.receipt = record[s].receipt
  BY DEF TypeOK, Record
<1> HIDE DEF new
<1>3. QED
  BY <1>1, <1>2 DEF TypeOK

LEMMA Confirms ==
    ASSUME NEW s \in Sessions, TypeOK, Confirm(s)
    PROVE  /\ record' \in [Sessions -> Record]
           /\ record'[s].status = "confirmed" /\ record'[s].receipt = TRUE
           /\ \A r \in Sessions \ {s} : record'[r] = record[r]
<1> DEFINE new == [record[s] EXCEPT !.status = "confirmed", !.receipt = TRUE]
<1>1. record' = [record EXCEPT ![s] = new]
  BY DEF Confirm
<1>2. new \in Record /\ new.status = "confirmed" /\ new.receipt = TRUE
  BY DEF TypeOK, Record, Statuses
<1> HIDE DEF new
<1>3. QED
  BY <1>1, <1>2 DEF TypeOK

\* What a write to one session at Prava leaves of the others.
LEMMA OneRemote ==
    ASSUME NEW s \in Sessions, TypeOK, NEW status \in Remote,
           remote' = [remote EXCEPT ![s] = status]
    PROVE  /\ remote' \in [Sessions -> Remote] /\ remote'[s] = status
           /\ \A r \in Sessions \ {s} : remote'[r] = remote[r]
BY DEF TypeOK

-----------------------------------------------------------------------------
(* Steps that only give something up                                       *)

LEMMA Quits ==
    ASSUME IInv, NEW t \in Tasks, Ends(t),
           UNCHANGED <<record, current, remote, charged, refunds, raced>>, lost \subseteq lost'
    PROVE  Inv'
<1>1. TypeOK /\ OwnerInv /\ ChargeInv /\ SessionInv /\ AnswerInv /\ ChargedOnceInv /\ RefundedOnceInv
  BY DEF IInv, Inv
<1>2. Others(t) /\ task'[t].pc = "idle"
  BY <1>1, EndsTo
<1>3. OwnerInv'
  BY <1>1, <1>2 DEF OwnerInv, Owns, HasCreated, Others
<1>4. ChargeInv'
  BY <1>1, <1>2 DEF ChargeInv, HasCreated, Others
<1>5. SessionInv'
  BY <1>1, <1>2 DEF SessionInv, Settled, HasCreated, Others
<1>6. AnswerInv'
  BY <1>1, <1>2 DEF AnswerInv, Others
<1>7. ChargedOnceInv'
  BY <1>1, <1>2 DEF ChargedOnceInv, Others
<1>8. RefundedOnceInv'
  BY <1>1, <1>2 DEF RefundedOnceInv, Others
<1>9. QED
  BY <1>3, <1>4, <1>5, <1>6, <1>7, <1>8 DEF Inv

\* The except clause of pay, where a charge has been noted as lost.
LEMMA GivesUp ==
    ASSUME IInv, NEW t \in Tasks, GiveUp(t), task[t].pc \in {"polling", "executing", "reporting"},
           UNCHANGED <<current, remote, charged, refunds, raced>>, lost \subseteq lost',
           task[t].session \in charged => task[t].session \in lost'
    PROVE  Inv'
<1> DEFINE s == task[t].session
<1>1. TypeOK /\ OwnerInv /\ ChargeInv /\ SessionInv /\ AnswerInv /\ ChargedOnceInv /\ RefundedOnceInv
  BY DEF IInv, Inv
<1>2. s \in Sessions /\ ~record[s].receipt /\ remote[s] # "unused" /\ Owns(t)
      /\ \A u \in Tasks \ {t} : Owns(u) => task[u].session # s
  BY <1>1 DEF OwnerInv, Owns
<1>3. CASE record[s].status # "pending"
  BY <1>3, Quits DEF GiveUp
<1>4. CASE record[s].status = "pending"
  <2>1. record' = [record EXCEPT ![s].status = "failed"] /\ Goes(t, "revoking")
    BY <1>4 DEF GiveUp
  <2>2. /\ record'[s].status = "failed" /\ record'[s].receipt = record[s].receipt
        /\ \A r \in Sessions \ {s} : record'[r] = record[r]
    BY <1>1, <1>2, <2>1, OneRecord DEF Statuses
  <2>3. /\ Others(t) /\ task'[t].pc = "revoking" /\ task'[t].session = s
    BY <1>1, <2>1, GoesTo DEF Waits
  <2>4. OwnerInv'
    BY <1>1, <1>2, <2>2, <2>3 DEF OwnerInv, Owns, HasCreated, Others
  <2>5. ChargeInv'
    <3>1. \A r \in Sessions : record'[r].receipt = record[r].receipt
      BY <2>2
    <3>2. \A u \in Tasks : task[u].pc = "refunding" => task[u].session \in Sessions
      BY <1>1 DEF OwnerInv
    <3>3. QED
      BY <1>1, <2>3, <3>1, <3>2 DEF ChargeInv, HasCreated, Others
  <2>6. SessionInv'
    <3>1. Settled(s)'
      BY <1>2, <2>3 DEF Settled, Owns, HasCreated, Others
    <3>2. ASSUME NEW r \in Sessions, Settled(r) PROVE Settled(r)'
      BY <2>3, <3>2 DEF Settled, HasCreated, Others
    <3>3. \A r \in Sessions : remote[r] = "unused" => r # s
      BY <1>2
    <3>4. QED
      BY <1>1, <1>2, <2>2, <2>3, <3>1, <3>2, <3>3 DEF SessionInv, Others
  <2>7. AnswerInv'
    BY <1>1, <2>3 DEF AnswerInv, Others
  <2>8. ChargedOnceInv'
    BY <1>1, <2>3 DEF ChargedOnceInv, Others
  <2>9. RefundedOnceInv'
    BY <1>1, <1>2, <2>2, <2>3 DEF RefundedOnceInv, Others, TypeOK
  <2>10. QED
    BY <2>4, <2>5, <2>6, <2>7, <2>8, <2>9 DEF Inv
<1>5. QED
  BY <1>3, <1>4

\* A payment that ends with its receipt, or declined.
LEMMA Settles ==
    ASSUME IInv, NEW t \in Tasks, Ends(t), task[t].pc \in {"polling", "reporting"},
           UNCHANGED <<current, remote, charged, refunds, lost, raced>>,
           NEW s \in Sessions, task[t].session = s,
           \/ Confirm(s) /\ s \in charged
           \/ record' = [record EXCEPT ![s].status = "failed"] /\ s \notin charged
    PROVE  Inv'
<1>1. TypeOK /\ OwnerInv /\ ChargeInv /\ SessionInv /\ AnswerInv /\ ChargedOnceInv /\ RefundedOnceInv
  BY DEF IInv, Inv
<1>2. s \in Sessions /\ ~record[s].receipt /\ remote[s] # "unused" /\ Owns(t)
      /\ \A u \in Tasks \ {t} : Owns(u) => task[u].session # s
  BY <1>1 DEF OwnerInv, Owns
<1>3. Others(t) /\ task'[t].pc = "idle"
  BY <1>1, EndsTo
<1>4. /\ \/ record'[s].status = "confirmed" /\ s \in charged
         \/ record'[s].status = "failed" /\ s \notin charged
      /\ \A r \in Sessions \ {s} : record'[r] = record[r]
  BY <1>1, <1>2, Confirms, OneRecord DEF Statuses
<1>5. \A u \in Tasks : Owns(u)' => Owns(u) /\ task[u].session # s /\ task'[u] = task[u]
  BY <1>2, <1>3 DEF Owns, HasCreated, Others
<1>6. OwnerInv'
  BY <1>1, <1>3, <1>4, <1>5 DEF OwnerInv, HasCreated, Owns, Others
<1>7. ChargeInv'
  <2>1. \A r \in Sessions : record[r].receipt => record'[r].receipt
    BY <1>2, <1>4
  <2>2. \A u \in Tasks : task[u].pc = "refunding" => task[u].session \in Sessions
    BY <1>1 DEF OwnerInv
  <2>3. QED
    BY <1>1, <1>3, <2>1, <2>2 DEF ChargeInv, HasCreated, Others
<1>8. SessionInv'
  <2>1. record'[s].status = "failed" => Settled(s)'
    BY <1>4, <1>5 DEF Settled, Owns, HasCreated
  <2>2. ASSUME NEW r \in Sessions, Settled(r) PROVE Settled(r)'
    BY <1>3, <2>2 DEF Settled, HasCreated, Others
  <2>3. \A r \in Sessions : remote[r] = "unused" => r # s
    BY <1>2
  <2>4. ASSUME NEW r \in Sessions \ {s}, record[r].status = "failed" PROVE Settled(r)'
    BY <1>1, <2>2, <2>4 DEF SessionInv
  <2>5. /\ record'[s].status = "failed" => Settled(s)'
        /\ remote[s] = "failed" => Settled(s)'
        /\ record'[s].status \in {"confirmed", "refunded"} => s \in charged
    BY <1>1, <1>2, <1>4, <2>1, <2>2 DEF SessionInv
  <2>6. QED
    BY <1>1, <1>2, <1>3, <1>4, <2>2, <2>3, <2>4, <2>5 DEF SessionInv, Others
<1>9. AnswerInv'
  BY <1>1, <1>3 DEF AnswerInv, Others
<1>10. ChargedOnceInv'
  BY <1>1, <1>3 DEF ChargedOnceInv, Others
<1>11. RefundedOnceInv'
  <2>1. refunds[s] = 0
    BY <1>1, <1>2 DEF RefundedOnceInv, TypeOK
  <2>2. \A r \in Sessions : refunds[r] > 0 => record'[r] = record[r]
    BY <1>4, <2>1
  <2>3. \A r \in Sessions : refunds[r] = 1 => record'[r] = record[r]
    BY <2>2
  <2>4. \A u \in Tasks : task'[u].pc = "refunding" => task'[u] = task[u]
    BY <1>3 DEF Others
  <2>5. QED
    BY <1>1, <2>2, <2>3, <2>4 DEF RefundedOnceInv
<1>12. QED
  BY <1>6, <1>7, <1>8, <1>9, <1>10, <1>11 DEF Inv

-----------------------------------------------------------------------------
(* Typing of the steps                                                     *)

LEMMA GiveUpType ==
    ASSUME NEW t \in Tasks, TypeOK, GiveUp(t), task[t].session \in Sessions
    PROVE  record' \in [Sessions -> Record] /\ task' \in [Tasks -> Task]
<1>1. CASE record[task[t].session].status = "pending"
  <2>1. record' \in [Sessions -> Record]
    BY <1>1, OneRecord DEF GiveUp, Statuses
  <2>2. task' \in [Tasks -> Task]
    BY <1>1, GoesTo DEF GiveUp, Waits
  <2>3. QED
    BY <2>1, <2>2
<1>2. CASE record[task[t].session].status # "pending"
  BY <1>2, EndsTo DEF GiveUp, TypeOK
<1>3. QED
  BY <1>1, <1>2

LEMMA TypeStep ==
    ASSUME IInv, [Next]_vars
    PROVE  TypeOK'
<1>t. TypeOK /\ OwnerInv
  BY DEF IInv, Inv
<1>u. \A t \in Tasks : Owns(t) => task[t].session \in Sessions
  BY <1>t DEF OwnerInv
<1>1. CASE UNCHANGED vars
  BY <1>1, <1>t DEF vars, TypeOK
<1>2. ASSUME NEW t \in Tasks, NEW terms \in Terms, Pay(t, terms) PROVE TypeOK'
  <2> DEFINE new == [task[t] EXCEPT !.pc = "creating", !.terms = terms]
  <2>1. task' = [task EXCEPT ![t] = new]
    BY <1>2 DEF Pay
  <2>2. new \in Task
    BY <1>t DEF TypeOK, Task, Waits
  <2>3. task' \in [Tasks -> Task]
    BY <1>t, <2>1, <2>2, OneTask
  <2>4. raced' \subseteq Windows
    BY <1>t, <1>2 DEF Pay, TypeOK, Windows
  <2>5. QED
    BY <1>t, <1>2, <2>3, <2>4 DEF Pay, TypeOK
<1>3. ASSUME NEW t \in Tasks, CreateSession(t) PROVE TypeOK'
  <2>1. PICK s \in Sessions, answer \in {"ok", "error"} :
          /\ remote' = [remote EXCEPT ![s] = "pending"] \/ remote' = remote
          /\ task' = [task EXCEPT ![t].session = s, ![t].answer = answer]
    BY <1>3 DEF CreateSession
  <2> DEFINE new == [task[t] EXCEPT !.session = s, !.answer = answer]
  <2>2. task' = [task EXCEPT ![t] = new]
    BY <2>1
  <2>3. new \in Task
    BY <1>t DEF TypeOK, Task, Answers
  <2>4. task' \in [Tasks -> Task]
    BY <1>t, <2>2, <2>3, OneTask
  <2>5. remote' \in [Sessions -> Remote]
    BY <1>t, <2>1 DEF TypeOK, Remote
  <2>6. QED
    BY <1>t, <1>3, <2>4, <2>5 DEF CreateSession, TypeOK
<1>4. ASSUME NEW t \in Tasks, Created(t) PROVE TypeOK'
  <2>1. task' \in [Tasks -> Task]
    <3>1. Goes(t, "polling") \/ Ends(t)
      BY <1>4 DEF Created
    <3>2. QED
      BY <1>t, <3>1, EndsTo, GoesTo DEF Waits
  <2>2. record' \in [Sessions -> Record] /\ current' \in Sessions \cup {NoSession}
    <3> DEFINE new == [status |-> "pending", receipt |-> FALSE, terms |-> task[t].terms]
    <3>1. new \in Record /\ task[t].session \in Sessions \cup {NoSession}
      BY <1>t DEF TypeOK, Task, Record, Statuses
    <3>2. \/ record' = [record EXCEPT ![task[t].session] = new] /\ current' = task[t].session
          \/ UNCHANGED <<record, current>>
      BY <1>4 DEF Created
    <3> HIDE DEF new
    <3>3. QED
      BY <1>t, <3>1, <3>2 DEF TypeOK
  <2>3. QED
    BY <1>t, <1>4, <2>1, <2>2 DEF Created, TypeOK
<1>5. ASSUME NEW t \in Tasks, Fetch(t) PROVE TypeOK'
  <2>1. task[t].session \in Sessions
    BY <1>t, <1>5 DEF Fetch, WaitsFor, OwnerInv, Owns
  <2>2. PICK answer \in {remote[task[t].session], "error"} :
          task' = [task EXCEPT ![t].answer = answer]
    BY <1>5 DEF Fetch
  <2>3. answer \in Answers
    BY <1>t, <2>1 DEF TypeOK, Answers
  <2>4. QED
    BY <1>t, <1>5, <2>2, <2>3, Hears DEF Fetch, TypeOK
<1>6. ASSUME NEW t \in Tasks, Poll(t) PROVE TypeOK'
  <2>1. task[t].session \in Sessions
    BY <1>6, <1>u DEF Poll, Answered, Owns
  <2>2. record' \in [Sessions -> Record] /\ task' \in [Tasks -> Task]
    <3>1. CASE Ends(t) /\ UNCHANGED record
      BY <1>t, <3>1, EndsTo DEF TypeOK
    <3>2. CASE UNCHANGED record /\ \E pc \in {"executing", "polling"} : Goes(t, pc)
      BY <1>t, <3>2, GoesTo DEF TypeOK, Waits
    <3>3. CASE Confirm(task[t].session) /\ Ends(t)
      BY <1>t, <2>1, <3>3, EndsTo, Confirms
    <3>4. CASE record' = [record EXCEPT ![task[t].session].status = "failed"] /\ Ends(t)
      BY <1>t, <2>1, <3>4, EndsTo, OneRecord DEF Statuses
    <3>5. CASE GiveUp(t)
      BY <1>t, <2>1, <3>5, GiveUpType
    <3>6. QED
      BY <1>6, <3>1, <3>2, <3>3, <3>4, <3>5 DEF Poll
  <2>3. QED
    BY <1>t, <1>6, <2>2 DEF Poll, TypeOK
<1>7. ASSUME NEW t \in Tasks, Timeout(t) PROVE TypeOK'
  <2>1. task[t].session \in Sessions
    BY <1>7, <1>u DEF Timeout, Answered, Owns
  <2>2. record' \in [Sessions -> Record] /\ task' \in [Tasks -> Task]
    BY <1>t, <1>7, <2>1, GiveUpType DEF Timeout
  <2>3. QED
    BY <1>t, <1>7, <2>2 DEF Timeout, TypeOK
<1>8. ASSUME NEW t \in Tasks, Execute(t) PROVE TypeOK'
  <2>1. task[t].session \in Sessions
    BY <1>8, <1>u DEF Execute, WaitsFor, Owns
  <2>2. PICK answer \in {"approved", "declined", "error"} :
          task' = [task EXCEPT ![t].answer = answer]
    BY <1>8 DEF Execute
  <2>3. task' \in [Tasks -> Task]
    BY <1>t, <2>2, Hears DEF Answers
  <2>4. charged' \subseteq Sessions
    BY <1>t, <1>8, <2>1 DEF Execute, TypeOK
  <2>5. QED
    BY <1>t, <1>8, <2>3, <2>4 DEF Execute, TypeOK
<1>9. ASSUME NEW t \in Tasks, Executed(t) PROVE TypeOK'
  <2>1. task[t].session \in Sessions
    BY <1>9, <1>u DEF Executed, Answered, Owns
  <2>2. lost' \subseteq Sessions
    BY <1>t, <1>9 DEF Executed, Lost, TypeOK
  <2>3. record' \in [Sessions -> Record] /\ task' \in [Tasks -> Task]
    <3>1. CASE Ends(t) /\ UNCHANGED record
      BY <1>t, <3>1, EndsTo DEF TypeOK
    <3>2. CASE GiveUp(t)
      BY <1>t, <2>1, <3>2, GiveUpType
    <3>3. CASE /\ task' = [task EXCEPT ![t].pc = "reporting", ![t].answer = "none",
                                       ![t].approved = (task[t].answer = "approved")]
               /\ UNCHANGED record
      <4> DEFINE new == [task[t] EXCEPT !.pc = "reporting", !.answer = "none",
                                        !.approved = (task[t].answer = "approved")]
      <4>1. task' = [task EXCEPT ![t] = new]
        BY <3>3
      <4>2. new \in Task
        BY <1>t DEF TypeOK, Task, Waits, Answers
      <4>3. QED
        BY <1>t, <3>3, <4>1, <4>2, OneTask DEF TypeOK
    <3>4. QED
      BY <1>9, <3>1, <3>2, <3>3 DEF Executed
  <2>4. QED
    BY <1>t, <1>9, <2>2, <2>3 DEF Executed, TypeOK
<1>10. ASSUME NEW t \in Tasks, Report(t) PROVE TypeOK'
  <2>1. PICK answer \in {"ok", "error"} : task' = [task EXCEPT ![t].answer = answer]
    BY <1>10 DEF Report
  <2>2. task' \in [Tasks -> Task]
    BY <1>t, <2>1, Hears DEF Answers
  <2>3. remote' \in [Sessions -> Remote]
    BY <1>t, <1>10 DEF Report, TypeOK, Remote
  <2>4. QED
    BY <1>t, <1>10, <2>2, <2>3 DEF Report, TypeOK
<1>11. ASSUME NEW t \in Tasks, Reported(t) PROVE TypeOK'
  <2>1. task[t].session \in Sessions
    BY <1>11, <1>u DEF Reported, Answered, Owns
  <2>2. lost' \subseteq Sessions
    BY <1>t, <1>11 DEF Reported, Lost, TypeOK
  <2>3. record' \in [Sessions -> Record] /\ task' \in [Tasks -> Task]
    <3>1. CASE Ends(t) /\ UNCHANGED record
      BY <1>t, <3>1, EndsTo DEF TypeOK
    <3>2. CASE GiveUp(t)
      BY <1>t, <2>1, <3>2, GiveUpType
    <3>3. CASE Confirm(task[t].session) /\ Ends(t)
      BY <1>t, <2>1, <3>3, EndsTo, Confirms
    <3>4. CASE record' = [record EXCEPT ![task[t].session].status = "failed"] /\ Ends(t)
      BY <1>t, <2>1, <3>4, EndsTo, OneRecord DEF Statuses
    <3>5. QED
      BY <1>11, <3>1, <3>2, <3>3, <3>4 DEF Reported
  <2>4. QED
    BY <1>t, <1>11, <2>2, <2>3 DEF Reported, TypeOK
<1>12. ASSUME NEW t \in Tasks, Revoke(t) PROVE TypeOK'
  <2>1. task' \in [Tasks -> Task]
    BY <1>t, <1>12, EndsTo DEF Revoke
  <2>2. remote' \in [Sessions -> Remote]
    BY <1>t, <1>12 DEF Revoke, TypeOK, Remote
  <2>3. QED
    BY <1>t, <1>12, <2>1, <2>2 DEF Revoke, TypeOK
<1>13. ASSUME NEW t \in Tasks, Verify(t) \/ Refund(t) PROVE TypeOK'
  <2>1. PICK pc \in {"verifying", "refunding"} :
          task' = [task EXCEPT ![t].pc = pc, ![t].session = current]
    BY <1>13 DEF Verify, Refund
  <2> DEFINE new == [task[t] EXCEPT !.pc = pc, !.session = current]
  <2>2. task' = [task EXCEPT ![t] = new]
    BY <2>1
  <2>3. new \in Task
    BY <1>t DEF TypeOK, Task, Waits
  <2>4. task' \in [Tasks -> Task]
    BY <1>t, <2>2, <2>3, OneTask
  <2>5. raced' \subseteq Windows
    BY <1>t, <1>13 DEF Verify, Refund, TypeOK, Windows
  <2>6. QED
    BY <1>t, <1>13, <2>4, <2>5 DEF Verify, Refund, TypeOK
<1>14. ASSUME NEW t \in Tasks, Verified(t) PROVE TypeOK'
  <2> DEFINE s == task[t].session
  <2>1. task[t].session \in Sessions
    BY <1>t, <1>14 DEF Verified, Answered, OwnerInv
  <2>2. task' \in [Tasks -> Task]
    BY <1>t, <1>14, EndsTo DEF Verified
  <2>3. record' \in [Sessions -> Record]
    <3>1. CASE record' = record
      BY <1>t, <3>1 DEF TypeOK
    <3>2. CASE \E verdict \in {"confirmed", "failed", record[s].status} :
                 record' = [record EXCEPT ![s].status = verdict]
      <4>1. record[s].status \in Statuses
        BY <1>t, <2>1 DEF TypeOK, Record
      <4>2. QED
        BY <1>t, <2>1, <3>2, <4>1, OneRecord DEF Statuses
    <3>3. QED
      BY <1>14, <3>1, <3>2 DEF Verified
  <2>4. raced' \subseteq Windows
    BY <1>t, <1>14 DEF Verified, TypeOK, Windows
  <2>5. QED
    BY <1>t, <1>14, <2>2, <2>3, <2>4 DEF Verified, TypeOK
<1>15. ASSUME NEW t \in Tasks, Refunded(t) PROVE TypeOK'
  <2>1. task[t].session \in Sessions
    BY <1>t, <1>15 DEF Refunded, OwnerInv
  <2>2. task' \in [Tasks -> Task]
    BY <1>t, <1>15, EndsTo DEF Refunded
  <2>3. record' \in [Sessions -> Record]
    BY <1>t, <1>15, <2>1, OneRecord DEF Refunded, TypeOK, Statuses
  <2>4. refunds' \in [Sessions -> Nat]
    BY <1>t, <1>15, <2>1 DEF Refunded, TypeOK
  <2>5. raced' \subseteq Windows
    BY <1>t, <1>15 DEF Refunded, TypeOK, Windows
  <2>6. QED
    BY <1>t, <1>15, <2>2, <2>3, <2>4, <2>5 DEF Refunded, TypeOK
<1>16. ASSUME NEW s \in Sessions, Decide(s) PROVE TypeOK'
  <2>1. remote' \in [Sessions -> Remote]
    BY <1>t, <1>16 DEF Decide, TypeOK, Remote
  <2>2. QED
    BY <1>t, <1>16, <2>1 DEF Decide, TypeOK
<1>17. ASSUME NEW t \in Tasks, Cancel(t) PROVE TypeOK'
  <2> DEFINE new == [task[t] EXCEPT !.cancelled = TRUE]
  <2>1. task' = [task EXCEPT ![t] = new]
    BY <1>17 DEF Cancel
  <2>2. new \in Task
    BY <1>t DEF TypeOK, Task
  <2>3. task' \in [Tasks -> Task]
    BY <1>t, <2>1, <2>2, OneTask
  <2>4. cancels' \in 0 .. MaxCancels
    BY <1>t, <1>17, MaxCancelsAssumption DEF Cancel, TypeOK
  <2>5. QED
    BY <1>t, <1>17, <2>3, <2>4 DEF Cancel, TypeOK
<1>18. QED
  BY <1>1, <1>2, <1>3, <1>4, <1>5, <1>6, <1>7, <1>8, <1>9, <1>10, <1>11, <1>12, <1>13,
     <1>14, <1>15, <1>16, <1>17 DEF Next, TaskStep, MerchantStep

-----------------------------------------------------------------------------
(* The invariant                                                           *)

LEMMA InvInit == Init => Inv
<1> SUFFICES ASSUME Init PROVE Inv
  OBVIOUS
<1>1. \A t \in Tasks : task[t].pc = "idle"
  BY DEF Init, Idle
<1>2. OwnerInv /\ ChargeInv /\ AnswerInv
  BY <1>1 DEF Init, OwnerInv, ChargeInv, AnswerInv, Owns, HasCreated
<1>3. SessionInv
  BY <1>1 DEF Init, SessionInv, Settled, HasCreated, NoRecord
<1>4. ChargedOnceInv /\ RefundedOnceInv
  BY <1>1 DEF Init, ChargedOnceInv, RefundedOnceInv
<1>5. QED
  BY <1>2, <1>3, <1>4 DEF Inv

LEMMA StepInv ==
    ASSUME IInv, [Next]_vars
    PROVE  Inv'
<1> USE NoSessionAssumption
<1>t. TypeOK /\ OwnerInv /\ ChargeInv /\ SessionInv /\ AnswerInv /\ ChargedOnceInv /\ RefundedOnceInv
  BY DEF IInv, Inv
<1>1. CASE UNCHANGED vars
  BY <1>1, <1>t DEF vars, Inv, OwnerInv, ChargeInv, SessionInv, AnswerInv, ChargedOnceInv,
     RefundedOnceInv, Owns, HasCreated, Settled
<1>2. ASSUME NEW t \in Tasks, NEW terms \in Terms, Pay(t, terms) PROVE Inv'
  <2> DEFINE new == [task[t] EXCEPT !.pc = "creating", !.terms = terms]
  <2>1. /\ task' = [task EXCEPT ![t] = new] /\ task[t].pc = "idle" /\ task[t].answer = "none"
        /\ current = NoSession /\ UNCHANGED <<record, current, remote, charged, refunds, lost>>
    <3>1. task[t].pc = "idle" /\ task[t].answer = "none"
      BY <1>2 DEF Pay, Idle
    <3>2. QED
      BY <1>2, <3>1 DEF Pay, Unused
  <2>2. new \in Task /\ new.pc = "creating" /\ new.answer = "none"
    BY <1>t, <2>1 DEF TypeOK, Task, Waits
  <2>3. Others(t) /\ task'[t].pc = "creating" /\ task'[t].answer = "none"
    <3> HIDE DEF new
    <3>1. QED
      BY <1>t, <2>1, <2>2, OneTask
  <2>4. OwnerInv'
    BY <1>t, <2>1, <2>3 DEF OwnerInv, Owns, HasCreated, Others
  <2>5. ChargeInv'
    BY <1>t, <2>1, <2>3 DEF ChargeInv, HasCreated, Others
  <2>6. SessionInv'
    BY <1>t, <2>1, <2>3 DEF SessionInv, Settled, HasCreated, Others
  <2>7. AnswerInv'
    BY <1>t, <2>1, <2>3 DEF AnswerInv, Others
  <2>8. ChargedOnceInv'
    <3>1. raced' = IF \E u \in Tasks : task[u].pc = "creating" THEN raced \cup {"create"} ELSE raced
      BY <1>2 DEF Pay
    <3>2. "create" \notin raced' => "create" \notin raced /\ \A u \in Tasks : task[u].pc # "creating"
      BY <3>1
    <3>3. QED
      BY <1>t, <2>1, <2>3, <3>2 DEF ChargedOnceInv, Others
  <2>9. RefundedOnceInv'
    <3>1. raced \subseteq raced'
      BY <1>2 DEF Pay
    <3>2. QED
      BY <1>t, <2>1, <2>3, <3>1 DEF RefundedOnceInv, Others
  <2>10. QED
    BY <2>4, <2>5, <2>6, <2>7, <2>8, <2>9 DEF Inv
<1>3. ASSUME NEW t \in Tasks, CreateSession(t) PROVE Inv'
  <2>1. PICK s \in Sessions, answer \in {"ok", "error"} :
          /\ remote[s] = "unused"
          /\ \/ remote' = [remote EXCEPT ![s] = "pending"]
             \/ answer = "error" /\ UNCHANGED remote
          /\ task' = [task EXCEPT ![t].session = s, ![t].answer = answer]
    BY <1>3 DEF CreateSession
  <2> DEFINE new == [task[t] EXCEPT !.session = s, !.answer = answer]
  <2>2. new \in Task /\ new.pc = "creating" /\ new.answer = answer /\ new.session = s
    BY <1>t, <1>3 DEF CreateSession, WaitsFor, TypeOK, Task, Answers
  <2>3. Others(t) /\ task'[t].pc = "creating" /\ task'[t].answer = answer /\ task'[t].session = s
    <3>1. task' = [task EXCEPT ![t] = new]
      BY <2>1
    <3> HIDE DEF new
    <3>2. QED
      BY <1>t, <2>2, <3>1, OneTask
  <2>4. /\ task[t].pc = "creating" /\ task[t].answer = "none"
        /\ UNCHANGED <<record, current, charged, refunds, lost, raced>>
    BY <1>3 DEF CreateSession, WaitsFor
  <2>5. /\ answer = "ok" => remote'[s] = "pending"
        /\ remote'[s] \in {"unused", "pending"}
        /\ \A r \in Sessions \ {s} : remote'[r] = remote[r]
    BY <1>t, <2>1 DEF TypeOK
  <2>6. /\ record[s] = NoRecord /\ s \notin charged
        /\ \A u \in Tasks : Owns(u) => task[u].session # s
    BY <1>t, <2>1 DEF SessionInv, OwnerInv
  <2>7. OwnerInv'
    <3>1. ~record[s].receipt
      BY <2>6 DEF NoRecord
    <3>2. \A u \in Tasks \ {t} : Owns(u)' <=> Owns(u)
      BY <2>3 DEF Owns, HasCreated, Others
    <3>3. \A u \in Tasks \ {t} : Owns(u) => remote'[task[u].session] = remote[task[u].session]
      BY <1>t, <2>5, <2>6 DEF OwnerInv
    <3>4. Owns(t)' => answer = "ok"
      BY <2>3 DEF Owns, HasCreated
    <3>5. QED
      BY <1>t, <2>3, <2>4, <2>5, <2>6, <3>1, <3>2, <3>3, <3>4 DEF OwnerInv, HasCreated, Others
  <2>8. ChargeInv'
    BY <1>t, <2>3, <2>4, <2>6 DEF ChargeInv, HasCreated, Others
  <2>9. SessionInv'
    <3>1. ASSUME NEW r \in Sessions \ {s}, Settled(r) PROVE Settled(r)'
      BY <2>3, <2>4, <2>5, <3>1 DEF Settled, HasCreated, Others
    <3>2. record[s].status = "none"
      BY <2>6 DEF NoRecord
    <3>3. QED
      BY <1>t, <2>3, <2>4, <2>5, <2>6, <3>1, <3>2 DEF SessionInv, Others, Owns
  <2>10. AnswerInv'
    <3>1. \A r \in Sessions : remote[r] \in {"completed", "failed"} => remote'[r] = remote[r]
      BY <2>1, <2>5
    <3>2. \A u \in Tasks : task[u].pc \in {"polling", "verifying"} => task[u].session \in Sessions
      BY <1>t DEF OwnerInv, Owns
    <3>3. QED
      BY <1>t, <2>3, <3>1, <3>2 DEF AnswerInv, Others
  <2>11. ChargedOnceInv'
    BY <1>t, <2>3, <2>4 DEF ChargedOnceInv, Others
  <2>12. RefundedOnceInv'
    BY <1>t, <2>3, <2>4 DEF RefundedOnceInv, Others
  <2>13. QED
    BY <2>7, <2>8, <2>9, <2>10, <2>11, <2>12 DEF Inv
<1>4. ASSUME NEW t \in Tasks, Created(t) PROVE Inv'
  <2> DEFINE s == task[t].session
             new == [status |-> "pending", receipt |-> FALSE, terms |-> task[t].terms]
  <2>1. /\ task[t].pc = "creating" /\ UNCHANGED <<remote, charged, refunds, lost, raced>>
    BY <1>4 DEF Created, Answered
  <2>2. CASE Ends(t) /\ UNCHANGED <<record, current>>
    BY <2>1, <2>2, Quits
  <2>3. CASE /\ task[t].answer = "ok"
             /\ record' = [record EXCEPT ![s] = new]
             /\ current' = s
             /\ Goes(t, "polling") \/ Ends(t)
    <3>1. /\ HasCreated(t) /\ Owns(t) /\ s \in Sessions /\ remote[s] # "unused"
          /\ record[s] = NoRecord /\ ~record[s].receipt
          /\ \A u \in Tasks \ {t} : Owns(u) => task[u].session # s
      BY <1>t, <2>1, <2>3 DEF OwnerInv, Owns, HasCreated
    <3>2. /\ Others(t)
          /\ \/ task'[t].pc = "idle"
             \/ task'[t].pc = "polling" /\ task'[t].answer = "none" /\ task'[t].session = s
      BY <1>t, <2>3, EndsTo, GoesTo DEF Waits
    <3>3. /\ record'[s].status = "pending" /\ record'[s].receipt = FALSE
          /\ \A r \in Sessions \ {s} : record'[r] = record[r]
      <4>1. record'[s] = new /\ \A r \in Sessions \ {s} : record'[r] = record[r]
        BY <1>t, <2>3, <3>1 DEF TypeOK
      <4>2. QED
        BY <4>1
    <3>4. s \notin charged
      BY <1>t, <3>1 DEF ChargeInv
    <3>5. OwnerInv'
      BY <1>t, <2>1, <3>1, <3>2, <3>3 DEF OwnerInv, Owns, HasCreated, Others
    <3>6. ChargeInv'
      BY <1>t, <2>1, <3>1, <3>2, <3>3, <3>4 DEF ChargeInv, OwnerInv, HasCreated, Others
    <3>7. SessionInv'
      <4>1. ASSUME NEW r \in Sessions, Settled(r) PROVE Settled(r)'
        BY <2>1, <3>1, <3>2, <4>1 DEF Settled, HasCreated, Others
      <4>2. QED
        BY <1>t, <2>1, <3>1, <3>2, <3>3, <3>4, <4>1 DEF SessionInv, Others
    <3>8. AnswerInv'
      BY <1>t, <2>1, <3>2 DEF AnswerInv, Others
    <3>9. ChargedOnceInv'
      BY <1>t, <2>1, <2>3, <3>1, <3>2, <3>4 DEF ChargedOnceInv, OwnerInv, Owns, Others, TypeOK
    <3>10. RefundedOnceInv'
      BY <1>t, <2>1, <3>1, <3>2, <3>3 DEF RefundedOnceInv, Others, TypeOK
    <3>11. QED
      BY <3>5, <3>6, <3>7, <3>8, <3>9, <3>10 DEF Inv
  <2>4. QED
    BY <1>4, <2>2, <2>3 DEF Created, Answered
<1>5. ASSUME NEW t \in Tasks, Fetch(t) PROVE Inv'
  <2> DEFINE s == task[t].session
  <2>1. /\ task[t].pc \in {"polling", "verifying"}
        /\ UNCHANGED <<record, current, remote, charged, refunds, lost, raced>>
    BY <1>5 DEF Fetch, WaitsFor
  <2>2. s \in Sessions
    BY <1>t, <2>1 DEF OwnerInv, Owns
  <2>3. PICK answer \in {remote[s], "error"} : task' = [task EXCEPT ![t].answer = answer]
    BY <1>5 DEF Fetch
  <2>4. answer \in Answers
    BY <1>t, <2>2 DEF TypeOK, Answers
  <2>5. /\ Others(t) /\ task'[t].answer = answer /\ task'[t].pc = task[t].pc
        /\ task'[t].session = s
    BY <1>t, <2>3, <2>4, Hears
  <2>6. OwnerInv'
    BY <1>t, <2>1, <2>5 DEF OwnerInv, Owns, HasCreated, Others
  <2>7. ChargeInv'
    BY <1>t, <2>1, <2>5 DEF ChargeInv, HasCreated, Others
  <2>8. SessionInv'
    <3>1. ASSUME NEW r \in Sessions, Settled(r) PROVE Settled(r)'
      BY <2>1, <2>3, <2>5, <3>1 DEF Settled, HasCreated, Others
    <3>2. \A r \in Sessions, u \in Tasks :
            /\ remote[r] \in {"unused", "pending"} /\ task'[u].session = r
            => /\ task'[u].pc \notin {"executing", "reporting"}
               /\ task'[u].pc = "polling" => task'[u].answer # "awaiting_result"
      BY <1>t, <2>1, <2>3, <2>5 DEF SessionInv, Others
    <3>3. QED
      BY <1>t, <2>1, <3>1, <3>2 DEF SessionInv
  <2>9. AnswerInv'
    BY <1>t, <2>1, <2>3, <2>5 DEF AnswerInv, Others
  <2>10. ChargedOnceInv'
    BY <1>t, <2>1, <2>5 DEF ChargedOnceInv, Others
  <2>11. RefundedOnceInv'
    BY <1>t, <2>1, <2>5 DEF RefundedOnceInv, Others
  <2>12. QED
    BY <2>6, <2>7, <2>8, <2>9, <2>10, <2>11 DEF Inv
<1>6. ASSUME NEW t \in Tasks, Poll(t) PROVE Inv'
  <2> DEFINE s == task[t].session
  <2>1. /\ task[t].pc = "polling"
        /\ UNCHANGED <<current, remote, charged, refunds, lost, raced>>
    BY <1>6 DEF Poll, Answered
  <2>2. s \in Sessions /\ s \notin charged /\ Owns(t) /\ remote[s] # "unused"
    BY <1>t, <2>1 DEF OwnerInv, ChargeInv, Owns
  <2>3. CASE Ends(t) /\ UNCHANGED record
    BY <2>1, <2>3, Quits
  <2>4. CASE GiveUp(t)
    BY <2>1, <2>2, <2>4, GivesUp
  <2>5. CASE task[t].answer = "completed" /\ Confirm(s) /\ Ends(t)
    <3>1. s \in charged
      BY <1>t, <2>1, <2>2, <2>5 DEF AnswerInv, SessionInv
    <3>2. QED
      BY <2>1, <2>2, <2>5, <3>1, Settles
  <2>6. CASE record' = [record EXCEPT ![s].status = "failed"] /\ Ends(t)
    BY <2>1, <2>2, <2>6, Settles
  <2>7. CASE /\ UNCHANGED record
             /\ \/ task[t].answer = "awaiting_result" /\ Goes(t, "executing")
                \/ Goes(t, "polling")
    <3>1. /\ Others(t) /\ task'[t].answer = "none" /\ task'[t].session = s
          /\ \/ task'[t].pc = "polling"
             \/ task'[t].pc = "executing" /\ task[t].answer = "awaiting_result"
      BY <1>t, <2>7, GoesTo DEF Waits
    <3>2. OwnerInv'
      BY <1>t, <2>1, <2>7, <3>1 DEF OwnerInv, Owns, HasCreated, Others
    <3>3. ChargeInv'
      BY <1>t, <2>1, <2>2, <2>7, <3>1 DEF ChargeInv, HasCreated, Others
    <3>4. SessionInv'
      <4>1. ASSUME NEW r \in Sessions, Settled(r) PROVE Settled(r)'
        BY <2>1, <2>7, <3>1, <4>1 DEF Settled, HasCreated, Others
      <4>2. QED
        BY <1>t, <2>1, <2>7, <3>1, <4>1 DEF SessionInv, Others
    <3>5. AnswerInv'
      BY <1>t, <2>1, <3>1 DEF AnswerInv, Others
    <3>6. ChargedOnceInv'
      BY <1>t, <2>1, <3>1 DEF ChargedOnceInv, Others
    <3>7. RefundedOnceInv'
      BY <1>t, <2>1, <2>7, <3>1 DEF RefundedOnceInv, Others
    <3>8. QED
      BY <3>2, <3>3, <3>4, <3>5, <3>6, <3>7 DEF Inv
  <2>8. QED
    BY <1>6, <2>3, <2>4, <2>5, <2>6, <2>7 DEF Poll
<1>7. ASSUME NEW t \in Tasks, Timeout(t) PROVE Inv'
  <2>1. /\ task[t].pc = "polling" /\ GiveUp(t)
        /\ UNCHANGED <<current, remote, charged, refunds, lost, raced>>
    BY <1>7 DEF Timeout, Answered
  <2>2. task[t].session \notin charged
    BY <1>t, <2>1 DEF ChargeInv
  <2>3. QED
    BY <2>1, <2>2, GivesUp
<1>8. ASSUME NEW t \in Tasks, Execute(t) PROVE Inv'
  <2> DEFINE s == task[t].session
  <2>1. /\ task[t].pc = "executing" /\ task[t].answer = "none"
        /\ UNCHANGED <<record, current, remote, refunds, lost, raced>>
    BY <1>8 DEF Execute, WaitsFor
  <2>2. PICK answer \in {"approved", "declined", "error"} :
          /\ task' = [task EXCEPT ![t].answer = answer]
          /\ \/ answer # "declined" /\ charged' = charged \cup {s}
             \/ answer # "approved" /\ UNCHANGED charged
    BY <1>8 DEF Execute
  <2>3. /\ Others(t) /\ task'[t].answer = answer /\ task'[t].pc = "executing"
        /\ task'[t].session = s
    BY <1>t, <2>1, <2>2, Hears DEF Answers
  <2>4. /\ s \in Sessions /\ Owns(t) /\ s \notin charged /\ remote[s] \notin {"unused", "pending"}
        /\ \A u \in Tasks \ {t} : Owns(u) => task[u].session # s
    BY <1>t, <2>1 DEF OwnerInv, Owns, ChargeInv, SessionInv
  <2>5. ~Settled(s)
    BY <2>1 DEF Settled
  <2>6. OwnerInv'
    BY <1>t, <2>1, <2>3 DEF OwnerInv, Owns, HasCreated, Others
  <2>7. ChargeInv'
    BY <1>t, <2>1, <2>2, <2>3, <2>4 DEF ChargeInv, Owns, HasCreated, Others
  <2>8. SessionInv'
    <3>1. ASSUME NEW r \in Sessions \ {s}, Settled(r) PROVE Settled(r)'
      BY <2>1, <2>2, <2>3, <3>1 DEF Settled, HasCreated, Others
    <3>2. QED
      BY <1>t, <2>1, <2>2, <2>3, <2>4, <2>5, <3>1 DEF SessionInv, Others
  <2>9. AnswerInv'
    BY <1>t, <2>1, <2>3 DEF AnswerInv, Others
  <2>10. ChargedOnceInv'
    BY <1>t, <2>1, <2>2, <2>3 DEF ChargedOnceInv, Others
  <2>11. RefundedOnceInv'
    BY <1>t, <2>1, <2>3 DEF RefundedOnceInv, Others
  <2>12. QED
    BY <2>6, <2>7, <2>8, <2>9, <2>10, <2>11 DEF Inv
<1>9. ASSUME NEW t \in Tasks, Executed(t) PROVE Inv'
  <2> DEFINE s == task[t].session
  <2>1. /\ task[t].pc = "executing" /\ task[t].answer # "none"
        /\ UNCHANGED <<current, remote, charged, refunds, raced>>
    BY <1>9 DEF Executed, Answered
  <2>2. CASE Ends(t) /\ Lost(s) /\ UNCHANGED record
    BY <2>1, <2>2, Quits DEF Lost
  <2>3. CASE GiveUp(t) /\ Lost(s)
    BY <2>1, <2>3, GivesUp DEF Lost
  <2>4. CASE /\ task' = [task EXCEPT ![t].pc = "reporting", ![t].answer = "none",
                                     ![t].approved = (task[t].answer = "approved")]
             /\ UNCHANGED <<record, lost>> /\ task[t].answer # "error"
    <3> DEFINE new == [task[t] EXCEPT !.pc = "reporting", !.answer = "none",
                                      !.approved = (task[t].answer = "approved")]
    <3>1. /\ new \in Task /\ new.pc = "reporting" /\ new.answer = "none" /\ new.session = s
          /\ new.approved <=> task[t].answer = "approved"
      BY <1>t DEF TypeOK, Task, Waits, Answers
    <3>2. /\ Others(t) /\ task'[t].pc = "reporting" /\ task'[t].answer = "none"
          /\ task'[t].session = s /\ (task'[t].approved <=> task[t].answer = "approved")
      <4>1. task' = [task EXCEPT ![t] = new]
        BY <2>4
      <4> HIDE DEF new
      <4>2. QED
        BY <1>t, <3>1, <4>1, OneTask
    <3>3. UNCHANGED <<record, lost>> /\ task[t].answer # "error"
      BY <2>4
    <3>4. OwnerInv'
      BY <1>t, <2>1, <3>3, <3>2 DEF OwnerInv, Owns, HasCreated, Others
    <3>5. ChargeInv'
      BY <1>t, <2>1, <3>3, <3>2 DEF ChargeInv, HasCreated, Others
    <3>6. SessionInv'
      <4>1. ASSUME NEW r \in Sessions, Settled(r) PROVE Settled(r)'
        BY <2>1, <3>3, <3>2, <4>1 DEF Settled, HasCreated, Others
      <4>2. QED
        BY <1>t, <2>1, <3>3, <3>2, <4>1 DEF SessionInv, Others
    <3>7. AnswerInv'
      BY <1>t, <2>1, <3>2 DEF AnswerInv, Others
    <3>8. ChargedOnceInv'
      BY <1>t, <2>1, <3>2 DEF ChargedOnceInv, Others
    <3>9. RefundedOnceInv'
      BY <1>t, <2>1, <3>3, <3>2 DEF RefundedOnceInv, Others
    <3>10. QED
      BY <3>4, <3>5, <3>6, <3>7, <3>8, <3>9 DEF Inv
  <2>5. QED
    BY <1>9, <2>2, <2>3, <2>4 DEF Executed
<1>10. ASSUME NEW t \in Tasks, Report(t) PROVE Inv'
  <2>0. task[t].session \in Sessions
    BY <1>t, <1>10 DEF Report, WaitsFor, OwnerInv, Owns
  <2> SUFFICES ASSUME NEW s \in Sessions, task[t].session = s PROVE Inv'
    BY <2>0
  <2>1. /\ task[t].pc = "reporting" /\ Owns(t) /\ remote[s] # "unused"
        /\ \A u \in Tasks \ {t} : Owns(u) => task[u].session # s
        /\ UNCHANGED <<record, current, charged, refunds, lost, raced>>
    BY <1>t, <1>10 DEF Report, WaitsFor, OwnerInv, Owns
  <2>2. PICK answer \in {"ok", "error"} :
          /\ task' = [task EXCEPT ![t].answer = answer]
          /\ \/ /\ remote[s] = "awaiting_result"
                /\ remote' = [remote EXCEPT ![s] = IF task[t].approved THEN "completed" ELSE "failed"]
             \/ answer = "error" /\ UNCHANGED remote
    BY <1>10 DEF Report
  <2>3. /\ Others(t) /\ task'[t].answer = answer /\ task'[t].pc = "reporting"
        /\ task'[t].session = s /\ task'[t].approved = task[t].approved
    BY <1>t, <2>1, <2>2, Hears DEF Answers
  <2>4. \/ /\ remote[s] = "awaiting_result"
           /\ \/ remote'[s] = "completed" /\ s \in charged
              \/ remote'[s] = "failed" /\ s \notin charged
        \/ remote'[s] = remote[s]
    BY <1>t, <2>1, <2>2 DEF ChargeInv, TypeOK
  <2>5. \A r \in Sessions \ {s} : remote'[r] = remote[r]
    BY <1>t, <2>2 DEF TypeOK
  <2>6. \A u \in Tasks \ {t} : Owns(u)' => Owns(u) /\ task'[u] = task[u] /\ task[u].session # s
    BY <2>1, <2>3 DEF Owns, HasCreated, Others
  <2>7. OwnerInv'
    BY <1>t, <2>1, <2>3, <2>4, <2>5, <2>6 DEF OwnerInv, Owns, HasCreated, Others
  <2>8. ChargeInv'
    BY <1>t, <2>1, <2>3 DEF ChargeInv, HasCreated, Others
  <2>9. SessionInv'
    <3>1. ASSUME NEW r \in Sessions \ {s}, Settled(r) PROVE Settled(r)'
      BY <2>1, <2>3, <2>5, <3>1 DEF Settled, HasCreated, Others
    <3>2. (s \in charged => s \in lost) => Settled(s)'
      BY <2>1, <2>3, <2>6 DEF Settled, Owns, HasCreated
    <3>3. Settled(s) => Settled(s)'
      BY <3>2 DEF Settled
    <3>4. remote'[s] = "failed" => Settled(s)'
      BY <1>t, <2>4, <3>2, <3>3 DEF SessionInv
    <3>5. /\ remote'[s] = "completed" => s \in charged
          /\ remote'[s] \notin {"unused", "pending"}
      BY <1>t, <2>1, <2>4 DEF SessionInv
    <3>6. ASSUME NEW r \in Sessions \ {s}, remote[r] \in {"unused", "pending"}, NEW u \in Tasks,
                 task'[u].session = r
          PROVE  /\ task'[u].pc \notin {"executing", "reporting"}
                 /\ task'[u].pc = "polling" => task'[u].answer # "awaiting_result"
      BY <1>t, <2>3, <3>6 DEF SessionInv, Others
    <3>7. QED
      BY <1>t, <2>1, <2>5, <3>1, <3>3, <3>4, <3>5, <3>6 DEF SessionInv
  <2>10. AnswerInv'
    <3>1. \A r \in Sessions : remote[r] \in {"completed", "failed"} => remote'[r] = remote[r]
      BY <2>4, <2>5
    <3>2. \A u \in Tasks : task[u].pc \in {"polling", "verifying"} => task[u].session \in Sessions
      BY <1>t DEF OwnerInv, Owns
    <3>3. QED
      BY <1>t, <2>3, <3>1, <3>2 DEF AnswerInv, Others
  <2>11. ChargedOnceInv'
    BY <1>t, <2>1, <2>3 DEF ChargedOnceInv, Others
  <2>12. RefundedOnceInv'
    BY <1>t, <2>1, <2>3 DEF RefundedOnceInv, Others
  <2>13. QED
    BY <2>7, <2>8, <2>9, <2>10, <2>11, <2>12 DEF Inv
<1>11. ASSUME NEW t \in Tasks, Reported(t) PROVE Inv'
  <2>1. /\ task[t].pc = "reporting"
        /\ UNCHANGED <<current, remote, charged, refunds, raced>>
    BY <1>11 DEF Reported, Answered
  <2>2. task[t].session \in Sessions /\ (task[t].approved <=> task[t].session \in charged)
    BY <1>t, <2>1 DEF OwnerInv, ChargeInv, Owns
  <2> SUFFICES ASSUME NEW s \in Sessions, task[t].session = s PROVE Inv'
    BY <2>2
  <2>3. CASE Ends(t) /\ Lost(s) /\ UNCHANGED record
    BY <2>1, <2>3, Quits DEF Lost
  <2>4. CASE GiveUp(t) /\ Lost(s)
    BY <2>1, <2>4, GivesUp DEF Lost
  <2>5. CASE Ends(t) /\ UNCHANGED lost /\ task[t].approved /\ Confirm(s)
    BY <2>1, <2>2, <2>5, Settles
  <2>6. CASE /\ Ends(t) /\ UNCHANGED lost /\ ~task[t].approved
             /\ record' = [record EXCEPT ![s].status = "failed"]
    BY <2>1, <2>2, <2>6, Settles
  <2>7. QED
    BY <1>11, <2>3, <2>4, <2>5, <2>6 DEF Reported
<1>12. ASSUME NEW t \in Tasks, Revoke(t) PROVE Inv'
  <2>0. task[t].session \in Sessions
    BY <1>t, <1>12 DEF Revoke, WaitsFor, OwnerInv, Owns
  <2> SUFFICES ASSUME NEW s \in Sessions, task[t].session = s PROVE Inv'
    BY <2>0
  <2>1. /\ task[t].pc = "revoking" /\ Owns(t) /\ remote[s] # "unused"
        /\ \A u \in Tasks \ {t} : Owns(u) => task[u].session # s
        /\ s \in charged => s \in lost
        /\ UNCHANGED <<record, current, charged, refunds, lost, raced>>
    BY <1>t, <1>12 DEF Revoke, WaitsFor, OwnerInv, ChargeInv, Owns
  <2>2. Others(t) /\ task'[t].pc = "idle"
    BY <1>t, <1>12, EndsTo DEF Revoke
  <2>3. /\ \/ remote[s] \in {"pending", "awaiting_result"} /\ remote'[s] = "failed"
           \/ remote'[s] = remote[s]
        /\ \A r \in Sessions \ {s} : remote'[r] = remote[r]
    BY <1>t, <1>12 DEF Revoke, TypeOK
  <2>4. \A u \in Tasks : Owns(u)' => Owns(u) /\ task'[u] = task[u] /\ task[u].session # s
    BY <2>1, <2>2 DEF Owns, HasCreated, Others
  <2>5. OwnerInv'
    BY <1>t, <2>1, <2>2, <2>3, <2>4 DEF OwnerInv, Owns, HasCreated, Others
  <2>6. ChargeInv'
    BY <1>t, <2>1, <2>2 DEF ChargeInv, HasCreated, Others
  <2>7. SessionInv'
    <3>1. ASSUME NEW r \in Sessions \ {s}, Settled(r) PROVE Settled(r)'
      BY <2>1, <2>2, <2>3, <3>1 DEF Settled, HasCreated, Others
    <3>2. Settled(s)'
      BY <2>1, <2>2, <2>4 DEF Settled, Owns, HasCreated
    <3>3. /\ remote'[s] = "completed" => s \in charged
          /\ remote'[s] # "unused"
          /\ remote'[s] = "pending" => s \notin charged
      BY <1>t, <2>1, <2>3 DEF SessionInv
    <3>4. ASSUME NEW u \in Tasks, task'[u].session = s
          PROVE  task'[u].pc \notin {"executing", "reporting", "polling"}
      BY <2>4, <3>4 DEF Owns
    <3>5. ASSUME NEW r \in Sessions \ {s}, remote[r] \in {"unused", "pending"}, NEW u \in Tasks,
                 task'[u].session = r
          PROVE  /\ task'[u].pc \notin {"executing", "reporting"}
                 /\ task'[u].pc = "polling" => task'[u].answer # "awaiting_result"
      BY <1>t, <2>2, <3>5 DEF SessionInv, Others
    <3>6. QED
      BY <1>t, <2>1, <2>3, <3>1, <3>2, <3>3, <3>4, <3>5 DEF SessionInv
  <2>8. AnswerInv'
    <3>1. \A r \in Sessions : remote[r] \in {"completed", "failed"} => remote'[r] = remote[r]
      BY <2>3
    <3>2. \A u \in Tasks : task[u].pc \in {"polling", "verifying"} => task[u].session \in Sessions
      BY <1>t DEF OwnerInv, Owns
    <3>3. QED
      BY <1>t, <2>2, <3>1, <3>2 DEF AnswerInv, Others
  <2>9. ChargedOnceInv'
    BY <1>t, <2>1, <2>2 DEF ChargedOnceInv, Others
  <2>10. RefundedOnceInv'
    BY <1>t, <2>1, <2>2 DEF RefundedOnceInv, Others
  <2>11. QED
    BY <2>5, <2>6, <2>7, <2>8, <2>9, <2>10 DEF Inv
<1>13. ASSUME NEW t \in Tasks, Verify(t) \/ Refund(t) PROVE Inv'
  <2>1. /\ current \in Sessions /\ UNCHANGED <<record, current, remote, charged, refunds, lost>>
        /\ raced \subseteq raced' /\ record[current].status # "none"
    BY <1>t, <1>13 DEF Verify, Refund, Refundable, TypeOK
  <2>2. task[t].pc = "idle" /\ task[t].answer = "none"
    BY <1>13 DEF Verify, Refund, Idle
  <2>3. PICK pc \in {"verifying", "refunding"} :
          /\ task' = [task EXCEPT ![t].pc = pc, ![t].session = current]
          /\ pc = "refunding" => Refund(t)
    BY <1>13 DEF Verify, Refund
  <2> DEFINE new == [task[t] EXCEPT !.pc = pc, !.session = current]
  <2>4. new \in Task /\ new.pc = pc /\ new.answer = "none" /\ new.session = current
    BY <1>t, <2>2 DEF TypeOK, Task, Waits
  <2>5. Others(t) /\ task'[t].pc = pc /\ task'[t].answer = "none" /\ task'[t].session = current
    <3>1. task' = [task EXCEPT ![t] = new]
      BY <2>3
    <3> HIDE DEF new
    <3>2. QED
      BY <1>t, <2>4, <3>1, OneTask
  \* A refund is asked for a confirmed payment with its receipt.
  <2>6. pc = "refunding" =>
          /\ record[current].receipt /\ record[current].status = "confirmed"
          /\ current \in charged
          /\ raced' = IF \E u \in Tasks : task[u].pc = "refunding"
                      THEN raced \cup {"refund"} ELSE raced
    BY <1>t, <2>1, <2>3 DEF Refund, Refundable, SessionInv
  <2>7. OwnerInv'
    BY <1>t, <2>1, <2>5 DEF OwnerInv, Owns, HasCreated, Others
  <2>8. ChargeInv'
    BY <1>t, <2>1, <2>5, <2>6 DEF ChargeInv, HasCreated, Others
  <2>9. SessionInv'
    <3>1. ASSUME NEW r \in Sessions, Settled(r) PROVE Settled(r)'
      BY <2>1, <2>5, <3>1 DEF Settled, HasCreated, Others
    <3>2. QED
      BY <1>t, <2>1, <2>5, <3>1 DEF SessionInv, Others
  <2>10. AnswerInv'
    BY <1>t, <2>1, <2>5 DEF AnswerInv, Others
  <2>11. ChargedOnceInv'
    BY <1>t, <2>1, <2>5 DEF ChargedOnceInv, Others
  <2>12. RefundedOnceInv'
    <3>1. CASE pc = "verifying"
      BY <1>t, <2>1, <2>5, <3>1 DEF RefundedOnceInv, Others
    <3>2. CASE pc = "refunding"
      <4>1. "refund" \notin raced' => \A u \in Tasks : task[u].pc # "refunding"
        BY <2>6, <3>2
      <4>2. QED
        BY <1>t, <2>1, <2>5, <2>6, <3>2, <4>1 DEF RefundedOnceInv, Others
    <3>3. QED
      BY <3>1, <3>2
  <2>13. QED
    BY <2>7, <2>8, <2>9, <2>10, <2>11, <2>12 DEF Inv
<1>14. ASSUME NEW t \in Tasks, Verified(t) PROVE Inv'
  <2>0. task[t].session \in Sessions
    BY <1>t, <1>14 DEF Verified, Answered, OwnerInv
  <2> SUFFICES ASSUME NEW s \in Sessions, task[t].session = s PROVE Inv'
    BY <2>0
  <2>1. /\ task[t].pc = "verifying" /\ Ends(t)
        /\ UNCHANGED <<current, remote, charged, refunds, lost>>
    BY <1>14 DEF Verified, Answered
  <2>2. Others(t) /\ task'[t].pc = "idle"
    BY <1>t, <2>1, EndsTo
  <2>3. CASE UNCHANGED <<record, raced>>
    BY <2>1, <2>3, Quits
  <2>4. CASE \E verdict \in {"confirmed", "failed", record[s].status} :
               /\ verdict = "confirmed" /\ verdict # record[s].status =>
                    task[t].answer = "completed"
               /\ verdict = "failed" /\ verdict # record[s].status => task[t].answer = "failed"
               /\ record' = [record EXCEPT ![s].status = verdict]
               /\ raced' = IF record[s].status \in {"pending", verdict} THEN raced
                           ELSE raced \cup {"verify"}
    <3>1. PICK verdict \in {"confirmed", "failed", record[s].status} :
            /\ verdict = "confirmed" /\ verdict # record[s].status =>
                 task[t].answer = "completed"
            /\ verdict = "failed" /\ verdict # record[s].status => task[t].answer = "failed"
            /\ record' = [record EXCEPT ![s].status = verdict]
            /\ raced' = IF record[s].status \in {"pending", verdict} THEN raced
                        ELSE raced \cup {"verify"}
      BY <2>4
    <3>2. verdict \in Statuses
      BY <1>t DEF TypeOK, Record, Statuses
    <3>3. /\ record'[s].status = verdict /\ record'[s].receipt = record[s].receipt
          /\ \A r \in Sessions \ {s} : record'[r] = record[r]
      BY <1>t, <3>1, <3>2, OneRecord
    <3>4. \A r \in Sessions : record'[r].receipt = record[r].receipt
      BY <3>3
    \* An answer that changes the record is Prava's last word on the session.
    <3>5. CASE verdict = record[s].status
      <4>1. record' = record
        BY <1>t, <3>1, <3>5 DEF TypeOK, Record
      <4>2. raced' = raced
        BY <3>1, <3>5
      <4>3. QED
        BY <2>1, <4>1, <4>2, Quits
    <3>6. CASE verdict # record[s].status
      <4>1. /\ verdict \in {"confirmed", "failed"}
            /\ verdict = "confirmed" => remote[s] = "completed" /\ s \in charged
            /\ verdict = "failed" => remote[s] = "failed" /\ Settled(s)
        BY <1>t, <2>1, <3>1, <3>6 DEF AnswerInv, SessionInv
      <4>2. OwnerInv'
        <5>1. \A u \in Tasks : HasCreated(u)' => task'[u] = task[u] /\ HasCreated(u)
          BY <2>2 DEF HasCreated, Others
        <5>2. \A u \in Tasks : HasCreated(u) => task[u].session # s
          <6> SUFFICES ASSUME NEW u \in Tasks, HasCreated(u), task[u].session = s PROVE FALSE
            OBVIOUS
          <6>1. record[s].status = "none"
            BY <1>t DEF OwnerInv, NoRecord
          <6>2. QED
            BY <1>t, <2>1, <6>1 DEF OwnerInv
        <5>3. QED
          BY <1>t, <2>1, <2>2, <3>3, <3>4, <5>1, <5>2 DEF OwnerInv, Owns, HasCreated, Others
      <4>3. ChargeInv'
        BY <1>t, <2>1, <2>2, <3>4 DEF ChargeInv, OwnerInv, HasCreated, Others
      <4>4. SessionInv'
        <5>1. ASSUME NEW r \in Sessions, Settled(r) PROVE Settled(r)'
          BY <2>1, <2>2, <5>1 DEF Settled, HasCreated, Others
        <5>2. record[s].status # "none"
          BY <1>t, <2>1 DEF OwnerInv
        <5>3. remote[s] # "unused"
          BY <1>t, <5>2 DEF SessionInv, NoRecord
        <5>4. QED
          BY <1>t, <2>1, <2>2, <3>3, <4>1, <5>1, <5>3 DEF SessionInv, Others
      <4>5. AnswerInv'
        BY <1>t, <2>1, <2>2 DEF AnswerInv, Others
      <4>6. raced \subseteq raced' /\ (record[s].status = "pending" \/ "verify" \in raced')
        BY <3>1, <3>6
      <4>7. ChargedOnceInv'
        BY <1>t, <2>1, <2>2, <4>6 DEF ChargedOnceInv, Others
      <4>8. RefundedOnceInv'
        BY <1>t, <2>1, <2>2, <3>3, <3>4, <4>6 DEF RefundedOnceInv, Others
      <4>9. QED
        BY <4>2, <4>3, <4>4, <4>5, <4>7, <4>8 DEF Inv
    <3>7. QED
      BY <3>5, <3>6
  <2>5. QED
    BY <1>14, <2>3, <2>4 DEF Verified
<1>15. ASSUME NEW t \in Tasks, Refunded(t) PROVE Inv'
  <2>0. task[t].session \in Sessions
    BY <1>t, <1>15 DEF Refunded, OwnerInv
  <2> SUFFICES ASSUME NEW s \in Sessions, task[t].session = s PROVE Inv'
    BY <2>0
  <2>1. /\ task[t].pc = "refunding" /\ Ends(t)
        /\ UNCHANGED <<current, remote, charged, lost>>
        /\ s \in charged /\ record[s].receipt
        /\ \A u \in Tasks : Owns(u) => task[u].session # s
    BY <1>t, <1>15 DEF Refunded, ChargeInv, OwnerInv
  <2>2. Others(t) /\ task'[t].pc = "idle"
    BY <1>t, <2>1, EndsTo
  <2>3. CASE UNCHANGED <<refunds, record, raced>>
    BY <2>1, <2>3, Quits
  <2>4. CASE /\ refunds' = [refunds EXCEPT ![s] = @ + 1]
             /\ \/ record' = [record EXCEPT ![s].status = "refunded"] /\ UNCHANGED raced
                \/ raced' = raced \cup {"lost_refund"} /\ UNCHANGED record
    <3>1. /\ \A r \in Sessions : record'[r].receipt = record[r].receipt
          /\ \A r \in Sessions \ {s} : record'[r] = record[r]
          /\ record'[s].status \in {"refunded", record[s].status}
          /\ record'[s].status = "refunded" \/ "lost_refund" \in raced'
          /\ raced \subseteq raced'
      BY <1>t, <2>4, OneRecord DEF Statuses
    <3>2. refunds'[s] = refunds[s] + 1 /\ \A r \in Sessions \ {s} : refunds'[r] = refunds[r]
      BY <1>t, <2>4 DEF TypeOK
    <3>3. OwnerInv'
      <4>1. \A u \in Tasks : HasCreated(u)' => task'[u] = task[u] /\ HasCreated(u) /\ Owns(u)
        BY <2>2 DEF HasCreated, Owns, Others
      <4>2. \A u \in Tasks : Owns(u)' => task'[u] = task[u] /\ Owns(u)
        BY <2>2 DEF HasCreated, Owns, Others
      <4>3. QED
        BY <1>t, <2>1, <2>2, <3>1, <4>1, <4>2 DEF OwnerInv, Others
    <3>4. ChargeInv'
      BY <1>t, <2>1, <2>2, <3>1 DEF ChargeInv, OwnerInv, HasCreated, Others
    <3>5. SessionInv'
      <4>1. ASSUME NEW r \in Sessions, Settled(r) PROVE Settled(r)'
        BY <2>1, <2>2, <4>1 DEF Settled, HasCreated, Others
      <4>2. remote[s] # "unused"
        BY <1>t, <2>1 DEF SessionInv, NoRecord
      <4>3. QED
        BY <1>t, <2>1, <2>2, <3>1, <4>1, <4>2 DEF SessionInv, Others
    <3>6. AnswerInv'
      BY <1>t, <2>1, <2>2 DEF AnswerInv, Others
    <3>7. ChargedOnceInv'
      <4>1. "create" \notin raced' => "create" \notin raced
        BY <3>1
      <4>2. QED
        BY <1>t, <2>1, <2>2, <4>1 DEF ChargedOnceInv, Others
    <3>8. RefundedOnceInv'
      <4>1. \A r \in Sessions : refunds'[r] > 0 => record'[r].receipt
        BY <1>t, <2>1, <3>1, <3>2 DEF RefundedOnceInv
      <4>2. ASSUME raced' \cap {"refund", "verify", "lost_refund"} = {}
            PROVE  /\ \A u \in Tasks : task'[u].pc # "refunding"
                   /\ \A r \in Sessions : /\ refunds'[r] \in {0, 1}
                                          /\ refunds'[r] = 1 => record'[r].status = "refunded"
        <5>1. raced \cap {"refund", "verify", "lost_refund"} = {} /\ record'[s].status = "refunded"
          BY <3>1, <4>2
        <5>2. \A u \in Tasks : task[u].pc = "refunding" => u = t
          BY <1>t, <2>1, <5>1 DEF RefundedOnceInv
        <5>3. refunds[s] = 0
          BY <1>t, <2>1, <5>1 DEF RefundedOnceInv
        <5>4. QED
          BY <1>t, <2>2, <3>1, <3>2, <5>1, <5>2, <5>3 DEF RefundedOnceInv, Others
      <4>3. QED
        BY <4>1, <4>2 DEF RefundedOnceInv
    <3>9. QED
      BY <3>3, <3>4, <3>5, <3>6, <3>7, <3>8 DEF Inv
  <2>5. QED
    BY <1>15, <2>3, <2>4 DEF Refunded
<1>16. ASSUME NEW s \in Sessions, Decide(s) PROVE Inv'
  <2>1. UNCHANGED <<record, current, charged, refunds, task, lost, raced>>
    BY <1>16 DEF Decide
  <2>2. /\ \/ /\ remote[s] = "pending"
              /\ remote'[s] \in {"awaiting_result", "failed", "expired"}
           \/ remote[s] = "awaiting_result" /\ remote'[s] = "expired"
        /\ \A r \in Sessions \ {s} : remote'[r] = remote[r]
    BY <1>t, <1>16 DEF Decide, TypeOK
  <2>3. OwnerInv'
    BY <1>t, <2>1, <2>2 DEF OwnerInv, Owns, HasCreated
  <2>4. ChargeInv'
    BY <1>t, <2>1 DEF ChargeInv, HasCreated
  <2>5. SessionInv'
    <3>1. ASSUME NEW r \in Sessions \ {s}, Settled(r) PROVE Settled(r)'
      BY <2>1, <2>2, <3>1 DEF Settled, HasCreated
    \* A session that was refused before anybody polled it to its result.
    <3>2. remote'[s] = "failed" => Settled(s)'
      <4>1. remote'[s] = "failed" => remote[s] = "pending"
        BY <2>2
      <4>2. QED
        BY <1>t, <2>1, <4>1 DEF SessionInv, Settled, HasCreated
    <3>3. Settled(s) => Settled(s)'
      BY <1>t, <2>1, <2>2 DEF Settled, SessionInv, HasCreated
    <3>4. QED
      BY <1>t, <2>1, <2>2, <3>1, <3>2, <3>3 DEF SessionInv
  <2>6. AnswerInv'
    <3>1. \A r \in Sessions : remote[r] \in {"completed", "failed"} => remote'[r] = remote[r]
      BY <2>2
    <3>2. \A u \in Tasks : task[u].pc \in {"polling", "verifying"} => task[u].session \in Sessions
      BY <1>t DEF OwnerInv, Owns
    <3>3. QED
      BY <1>t, <2>1, <3>1, <3>2 DEF AnswerInv
  <2>7. ChargedOnceInv' /\ RefundedOnceInv'
    BY <1>t, <2>1 DEF ChargedOnceInv, RefundedOnceInv
  <2>8. QED
    BY <2>3, <2>4, <2>5, <2>6, <2>7 DEF Inv
<1>17. ASSUME NEW t \in Tasks, Cancel(t) PROVE Inv'
  <2> DEFINE new == [task[t] EXCEPT !.cancelled = TRUE]
  <2>1. /\ task' = [task EXCEPT ![t] = new]
        /\ UNCHANGED <<record, current, remote, charged, refunds, lost, raced>>
    BY <1>17 DEF Cancel
  <2>2. /\ new \in Task /\ new.pc = task[t].pc /\ new.answer = task[t].answer
        /\ new.session = task[t].session /\ new.approved = task[t].approved
    BY <1>t DEF TypeOK, Task
  <2>3. \A u \in Tasks : /\ task'[u].pc = task[u].pc /\ task'[u].answer = task[u].answer
                         /\ task'[u].session = task[u].session
                         /\ task'[u].approved = task[u].approved
    <3> HIDE DEF new
    <3>1. task'[t] = new /\ Others(t)
      BY <1>t, <2>1, <2>2, OneTask
    <3>2. QED
      BY <2>2, <3>1 DEF Others
  <2>4. OwnerInv' /\ AnswerInv'
    BY <1>t, <2>1, <2>3 DEF OwnerInv, AnswerInv, Owns, HasCreated
  <2>5. ChargeInv'
    BY <1>t, <2>1, <2>3 DEF ChargeInv, HasCreated
  <2>6. SessionInv'
    <3>1. ASSUME NEW r \in Sessions, Settled(r) PROVE Settled(r)'
      BY <2>1, <2>3, <3>1 DEF Settled, HasCreated
    <3>2. QED
      BY <1>t, <2>1, <2>3, <3>1 DEF SessionInv
  <2>7. ChargedOnceInv' /\ RefundedOnceInv'
    BY <1>t, <2>1, <2>3 DEF ChargedOnceInv, RefundedOnceInv
  <2>8. QED
    BY <2>4, <2>5, <2>6, <2>7 DEF Inv
<1>18. QED
  BY <1>1, <1>2, <1>3, <1>4, <1>5, <1>6, <1>7, <1>8, <1>9, <1>10, <1>11, <1>12, <1>13,
     <1>14, <1>15, <1>16, <1>17 DEF Next, TaskStep, MerchantStep

-----------------------------------------------------------------------------
(* The theorems                                                            *)

\* What the theorems below rest on: a paying task owns its session alone, and
\* knows of its card what is true, whatever the other tasks did between two awaits.
THEOREM PaymentsInvariant == Spec => []IInv
<1>1. Init => IInv
  BY TypeInit, InvInit DEF IInv
<1>2. IInv /\ [Next]_vars => IInv'
  BY TypeStep, StepInv DEF IInv
<1>3. QED
  BY <1>1, <1>2, PTL DEF Spec

\* Records, sessions and tasks of the plugin keep their types.
THEOREM PaymentsTyping == Spec => []TypeOK
<1>1. IInv => TypeOK
  BY DEF IInv
<1>2. QED
  BY <1>1, PaymentsInvariant, PTL

\* What the plugin calls confirmed or refunded was charged, and what it calls
\* failed was not, but for the charges nobody could learn of (plugin.py: pay,
\* verify_payment, refund).
THEOREM TrueReceipts == Spec => []ReceiptsAreTrue
<1>1. IInv => ReceiptsAreTrue
  BY DEF IInv, Inv, SessionInv, Settled, ReceiptsAreTrue, ConfirmedIsCharged, FailedIsNotCharged
<1>2. QED
  BY <1>1, PaymentsInvariant, PTL

\* A reference is charged and refunded once, except through a named window.
THEOREM SettledAtMostOnce == Spec => []SettledOnce
<1>1. ASSUME IInv PROVE SettledOnce
  <2>1. Cardinality(charged) > 1 => "create" \in raced
    <3>1. SUFFICES ASSUME Cardinality(charged) > 1, "create" \notin raced PROVE FALSE
      OBVIOUS
    <3>2. charged = {} \/ charged = {current}
      BY <1>1, <3>1 DEF IInv, Inv, ChargedOnceInv
    <3>3. Cardinality(charged) \in {0, 1}
      BY <3>2, FS_EmptySet, FS_Singleton
    <3>4. QED
      BY <3>1, <3>3
  <2>2. ASSUME NEW s \in Sessions, refunds[s] > 1
        PROVE  raced \cap {"refund", "verify", "lost_refund"} # {}
    BY <1>1, <2>2 DEF IInv, Inv, RefundedOnceInv
  <2>3. QED
    BY <2>1, <2>2 DEF SettledOnce
<1>2. IInv => SettledOnce
  BY <1>1
<1>3. QED
  BY <1>2, PaymentsInvariant, PTL
=============================================================================
