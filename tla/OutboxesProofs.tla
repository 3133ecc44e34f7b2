--------------------------- MODULE OutboxesProofs ---------------------------
(***************************************************************************)
(* Theorems about the work that loops do, and may die in: of module        *)
(* Outboxes, for any number of notices, dispatchers, leads and delivery    *)
(* passes, and any batch size and attempt bound; and of module TriggerScan *)
(* (from "The trigger scan" on), for any items, runs, scanners and days.   *)
(***************************************************************************)
EXTENDS Outboxes, TriggerScan, FiniteSetTheorems, TLAPS

USE NobodyAssumption, NothingAssumption, MaxAttemptsAssumption

\* The two outboxes share no variable: their types and steps come apart.
NoticeTypes ==
    /\ slack \in [Notices -> Notice]
    /\ posted \in [Notices -> Nat]
    /\ shown \subseteq Notices
    /\ dispatcher \in [Dispatchers -> [hand : Notices \cup {Nothing},
                                       answer : Answers]]

DeliveryTypes ==
    /\ mail \in [Leads -> Delivery]
    /\ requested \in [Leads -> Nat]
    /\ accepted \subseteq Leads
    /\ mailer \in [Mailers -> Pass]

LEMMA TypesSplit == TypeOK <=> NoticeTypes /\ DeliveryTypes
BY DEF TypeOK, NoticeTypes, DeliveryTypes

LEMMA InitInvariant == Init => IInv
<1> SUFFICES ASSUME Init PROVE IInv
  OBVIOUS
<1>1. TypeOK
  BY DEF Init, TypeOK, Notice, Delivery, Pass, Free, NoPass, Answers
<1>2. NoticeInv
  BY DEF Init, NoticeInv, Free
<1>3. \A l \in Leads : Charged(l) = {}
  BY DEF Init, Charged, NoPass
<1>4. Cardinality({}) = 0
  BY FS_EmptySet
<1>5. DeliveryInv
  <2>1. \A l \in Leads : /\ mail[l].status = "absent"
                         /\ mail[l].attempts = 0
                         /\ mail[l].owner = Nobody
                         /\ requested[l] = 0
    BY DEF Init
  <2>2. \A l \in Leads : ~mail[l].leased
    BY DEF Init
  <2>3. \A m \in Mailers : mailer[m] = NoPass
    BY DEF Init
  <2>4. QED
    BY <1>3, <1>4, <2>1, <2>2, <2>3 DEF DeliveryInv, NoPass
<1>6. QED
  BY <1>1, <1>2, <1>5 DEF IInv

-----------------------------------------------------------------------------
(* Slack.                                                                  *)

\* A step of one outbox leaves the invariant of the other alone.
LEMMA NoticeStutter ==
    ASSUME NoticeTypes, NoticeInv, UNCHANGED slackVars
    PROVE  NoticeTypes' /\ NoticeInv'
BY DEF NoticeTypes, NoticeInv, slackVars

LEMMA NotifyKeeps ==
    ASSUME NoticeTypes, NoticeInv, NEW n \in Notices, Notify(n)
    PROVE  NoticeTypes' /\ NoticeInv'
<1>1. NoticeTypes'
  BY DEF NoticeTypes, Notify, Notice, mailVars
<1>2. NoticeInv'
  BY DEF NoticeTypes, NoticeInv, Notify, Notice
<1>3. QED
  BY <1>1, <1>2

LEMMA ClaimNoticeKeeps ==
    ASSUME NoticeTypes, NoticeInv, NEW d \in Dispatchers, NEW n \in Notices,
           ClaimNotice(d, n)
    PROVE  NoticeTypes' /\ NoticeInv'
<1>1. NoticeTypes'
  BY DEF NoticeTypes, ClaimNotice, Notice, Free, Answers
<1>2. posted[n] = 0 /\ slack[n].status = "pending"
  BY DEF ClaimNotice, Claimable, NoticeInv
<1>3. \A e \in Dispatchers : dispatcher[e].hand # n
  BY <1>2 DEF NoticeInv
<1>4. NoticeInv'
  BY <1>1, <1>2, <1>3 DEF NoticeTypes, NoticeInv, ClaimNotice, Free
<1>5. QED
  BY <1>1, <1>4

LEMMA PostKeeps ==
    ASSUME NoticeTypes, NoticeInv, NEW d \in Dispatchers, Post(d)
    PROVE  NoticeTypes' /\ NoticeInv'
<1> DEFINE n == dispatcher[d].hand
<1>1. n \in Notices /\ posted[n] = 0 /\ slack[n].status = "sending"
  BY DEF NoticeTypes, NoticeInv, Post
<1>2. PICK answer \in {"ok", "error"} :
        /\ dispatcher' = [dispatcher EXCEPT ![d].answer = answer]
        /\ shown' = shown \cup {n} \/ (answer = "error" /\ shown' = shown)
  BY DEF Post
<1>3. posted' = [posted EXCEPT ![n] = @ + 1] /\ slack' = slack
  BY DEF Post
<1>4. NoticeTypes'
  BY <1>1, <1>2, <1>3 DEF NoticeTypes, Answers
<1>5. \A e \in Dispatchers : e # d => dispatcher[e].hand # n
  BY <1>1 DEF NoticeInv
<1>6. shown \subseteq shown' /\ (answer = "ok" => n \in shown')
  BY <1>2
<1>7. \A e \in Dispatchers : dispatcher'[e] =
        IF e = d THEN [dispatcher[d] EXCEPT !.answer = answer] ELSE dispatcher[e]
  BY <1>2 DEF NoticeTypes
<1>8. \A k \in Notices : posted'[k] = IF k = n THEN 1 ELSE posted[k]
  BY <1>1, <1>3 DEF NoticeTypes
<1>9. NoticeInv'
  <2>1. \A k \in Notices :
          /\ posted'[k] <= 1
          /\ slack'[k].status \in {"absent", "pending"} => posted'[k] = 0
          /\ slack'[k].status = "sent" => k \in shown'
    BY <1>1, <1>3, <1>6, <1>8 DEF NoticeInv
  <2>2. ASSUME NEW e \in Dispatchers, e # d
        PROVE  /\ dispatcher'[e].hand = Nothing => dispatcher'[e].answer = "none"
               /\ dispatcher'[e].hand # Nothing =>
                    /\ slack'[dispatcher'[e].hand].status = "sending"
                    /\ slack'[dispatcher'[e].hand].owner = e
                    /\ posted'[dispatcher'[e].hand] =
                         (IF dispatcher'[e].answer = "none" THEN 0 ELSE 1)
                    /\ dispatcher'[e].answer = "ok" => dispatcher'[e].hand \in shown'
    BY <1>3, <1>5, <1>6, <1>7, <1>8, <2>2 DEF NoticeInv, NoticeTypes
  <2>3. /\ dispatcher'[d].hand = n /\ dispatcher'[d].answer = answer
        /\ slack'[n].status = "sending" /\ slack'[n].owner = d
    BY <1>1, <1>3, <1>7 DEF NoticeInv, NoticeTypes
  <2>4. QED
    BY <1>1, <1>2, <1>6, <1>8, <2>1, <2>2, <2>3 DEF NoticeInv
<1>10. QED
  BY <1>4, <1>9

LEMMA RecordNoticeKeeps ==
    ASSUME NoticeTypes, NoticeInv, NEW d \in Dispatchers, RecordNotice(d)
    PROVE  NoticeTypes' /\ NoticeInv'
<1> DEFINE n == dispatcher[d].hand
<1>1. n \in Notices /\ slack[n].owner = d
  BY DEF NoticeTypes, NoticeInv, RecordNotice
<1>2. PICK status \in NoticeOutcomes(dispatcher[d].answer) :
        slack' = [slack EXCEPT ![n] = [status |-> status, owner |-> Nobody]]
  BY DEF RecordNotice
<1>3. status \in {"sent", "failed_ambiguous"} /\ (status = "sent" => n \in shown)
  BY <1>1 DEF NoticeOutcomes, NoticeInv
<1>4. /\ dispatcher' = [dispatcher EXCEPT ![d] = Free]
      /\ posted' = posted /\ shown' = shown
  BY DEF RecordNotice
<1>5. NoticeTypes'
  BY <1>1, <1>2, <1>3, <1>4 DEF NoticeTypes, Notice, Free, Answers
<1>6. \A e \in Dispatchers : e # d => dispatcher[e].hand # n
  BY <1>1 DEF NoticeInv
<1>7. NoticeInv'
  BY <1>1, <1>2, <1>3, <1>4, <1>6 DEF NoticeTypes, NoticeInv, Free
<1>8. QED
  BY <1>5, <1>7

LEMMA DispatcherDiesKeeps ==
    ASSUME NoticeTypes, NoticeInv, NEW d \in Dispatchers, DispatcherDies(d)
    PROVE  NoticeTypes' /\ NoticeInv'
<1> DEFINE n == dispatcher[d].hand
<1>1. n \in Notices /\ slack[n].status = "sending" /\ slack[n].owner = d
  BY DEF NoticeTypes, NoticeInv, DispatcherDies
<1>2. NoticeTypes'
  BY <1>1 DEF NoticeTypes, DispatcherDies, Notice, Free, Answers
<1>3. \A e \in Dispatchers : e # d => dispatcher[e].hand # n
  BY <1>1 DEF NoticeInv
<1>4. NoticeInv'
  BY <1>1, <1>3 DEF NoticeTypes, NoticeInv, DispatcherDies, Free
<1>5. QED
  BY <1>2, <1>4

LEMMA NoticeInvariance ==
    ASSUME NoticeTypes, NoticeInv, [Next]_vars
    PROVE  NoticeTypes' /\ NoticeInv'
<1>1. CASE UNCHANGED slackVars
  BY <1>1, NoticeStutter
<1>2. ASSUME NEW n \in Notices, Notify(n) PROVE NoticeTypes' /\ NoticeInv'
  BY <1>2, NotifyKeeps
<1>3. ASSUME NEW d \in Dispatchers, DispatcherStep(d) \/ DispatcherDies(d)
      PROVE  NoticeTypes' /\ NoticeInv'
  BY <1>3, ClaimNoticeKeeps, PostKeeps, RecordNoticeKeeps, DispatcherDiesKeeps
     DEF DispatcherStep
<1>4. ASSUME NEW l \in Leads, Join(l) \/ LeaseLapses(l) PROVE UNCHANGED slackVars
  BY <1>4 DEF Join, LeaseLapses
<1>5. ASSUME NEW m \in Mailers,
             PassStep(m) \/ (\E l \in Leads : SendDisabled(m, l)) \/ MailerDies(m)
      PROVE  UNCHANGED slackVars
  BY <1>5 DEF PassStep, ClaimBatch, Send, SendDisabled, RecordMail, MailerDies
<1>6. QED
  BY <1>1, <1>2, <1>3, <1>4, <1>5 DEF Next, vars

-----------------------------------------------------------------------------
(* Welcome mail.                                                           *)

LEMMA ChargedIsFinite ==
    ASSUME NEW l \in Leads
    PROVE  IsFiniteSet(Charged(l)) /\ Cardinality(Charged(l)) \in Nat
<1>1. Charged(l) \subseteq Mailers
  BY DEF Charged
<1>2. QED
  BY <1>1, MailersAssumption, FS_Subset, FS_CardinalityType

\* The charge of a lead after a pass lost or settled its claim on it.
LEMMA Discharge ==
    ASSUME NEW l \in Leads, NEW m \in Mailers, Charged(l)' = Charged(l) \ {m}
    PROVE  /\ Cardinality(Charged(l)') \in Nat
           /\ Cardinality(Charged(l)') <= Cardinality(Charged(l))
           /\ m \in Charged(l) =>
                Cardinality(Charged(l)') = Cardinality(Charged(l)) - 1
<1>1. IsFiniteSet(Charged(l)) /\ Cardinality(Charged(l)) \in Nat
  BY ChargedIsFinite
<1>2. /\ IsFiniteSet(Charged(l) \ {m})
      /\ Cardinality(Charged(l) \ {m}) =
           IF m \in Charged(l) THEN Cardinality(Charged(l)) - 1
                              ELSE Cardinality(Charged(l))
  BY <1>1, FS_RemoveElement
<1>3. Cardinality(Charged(l) \ {m}) \in Nat
  BY <1>2, FS_CardinalityType
<1>4. QED
  BY <1>1, <1>2, <1>3

LEMMA DeliveryStutter ==
    ASSUME DeliveryTypes, DeliveryInv, UNCHANGED mailVars
    PROVE  DeliveryTypes' /\ DeliveryInv'
<1>1. mail' = mail /\ requested' = requested /\ accepted' = accepted /\ mailer' = mailer
  BY DEF mailVars
<1>2. \A l \in Leads : Charged(l)' = Charged(l)
  BY <1>1 DEF Charged
<1>3. DeliveryTypes'
  BY <1>1 DEF DeliveryTypes
<1>4. DeliveryInv'
  BY <1>1, <1>2 DEF DeliveryInv
<1>5. QED
  BY <1>3, <1>4

\* A step of the row alone: joining, or the end of a lease.
LEMMA RowKeeps ==
    ASSUME DeliveryTypes, DeliveryInv, NEW l \in Leads, Join(l) \/ LeaseLapses(l)
    PROVE  DeliveryTypes' /\ DeliveryInv'
<1>1. requested' = requested /\ accepted' = accepted /\ mailer' = mailer
  BY DEF Join, LeaseLapses
<1>2. \A k \in Leads : Charged(k)' = Charged(k)
  BY <1>1 DEF Charged
<1>3. DeliveryTypes'
  <2>1. mail' \in [Leads -> Delivery]
    <3>1. CASE Join(l)
      BY <3>1 DEF DeliveryTypes, Join, Delivery
    <3>2. CASE LeaseLapses(l)
      BY <3>2 DEF DeliveryTypes, LeaseLapses, Delivery
    <3>3. QED
      BY <3>1, <3>2
  <2>2. QED
    BY <1>1, <2>1 DEF DeliveryTypes
<1>4. CASE Join(l)
  <2>1. \A k \in Leads :
          /\ mail'[k].attempts = mail[k].attempts
          /\ mail'[k].owner = mail[k].owner
          /\ mail'[k].leased <=> mail[k].leased
          /\ mail'[k].status =
               IF k = l THEN "pending" ELSE mail[k].status
    BY <1>4 DEF Join, DeliveryTypes, Delivery
  <2>2. mail[l].status = "absent"
    BY <1>4 DEF Join
  <2>3. QED
    BY <1>1, <1>2, <1>3, <2>1, <2>2 DEF DeliveryInv
<1>5. CASE LeaseLapses(l)
  <2>1. \A k \in Leads :
          /\ mail'[k].attempts = mail[k].attempts
          /\ mail'[k].owner = mail[k].owner
          /\ mail'[k].leased => mail[k].leased
          /\ mail'[k].status = mail[k].status
    BY <1>5 DEF LeaseLapses, DeliveryTypes, Delivery
  <2>2. QED
    BY <1>1, <1>2, <1>3, <2>1 DEF DeliveryInv
<1>6. QED
  BY <1>3, <1>4, <1>5

\* A batch is charged to a pass that was charged for nothing.
LEMMA ClaimBatchKeeps ==
    ASSUME DeliveryTypes, DeliveryInv, NEW m \in Mailers, NEW batch \in SUBSET Leads,
           ClaimBatch(m, batch)
    PROVE  DeliveryTypes' /\ DeliveryInv'
<1>1. requested' = requested /\ accepted' = accepted
  BY DEF ClaimBatch
<1>2. mailer[m] = NoPass
  BY DEF ClaimBatch
<1>3. \A p \in Mailers :
        /\ mailer'[p].todo = IF p = m THEN batch ELSE mailer[p].todo
        /\ mailer'[p].hand = mailer[p].hand
        /\ mailer'[p].answer = mailer[p].answer
  BY DEF ClaimBatch, DeliveryTypes, Pass
<1>4. \A l \in batch :
        /\ mail'[l] \in Delivery
        /\ mail'[l].status = "sending" /\ mail'[l].owner = m
        /\ mail'[l].attempts = mail[l].attempts + 1 /\ mail[l].attempts \in Nat
  <2>1. ASSUME NEW l \in batch
        PROVE  /\ mail'[l] = [status |-> "sending", attempts |-> mail[l].attempts + 1,
                              owner |-> m, leased |-> TRUE]
               /\ mail[l].attempts \in 0 .. MaxAttempts
               /\ mail[l].attempts < MaxAttempts
    BY <2>1 DEF ClaimBatch, Available, DeliveryTypes, Delivery
  <2>2. ASSUME NEW l \in batch
        PROVE  mail[l].attempts + 1 \in 0 .. MaxAttempts /\ mail[l].attempts \in Nat
    <3>1. \A b \in Nat : \A i \in 0 .. b : i < b => i + 1 \in 0 .. b /\ i \in Nat
      OBVIOUS
    <3>2. mail[l].attempts \in 0 .. MaxAttempts /\ mail[l].attempts < MaxAttempts
      BY <2>1, <2>2
    <3>3. QED
      BY <3>1, <3>2
  <2>3. ASSUME NEW l \in batch
        PROVE  /\ mail'[l] \in Delivery
               /\ mail'[l].status = "sending" /\ mail'[l].owner = m
               /\ mail'[l].attempts = mail[l].attempts + 1
    <3>1. mail'[l] = [status |-> "sending", attempts |-> mail[l].attempts + 1,
                      owner |-> m, leased |-> TRUE]
      BY <2>1, <2>3
    <3>2. mail[l].attempts + 1 \in 0 .. MaxAttempts
      BY <2>2, <2>3
    <3>3. QED
      BY <3>1, <3>2 DEF Delivery
  <2>4. QED
    BY <2>2, <2>3
<1>5. \A l \in Leads \ batch : mail'[l] = mail[l]
  BY DEF ClaimBatch
<1>6. DeliveryTypes'
  <2>1. mail' \in [Leads -> Delivery]
    <3>1. \A l \in Leads : mail'[l] \in Delivery
      BY <1>4, <1>5 DEF DeliveryTypes, Delivery
    <3>2. QED
      BY <3>1 DEF ClaimBatch
  <2>2. mailer' \in [Mailers -> Pass]
    <3>1. mailer' = [mailer EXCEPT ![m] = [mailer[m] EXCEPT !.todo = batch]]
      BY DEF ClaimBatch
    <3>2. [mailer[m] EXCEPT !.todo = batch] \in Pass
      BY DEF DeliveryTypes, Pass
    <3>3. QED
      BY <3>1, <3>2 DEF DeliveryTypes
  <2>3. QED
    BY <1>1, <2>1, <2>2 DEF DeliveryTypes
<1>7. \A l \in Leads : m \notin Charged(l)
  BY <1>2 DEF Charged, NoPass
<1>8. \A l \in Leads \ batch : Charged(l)' = Charged(l)
  BY <1>2, <1>3 DEF Charged, NoPass
<1>9. \A l \in batch : Charged(l)' = Charged(l) \cup {m}
  BY <1>2, <1>3 DEF Charged, NoPass
<1>10. ASSUME NEW l \in Leads
       PROVE  requested'[l] + Cardinality(Charged(l)') <= mail'[l].attempts
  <2>1. Cardinality(Charged(l)) \in Nat /\ requested[l] \in Nat
        /\ mail[l].attempts \in Nat
        /\ requested[l] + Cardinality(Charged(l)) <= mail[l].attempts
    BY ChargedIsFinite DEF DeliveryInv, DeliveryTypes, Delivery
  <2>2. CASE l \in batch
    <3>1. Cardinality(Charged(l)') = Cardinality(Charged(l)) + 1
      <4>1. Charged(l)' = Charged(l) \cup {m} /\ m \notin Charged(l)
        BY <1>7, <1>9, <2>2
      <4>2. Cardinality(Charged(l) \cup {m}) = Cardinality(Charged(l)) + 1
        BY <4>1, ChargedIsFinite, FS_AddElement
      <4>3. QED
        BY <4>1, <4>2
    <3>2. mail'[l].attempts = mail[l].attempts + 1
      BY <1>4, <2>2
    <3>3. QED
      BY <1>1, <2>1, <3>1, <3>2
  <2>3. CASE l \notin batch
    BY <1>1, <1>5, <1>8, <2>1, <2>3
  <2>4. QED
    BY <2>2, <2>3
<1>11. ASSUME NEW l \in Leads
       PROVE  /\ mail'[l].leased => mail'[l].status = "sending"
              /\ mail'[l].status = "sending" => mail'[l].attempts > 0
              /\ mail'[l].status = "sent" => l \in accepted'
              /\ \A p \in Mailers : mail'[l].owner = p =>
                   /\ mail'[l].status = "sending"
                   /\ l \in mailer'[p].todo \/ mailer'[p].hand = l
  <2>1. CASE l \in batch
    BY <1>3, <1>4, <2>1
  <2>2. CASE l \notin batch
    <3>1. mail'[l] = mail[l]
      BY <1>5, <2>2
    <3>2. \A p \in Mailers : mail[l].owner = p => p # m
      BY <1>2 DEF DeliveryInv, NoPass
    <3>3. QED
      BY <1>1, <1>3, <3>1, <3>2 DEF DeliveryInv
  <2>3. QED
    BY <2>1, <2>2
<1>12. ASSUME NEW p \in Mailers
       PROVE  /\ mailer'[p].hand \notin mailer'[p].todo
              /\ mailer'[p].hand = Nothing <=> mailer'[p].answer = "none"
              /\ mailer'[p].answer = "ok" => mailer'[p].hand \in accepted'
  BY <1>1, <1>2, <1>3 DEF DeliveryInv, NoPass
<1>13. QED
  BY <1>6, <1>10, <1>11, <1>12 DEF DeliveryInv

\* What taking a row into hand does to the pass and to the charges.
LEMMA TakeFacts ==
    ASSUME DeliveryTypes, DeliveryInv, NEW m \in Mailers, NEW l \in Leads,
           NEW answer \in {"ok", "error", "disabled"}, Take(m, l, answer)
    PROVE  /\ mailer' \in [Mailers -> Pass]
           /\ \A p \in Mailers \ {m} : mailer'[p] = mailer[p]
           /\ mailer'[m].todo = mailer[m].todo \ {l}
           /\ mailer'[m].hand = l
           /\ mailer'[m].answer = answer
           /\ m \in Charged(l)
           /\ \A k \in Leads \ {l} : Charged(k)' = Charged(k)
           /\ Charged(l)' = IF answer = "disabled" THEN Charged(l)
                            ELSE Charged(l) \ {m}
<1>1. /\ mailer' \in [Mailers -> Pass]
      /\ \A p \in Mailers \ {m} : mailer'[p] = mailer[p]
      /\ mailer'[m].todo = mailer[m].todo \ {l}
      /\ mailer'[m].hand = l
      /\ mailer'[m].answer = answer
  BY DEF Take, DeliveryTypes, Pass, Answers
<1>2. l \in mailer[m].todo /\ mailer[m].hand = Nothing
  BY DEF Take
<1>3. m \in Charged(l)
  BY <1>2 DEF Charged
<1>4. \A k \in Leads \ {l} : Charged(k)' = Charged(k)
  BY <1>1, <1>2 DEF Charged
<1>5. Charged(l)' = IF answer = "disabled" THEN Charged(l) ELSE Charged(l) \ {m}
  BY <1>1, <1>2 DEF Charged
<1>6. QED
  BY <1>1, <1>3, <1>4, <1>5

\* A row that comes into hand keeps its place in the invariant.
LEMMA HandKeeps ==
    ASSUME DeliveryTypes, DeliveryInv, NEW m \in Mailers, NEW l \in Leads,
           NEW answer \in {"ok", "error", "disabled"}, Take(m, l, answer),
           mail' = mail, accepted \subseteq accepted',
           answer = "ok" => l \in accepted',
           \A k \in Leads :
               requested'[k] + Cardinality(Charged(k)') <= mail[k].attempts
    PROVE  DeliveryInv'
<1>1. ASSUME NEW k \in Leads
      PROVE  /\ mail'[k].leased => mail'[k].status = "sending"
             /\ mail'[k].status = "sending" => mail'[k].attempts > 0
             /\ mail'[k].status = "sent" => k \in accepted'
             /\ requested'[k] + Cardinality(Charged(k)') <= mail'[k].attempts
  BY DEF DeliveryInv
<1>2. ASSUME NEW k \in Leads, NEW p \in Mailers, mail'[k].owner = p
      PROVE  /\ mail'[k].status = "sending"
             /\ k \in mailer'[p].todo \/ mailer'[p].hand = k
  <2>1. mail[k].status = "sending" /\ (k \in mailer[p].todo \/ mailer[p].hand = k)
    BY <1>2 DEF DeliveryInv
  <2>2. mailer[m].hand = Nothing
    BY DEF Take
  <2>3. QED
    BY <2>1, <2>2, TakeFacts
<1>3. ASSUME NEW p \in Mailers
      PROVE  /\ mailer'[p].hand \notin mailer'[p].todo
             /\ mailer'[p].hand = Nothing <=> mailer'[p].answer = "none"
             /\ mailer'[p].answer = "ok" => mailer'[p].hand \in accepted'
  <2>1. CASE p = m
    BY <2>1, TakeFacts
  <2>2. CASE p # m
    BY <2>2, TakeFacts DEF DeliveryInv
  <2>3. QED
    BY <2>1, <2>2
<1>4. QED
  BY <1>1, <1>2, <1>3 DEF DeliveryInv

\* A request spends the charge of the pass that makes it.
LEMMA SendKeeps ==
    ASSUME DeliveryTypes, DeliveryInv, NEW m \in Mailers, NEW l \in Leads, Send(m, l)
    PROVE  DeliveryTypes' /\ DeliveryInv'
<1>1. PICK answer \in {"ok", "error"} :
        /\ Take(m, l, answer)
        /\ accepted' = accepted \cup {l} \/ (answer = "error" /\ accepted' = accepted)
  BY DEF Send
<1>2. mail' = mail /\ requested' = [requested EXCEPT ![l] = @ + 1]
  BY DEF Send
<1>3. DeliveryTypes'
  BY <1>1, <1>2, TakeFacts DEF DeliveryTypes
<1>4. ASSUME NEW k \in Leads
      PROVE  requested'[k] + Cardinality(Charged(k)') <= mail[k].attempts
  <2>1. Cardinality(Charged(k)) \in Nat /\ requested[k] \in Nat
        /\ mail[k].attempts \in Nat
        /\ requested[k] + Cardinality(Charged(k)) <= mail[k].attempts
    BY ChargedIsFinite DEF DeliveryInv, DeliveryTypes, Delivery
  <2>2. CASE k = l
    <3>1. Cardinality(Charged(l)') = Cardinality(Charged(l)) - 1
      BY <1>1, TakeFacts, Discharge
    <3>2. requested'[l] = requested[l] + 1
      BY <1>2 DEF DeliveryTypes
    <3>3. QED
      BY <2>1, <2>2, <3>1, <3>2
  <2>3. CASE k # l
    BY <1>1, <1>2, <2>1, <2>3, TakeFacts DEF DeliveryTypes
  <2>4. QED
    BY <2>2, <2>3
<1>5. accepted \subseteq accepted' /\ (answer = "ok" => l \in accepted')
  BY <1>1
<1>6. DeliveryInv'
  BY <1>1, <1>2, <1>4, <1>5, HandKeeps
<1>7. QED
  BY <1>3, <1>6

LEMMA SendDisabledKeeps ==
    ASSUME DeliveryTypes, DeliveryInv, NEW m \in Mailers, NEW l \in Leads,
           SendDisabled(m, l)
    PROVE  DeliveryTypes' /\ DeliveryInv'
<1>1. Take(m, l, "disabled") /\ mail' = mail /\ requested' = requested
      /\ accepted' = accepted
  BY DEF SendDisabled
<1>2. DeliveryTypes'
  BY <1>1, TakeFacts DEF DeliveryTypes
<1>3. \A k \in Leads :
        requested'[k] + Cardinality(Charged(k)') <= mail[k].attempts
  BY <1>1, TakeFacts DEF DeliveryInv
<1>4. DeliveryInv'
  BY <1>1, <1>3, HandKeeps
<1>5. QED
  BY <1>2, <1>4

\* A recorded outcome gives back at most the charge of its own pass.
LEMMA RecordMailKeeps ==
    ASSUME DeliveryTypes, DeliveryInv, NEW m \in Mailers, RecordMail(m)
    PROVE  DeliveryTypes' /\ DeliveryInv'
<1>0. PICK l \in Leads, a \in {"ok", "error", "disabled"} :
        mailer[m].hand = l /\ mailer[m].answer = a
  BY DEF RecordMail, DeliveryTypes, DeliveryInv, Pass, Answers
<1>1. l \notin mailer[m].todo
  BY <1>0 DEF DeliveryInv
<1>2. requested' = requested /\ accepted' = accepted
  BY DEF RecordMail
<1>3. /\ mailer' \in [Mailers -> Pass]
      /\ \A p \in Mailers \ {m} : mailer'[p] = mailer[p]
      /\ mailer'[m].todo = mailer[m].todo
      /\ mailer'[m].hand = Nothing
      /\ mailer'[m].answer = "none"
  BY DEF RecordMail, DeliveryTypes, Pass, Answers
<1>4. \A k \in Leads \ {l} : Charged(k)' = Charged(k)
  BY <1>0, <1>3 DEF Charged
<1>5. Charged(l)' = Charged(l) \ {m} /\ (a = "disabled" => m \in Charged(l))
  BY <1>0, <1>1, <1>3 DEF Charged
<1>6. \A k \in Leads \ {l} : mail'[k] = mail[k]
  BY <1>0 DEF RecordMail, DeliveryTypes
<1>7. mail[l] \in Delivery /\ mail[l].attempts \in Nat
  BY <1>1 DEF DeliveryTypes, Delivery
<1>8. CASE ~Owned(m, l)
  <2>1. mail' = mail
    BY <1>0, <1>8 DEF RecordMail
  <2>2. DeliveryTypes'
    BY <1>2, <1>3, <2>1 DEF DeliveryTypes
  <2>3. mail[l].owner # m
    BY <1>1, <1>8 DEF Owned, DeliveryInv
  <2>4. ASSUME NEW k \in Leads
        PROVE  requested'[k] + Cardinality(Charged(k)') <= mail'[k].attempts
    <3>1. Cardinality(Charged(k)) \in Nat /\ requested[k] \in Nat
          /\ mail[k].attempts \in Nat
          /\ requested[k] + Cardinality(Charged(k)) <= mail[k].attempts
      BY ChargedIsFinite DEF DeliveryInv, DeliveryTypes, Delivery
    <3>2. CASE k = l
      <4>1. /\ Cardinality(Charged(l)') \in Nat
            /\ Cardinality(Charged(l)') <= Cardinality(Charged(l))
        BY <1>1, <1>5, Discharge
      <4>2. QED
        BY <1>2, <2>1, <3>1, <3>2, <4>1
    <3>3. CASE k # l
      BY <1>2, <1>4, <2>1, <3>1, <3>3
    <3>4. QED
      BY <3>2, <3>3
  <2>5. ASSUME NEW k \in Leads
        PROVE  /\ mail'[k].leased => mail'[k].status = "sending"
               /\ mail'[k].status = "sending" => mail'[k].attempts > 0
               /\ mail'[k].status = "sent" => k \in accepted'
    BY <1>2, <2>1 DEF DeliveryInv
  <2>6. ASSUME NEW k \in Leads, NEW p \in Mailers, mail'[k].owner = p
        PROVE  /\ mail'[k].status = "sending"
               /\ k \in mailer'[p].todo \/ mailer'[p].hand = k
    <3>1. mail[k].status = "sending" /\ (k \in mailer[p].todo \/ mailer[p].hand = k)
      BY <2>1, <2>6 DEF DeliveryInv
    <3>2. QED
      BY <1>0, <1>3, <2>1, <2>3, <2>6, <3>1
  <2>7. ASSUME NEW p \in Mailers
        PROVE  /\ mailer'[p].hand \notin mailer'[p].todo
               /\ mailer'[p].hand = Nothing <=> mailer'[p].answer = "none"
               /\ mailer'[p].answer = "ok" => mailer'[p].hand \in accepted'
    <3>1. Nothing \notin mailer[m].todo
      BY DEF DeliveryTypes, Pass
    <3>2. QED
      BY <1>2, <1>3, <3>1 DEF DeliveryInv
  <2>8. QED
    BY <2>2, <2>4, <2>5, <2>6, <2>7 DEF DeliveryInv
<1>9. CASE Owned(m, l)
  <2>1. /\ mail' = [mail EXCEPT ![l] = Outcome(mail[l], a)]
        /\ mail'[l] = Outcome(mail[l], a)
    BY <1>0, <1>9 DEF RecordMail, DeliveryTypes
  <2>2. mail[l].status = "sending" /\ mail[l].attempts > 0
    BY <1>1, <1>9 DEF Owned, DeliveryInv
  <2>3. /\ mail'[l].status = (IF a = "ok" THEN "sent"
                              ELSE IF a = "error" THEN "failed" ELSE "pending")
        /\ mail'[l].owner = Nobody
        /\ ~mail'[l].leased
        /\ mail'[l].attempts = (IF a = "disabled" THEN mail[l].attempts - 1
                                ELSE mail[l].attempts)
    BY <2>1 DEF Outcome
  <2>4. DeliveryTypes'
    <3>1. mail[l].attempts - 1 \in 0 .. MaxAttempts
      BY <1>7, <2>2 DEF Delivery
    <3>2. Outcome(mail[l], a) \in Delivery
      <4>1. CASE a = "ok"
        BY <1>7, <4>1 DEF Outcome, Delivery
      <4>2. CASE a = "error"
        BY <1>7, <4>2 DEF Outcome, Delivery
      <4>3. CASE a = "disabled"
        BY <1>7, <3>1, <4>3 DEF Outcome, Delivery
      <4>4. QED
        BY <1>1, <4>1, <4>2, <4>3
    <3>3. QED
      BY <1>1, <1>2, <1>3, <2>1, <3>2 DEF DeliveryTypes
  <2>5. ASSUME NEW k \in Leads
        PROVE  requested'[k] + Cardinality(Charged(k)') <= mail'[k].attempts
    <3>1. Cardinality(Charged(k)) \in Nat /\ requested[k] \in Nat
          /\ mail[k].attempts \in Nat
          /\ requested[k] + Cardinality(Charged(k)) <= mail[k].attempts
      BY ChargedIsFinite DEF DeliveryInv, DeliveryTypes, Delivery
    <3>2. CASE k = l
      <4>1. /\ Cardinality(Charged(l)') \in Nat
            /\ Cardinality(Charged(l)') <= Cardinality(Charged(l))
            /\ a = "disabled" => Cardinality(Charged(l)') = Cardinality(Charged(l)) - 1
        BY <1>1, <1>5, Discharge
      <4>2. QED
        BY <1>2, <2>3, <3>1, <3>2, <4>1
    <3>3. CASE k # l
      BY <1>2, <1>4, <1>6, <3>1, <3>3
    <3>4. QED
      BY <3>2, <3>3
  <2>6. ASSUME NEW k \in Leads
        PROVE  /\ mail'[k].leased => mail'[k].status = "sending"
               /\ mail'[k].status = "sending" => mail'[k].attempts > 0
               /\ mail'[k].status = "sent" => k \in accepted'
    <3>1. a = "ok" => l \in accepted
      BY <1>0 DEF DeliveryInv
    <3>2. CASE k = l
      BY <1>1, <1>2, <2>3, <3>1, <3>2
    <3>3. CASE k # l
      BY <1>2, <1>6, <3>3 DEF DeliveryInv
    <3>4. QED
      BY <3>2, <3>3
  <2>7. ASSUME NEW k \in Leads, NEW p \in Mailers, mail'[k].owner = p
        PROVE  /\ mail'[k].status = "sending"
               /\ k \in mailer'[p].todo \/ mailer'[p].hand = k
    <3>1. k # l
      BY <2>3, <2>7
    <3>2. mail[k].status = "sending" /\ (k \in mailer[p].todo \/ mailer[p].hand = k)
      BY <1>6, <2>7, <3>1 DEF DeliveryInv
    <3>3. QED
      BY <1>0, <1>3, <1>6, <3>1, <3>2
  <2>8. ASSUME NEW p \in Mailers
        PROVE  /\ mailer'[p].hand \notin mailer'[p].todo
               /\ mailer'[p].hand = Nothing <=> mailer'[p].answer = "none"
               /\ mailer'[p].answer = "ok" => mailer'[p].hand \in accepted'
    <3>1. Nothing \notin mailer[m].todo
      BY DEF DeliveryTypes, Pass
    <3>2. QED
      BY <1>2, <1>3, <3>1 DEF DeliveryInv
  <2>9. QED
    BY <2>4, <2>5, <2>6, <2>7, <2>8 DEF DeliveryInv
<1>10. QED
  BY <1>8, <1>9

\* A pass that dies keeps its requests paid and its rows claimable.
LEMMA MailerDiesKeeps ==
    ASSUME DeliveryTypes, DeliveryInv, NEW m \in Mailers, MailerDies(m)
    PROVE  DeliveryTypes' /\ DeliveryInv'
<1>1. requested' = requested /\ accepted' = accepted
  BY DEF MailerDies
<1>2. /\ mailer' \in [Mailers -> Pass]
      /\ mailer'[m] = NoPass
      /\ \A p \in Mailers \ {m} : mailer'[p] = mailer[p]
  BY DEF MailerDies, DeliveryTypes, NoPass, Pass, Answers
<1>3. ASSUME NEW k \in Leads
      PROVE  /\ mail'[k] \in Delivery
             /\ mail'[k].status = mail[k].status
             /\ mail'[k].attempts = mail[k].attempts
             /\ mail'[k].leased <=> mail[k].leased
             /\ mail'[k].owner = IF mail[k].owner = m THEN Nobody ELSE mail[k].owner
  <2>1. mail[k] \in Delivery
    BY DEF DeliveryTypes
  <2>2. mail'[k] = IF mail[k].owner = m THEN [mail[k] EXCEPT !.owner = Nobody]
                   ELSE mail[k]
    BY DEF MailerDies
  <2>3. QED
    BY <2>1, <2>2 DEF Delivery
<1>4. DeliveryTypes'
  <2>1. mail' \in [Leads -> Delivery]
    BY <1>3 DEF MailerDies
  <2>2. QED
    BY <1>1, <1>2, <2>1 DEF DeliveryTypes
<1>5. \A k \in Leads : Charged(k)' = Charged(k) \ {m}
  BY <1>2 DEF Charged, NoPass
<1>6. ASSUME NEW k \in Leads
      PROVE  requested'[k] + Cardinality(Charged(k)') <= mail'[k].attempts
  <2>1. Cardinality(Charged(k)) \in Nat /\ requested[k] \in Nat
        /\ mail[k].attempts \in Nat
        /\ requested[k] + Cardinality(Charged(k)) <= mail[k].attempts
    BY ChargedIsFinite DEF DeliveryInv, DeliveryTypes, Delivery
  <2>2. /\ Cardinality(Charged(k)') \in Nat
        /\ Cardinality(Charged(k)') <= Cardinality(Charged(k))
    BY <1>5, Discharge
  <2>3. QED
    BY <1>1, <1>3, <2>1, <2>2
<1>7. ASSUME NEW k \in Leads
      PROVE  /\ mail'[k].leased => mail'[k].status = "sending"
             /\ mail'[k].status = "sending" => mail'[k].attempts > 0
             /\ mail'[k].status = "sent" => k \in accepted'
  BY <1>1, <1>3 DEF DeliveryInv
<1>8. ASSUME NEW k \in Leads, NEW p \in Mailers, mail'[k].owner = p
      PROVE  /\ mail'[k].status = "sending"
             /\ k \in mailer'[p].todo \/ mailer'[p].hand = k
  <2>1. p # m /\ mail[k].owner = p
    BY <1>3, <1>8
  <2>2. QED
    BY <1>2, <1>3, <2>1 DEF DeliveryInv
<1>9. ASSUME NEW p \in Mailers
      PROVE  /\ mailer'[p].hand \notin mailer'[p].todo
             /\ mailer'[p].hand = Nothing <=> mailer'[p].answer = "none"
             /\ mailer'[p].answer = "ok" => mailer'[p].hand \in accepted'
  BY <1>1, <1>2 DEF DeliveryInv, NoPass
<1>10. QED
  BY <1>4, <1>6, <1>7, <1>8, <1>9 DEF DeliveryInv

LEMMA DeliveryInvariance ==
    ASSUME DeliveryTypes, DeliveryInv, [Next]_vars
    PROVE  DeliveryTypes' /\ DeliveryInv'
<1>1. CASE UNCHANGED mailVars
  BY <1>1, DeliveryStutter
<1>2. ASSUME NEW n \in Notices, Notify(n) PROVE UNCHANGED mailVars
  BY <1>2 DEF Notify
<1>3. ASSUME NEW d \in Dispatchers, DispatcherStep(d) \/ DispatcherDies(d)
      PROVE  UNCHANGED mailVars
  BY <1>3 DEF DispatcherStep, ClaimNotice, Post, RecordNotice, DispatcherDies
<1>4. ASSUME NEW l \in Leads, Join(l) \/ LeaseLapses(l)
      PROVE  DeliveryTypes' /\ DeliveryInv'
  BY <1>4, RowKeeps
<1>5. ASSUME NEW m \in Mailers, PassStep(m)
      PROVE  DeliveryTypes' /\ DeliveryInv'
  BY <1>5, ClaimBatchKeeps, SendKeeps, RecordMailKeeps DEF PassStep
<1>6. ASSUME NEW m \in Mailers, NEW l \in Leads, SendDisabled(m, l)
      PROVE  DeliveryTypes' /\ DeliveryInv'
  BY <1>6, SendDisabledKeeps
<1>7. ASSUME NEW m \in Mailers, MailerDies(m)
      PROVE  DeliveryTypes' /\ DeliveryInv'
  BY <1>7, MailerDiesKeeps
<1>8. QED
  BY <1>1, <1>2, <1>3, <1>4, <1>5, <1>6, <1>7 DEF Next, vars

-----------------------------------------------------------------------------
(* The theorems.                                                           *)

LEMMA StepKeeps == IInv /\ [Next]_vars => IInv'
BY NoticeInvariance, DeliveryInvariance DEF IInv, TypeOK, NoticeTypes, DeliveryTypes

\* Both outboxes keep their types and their bookkeeping through every crash,
\* timeout and lapsed lease.
THEOREM OutboxInvariance == Spec => []IInv
<1>1. QED
  BY InitInvariant, StepKeeps, PTL DEF Spec

THEOREM OutboxTyping == Spec => []TypeOK
<1>1. IInv => TypeOK
  BY DEF IInv
<1>2. QED
  BY <1>1, OutboxInvariance, PTL

\* No notice is posted twice, however many dispatchers die or time out.
THEOREM OneMessage == Spec => []OneVisibleMessage
<1>1. IInv => OneVisibleMessage
  BY DEF IInv, NoticeInv, OneVisibleMessage
<1>2. QED
  BY <1>1, OutboxInvariance, PTL

\* A row that says "sent" was taken by Slack or by the mail provider.
THEOREM TrueRows == Spec => []RowsAreTrue
<1>1. IInv => RowsAreTrue
  BY DEF IInv, NoticeInv, DeliveryInv, RowsAreTrue
<1>2. QED
  BY <1>1, OutboxInvariance, PTL

\* The provider is never asked more often than the row counts attempts, which
\* TypeOK bounds by MaxAttempts.
THEOREM PaidRequests == Spec => []RequestsArePaid
<1>1. IInv => RequestsArePaid
  <2> SUFFICES ASSUME IInv, NEW l \in Leads
               PROVE  requested[l] + Cardinality(Unsent(l)) <= mail[l].attempts
    BY DEF RequestsArePaid
  <2>1. Unsent(l) \subseteq Charged(l)
    BY DEF Unsent, Charged
  <2>2. /\ IsFiniteSet(Charged(l)) /\ Cardinality(Charged(l)) \in Nat
        /\ Cardinality(Unsent(l)) \in Nat
        /\ Cardinality(Unsent(l)) <= Cardinality(Charged(l))
    BY <2>1, ChargedIsFinite, FS_Subset, FS_CardinalityType
  <2>3. /\ requested[l] \in Nat /\ mail[l].attempts \in Nat
        /\ requested[l] + Cardinality(Charged(l)) <= mail[l].attempts
    BY DEF IInv, TypeOK, Delivery, DeliveryInv
  <2>4. QED
    BY <2>2, <2>3
<1>2. QED
  BY <1>1, OutboxInvariance, PTL

\* The steps that touch a row of the mail outbox.
LEMMA MailSteps ==
    ASSUME [Next]_vars, mail' # mail
    PROVE  \/ \E l \in Leads : Join(l) \/ LeaseLapses(l)
           \/ \E m \in Mailers : \/ \E batch \in SUBSET Leads : ClaimBatch(m, batch)
                                 \/ RecordMail(m)
                                 \/ MailerDies(m)
<1>1. \A n \in Notices : ~Notify(n)
  BY DEF Notify, mailVars
<1>2. \A d \in Dispatchers : ~DispatcherStep(d) /\ ~DispatcherDies(d)
  BY DEF DispatcherStep, ClaimNotice, Post, RecordNotice, DispatcherDies, mailVars
<1>3. \A m \in Mailers, l \in Leads : ~Send(m, l) /\ ~SendDisabled(m, l)
  BY DEF Send, SendDisabled
<1>4. Next
  BY DEF vars, mailVars
<1>5. QED
  BY <1>1, <1>2, <1>3, <1>4 DEF Next, PassStep

\* Only its owner changes a row under a running lease.
THEOREM LeaseRespected == Spec => LeaseIsRespected
<1> DEFINE Respected(l) ==
      mail[l].leased /\ mail'[l] # mail[l] =>
          \/ mail'[l] = [mail[l] EXCEPT !.leased = FALSE]
          \/ mailer'[mail[l].owner] # mailer[mail[l].owner]
<1>1. ASSUME IInv, [Next]_vars, NEW l \in Leads PROVE Respected(l)
  <2> SUFFICES ASSUME mail[l].leased, mail'[l] # mail[l]
               PROVE  \/ mail'[l] = [mail[l] EXCEPT !.leased = FALSE]
                      \/ mailer'[mail[l].owner] # mailer[mail[l].owner]
    OBVIOUS
  <2>1. mail[l].status = "sending"
    BY <1>1 DEF IInv, DeliveryInv
  <2>2. mailer \in [Mailers -> Pass] /\ mail \in [Leads -> Delivery]
    BY <1>1 DEF IInv, TypeOK
  <2>3. ASSUME NEW k \in Leads, Join(k) PROVE FALSE
    <3>1. mail'[l] = mail[l]
      BY <2>1, <2>2, <2>3 DEF Join
    <3>2. QED
      BY <3>1
  <2>4. ASSUME NEW k \in Leads, LeaseLapses(k)
        PROVE  mail'[l] = [mail[l] EXCEPT !.leased = FALSE]
    BY <2>2, <2>4 DEF LeaseLapses
  <2>5. ASSUME NEW m \in Mailers, NEW batch \in SUBSET Leads, ClaimBatch(m, batch)
        PROVE  FALSE
    <3>1. l \notin batch
      BY <2>1, <2>5 DEF ClaimBatch, Available
    <3>2. QED
      BY <2>5, <3>1 DEF ClaimBatch
  <2>6. ASSUME NEW m \in Mailers, RecordMail(m)
        PROVE  mailer'[mail[l].owner] # mailer[mail[l].owner]
    <3>1. mailer[m].hand = l /\ Owned(m, l)
      BY <2>2, <2>6 DEF RecordMail
    <3>2. mail[l].owner = m
      BY <3>1 DEF Owned
    <3>3. mailer'[m].hand = Nothing
      BY <2>2, <2>6 DEF RecordMail, Pass
    <3>4. QED
      BY <3>1, <3>2, <3>3
  <2>7. ASSUME NEW m \in Mailers, MailerDies(m)
        PROVE  mailer'[mail[l].owner] # mailer[mail[l].owner]
    <3>1. mail[l].owner = m
      BY <2>7 DEF MailerDies
    <3>2. QED
      BY <2>2, <2>7, <3>1 DEF MailerDies
  <2>8. mail' # mail
    OBVIOUS
  <2>9. QED
    BY <1>1, <2>3, <2>4, <2>5, <2>6, <2>7, <2>8, MailSteps
<1>2. IInv /\ [Next]_vars => [\A l \in Leads : Respected(l)]_vars
  BY <1>1
<1>3. QED
  BY <1>2, OutboxInvariance, PTL DEF Spec, LeaseIsRespected

\* A welcome recorded as sent stays recorded as sent.
THEOREM SentFinal == Spec => SentIsFinal
<1> DEFINE Final(l) == mail[l].status = "sent" => mail'[l] = mail[l]
<1>1. ASSUME IInv, [Next]_vars, NEW l \in Leads, mail[l].status = "sent"
      PROVE  mail'[l] = mail[l]
  <2>1. mailer \in [Mailers -> Pass] /\ mail \in [Leads -> Delivery]
    BY <1>1 DEF IInv, TypeOK
  <2>2. ~mail[l].leased /\ \A m \in Mailers : mail[l].owner # m
    BY <1>1 DEF IInv, DeliveryInv
  <2>3. ASSUME NEW k \in Leads, Join(k) \/ LeaseLapses(k) PROVE mail'[l] = mail[l]
    <3>1. k # l
      BY <1>1, <2>2, <2>3 DEF Join, LeaseLapses
    <3>2. QED
      BY <2>1, <2>3, <3>1 DEF Join, LeaseLapses
  <2>4. ASSUME NEW m \in Mailers, NEW batch \in SUBSET Leads, ClaimBatch(m, batch)
        PROVE  mail'[l] = mail[l]
    <3>1. l \notin batch
      BY <1>1, <2>4 DEF ClaimBatch, Available
    <3>2. QED
      BY <2>4, <3>1 DEF ClaimBatch
  <2>5. ASSUME NEW m \in Mailers, RecordMail(m) PROVE mail'[l] = mail[l]
    <3>1. ~Owned(m, l)
      BY <1>1 DEF Owned
    <3>2. QED
      BY <2>1, <2>5, <3>1 DEF RecordMail
  <2>6. ASSUME NEW m \in Mailers, MailerDies(m) PROVE mail'[l] = mail[l]
    BY <2>2, <2>6 DEF MailerDies
  <2>7. QED
    BY <1>1, <2>3, <2>4, <2>5, <2>6, MailSteps
<1>2. IInv /\ [Next]_vars => [\A l \in Leads : Final(l)]_vars
  BY <1>1
<1>3. QED
  BY <1>2, OutboxInvariance, PTL DEF Spec, SentIsFinal

-----------------------------------------------------------------------------
(* The trigger scan: its steps, by what they do                            *)

\* A step of nobody's that the scan and the history do not see.
Outside ==
    /\ UNCHANGED <<run, rows, effects, scan, slipped>>
    /\ day' = day \/ (day' \in Days /\ day' > day)
    /\ \A r \in Runs : \/ buyer'[r] = buyer[r]
                       \/ buyer'[r] = NoRow
                       \/ run[r].state = "notified" /\ buyer'[r] = rows[run[r].item]
    /\ buyer' \in [Runs -> Row \cup {NoRow}]
    /\ cooling' \subseteq cooling
    /\ lease' \in {lease, NoOwner}

\* The run a scanner has opened is notified, or fails.
RunMoves(s) ==
    \/ UNCHANGED run
    \/ At(s, "quote") /\ \E state \in {"notified", "ended"} : Moved(s, state)

\* A scanner goes on with nothing in hand.
Plain(s) ==
    /\ \A t \in Scanners : t # s => scan'[t] = scan[t]
    /\ scan' \in [Scanners -> Scan]
    /\ scan'[s].at \in {"idle", "items", "replay"}
    /\ scan'[s].row \in {scan[s].row, NoRow}
    /\ scan'[s].todo \in {scan[s].todo, Pending, {}}
    /\ UNCHANGED <<day, rows, effects, buyer, slipped>>
    /\ cooling' \subseteq Items
    /\ lease' \in Scanners \cup {NoOwner, Gone}
    /\ RunMoves(s)

\* It has read a row: to replay what the row learns, or to ask for a trigger.
Reads(s) ==
    \E r \in scan[s].todo :
        /\ At(s, "replay")
        /\ scan' = [scan EXCEPT ![s].at = "learn", ![s].run = r, ![s].row = rows[run[r].item]]
        /\ UNCHANGED <<day, rows, purchase, cooling, lease, slipped>>

Asks(s) ==
    \E i \in Items :
        /\ Due(i, rows[i])
        /\ scan' = [scan EXCEPT ![s].due = @ \ {i}, ![s].at = "begin",
                                ![s].item = i, ![s].row = rows[i]]
        /\ UNCHANGED <<day, rows, purchase, cooling, lease, slipped>>

\* It has found no effects pending.
Passes(s) ==
    /\ At(s, "check")
    /\ \A r \in Runs : run[r].item = scan[s].item => ~IsPending(r)
    /\ scan' = [scan EXCEPT ![s].at = "insert", ![s].unpaid = Unpaid]
    /\ UNCHANGED <<day, rows, purchase, cooling, lease, slipped>>

LEMMA PendingTyped == Pending \in SUBSET Runs
BY DEF Pending

LEMMA NewScanIsPlain ==
    ASSUME ScanTypeOK, NEW s \in Scanners, NEW n \in Scan, scan' = [scan EXCEPT ![s] = n],
           n.at \in {"idle", "items", "replay"}, n.row \in {scan[s].row, NoRow},
           n.todo \in {scan[s].todo, Pending, {}},
           UNCHANGED <<day, rows, effects, buyer, slipped>>,
           cooling' \subseteq Items, lease' \in Scanners \cup {NoOwner, Gone}, RunMoves(s)
    PROVE  Plain(s)
<1>1. scan' \in [Scanners -> Scan] /\ scan'[s] = n /\ \A t \in Scanners : t # s => scan'[t] = scan[t]
    BY DEF ScanTypeOK
<1> QED BY <1>1 DEF Plain

LEMMA EndsRest ==
    ASSUME ScanTypeOK, NEW s \in Scanners,
           Refuse(s) \/ Raise(s) \/ Release(s) \/ Die(s) \/ (NextItem(s) /\ UNCHANGED lease),
           UNCHANGED <<day, rows, effects, buyer, slipped>>, cooling' \subseteq Items, RunMoves(s)
    PROVE  Plain(s)
<1>1. lease' \in Scanners \cup {NoOwner, Gone}
    <2>1. lease \in Scanners \cup {NoOwner, Gone}
        BY DEF ScanTypeOK
    <2> QED BY <2>1 DEF Refuse, Raise, Release, Die
<1>2. CASE scan' = [scan EXCEPT ![s] = Idle]
    <2>1. Idle \in Scan /\ Idle.at = "idle" /\ Idle.row = NoRow /\ Idle.todo = {}
        BY DEF Idle, Scan
    <2> QED BY <1>1, <1>2, <2>1, NewScanIsPlain
<1>3. CASE NextItem(s)
    <2> DEFINE n == [Idle EXCEPT !.at = "items", !.due = scan[s].due]
    <2>1. scan[s] \in Scan
        BY DEF ScanTypeOK
    <2>2. n \in Scan /\ n.at = "items" /\ n.row = NoRow /\ n.todo = {}
        BY <2>1 DEF Idle, Scan
    <2>3. scan' = [scan EXCEPT ![s] = n]
        BY <1>3 DEF NextItem
    <2> HIDE DEF n
    <2> QED BY <1>1, <2>2, <2>3, NewScanIsPlain
<1> QED BY <1>2, <1>3 DEF Refuse, Raise, Release, Die

LEMMA ScanStepIs ==
    ASSUME ScanTypeOK, RunInv, QuoteInv, [ScanNext]_scanVars
    PROVE  \/ Outside
           \/ \E r \in Runs : Complete(r) \/ EndRun(r) \/ Apply(r)
           \/ \E s \in Scanners : Plain(s) \/ Reads(s) \/ ReplayWrites(s) \/ Asks(s)
                                  \/ WriteBack(s) \/ Passes(s) \/ Insert(s)
<1>0. cooling \subseteq Items /\ day \in Days /\ buyer \in [Runs -> Row \cup {NoRow}]
    BY DEF ScanTypeOK
<1>1. CASE UNCHANGED scanVars
    BY <1>0, <1>1 DEF scanVars, purchase, effects, Outside
<1>2. ASSUME NEW r \in Runs, ReadItem(r) \/ BuyerEnds(r) PROVE Outside
    <2>1. ReadItem(r) => rows[run[r].item] \in Row
        BY DEF ReadItem, ScanTypeOK, RunInv
    <2>2. buyer' \in [Runs -> Row \cup {NoRow}]
        BY <1>0, <1>2, <2>1 DEF ReadItem, BuyerEnds
    <2>3.  \A q \in Runs : \/ buyer'[q] = buyer[q]
                           \/ buyer'[q] = NoRow
                           \/ run[q].state = "notified" /\ buyer'[q] = rows[run[q].item]
        BY <1>0, <1>2 DEF ReadItem, BuyerEnds
    <2> QED BY <1>2, <2>2, <2>3 DEF ReadItem, BuyerEnds, effects, Outside
<1>3. CASE NextDay \/ LeaseRunsOut \/ \E i \in Items : CooldownEnds(i)
    <2>1. day' = day \/ (day' \in Days /\ day' > day)
        BY <1>0, <1>3, NumbersAssumption DEF NextDay, LeaseRunsOut, CooldownEnds, Days
    <2> QED BY <1>0, <1>3, <2>1 DEF NextDay, LeaseRunsOut, CooldownEnds, purchase, effects, Outside
<1>4. ASSUME NEW s \in Scanners, Acquire(s) PROVE Plain(s)
    <2> DEFINE n == [scan[s] EXCEPT !.at = "replay", !.todo = Pending]
    <2>1. scan[s] \in Scan
        BY DEF ScanTypeOK
    <2>2. n \in Scan /\ n.at = "replay" /\ n.row = scan[s].row /\ n.todo = Pending
        BY <2>1, PendingTyped DEF Scan
    <2>3. scan' = [scan EXCEPT ![s] = n] /\ lease' = s /\ UNCHANGED <<day, rows, purchase, cooling, slipped>>
        BY <1>4 DEF Acquire
    <2> HIDE DEF n
    <2> QED BY <1>0, <2>2, <2>3, NewScanIsPlain DEF purchase, RunMoves
<1>5. ASSUME NEW s \in Scanners, List(s) PROVE Plain(s)
    <2> DEFINE d == {i \in Items : Due(i, rows[i])}
               n == [scan[s] EXCEPT !.at = "items", !.due = d]
    <2>1. scan[s] \in Scan /\ d \in SUBSET Items
        BY DEF ScanTypeOK
    <2>2. scan' = [scan EXCEPT ![s] = n] /\ UNCHANGED <<lease, day, rows, purchase, cooling, slipped>>
        BY <1>5 DEF List
    <2> HIDE DEF d
    <2>3. n \in Scan /\ n.at = "items" /\ n.row = scan[s].row /\ n.todo = scan[s].todo
        BY <2>1 DEF Scan
    <2> HIDE DEF n
    <2> QED BY <1>0, <2>2, <2>3, NewScanIsPlain DEF purchase, RunMoves, ScanTypeOK
<1>6. ASSUME NEW s \in Scanners, NEW i \in Items, Ask(s, i) PROVE Plain(s) \/ Asks(s)
    <2>1. scan[s] \in Scan /\ UNCHANGED <<day, rows, purchase, cooling, slipped>>
        BY <1>6 DEF ScanTypeOK, Ask
    <2>2. \/ Die(s)
          \/ scan' = [scan EXCEPT ![s].due = @ \ {i}] /\ UNCHANGED lease
          \/ Asks(s)
        BY <1>6 DEF Ask, Asks
    <2>3. CASE Die(s)
        BY <1>0, <2>1, <2>3, EndsRest DEF purchase, RunMoves
    <2>4. CASE scan' = [scan EXCEPT ![s].due = @ \ {i}] /\ UNCHANGED lease
        <3> DEFINE n == [scan[s] EXCEPT !.due = @ \ {i}]
        <3>1. n \in Scan /\ n.at = "items" /\ n.row = scan[s].row /\ n.todo = scan[s].todo
            BY <1>6, <2>1 DEF Scan, Ask, At
        <3>2. scan' = [scan EXCEPT ![s] = n]
            BY <2>4
        <3> HIDE DEF n
        <3> QED BY <1>0, <2>1, <2>4, <3>1, <3>2, NewScanIsPlain DEF purchase, RunMoves, ScanTypeOK
    <2> QED BY <2>2, <2>3, <2>4
<1>7. ASSUME NEW s \in Scanners, Replay(s) PROVE Plain(s) \/ Reads(s)
    <2>1. Raise(s) \/ Reads(s)
        BY <1>7 DEF Replay, Reads
    <2>2. CASE Raise(s)
        BY <1>0, <1>7, <2>2, EndsRest DEF Replay, purchase, RunMoves
    <2> QED BY <2>1, <2>2
<1>8. ASSUME NEW s \in Scanners, Check(s) PROVE Plain(s) \/ Passes(s)
    <2>1. Refuse(s) \/ Passes(s)
        BY <1>8 DEF Check, Passes
    <2>2. CASE Refuse(s)
        BY <1>0, <1>8, <2>2, EndsRest DEF Check, purchase, RunMoves
    <2> QED BY <2>1, <2>2
<1>9. ASSUME NEW s \in Scanners,
             Finish(s) \/ BeginRefuses(s) \/ Suppress(s) \/ Crash(s)
      PROVE  Plain(s)
    BY <1>0, <1>9, EndsRest DEF Finish, BeginRefuses, Suppress, Crash, purchase, RunMoves
<1>10. ASSUME NEW s \in Scanners,
              Announce(s) \/ QuoteFails(s) \/ BudgetLost(s) \/ IntentFails(s)
       PROVE  Plain(s)
    <2>1. RunMoves(s)
        BY <1>10 DEF Announce, QuoteFails, BudgetLost, IntentFails, RunMoves
    <2>2. cooling' \subseteq Items
        BY <1>0, <1>10 DEF Announce, QuoteFails, BudgetLost, IntentFails, QuoteInv
    <2>3. \/ Refuse(s) \/ Raise(s) \/ (NextItem(s) /\ UNCHANGED lease)
        BY <1>10 DEF Announce, QuoteFails, BudgetLost, IntentFails
    <2>4. UNCHANGED <<day, rows, effects, buyer, slipped>>
        BY <1>10 DEF Announce, QuoteFails, BudgetLost, IntentFails
    <2> QED BY <2>1, <2>2, <2>3, <2>4, EndsRest
<1> QED BY <1>1, <1>2, <1>3, <1>4, <1>5, <1>6, <1>7, <1>8, <1>9, <1>10 DEF ScanNext, Step

-----------------------------------------------------------------------------
(* The trigger scan: what each step leaves                                 *)

LEMMA MovedAt ==
    ASSUME ScanTypeOK, NEW x \in Runs, NEW state \in {"notified", "ended"},
           run' = [run EXCEPT ![x].state = state]
    PROVE  /\ run' \in [Runs -> Run] /\ run'[x].state = state /\ run'[x].item = run[x].item
           /\ \A q \in Runs : q # x => run'[q] = run[q]
<1> DEFINE n == [run[x] EXCEPT !.state = state]
<1>1. n \in Run /\ n.state = state /\ n.item = run[x].item
    <2>1. run[x] \in Run
        BY DEF ScanTypeOK
    <2> QED BY <2>1 DEF Run
<1>2. run' = [run EXCEPT ![x] = n]
    OBVIOUS
<1> HIDE DEF n
<1> QED BY <1>1, <1>2 DEF ScanTypeOK

LEMMA CompleteAt ==
    ASSUME ScanTypeOK, NEW x \in Runs, Complete(x)
    PROVE  /\ run' \in [Runs -> Run] /\ run'[x].state = "completed" /\ run'[x].item = run[x].item
           /\ \A q \in Runs : q # x => run'[q] = run[q]
           /\ run[x].state = "notified" /\ history' = Append(history, x)
           /\ UNCHANGED <<day, rows, applied, buyer, cooling, lease, scan, slipped>>
<1> DEFINE n == [run[x] EXCEPT !.state = "completed", !.bought = day]
<1>1. n \in Run /\ n.state = "completed" /\ n.item = run[x].item
    <2>1. run[x] \in Run /\ day \in Days
        BY DEF ScanTypeOK
    <2> QED BY <2>1 DEF Run
<1>2. run' = [run EXCEPT ![x] = n]
    BY DEF Complete
<1> HIDE DEF n
<1>3. run' \in [Runs -> Run] /\ run'[x] = n /\ \A q \in Runs : q # x => run'[q] = run[q]
    BY <1>1, <1>2 DEF ScanTypeOK
<1>4. run[x].state = "notified" /\ history' = Append(history, x)
      /\ UNCHANGED <<day, rows, applied, buyer, cooling, lease, scan, slipped>>
    BY DEF Complete
<1> QED BY <1>1, <1>3, <1>4

LEMMA EndRunAt ==
    ASSUME ScanTypeOK, NEW x \in Runs, EndRun(x)
    PROVE  /\ run' \in [Runs -> Run] /\ run'[x].state = "ended" /\ run'[x].item = run[x].item
           /\ \A q \in Runs : q # x => run'[q] = run[q] /\ buyer'[q] = buyer[q]
           /\ run[x].state = "notified" /\ buyer'[x] = NoRow
           /\ buyer' \in [Runs -> Row \cup {NoRow}]
           /\ UNCHANGED <<day, rows, applied, history, cooling, lease, scan, slipped>>
<1>1. run' = [run EXCEPT ![x].state = "ended"]
    BY DEF EndRun
<1>2. buyer' = [buyer EXCEPT ![x] = NoRow] /\ buyer \in [Runs -> Row \cup {NoRow}]
    BY DEF EndRun, ScanTypeOK
<1> QED BY <1>1, <1>2, MovedAt DEF EndRun, effects

LEMMA InsertAt ==
    ASSUME ScanTypeOK, AskInv, NEW s \in Scanners, Insert(s), NEW i, i = scan[s].item
    PROVE  /\ i \in Items /\ At(s, "insert") /\ OpenRuns(i) = {}
           /\ run' \in [Runs -> Run]
           /\ scan' \in [Scanners -> Scan] /\ \A t \in Scanners : t # s => scan'[t] = scan[t]
           /\ scan'[s].at = "quote" /\ scan'[s].item = i /\ scan'[s].row = NoRow /\ scan'[s].todo = {}
           /\ \E r \in Runs : /\ run[r].state = "none" /\ scan'[s].run = r
                              /\ run'[r].state = "triggered" /\ run'[r].item = i
                              /\ \A q \in Runs : q # r => run'[q] = run[q]
           /\ slipped' = IF \E q \in scan[s].unpaid : run[q].item = i /\ IsPending(q)
                         THEN slipped \cup {i} ELSE slipped
           /\ cooling' \subseteq Items
           /\ UNCHANGED <<day, rows, history, applied, buyer, lease>>
<1>1. i \in Items /\ At(s, "insert") /\ OpenRuns(i) = {}
    BY DEF Insert, AskInv, At
<1> DEFINE r == CHOOSE q \in Unused : TRUE
           n == [run[r] EXCEPT !.state = "triggered", !.item = i]
           m == [Idle EXCEPT !.at = "quote", !.due = scan[s].due, !.item = i, !.run = r]
<1>2. r \in Runs /\ run[r].state = "none"
    BY DEF Insert, Unused
<1>3. run' = [run EXCEPT ![r] = n] /\ scan' = [scan EXCEPT ![s] = m]
    BY DEF Insert
<1> HIDE DEF r
<1>4. n \in Run /\ n.state = "triggered" /\ n.item = i
    <2>1. run[r] \in Run
        BY <1>2 DEF ScanTypeOK
    <2> QED BY <1>1, <2>1 DEF Run
<1>5. m \in Scan /\ m.at = "quote" /\ m.item = i /\ m.run = r /\ m.row = NoRow /\ m.todo = {}
    <2>1. scan[s] \in Scan
        BY DEF ScanTypeOK
    <2> QED BY <1>1, <1>2, <2>1 DEF Scan, Idle
<1> HIDE DEF n, m
<1>6. run' \in [Runs -> Run] /\ run'[r] = n /\ \A q \in Runs : q # r => run'[q] = run[q]
    BY <1>2, <1>3, <1>4 DEF ScanTypeOK
<1>7. scan' \in [Scanners -> Scan] /\ scan'[s] = m /\ \A t \in Scanners : t # s => scan'[t] = scan[t]
    BY <1>3, <1>5 DEF ScanTypeOK
<1>8. cooling' \subseteq Items
    BY DEF ScanTypeOK, Insert
<1>9. /\ slipped' = IF \E q \in scan[s].unpaid : run[q].item = i /\ IsPending(q)
                      THEN slipped \cup {i} ELSE slipped
      /\ UNCHANGED <<day, rows, history, applied, buyer, lease>>
    BY DEF Insert, effects
<1> QED BY <1>1, <1>2, <1>4, <1>5, <1>6, <1>7, <1>8, <1>9

\* A scanner's new place, its row and its runs.
LEMMA ReadsAt ==
    ASSUME ScanTypeOK, RunInv, ReplayInv, NEW s \in Scanners, Reads(s)
    PROVE  /\ scan' \in [Scanners -> Scan] /\ \A t \in Scanners : t # s => scan'[t] = scan[t]
           /\ scan'[s].at = "learn" /\ scan'[s].run \in scan[s].todo
           /\ scan'[s].run \in Runs /\ run[scan'[s].run].item \in Items
           /\ scan'[s].row = rows[run[scan'[s].run].item] /\ scan'[s].row \in Row
           /\ scan'[s].todo = scan[s].todo
           /\ UNCHANGED <<day, rows, run, history, applied, buyer, cooling, lease, slipped>>
<1>1. PICK r \in scan[s].todo :
         scan' = [scan EXCEPT ![s].at = "learn", ![s].run = r, ![s].row = rows[run[r].item]]
    BY DEF Reads
<1>2. scan[s] \in Scan
    BY DEF ScanTypeOK
<1>3. r \in Runs /\ run[r].state = "completed"
    BY <1>2 DEF Scan, ReplayInv
<1>4. run[r].item \in Items /\ rows[run[r].item] \in Row
    BY <1>3 DEF RunInv, ScanTypeOK
<1> DEFINE x == rows[run[r].item]
           n == [scan[s] EXCEPT !.at = "learn", !.run = r, !.row = x]
<1>5. scan' = [scan EXCEPT ![s] = n] /\ x \in Row
    BY <1>1, <1>4
<1> HIDE DEF x
<1>6. n \in Scan /\ n.at = "learn" /\ n.run = r /\ n.row = x /\ n.todo = scan[s].todo
    BY <1>2, <1>3, <1>5 DEF Scan
<1> HIDE DEF n
<1>7. scan' \in [Scanners -> Scan] /\ scan'[s] = n /\ \A t \in Scanners : t # s => scan'[t] = scan[t]
    BY <1>5, <1>6 DEF ScanTypeOK
<1> QED BY <1>3, <1>4, <1>6, <1>7 DEF Reads, purchase, effects, x

LEMMA AsksAt ==
    ASSUME ScanTypeOK, NEW s \in Scanners, Asks(s)
    PROVE  /\ scan' \in [Scanners -> Scan] /\ \A t \in Scanners : t # s => scan'[t] = scan[t]
           /\ scan'[s].at = "begin" /\ scan'[s].item \in Items
           /\ Due(scan'[s].item, rows[scan'[s].item])
           /\ scan'[s].row = rows[scan'[s].item] /\ scan'[s].row \in Row
           /\ scan'[s].todo = scan[s].todo
           /\ UNCHANGED <<day, rows, run, history, applied, buyer, cooling, lease, slipped>>
<1>1. PICK i \in Items :
         /\ Due(i, rows[i])
         /\ scan' = [scan EXCEPT ![s].due = @ \ {i}, ![s].at = "begin",
                                 ![s].item = i, ![s].row = rows[i]]
    BY DEF Asks
<1> DEFINE x == rows[i]
           n == [scan[s] EXCEPT !.due = @ \ {i}, !.at = "begin", !.item = i, !.row = x]
<1>2. scan[s] \in Scan /\ x \in Row
    BY DEF ScanTypeOK
<1>3. scan' = [scan EXCEPT ![s] = n] /\ Due(i, x)
    BY <1>1
<1> HIDE DEF x
<1>4. n \in Scan /\ n.at = "begin" /\ n.item = i /\ n.row = x /\ n.todo = scan[s].todo
    BY <1>2 DEF Scan
<1> HIDE DEF n
<1>5. scan' \in [Scanners -> Scan] /\ scan'[s] = n /\ \A t \in Scanners : t # s => scan'[t] = scan[t]
    BY <1>3, <1>4 DEF ScanTypeOK
<1> QED BY <1>2, <1>3, <1>4, <1>5 DEF Asks, purchase, effects, x

LEMMA PassesAt ==
    ASSUME ScanTypeOK, NEW s \in Scanners, Passes(s)
    PROVE  /\ scan' \in [Scanners -> Scan] /\ \A t \in Scanners : t # s => scan'[t] = scan[t]
           /\ At(s, "check") /\ scan'[s].at = "insert" /\ scan'[s].unpaid = Unpaid
           /\ scan'[s].item = scan[s].item /\ scan'[s].row = scan[s].row
           /\ scan'[s].todo = scan[s].todo
           /\ UNCHANGED <<day, rows, run, history, applied, buyer, cooling, lease, slipped>>
<1> DEFINE n == [scan[s] EXCEPT !.at = "insert", !.unpaid = Unpaid]
<1>1. scan[s] \in Scan /\ Unpaid \in SUBSET Runs
    BY DEF ScanTypeOK, Unpaid
<1>2. scan' = [scan EXCEPT ![s] = n]
    BY DEF Passes
<1>3. n \in Scan /\ n.at = "insert" /\ n.unpaid = Unpaid /\ n.item = scan[s].item
      /\ n.row = scan[s].row /\ n.todo = scan[s].todo
    BY <1>1 DEF Scan
<1> HIDE DEF n
<1>4. scan' \in [Scanners -> Scan] /\ scan'[s] = n /\ \A t \in Scanners : t # s => scan'[t] = scan[t]
    BY <1>2, <1>3 DEF ScanTypeOK
<1> QED BY <1>3, <1>4 DEF Passes, purchase, effects

LEMMA WriteBackAt ==
    ASSUME ScanTypeOK, AskInv, NEW s \in Scanners, WriteBack(s), NEW i, i = scan[s].item
    PROVE  /\ scan' \in [Scanners -> Scan] /\ \A t \in Scanners : t # s => scan'[t] = scan[t]
           /\ At(s, "begin") /\ i \in Items /\ scan[s].row \in Row /\ Due(i, scan[s].row)
           /\ scan'[s].at = "check" /\ scan'[s].item = i /\ scan'[s].row = scan[s].row
           /\ scan'[s].todo = scan[s].todo
           /\ rows' = [rows EXCEPT ![i] = scan[s].row] /\ rows' \in [Items -> Row]
           /\ rows'[i] = scan[s].row /\ \A j \in Items : j # i => rows'[j] = rows[j]
           /\ slipped' = IF scan[s].row.learned # rows[i].learned THEN slipped \cup {i} ELSE slipped
           /\ UNCHANGED <<day, run, history, applied, buyer, cooling, lease>>
<1> DEFINE n == [scan[s] EXCEPT !.at = "check"]
<1>1. scan[s] \in Scan /\ rows \in [Items -> Row]
    BY DEF ScanTypeOK
<1>2. scan' = [scan EXCEPT ![s] = n] /\ rows' = [rows EXCEPT ![i] = scan[s].row]
    BY DEF WriteBack, Goto
<1>3. n \in Scan /\ n.at = "check" /\ n.item = i /\ n.row = scan[s].row /\ n.todo = scan[s].todo
    BY <1>1 DEF Scan
<1> HIDE DEF n
<1>4. scan' \in [Scanners -> Scan] /\ scan'[s] = n /\ \A t \in Scanners : t # s => scan'[t] = scan[t]
    BY <1>2, <1>3 DEF ScanTypeOK
<1>5. i \in Items /\ scan[s].row \in Row /\ Due(i, scan[s].row) /\ At(s, "begin")
    BY DEF WriteBack, AskInv, At
<1> QED BY <1>1, <1>2, <1>3, <1>4, <1>5 DEF WriteBack, purchase, effects

LEMMA ReplayWritesAt ==
    ASSUME ScanTypeOK, ReplayInv, NEW s \in Scanners, ReplayWrites(s)
    PROVE  /\ scan' \in [Scanners -> Scan] /\ \A t \in Scanners : t # s => scan'[t] = scan[t]
           /\ At(s, "learn") /\ scan[s].run \in Runs /\ scan[s].row \in Row
           /\ run[scan[s].run].state = "completed" /\ Learn(scan[s].run, scan[s].row)
           /\ scan'[s].at = "replay" /\ scan'[s].row = NoRow /\ scan'[s].todo \subseteq scan[s].todo
           /\ UNCHANGED <<day, run, history, buyer, cooling, lease, slipped>>
<1> DEFINE n == [scan[s] EXCEPT !.at = "replay", !.todo = @ \ {scan[s].run},
                                !.run = NoRun, !.row = NoRow]
<1>1. scan[s] \in Scan
    BY DEF ScanTypeOK
<1>2. scan' = [scan EXCEPT ![s] = n]
    BY DEF ReplayWrites
<1>3. n \in Scan /\ n.at = "replay" /\ n.row = NoRow /\ n.todo \subseteq scan[s].todo
    BY <1>1 DEF Scan
<1> HIDE DEF n
<1>4. scan' \in [Scanners -> Scan] /\ scan'[s] = n /\ \A t \in Scanners : t # s => scan'[t] = scan[t]
    BY <1>2, <1>3 DEF ScanTypeOK
<1>5. At(s, "learn") /\ scan[s].run \in Runs /\ scan[s].row \in Row
      /\ run[scan[s].run].state = "completed" /\ Learn(scan[s].run, scan[s].row)
    BY DEF ReplayWrites, ReplayInv
<1> QED BY <1>3, <1>4, <1>5 DEF ReplayWrites

LEMMA PlainAt ==
    ASSUME ScanTypeOK, QuoteInv, NEW s \in Scanners, Plain(s)
    PROVE  /\ run' \in [Runs -> Run]
           /\ \/ UNCHANGED run
              \/ \E x \in Runs :
                   /\ At(s, "quote") /\ scan[s].run = x /\ run[x].state = "triggered"
                   /\ run'[x].state \in {"notified", "ended"} /\ run'[x].item = run[x].item
                   /\ \A q \in Runs : q # x => run'[q] = run[q]
<1>1. CASE UNCHANGED run
    BY <1>1 DEF ScanTypeOK
<1>2. ASSUME At(s, "quote"), NEW state \in {"notified", "ended"}, Moved(s, state)
      PROVE  /\ run' \in [Runs -> Run]
             /\ \E x \in Runs :
                   /\ At(s, "quote") /\ scan[s].run = x /\ run[x].state = "triggered"
                   /\ run'[x].state \in {"notified", "ended"} /\ run'[x].item = run[x].item
                   /\ \A q \in Runs : q # x => run'[q] = run[q]
    <2>1. scan[s].run \in Runs /\ run[scan[s].run].state = "triggered"
        BY <1>2 DEF QuoteInv
    <2>2. PICK x \in Runs : x = scan[s].run
        BY <2>1
    <2>3. run' = [run EXCEPT ![x].state = state]
        BY <1>2, <2>2 DEF Moved
    <2> QED BY <1>2, <2>1, <2>2, <2>3, MovedAt
<1> QED BY <1>1, <1>2 DEF Plain, RunMoves

\* A purchase teaches: by the request that has paid, or by a replay.
Learns(x, row) ==
    LET i == run[x].item IN
    /\ run[x].state = "completed" /\ i \in Items
    /\ rows' \in [Items -> Row] /\ applied' = applied \cup {x}
    /\ \A j \in Items : j # i => rows'[j] = rows[j]
    /\ x \in applied \/ i \in Renewals => rows' = rows
    /\ ~(x \in applied \/ i \in Renewals) => rows'[i].learned = Append(row.learned, x)
    /\ \A q \in Runs \ applied : ~HasLearned(row, q)
    /\ i \notin Renewals \cup slipped /\ x \notin applied => row.learned = rows[i].learned
    /\ scan' \in [Scanners -> Scan] /\ buyer' \in [Runs -> Row \cup {NoRow}]
    /\ \A s \in Scanners : \/ scan'[s] = scan[s]
                           \/ /\ scan'[s].at = "replay" /\ scan'[s].row = NoRow
                              /\ scan'[s].todo \subseteq scan[s].todo
    /\ \A r \in Runs : buyer'[r] \in {buyer[r], NoRow}
    /\ UNCHANGED <<day, run, history, cooling, lease, slipped>>

LEMMA LearnAt ==
    ASSUME ScanTypeOK, RunInv, NEW x \in Runs, NEW row \in Row, run[x].state = "completed",
           Learn(x, row), NEW i, i = run[x].item
    PROVE  /\ i \in Items /\ rows' \in [Items -> Row] /\ applied' = applied \cup {x}
           /\ \A j \in Items : j # i => rows'[j] = rows[j]
           /\ x \in applied \/ i \in Renewals => rows' = rows
           /\ ~(x \in applied \/ i \in Renewals) => rows'[i].learned = Append(row.learned, x)
<1>1. i \in Items /\ rows \in [Items -> Row] /\ applied' = applied \cup {x}
    BY DEF RunInv, ScanTypeOK, Learn
<1> DEFINE n == Learned(row, x)
<1>2. n \in Row /\ n.learned = Append(row.learned, x)
    <2>1. /\ row.last \in Days \cup {Never} /\ row.cadence \in Nat /\ row.learned \in Seq(Runs)
          /\ run[x].bought \in Days
        BY DEF Row, ScanTypeOK, Run
    <2>2. Interval(row, run[x].bought) \in Nat
        BY <2>1, NumbersAssumption DEF Interval, Days, Never
    <2>3. (30 * Interval(row, run[x].bought) + 7 * row.cadence) \div 10 \in Nat
        <3>1. PICK b \in Nat : b = Interval(row, run[x].bought)
            BY <2>2
        <3>2. PICK c \in Nat : c = row.cadence
            BY <2>1
        <3>3. (30 * b + 7 * c) \div 10 \in Nat
            OBVIOUS
        <3> QED BY <3>1, <3>2, <3>3
    <2>4. Append(row.learned, x) \in Seq(Runs)
        BY <2>1
    <2> QED BY <2>1, <2>3, <2>4 DEF Learned, Row
<1>3. rows' = IF x \in applied \/ i \in Renewals THEN rows ELSE [rows EXCEPT ![i] = n]
    BY DEF Learn, IsPending
<1> HIDE DEF n
<1> QED BY <1>1, <1>2, <1>3

LEMMA LearnsAt ==
    ASSUME ScanTypeOK, ScanInv,
           \/ \E r \in Runs : Apply(r)
           \/ \E s \in Scanners : ReplayWrites(s)
    PROVE  \E x \in Runs, row \in Row : Learns(x, row)
<1> USE DEF ScanInv
<1>1. ASSUME NEW x \in Runs, Apply(x) PROVE Learns(x, buyer[x])
    <2>1. buyer[x] \in Row /\ buyer \in [Runs -> Row \cup {NoRow}] /\ scan \in [Scanners -> Scan]
        BY <1>1 DEF Apply, ScanTypeOK
    <2>2. run[x].state = "completed" /\ Learn(x, buyer[x]) /\ buyer[x] # NoRow
        BY <1>1 DEF Apply
    <2>3. \A q \in Runs \ applied : ~HasLearned(buyer[x], q)
        BY <2>2 DEF RowInv
    <2>4. run[x].item \in Items
        BY <2>2 DEF RunInv
    <2>5. run[x].item \notin Renewals \cup slipped /\ x \notin applied
            => buyer[x].learned = rows[run[x].item].learned
        BY <2>2, <2>4 DEF PendingInv
    <2>6. buyer' = [buyer EXCEPT ![x] = NoRow] /\ UNCHANGED <<day, run, history, cooling, lease, scan, slipped>>
        BY <1>1 DEF Apply
    <2>7. buyer' \in [Runs -> Row \cup {NoRow}] /\ \A r \in Runs : buyer'[r] \in {buyer[r], NoRow}
        BY <2>1, <2>6
    <2> QED BY <2>1, <2>2, <2>3, <2>5, <2>6, <2>7, LearnAt DEF Learns
<1>2. ASSUME NEW s \in Scanners, ReplayWrites(s) PROVE Learns(scan[s].run, scan[s].row)
    <2>1. /\ scan' \in [Scanners -> Scan] /\ \A t \in Scanners : t # s => scan'[t] = scan[t]
          /\ At(s, "learn") /\ scan[s].run \in Runs /\ scan[s].row \in Row
          /\ run[scan[s].run].state = "completed" /\ Learn(scan[s].run, scan[s].row)
          /\ scan'[s].at = "replay" /\ scan'[s].row = NoRow /\ scan'[s].todo \subseteq scan[s].todo
          /\ UNCHANGED <<day, run, history, buyer, cooling, lease, slipped>>
        BY <1>2, ReplayWritesAt
    <2>2. PICK x \in Runs, row \in Row : x = scan[s].run /\ row = scan[s].row
        BY <2>1
    <2>3. \A q \in Runs \ applied : ~HasLearned(row, q)
        BY <2>1, <2>2, RowAssumption DEF RowInv
    <2>4. run[x].item \in Items
        BY <2>1, <2>2 DEF RunInv
    <2>5. run[x].item \notin Renewals \cup slipped /\ x \notin applied => row.learned = rows[run[x].item].learned
        BY <2>1, <2>2, <2>4 DEF PendingInv
    <2>6. buyer' \in [Runs -> Row \cup {NoRow}]
        BY <2>1 DEF ScanTypeOK
    <2>7. /\ run[x].state = "completed" /\ Learn(x, row)
          /\ \A t \in Scanners : \/ scan'[t] = scan[t]
                                \/ /\ scan'[t].at = "replay" /\ scan'[t].row = NoRow
                                   /\ scan'[t].todo \subseteq scan[t].todo
          /\ \A r \in Runs : buyer'[r] \in {buyer[r], NoRow}
        BY <2>1, <2>2
    <2>8. /\ rows' \in [Items -> Row] /\ applied' = applied \cup {x}
          /\ \A j \in Items : j # run[x].item => rows'[j] = rows[j]
          /\ x \in applied \/ run[x].item \in Renewals => rows' = rows
          /\ ~(x \in applied \/ run[x].item \in Renewals)
                => rows'[run[x].item].learned = Append(row.learned, x)
        BY <2>7, LearnAt
    <2>9. Learns(x, row)
        BY <2>1, <2>3, <2>4, <2>5, <2>6, <2>7, <2>8 DEF Learns
    <2> QED BY <2>2, <2>9
<1>3. ASSUME NEW x \in Runs, Apply(x) PROVE buyer[x] \in Row
    BY <1>3 DEF Apply, ScanTypeOK
<1>4. ASSUME NEW s \in Scanners, ReplayWrites(s) PROVE scan[s].run \in Runs /\ scan[s].row \in Row
    BY <1>4 DEF ReplayWrites, ReplayInv
<1> QED BY <1>1, <1>2, <1>3, <1>4

-----------------------------------------------------------------------------
(* The trigger scan: what keeps the inductive invariant                    *)

LEMMA DueStays ==
    ASSUME NEW i, NEW row \in Row, day \in Nat, day' \in Nat, day <= day', Due(i, row)
    PROVE  Due(i, row)'
<1>1. CASE i \in Renewals \cup PriceMet
    BY <1>1 DEF Due
<1>2. CASE row.last # Never /\ (row.last + row.cadence \div 10) - day <= TriggerWindow
    <2>1. row.last \in Nat
        BY <1>2, NumbersAssumption DEF Row, Days, Never
    <2>2. PICK c \in Nat : c = row.cadence \div 10
        <3>1. PICK n \in Nat : n = row.cadence
            BY DEF Row
        <3>2. n \div 10 \in Nat
            OBVIOUS
        <3> QED BY <3>1, <3>2
    <2>3. (row.last + c) - day' <= TriggerWindow
        BY <1>2, <2>1, <2>2, NumbersAssumption
    <2> QED BY <1>2, <2>2, <2>3 DEF Due
<1> QED BY <1>1, <1>2 DEF Due

\* Runs are appended to the history.
LEMMA BeforeStays ==
    ASSUME ScanTypeOK, history' = history \/ \E x \in Runs : history' = Append(history, x),
           NEW q, NEW r, Before(q, r)
    PROVE  Before(q, r)'
<1>1. history \in Seq(Runs)
    BY DEF ScanTypeOK
<1>2. CASE history' = history
    BY <1>2 DEF Before
<1>3. ASSUME NEW x \in Runs, history' = Append(history, x) PROVE Before(q, r)'
    <2>0. PICK k \in 1 .. Len(history) : \E j \in 1 .. k - 1 : history[j] = q /\ history[k] = r
        BY DEF Before
    <2>1. PICK j \in 1 .. k - 1 : history[j] = q /\ history[k] = r
        BY <2>0
    <2>2. Len(history) \in Nat /\ Len(history') = Len(history) + 1
          /\ \A m \in 1 .. Len(history) : history'[m] = history[m]
        BY <1>1, <1>3
    <2>3. j \in 1 .. Len(history) /\ k \in 1 .. Len(history')
        BY <2>1, <2>2
    <2> QED BY <2>1, <2>2, <2>3 DEF Before
<1> QED BY <1>2, <1>3

LEMMA OrderStays ==
    ASSUME ScanTypeOK, LearnsInOrder, UNCHANGED applied, slipped \subseteq slipped',
           \A r \in applied : run'[r].item = run[r].item,
           \A i \in Items \ (Renewals \cup slipped') : rows'[i].learned = rows[i].learned,
           history' = history \/ \E x \in Runs : history' = Append(history, x)
    PROVE  LearnsInOrder'
<1>1. SUFFICES ASSUME NEW i \in Items \ (Renewals \cup slipped'), NEW l, l = rows[i].learned
               PROVE /\ {l[k] : k \in 1 .. Len(l)} = {r \in applied : run'[r].item = i}
                     /\ \A k \in 1 .. Len(l) : \A j \in 1 .. k - 1 : Before(l[j], l[k])'
    BY DEF LearnsInOrder
<1>2. /\ {l[k] : k \in 1 .. Len(l)} = {r \in applied : run[r].item = i}
      /\ \A k \in 1 .. Len(l) : \A j \in 1 .. k - 1 : Before(l[j], l[k])
    BY <1>1 DEF LearnsInOrder
<1>3. {r \in applied : run[r].item = i} = {r \in applied : run'[r].item = i}
    OBVIOUS
<1>4. ASSUME NEW k \in 1 .. Len(l), NEW j \in 1 .. k - 1 PROVE Before(l[j], l[k])'
    BY <1>2, BeforeStays
<1> QED BY <1>2, <1>3, <1>4

\* Where scanners stay, completed runs keep their item, and rows their due date.
LEMMA AskStays ==
    ASSUME ScanTypeOK, AskInv, UNCHANGED <<day, rows>>,
           applied \subseteq applied',
           \A r \in Runs : run[r].state = "completed" => run'[r] = run[r],
           \A s \in Scanners : scan'[s] = scan[s] \/ scan'[s].at \notin {"begin", "check", "insert"}
    PROVE  AskInv'
<1>1. SUFFICES ASSUME NEW s \in Scanners, scan'[s] = scan[s], NEW i, i = scan[s].item
      PROVE /\ scan[s].at \in {"begin", "check", "insert"} =>
                 i \in Items /\ scan[s].row \in Row /\ Due(i, scan[s].row)
            /\ scan[s].at \in {"check", "insert"} =>
                 \/ Due(i, rows[i])
                 \/ \E q \in Runs : HasLearned(rows[i], q) /\ ~HasLearned(scan[s].row, q)
            /\ scan[s].at = "insert" => \A r \in Runs \ scan[s].unpaid :
                 run'[r].state = "completed" /\ (run'[r].item = i => r \in applied')
    BY DEF AskInv, At, Due
<1>2. /\ scan[s].at \in {"begin", "check", "insert"} =>
           i \in Items /\ scan[s].row \in Row /\ Due(i, scan[s].row)
      /\ scan[s].at \in {"check", "insert"} =>
           \/ Due(i, rows[i])
           \/ \E q \in Runs : HasLearned(rows[i], q) /\ ~HasLearned(scan[s].row, q)
      /\ scan[s].at = "insert" => \A r \in Runs \ scan[s].unpaid :
           run[r].state = "completed" /\ (run[r].item = i => r \in applied)
    BY <1>1 DEF AskInv, At
<1> QED BY <1>1, <1>2

\* A replay is of completed runs, which stay completed.
LEMMA ReplayStays ==
    ASSUME ScanTypeOK, ReplayInv,
           \A r \in Runs : run[r].state = "completed" => run'[r].state = "completed",
           \A s \in Scanners : \/ scan'[s] = scan[s]
                               \/ scan'[s].at # "learn" /\ scan'[s].todo \subseteq scan[s].todo \cup Pending
    PROVE  ReplayInv'
<1>1. ASSUME NEW s \in Scanners, NEW r \in scan'[s].todo PROVE run'[r].state = "completed"
    <2>1. scan[s].todo \subseteq Runs
        BY DEF ScanTypeOK, Scan
    <2>2. r \in Runs /\ run[r].state = "completed"
        BY <1>1, <2>1 DEF ReplayInv, Pending, IsPending
    <2> QED BY <2>2
<1>2. ASSUME NEW s \in Scanners, scan'[s].at = "learn"
      PROVE  scan'[s].run \in Runs /\ run'[scan'[s].run].state = "completed" /\ scan'[s].row \in Row
    BY <1>2 DEF ReplayInv, At
<1> QED BY <1>1, <1>2 DEF ReplayInv, At

\* Runs are completed by their requests only, and opened by a scanner.
LEMMA RunStays ==
    ASSUME RunInv, UNCHANGED history, \A r \in applied' : run[r].state = "completed",
           \A r \in applied' : r \in Runs,
           \A r \in Runs : /\ run[r].state = "completed" <=> run'[r].state = "completed"
                           /\ run'[r].item = run[r].item
                           /\ run'[r].state # "none" => run[r].state # "none"
                           /\ run'[r].state \in {"triggered", "notified"}
                                => run[r].state \in {"triggered", "notified"}
                           /\ buyer'[r] # NoRow => run'[r].state \in {"notified", "completed"}
    PROVE  RunInv'
<1>1. \A i \in Items : OpenRuns(i)' \subseteq OpenRuns(i)
    BY DEF OpenRuns, RunsOf
<1>2. \A i \in Items : \A q, r \in OpenRuns(i)' : q = r
    BY <1>1 DEF RunInv
<1> QED BY <1>2 DEF RunInv

LEMMA PendingStays ==
    ASSUME ScanTypeOK, RunInv, ReplayInv, PendingInv, UNCHANGED <<history, applied>>,
           slipped \subseteq slipped',
           \A i \in Items \ (Renewals \cup slipped') :
              /\ rows'[i].learned = rows[i].learned
              /\ OpenRuns(i)' \subseteq OpenRuns(i) \/ RunsOf(i, {"completed"}) \subseteq applied,
           \A r \in Runs : /\ run[r].state = "completed" <=> run'[r].state = "completed"
                           /\ run[r].state \in {"notified", "completed"} => run'[r].item = run[r].item
                           /\ buyer'[r] \in {buyer[r], NoRow},
           \A s \in Scanners :
              \/ scan'[s] = scan[s]
              \/ scan'[s].at # "learn"
              \/ /\ scan'[s].run \in scan[s].todo
                 /\ scan'[s].row.learned = rows[run[scan'[s].run].item].learned
    PROVE  PendingInv'
<1> SUFFICES ASSUME NEW i \in Items \ (Renewals \cup slipped')
             PROVE /\ \A r \in RunsOf(i, {"completed"})' \ applied :
                        /\ OpenRuns(i)' = {}
                        /\ \A q \in RunsOf(i, {"completed"})' \ {r} : q \in applied /\ Before(q, r)
                   /\ \A r \in Runs : run'[r].item = i /\ buyer'[r] # NoRow /\ r \notin applied =>
                        buyer'[r].learned = rows[i].learned
                   /\ \A s \in Scanners :
                        scan'[s].at = "learn" /\ run'[scan'[s].run].item = i /\ scan'[s].run \notin applied =>
                        scan'[s].row.learned = rows[i].learned
    BY DEF PendingInv, At, Before
<1>1. RunsOf(i, {"completed"})' = RunsOf(i, {"completed"})
    BY DEF RunsOf
<1>2. ASSUME NEW r \in RunsOf(i, {"completed"})' \ applied
      PROVE  /\ OpenRuns(i)' = {}
             /\ \A q \in RunsOf(i, {"completed"})' \ {r} : q \in applied /\ Before(q, r)
    <2>1. /\ OpenRuns(i) = {}
          /\ \A q \in RunsOf(i, {"completed"}) \ {r} : q \in applied /\ Before(q, r)
        BY <1>1, <1>2 DEF PendingInv
    <2>2. OpenRuns(i)' \subseteq OpenRuns(i)
        BY <1>1, <1>2
    <2> QED BY <1>1, <2>1, <2>2
<1>3. \A r \in Runs : run'[r].item = i /\ buyer'[r] # NoRow /\ r \notin applied =>
        buyer'[r].learned = rows[i].learned
    <2>1. ASSUME NEW r \in Runs, buyer[r] # NoRow, r \notin applied, run[r].item = i
          PROVE  buyer[r].learned = rows[i].learned
        BY <2>1 DEF PendingInv
    <2>2. \A r \in Runs : buyer[r] # NoRow => run[r].state \in {"notified", "completed"}
        BY DEF RunInv
    <2> QED BY <2>1, <2>2
<1>4. ASSUME NEW s \in Scanners, scan'[s].at = "learn", run'[scan'[s].run].item = i,
             scan'[s].run \notin applied
      PROVE  scan'[s].row.learned = rows[i].learned
    <2>1. CASE scan'[s] = scan[s]
        <3>1. scan[s].run \in Runs /\ run[scan[s].run].state = "completed"
            BY <1>4, <2>1 DEF ReplayInv, At
        <3> QED BY <1>4, <2>1, <3>1 DEF PendingInv, At
    <2>2. CASE /\ scan'[s].run \in scan[s].todo
               /\ scan'[s].row.learned = rows[run[scan'[s].run].item].learned
        <3>1. scan'[s].run \in Runs
            BY <2>2 DEF ScanTypeOK, Scan
        <3>2. run[scan'[s].run].state = "completed"
            BY <2>2 DEF ReplayInv
        <3> QED BY <1>4, <2>2, <3>1, <3>2
    <2> QED BY <1>4, <2>1, <2>2
<1> QED BY <1>2, <1>3, <1>4

LEMMA OutsideKeeps ==
    ASSUME ScanTypeOK, ScanInv, Outside
    PROVE  ScanTypeOK' /\ ScanInv'
<1> USE DEF ScanInv
<1>1. ScanTypeOK'
    <2>1. day' \in Days /\ lease' \in Scanners \cup {NoOwner, Gone} /\ cooling' \subseteq Items
        BY DEF ScanTypeOK, Outside
    <2> QED BY <2>1 DEF ScanTypeOK, Outside, effects
<1>2. day \in Nat /\ day' \in Nat /\ day <= day'
    BY NumbersAssumption DEF ScanTypeOK, Outside, Days
<1>3. UNCHANGED <<run, rows, history, applied, scan, slipped>>
    BY DEF Outside, effects
<1>4. RunInv'
    <2>1. \A r \in Runs : buyer'[r] # NoRow => run[r].state \in {"notified", "completed"}
        BY DEF RunInv, Outside
    <2> QED BY <1>3, <2>1 DEF RunInv, OpenRuns, RunsOf
<1>5. RowInv'
    <2>1. ASSUME NEW q \in Runs \ applied, NEW r \in Runs, buyer'[r] # NoRow
          PROVE  ~HasLearned(buyer'[r], q)
        <3>1. run[r].state = "notified" => ~HasLearned(rows[run[r].item], q)
            BY DEF RowInv, RunInv
        <3> QED BY <2>1, <3>1 DEF RowInv, Outside
    <2> QED BY <1>3, <2>1 DEF RowInv
<1>6. ReplayInv'
    BY <1>3 DEF ReplayInv, At
<1>7. AskInv'
    <2> SUFFICES ASSUME NEW s \in Scanners, NEW i, i = scan[s].item
                 PROVE /\ scan[s].at \in {"begin", "check", "insert"} =>
                            i \in Items /\ scan[s].row \in Row /\ Due(i, scan[s].row)'
                       /\ scan[s].at \in {"check", "insert"} =>
                            \/ Due(i, rows[i])'
                            \/ \E q \in Runs : HasLearned(rows[i], q) /\ ~HasLearned(scan[s].row, q)
                       /\ At(s, "insert") => \A r \in Runs \ scan[s].unpaid :
                            run[r].state = "completed" /\ (run[r].item = i => r \in applied)
        BY <1>3 DEF AskInv, At
    <2>1. scan[s].at \in {"begin", "check", "insert"} =>
            i \in Items /\ scan[s].row \in Row /\ Due(i, scan[s].row)'
        <3>1. scan[s].at \in {"begin", "check", "insert"} =>
                i \in Items /\ scan[s].row \in Row /\ Due(i, scan[s].row)
            BY DEF AskInv
        <3> QED BY <1>2, <1>3, <3>1, DueStays DEF Due
    <2>2. scan[s].at \in {"check", "insert"} =>
            \/ Due(i, rows[i])'
            \/ \E q \in Runs : HasLearned(rows[i], q) /\ ~HasLearned(scan[s].row, q)
        <3>1. Due(i, rows[i]) /\ i \in Items => Due(i, rows[i])'
            BY <1>2, <1>3, DueStays DEF Due, ScanTypeOK
        <3> QED BY <3>1 DEF AskInv
    <2>3. At(s, "insert") => \A r \in Runs \ scan[s].unpaid :
            run[r].state = "completed" /\ (run[r].item = i => r \in applied)
        BY DEF AskInv
    <2> QED BY <2>1, <2>2, <2>3
<1>8. QuoteInv'
    BY <1>3 DEF QuoteInv, At
<1>9. PendingInv'
    <2>1. ASSUME NEW i \in Items \ (Renewals \cup slipped), NEW r \in Runs, run[r].item = i,
                 buyer'[r] # NoRow, r \notin applied
          PROVE  buyer'[r].learned = rows[i].learned
        BY <2>1 DEF PendingInv, Outside
    <2> QED BY <1>3, <2>1 DEF PendingInv, OpenRuns, RunsOf, At, Before
<1>10. LearnsInOrder'
    BY <1>3, OrderStays
<1> QED BY <1>1, <1>4, <1>5, <1>6, <1>7, <1>8, <1>9, <1>10

LEMMA CompleteKeeps ==
    ASSUME ScanTypeOK, ScanInv, NEW x \in Runs, Complete(x)
    PROVE  ScanTypeOK' /\ ScanInv'
<1> USE DEF ScanInv
<1>1. /\ run' \in [Runs -> Run] /\ run'[x].state = "completed" /\ run'[x].item = run[x].item
      /\ \A q \in Runs : q # x => run'[q] = run[q]
      /\ run[x].state = "notified" /\ history' = Append(history, x)
      /\ UNCHANGED <<day, rows, applied, buyer, cooling, lease, scan, slipped>>
    BY CompleteAt
<1>2. /\ history \in Seq(Runs) /\ history' \in Seq(Runs)
      /\ Len(history) \in Nat /\ Len(history') = Len(history) + 1
      /\ \A k \in 1 .. Len(history) : history'[k] = history[k]
      /\ history'[Len(history) + 1] = x
    BY <1>1 DEF ScanTypeOK
<1>3. run[x].item \in Items /\ x \notin applied /\ \A k \in 1 .. Len(history) : history[k] # x
    BY <1>1 DEF RunInv
<1>4. ScanTypeOK'
    BY <1>1, <1>2 DEF ScanTypeOK
<1>5. RunInv'
    <2>1. \A r \in Runs : run'[r].state # "none" => run'[r].item \in Items
        BY <1>1, <1>3 DEF RunInv
    <2>2. \A r \in Runs : run'[r].state = "completed" <=> \E k \in 1 .. Len(history') : history'[k] = r
        <3>1. ASSUME NEW r \in Runs, r # x
              PROVE  run'[r].state = "completed" <=> \E k \in 1 .. Len(history') : history'[k] = r
            <4>1. run[r].state = "completed" <=> \E k \in 1 .. Len(history) : history[k] = r
                BY DEF RunInv
            <4> QED BY <1>1, <1>2, <3>1, <4>1
        <3>2. \E k \in 1 .. Len(history') : history'[k] = x
            BY <1>2
        <3> QED BY <1>1, <3>1, <3>2
    <2>3. \A j, k \in 1 .. Len(history') : history'[j] = history'[k] => j = k
        <3>1. \A j, k \in 1 .. Len(history) : history[j] = history[k] => j = k
            BY DEF RunInv
        <3> QED BY <1>2, <1>3, <3>1
    <2>4. \A r \in applied : run'[r].state = "completed"
        BY <1>1, <1>3 DEF RunInv, ScanTypeOK
    <2>5. \A r \in Runs : buyer[r] # NoRow => run'[r].state \in {"notified", "completed"}
        BY <1>1 DEF RunInv
    <2>6. \A i \in Items : \A q, r \in OpenRuns(i)' : q = r
        <3>1. \A i \in Items : OpenRuns(i)' \subseteq OpenRuns(i)
            BY <1>1 DEF OpenRuns, RunsOf
        <3> QED BY <3>1 DEF RunInv
    <2> QED BY <1>1, <2>1, <2>2, <2>3, <2>4, <2>5, <2>6 DEF RunInv
<1>6. RowInv'
    BY <1>1 DEF RowInv
<1>7. ReplayInv'
    <2>1. \A r \in Runs : run[r].state = "completed" => run'[r].state = "completed"
        BY <1>1
    <2> QED BY <1>1, <2>1, ReplayStays
<1>8. AskInv'
    BY <1>1, AskStays
<1>9. QuoteInv'
    BY <1>1 DEF QuoteInv, At
<1>10. PendingInv'
    <2> SUFFICES ASSUME NEW i \in Items \ (Renewals \cup slipped)
                 PROVE /\ \A r \in RunsOf(i, {"completed"})' \ applied :
                            /\ OpenRuns(i)' = {}
                            /\ \A q \in RunsOf(i, {"completed"})' \ {r} : q \in applied /\ Before(q, r)'
                       /\ \A r \in Runs : run'[r].item = i /\ buyer[r] # NoRow /\ r \notin applied =>
                            buyer[r].learned = rows[i].learned
                       /\ \A s \in Scanners :
                            scan[s].at = "learn" /\ run'[scan[s].run].item = i /\ scan[s].run \notin applied =>
                            scan[s].row.learned = rows[i].learned
        BY <1>1 DEF PendingInv, At
    <2>1. ASSUME NEW r \in RunsOf(i, {"completed"})' \ applied
          PROVE  /\ OpenRuns(i)' = {}
                 /\ \A q \in RunsOf(i, {"completed"})' \ {r} : q \in applied /\ Before(q, r)'
        <3>0. r \in Runs /\ run'[r].item = i /\ run'[r].state = "completed"
            BY DEF RunsOf
        <3>1. CASE r # x
            <4>1. r \in RunsOf(i, {"completed"}) \ applied
                BY <1>1, <3>0, <3>1 DEF RunsOf
            <4>2. OpenRuns(i) = {} /\ \A q \in RunsOf(i, {"completed"}) \ {r} : q \in applied /\ Before(q, r)
                BY <4>1 DEF PendingInv
            <4>3. run[x].item # i
                BY <1>1, <4>2 DEF OpenRuns, RunsOf
            <4>4. OpenRuns(i)' = {} /\ RunsOf(i, {"completed"})' = RunsOf(i, {"completed"})
                BY <1>1, <4>2, <4>3 DEF OpenRuns, RunsOf
            <4> QED BY <1>1, <4>2, <4>4, BeforeStays
        <3>2. CASE r = x
            <4>1. x \in OpenRuns(i)
                BY <1>1, <3>0, <3>2 DEF OpenRuns, RunsOf
            <4>2. OpenRuns(i)' = {}
                <5>1. \A q \in OpenRuns(i) : q = x
                    BY <4>1 DEF RunInv
                <5> QED BY <1>1, <5>1 DEF OpenRuns, RunsOf
            <4>3. ASSUME NEW q \in RunsOf(i, {"completed"})' \ {r} PROVE q \in applied /\ Before(q, r)'
                <5>1. q \in RunsOf(i, {"completed"})
                    BY <1>1, <3>2, <4>3 DEF RunsOf
                <5>2. q \in applied
                    BY <4>1, <5>1 DEF PendingInv
                <5>3. PICK j \in 1 .. Len(history) : history[j] = q
                    BY <5>1 DEF RunInv, RunsOf
                <5>4. \E k \in 1 .. Len(history') : \E m \in 1 .. k - 1 : history'[m] = q /\ history'[k] = r
                    <6>1. Len(history) + 1 \in 1 .. Len(history') /\ j \in 1 .. (Len(history) + 1) - 1
                        BY <1>2
                    <6> QED BY <1>2, <3>2, <5>3, <6>1
                <5> QED BY <5>2, <5>4 DEF Before
            <4> QED BY <4>2, <4>3
        <3> QED BY <3>1, <3>2
    <2>2. \A r \in Runs : run'[r].item = i /\ buyer[r] # NoRow /\ r \notin applied =>
            buyer[r].learned = rows[i].learned
        BY <1>1 DEF PendingInv
    <2>3. \A s \in Scanners :
            scan[s].at = "learn" /\ run'[scan[s].run].item = i /\ scan[s].run \notin applied =>
            scan[s].row.learned = rows[i].learned
        BY <1>1 DEF PendingInv, ReplayInv, At
    <2> QED BY <2>1, <2>2, <2>3
<1>11. LearnsInOrder'
    <2>1. \A r \in applied : run'[r].item = run[r].item
        BY <1>1 DEF ScanTypeOK
    <2> QED BY <1>1, <2>1, OrderStays
<1> QED BY <1>4, <1>5, <1>6, <1>7, <1>8, <1>9, <1>10, <1>11

LEMMA EndRunKeeps ==
    ASSUME ScanTypeOK, ScanInv, NEW x \in Runs, EndRun(x)
    PROVE  ScanTypeOK' /\ ScanInv'
<1> USE DEF ScanInv
<1>1. /\ run' \in [Runs -> Run] /\ run'[x].state = "ended" /\ run'[x].item = run[x].item
      /\ \A q \in Runs : q # x => run'[q] = run[q] /\ buyer'[q] = buyer[q]
      /\ run[x].state = "notified" /\ buyer'[x] = NoRow
      /\ buyer' \in [Runs -> Row \cup {NoRow}]
      /\ UNCHANGED <<day, rows, applied, history, cooling, lease, scan, slipped>>
    BY EndRunAt
<1>2. ScanTypeOK'
    BY <1>1 DEF ScanTypeOK
<1>3. applied \subseteq Runs /\ \A r \in applied : run[r].state = "completed"
    BY DEF RunInv, ScanTypeOK
<1>4. RunInv'
    <2>1. \A r \in Runs : buyer'[r] # NoRow => run'[r].state \in {"notified", "completed"}
        BY <1>1 DEF RunInv
    <2> QED BY <1>1, <1>3, <2>1, RunStays
<1>5. RowInv'
    BY <1>1 DEF RowInv
<1>6. \A r \in Runs : run[r].state = "completed" => run'[r] = run[r] /\ run'[r].state = "completed"
    BY <1>1
<1>7. ReplayInv'
    BY <1>1, <1>6, ReplayStays
<1>8. AskInv'
    BY <1>1, <1>6, AskStays
<1>9. QuoteInv'
    BY <1>1 DEF QuoteInv, At
<1>10. PendingInv'
    <2>1. \A i \in Items : OpenRuns(i)' \subseteq OpenRuns(i)
        BY <1>1 DEF OpenRuns, RunsOf
    <2> QED BY <1>1, <2>1, PendingStays
<1>11. LearnsInOrder'
    BY <1>1, <1>3, OrderStays
<1> QED BY <1>2, <1>4, <1>5, <1>7, <1>8, <1>9, <1>10, <1>11

LEMMA PlainKeeps ==
    ASSUME ScanTypeOK, ScanInv, NEW s \in Scanners, Plain(s)
    PROVE  ScanTypeOK' /\ ScanInv'
<1> USE DEF ScanInv
<1>1. /\ run' \in [Runs -> Run]
      /\ \/ UNCHANGED run
         \/ \E x \in Runs :
              /\ At(s, "quote") /\ scan[s].run = x /\ run[x].state = "triggered"
              /\ run'[x].state \in {"notified", "ended"} /\ run'[x].item = run[x].item
              /\ \A q \in Runs : q # x => run'[q] = run[q]
    BY PlainAt
<1>2. /\ \A t \in Scanners : t # s => scan'[t] = scan[t]
      /\ scan' \in [Scanners -> Scan]
      /\ scan'[s].at \in {"idle", "items", "replay"}
      /\ scan'[s].row \in {scan[s].row, NoRow}
      /\ scan'[s].todo \in {scan[s].todo, Pending, {}}
      /\ UNCHANGED <<day, rows, history, applied, buyer, slipped>>
    BY DEF Plain, effects
<1>3. ScanTypeOK'
    <2>1. cooling' \subseteq Items /\ lease' \in Scanners \cup {NoOwner, Gone}
        BY DEF Plain
    <2> QED BY <1>1, <1>2, <2>1 DEF ScanTypeOK
<1>4. applied \subseteq Runs /\ \A r \in applied : run[r].state = "completed"
    BY DEF RunInv, ScanTypeOK
<1>5. \A r \in Runs : /\ run[r].state = "completed" <=> run'[r].state = "completed"
                      /\ run[r].state # "triggered" => run'[r] = run[r]
                      /\ run'[r].item = run[r].item
                      /\ run'[r].state # "none" => run[r].state # "none"
                      /\ run'[r].state \in {"triggered", "notified"}
                           => run[r].state \in {"triggered", "notified"}
    BY <1>1
<1>6. RunInv'
    <2>1. \A r \in Runs : buyer'[r] # NoRow => run'[r].state \in {"notified", "completed"}
        BY <1>1, <1>2, <1>5 DEF RunInv
    <2> QED BY <1>2, <1>4, <1>5, <2>1, RunStays
<1>7. RowInv'
    BY <1>2 DEF RowInv
<1>8. ReplayInv'
    <2>1. \A t \in Scanners : \/ scan'[t] = scan[t]
                              \/ scan'[t].at # "learn" /\ scan'[t].todo \subseteq scan[t].todo \cup Pending
        BY <1>2
    <2> QED BY <1>5, <2>1, ReplayStays
<1>9. AskInv'
    <2>1. \A t \in Scanners : scan'[t] = scan[t] \/ scan'[t].at \notin {"begin", "check", "insert"}
        BY <1>2
    <2> QED BY <1>2, <1>5, <2>1, AskStays
<1>10. QuoteInv'
    <2>1. ASSUME NEW t \in Scanners, scan'[t].at = "quote"
          PROVE  t # s /\ scan'[t] = scan[t] /\ run'[scan[t].run] = run[scan[t].run]
        <3>1. t # s /\ scan'[t] = scan[t]
            BY <1>2, <2>1
        <3>2. At(s, "quote") => scan[s].run # scan[t].run
            BY <2>1, <3>1 DEF QuoteInv, At
        <3>3. scan[t].run \in Runs
            BY <2>1, <3>1 DEF QuoteInv, At
        <3> QED BY <1>1, <3>1, <3>2, <3>3
    <2> QED BY <2>1 DEF QuoteInv, At
<1>11. PendingInv'
    <2>1. \A i \in Items : OpenRuns(i)' \subseteq OpenRuns(i)
        BY <1>5 DEF OpenRuns, RunsOf
    <2>2. \A t \in Scanners : scan'[t] = scan[t] \/ scan'[t].at # "learn"
        BY <1>2
    <2> QED BY <1>2, <1>5, <2>1, <2>2, PendingStays
<1>12. LearnsInOrder'
    BY <1>2, <1>4, <1>5, OrderStays
<1> QED BY <1>3, <1>6, <1>7, <1>8, <1>9, <1>10, <1>11, <1>12

\* A scanner that has read a row or found no effects pending changes nothing else.
LEMMA ReadsKeeps ==
    ASSUME ScanTypeOK, ScanInv, NEW s \in Scanners, Reads(s) \/ Asks(s) \/ Passes(s)
    PROVE  ScanTypeOK' /\ ScanInv'
<1> USE DEF ScanInv
<1>1. /\ scan' \in [Scanners -> Scan] /\ \A t \in Scanners : t # s => scan'[t] = scan[t]
      /\ scan'[s].todo = scan[s].todo
      /\ UNCHANGED <<day, rows, run, history, applied, buyer, cooling, lease, slipped>>
    BY ReadsAt, AsksAt, PassesAt
<1>2. /\ Reads(s) => /\ scan'[s].at = "learn" /\ scan'[s].run \in scan[s].todo
                     /\ scan'[s].run \in Runs /\ run[scan'[s].run].item \in Items
                     /\ scan'[s].row = rows[run[scan'[s].run].item] /\ scan'[s].row \in Row
      /\ Asks(s) => /\ scan'[s].at = "begin" /\ scan'[s].item \in Items
                    /\ Due(scan'[s].item, rows[scan'[s].item])
                    /\ scan'[s].row = rows[scan'[s].item] /\ scan'[s].row \in Row
      /\ Passes(s) => /\ At(s, "check") /\ scan'[s].at = "insert" /\ scan'[s].unpaid = Unpaid
                      /\ scan'[s].item = scan[s].item /\ scan'[s].row = scan[s].row
    BY ReadsAt, AsksAt, PassesAt
<1>3. ScanTypeOK'
    BY <1>1 DEF ScanTypeOK
<1>4. RunInv'
    BY <1>1 DEF RunInv, OpenRuns, RunsOf
<1>5. RowInv'
    <2>1. \A i \in Items, q \in Runs \ applied : ~HasLearned(rows[i], q)
        BY DEF RowInv
    <2>2. ASSUME NEW q \in Runs \ applied, scan'[s].row # NoRow PROVE ~HasLearned(scan'[s].row, q)
        <3>1. CASE Reads(s) \/ Asks(s)
            BY <1>2, <2>1, <3>1
        <3>2. CASE Passes(s)
            BY <1>2, <2>2, <3>2 DEF RowInv
        <3> QED BY <3>1, <3>2
    <2> QED BY <1>1, <2>2 DEF RowInv
<1>6. ReplayInv'
    <2>1. \A r \in scan'[s].todo : run[r].state = "completed"
        BY <1>1 DEF ReplayInv
    <2>2. scan'[s].at = "learn" => /\ scan'[s].run \in Runs /\ run[scan'[s].run].state = "completed"
                                   /\ scan'[s].row \in Row
        BY <1>1, <1>2, <2>1
    <2> QED BY <1>1, <2>1, <2>2 DEF ReplayInv, At
<1>7. AskInv'
    <2> DEFINE Holds(t) ==
                 /\ scan'[t].at \in {"begin", "check", "insert"} =>
                      scan'[t].item \in Items /\ scan'[t].row \in Row /\ Due(scan'[t].item, scan'[t].row)
                 /\ scan'[t].at \in {"check", "insert"} =>
                      \/ Due(scan'[t].item, rows[scan'[t].item])
                      \/ \E q \in Runs : HasLearned(rows[scan'[t].item], q) /\ ~HasLearned(scan'[t].row, q)
                 /\ scan'[t].at = "insert" => \A r \in Runs \ scan'[t].unpaid :
                      run[r].state = "completed" /\ (run[r].item = scan'[t].item => r \in applied)
    <2>1. ASSUME NEW t \in Scanners, t # s PROVE Holds(t)
        BY <1>1, <2>1 DEF AskInv, At
    <2>2. CASE Reads(s) \/ Asks(s)
        <3>1. Holds(s)
            BY <1>2, <2>2
        <3> QED BY <1>1, <2>1, <3>1 DEF AskInv, At, Due
    <2>3. CASE Passes(s)
        <3>1. /\ scan[s].item \in Items /\ scan[s].row \in Row /\ Due(scan[s].item, scan[s].row)
              /\ \/ Due(scan[s].item, rows[scan[s].item])
                 \/ \E q \in Runs : HasLearned(rows[scan[s].item], q) /\ ~HasLearned(scan[s].row, q)
            BY <1>2, <2>3 DEF AskInv, At
        <3>2. \A r \in Runs \ Unpaid :
                 run[r].state = "completed" /\ (run[r].item = scan[s].item => r \in applied)
            BY <2>3 DEF Passes, Unpaid, IsPending
        <3>3. Holds(s)
            BY <1>2, <2>3, <3>1, <3>2
        <3> QED BY <1>1, <2>1, <3>3 DEF AskInv, At, Due
    <2> QED BY <2>2, <2>3
<1>8. QuoteInv'
    <2>1. scan'[s].at # "quote"
        BY <1>2
    <2> QED BY <1>1, <2>1 DEF QuoteInv, At
<1>9. PendingInv'
    <2>1. \A i \in Items : OpenRuns(i)' \subseteq OpenRuns(i)
        BY <1>1 DEF OpenRuns, RunsOf
    <2>2. \/ scan'[s].at # "learn"
          \/ scan'[s].run \in scan[s].todo /\ scan'[s].row.learned = rows[run[scan'[s].run].item].learned
        BY <1>2
    <2> QED BY <1>1, <2>1, <2>2, PendingStays
<1>10. LearnsInOrder'
    BY <1>1, OrderStays
<1> QED BY <1>3, <1>4, <1>5, <1>6, <1>7, <1>8, <1>9, <1>10

LEMMA WriteBackKeeps ==
    ASSUME ScanTypeOK, ScanInv, NEW s \in Scanners, WriteBack(s)
    PROVE  ScanTypeOK' /\ ScanInv'
<1> USE DEF ScanInv
<1> DEFINE i == scan[s].item
<1>1. /\ scan' \in [Scanners -> Scan] /\ \A t \in Scanners : t # s => scan'[t] = scan[t]
      /\ At(s, "begin") /\ i \in Items /\ scan[s].row \in Row /\ Due(i, scan[s].row)
      /\ scan'[s].at = "check" /\ scan'[s].item = i /\ scan'[s].row = scan[s].row
      /\ scan'[s].todo = scan[s].todo
      /\ rows' = [rows EXCEPT ![i] = scan[s].row] /\ rows' \in [Items -> Row]
      /\ rows'[i] = scan[s].row /\ \A j \in Items : j # i => rows'[j] = rows[j]
      /\ slipped' = IF scan[s].row.learned # rows[i].learned THEN slipped \cup {i} ELSE slipped
      /\ UNCHANGED <<day, run, history, applied, buyer, cooling, lease>>
    BY WriteBackAt
<1> HIDE DEF i
<1>2. ScanTypeOK'
    BY <1>1 DEF ScanTypeOK
<1>3. RunInv'
    BY <1>1 DEF RunInv, OpenRuns, RunsOf
<1>4. RowInv'
    <2>1. \A q \in Runs \ applied : ~HasLearned(scan[s].row, q)
        BY <1>1, RowAssumption DEF RowInv
    <2> QED BY <1>1, <2>1 DEF RowInv
<1>5. ReplayInv'
    BY <1>1, ReplayStays
<1>6. AskInv'
    <2> DEFINE Holds(t) ==
                 /\ scan'[t].at \in {"begin", "check", "insert"} =>
                      scan'[t].item \in Items /\ scan'[t].row \in Row /\ Due(scan'[t].item, scan'[t].row)
                 /\ scan'[t].at \in {"check", "insert"} =>
                      \/ Due(scan'[t].item, rows'[scan'[t].item])
                      \/ \E q \in Runs : HasLearned(rows'[scan'[t].item], q) /\ ~HasLearned(scan'[t].row, q)
                 /\ scan'[t].at = "insert" => \A r \in Runs \ scan'[t].unpaid :
                      run[r].state = "completed" /\ (run[r].item = scan'[t].item => r \in applied)
    <2>1. ASSUME NEW t \in Scanners, t # s PROVE Holds(t)
        <3>1. /\ scan[t].at \in {"begin", "check", "insert"} =>
                   scan[t].item \in Items /\ scan[t].row \in Row /\ Due(scan[t].item, scan[t].row)
              /\ scan[t].at \in {"check", "insert"} =>
                   \/ Due(scan[t].item, rows[scan[t].item])
                   \/ \E q \in Runs : HasLearned(rows[scan[t].item], q) /\ ~HasLearned(scan[t].row, q)
              /\ scan[t].at = "insert" => \A r \in Runs \ scan[t].unpaid :
                   run[r].state = "completed" /\ (run[r].item = scan[t].item => r \in applied)
            BY DEF AskInv, At
        <3>2. scan[t].item \in Items =>
                \/ rows'[scan[t].item] = rows[scan[t].item]
                \/ Due(scan[t].item, rows'[scan[t].item])
            BY <1>1
        <3> QED BY <1>1, <2>1, <3>1, <3>2
    <2>2. Holds(s)
        BY <1>1
    <2> QED BY <1>1, <2>1, <2>2 DEF AskInv, At, Due
<1>7. QuoteInv'
    BY <1>1 DEF QuoteInv, At
<1>8. PendingInv'
    <2>1. \A j \in Items : OpenRuns(j)' \subseteq OpenRuns(j)
        BY <1>1 DEF OpenRuns, RunsOf
    <2>2. slipped \subseteq slipped' /\ \A j \in Items \ slipped' : rows'[j].learned = rows[j].learned
        BY <1>1
    <2>3. \A t \in Scanners : scan'[t] = scan[t] \/ scan'[t].at # "learn"
        BY <1>1
    <2> QED BY <1>1, <2>1, <2>2, <2>3, PendingStays
<1>9. LearnsInOrder'
    <2>1. slipped \subseteq slipped' /\ \A j \in Items \ slipped' : rows'[j].learned = rows[j].learned
        BY <1>1
    <2> QED BY <1>1, <2>1, OrderStays
<1> QED BY <1>2, <1>3, <1>4, <1>5, <1>6, <1>7, <1>8, <1>9

LEMMA LearnsKeeps ==
    ASSUME ScanTypeOK, ScanInv, NEW x \in Runs, NEW row \in Row, Learns(x, row)
    PROVE  ScanTypeOK' /\ ScanInv'
<1> USE DEF ScanInv
<1>1. PICK i \in Items : i = run[x].item
    BY DEF Learns
<1>2. /\ run[x].state = "completed"
      /\ rows' \in [Items -> Row] /\ applied' = applied \cup {x}
      /\ \A j \in Items : j # i => rows'[j] = rows[j]
      /\ x \in applied \/ i \in Renewals => rows' = rows
      /\ ~(x \in applied \/ i \in Renewals) => rows'[i].learned = Append(row.learned, x)
      /\ \A q \in Runs \ applied : ~HasLearned(row, q)
      /\ i \notin Renewals \cup slipped /\ x \notin applied => row.learned = rows[i].learned
      /\ scan' \in [Scanners -> Scan] /\ buyer' \in [Runs -> Row \cup {NoRow}]
      /\ \A s \in Scanners : \/ scan'[s] = scan[s]
                             \/ /\ scan'[s].at = "replay" /\ scan'[s].row = NoRow
                                /\ scan'[s].todo \subseteq scan[s].todo
      /\ \A r \in Runs : buyer'[r] \in {buyer[r], NoRow}
      /\ UNCHANGED <<day, run, history, cooling, lease, slipped>>
    BY <1>1 DEF Learns
\* What the row of the run's item has learned.
<1>3. row.learned \in Seq(Runs) /\ \A j \in Items : rows'[j].learned \in Seq(Runs)
    BY <1>2 DEF Row
<1>4. /\ \A q : HasLearned(row, q) <=> \E k \in 1 .. Len(row.learned) : row.learned[k] = q
      /\ \A q : HasLearned(rows'[i], q) <=> \E k \in 1 .. Len(rows'[i].learned) : rows'[i].learned[k] = q
    BY DEF HasLearned
<1>5. ASSUME x \notin applied, i \notin Renewals
      PROVE  \A q : HasLearned(rows'[i], q) <=> HasLearned(row, q) \/ q = x
    <2>1. PICK l \in Seq(Runs) : l = row.learned
        BY <1>3
    <2>2. rows'[i].learned = Append(l, x)
        BY <1>2, <1>5, <2>1
    <2>3. \A q : (\E k \in 1 .. Len(Append(l, x)) : Append(l, x)[k] = q)
                   <=> (\E k \in 1 .. Len(l) : l[k] = q) \/ q = x
        <3>1. /\ Len(l) \in Nat /\ Len(Append(l, x)) = Len(l) + 1
              /\ \A k \in 1 .. Len(l) : Append(l, x)[k] = l[k]
              /\ Append(l, x)[Len(l) + 1] = x
            OBVIOUS
        <3>2. PICK m : m = Append(l, x)
            OBVIOUS
        <3> QED BY <3>1, <3>2
    <2> QED BY <1>4, <2>1, <2>2, <2>3
<1>6. ScanTypeOK'
    BY <1>2 DEF ScanTypeOK
<1>7. \A r \in applied' : run[r].state = "completed"
    BY <1>2 DEF RunInv
<1>8. RunInv'
    <2>1. \A r \in Runs : buyer'[r] # NoRow => run'[r].state \in {"notified", "completed"}
        BY <1>2 DEF RunInv
    <2>2. \A r \in applied' : r \in Runs
        BY <1>2 DEF ScanTypeOK
    <2> QED BY <1>2, <1>7, <2>1, <2>2, RunStays
<1>9. RowInv'
    <2>1. ASSUME NEW q \in Runs \ applied', NEW j \in Items PROVE ~HasLearned(rows'[j], q)
        <3>1. q \in Runs \ applied /\ q # x /\ ~HasLearned(rows[j], q) /\ ~HasLearned(row, q)
            BY <1>2, <2>1 DEF RowInv
        <3>2. CASE j = i /\ x \notin applied /\ i \notin Renewals
            BY <1>5, <3>1, <3>2
        <3>3. CASE ~(j = i /\ x \notin applied /\ i \notin Renewals)
            BY <1>2, <3>1, <3>3
        <3> QED BY <3>2, <3>3
    <2>2. ASSUME NEW q \in Runs \ applied'
          PROVE  /\ \A r \in Runs : buyer'[r] # NoRow => ~HasLearned(buyer'[r], q)
                 /\ \A s \in Scanners : scan'[s].row # NoRow => ~HasLearned(scan'[s].row, q)
        BY <1>2 DEF RowInv
    <2> QED BY <2>1, <2>2 DEF RowInv
<1>10. ReplayInv'
    <2>1. \A s \in Scanners : \/ scan'[s] = scan[s]
                              \/ scan'[s].at # "learn" /\ scan'[s].todo \subseteq scan[s].todo \cup Pending
        BY <1>2
    <2> QED BY <1>2, <2>1, ReplayStays
\* An item that is due has learned this, or is due still.
<1>11. AskInv'
    <2>1. ASSUME NEW s \in Scanners, scan'[s].at \in {"begin", "check", "insert"}
          PROVE  /\ scan'[s] = scan[s]
                 /\ scan[s].item \in Items /\ scan[s].row \in Row /\ Due(scan[s].item, scan[s].row)
                 /\ scan[s].at \in {"check", "insert"} =>
                      \/ Due(scan[s].item, rows'[scan[s].item])
                      \/ \E q \in Runs : HasLearned(rows'[scan[s].item], q) /\ ~HasLearned(scan[s].row, q)
                 /\ scan[s].at = "insert" => \A r \in Runs \ scan[s].unpaid :
                      run[r].state = "completed" /\ (run[r].item = scan[s].item => r \in applied')
        <3>1. scan'[s] = scan[s]
            BY <1>2, <2>1
        <3>2. /\ scan[s].item \in Items /\ scan[s].row \in Row /\ Due(scan[s].item, scan[s].row)
              /\ scan[s].at \in {"check", "insert"} =>
                   \/ Due(scan[s].item, rows[scan[s].item])
                   \/ \E q \in Runs : HasLearned(rows[scan[s].item], q) /\ ~HasLearned(scan[s].row, q)
              /\ scan[s].at = "insert" => \A r \in Runs \ scan[s].unpaid :
                   run[r].state = "completed" /\ (run[r].item = scan[s].item => r \in applied)
            BY <2>1, <3>1 DEF AskInv, At
        <3>3. CASE scan[s].item = i /\ x \notin applied /\ i \notin Renewals
            <4>1. HasLearned(rows'[i], x)
                BY <1>5, <3>3
            <4>2. ~HasLearned(scan[s].row, x)
                BY <3>2, <3>3, RowAssumption DEF RowInv
            <4> QED BY <1>2, <3>1, <3>2, <3>3, <4>1, <4>2
        <3>4. CASE ~(scan[s].item = i /\ x \notin applied /\ i \notin Renewals)
            <4>1. rows'[scan[s].item] = rows[scan[s].item]
                BY <1>2, <3>2, <3>4
            <4> QED BY <1>2, <3>1, <3>2, <4>1
        <3> QED BY <3>3, <3>4
    <2> QED BY <1>2, <2>1 DEF AskInv, At, Due
<1>12. QuoteInv'
    <2>1. \A s \in Scanners : scan'[s].at = "quote" => scan'[s] = scan[s]
        BY <1>2
    <2> QED BY <1>2, <2>1 DEF QuoteInv, At
<1>13. \A j \in Items \ (Renewals \cup slipped) : j # i \/ x \in applied => rows'[j] = rows[j]
    BY <1>2
<1>14. PendingInv'
    <2> SUFFICES ASSUME NEW j \in Items \ (Renewals \cup slipped)
                 PROVE /\ \A r \in RunsOf(j, {"completed"}) \ applied' :
                            /\ OpenRuns(j) = {}
                            /\ \A q \in RunsOf(j, {"completed"}) \ {r} : q \in applied' /\ Before(q, r)
                       /\ \A r \in Runs : run[r].item = j /\ buyer'[r] # NoRow /\ r \notin applied' =>
                            buyer'[r].learned = rows'[j].learned
                       /\ \A s \in Scanners :
                            scan'[s].at = "learn" /\ run[scan'[s].run].item = j /\ scan'[s].run \notin applied' =>
                            scan'[s].row.learned = rows'[j].learned
        BY <1>2 DEF PendingInv, At, Before, OpenRuns, RunsOf
    <2>1. \A r \in RunsOf(j, {"completed"}) \ applied :
             /\ OpenRuns(j) = {}
             /\ \A q \in RunsOf(j, {"completed"}) \ {r} : q \in applied /\ Before(q, r)
        BY DEF PendingInv
    <2>2. \A r \in RunsOf(j, {"completed"}) \ applied' :
             /\ OpenRuns(j) = {}
             /\ \A q \in RunsOf(j, {"completed"}) \ {r} : q \in applied' /\ Before(q, r)
        BY <1>2, <2>1
    <2>3. ASSUME x \notin applied, j = i
          PROVE  \A r \in Runs : run[r].item = j /\ run[r].state \in {"notified", "completed"} => r \in applied'
        <3>1. x \in RunsOf(j, {"completed"}) \ applied
            BY <1>1, <1>2, <2>3 DEF RunsOf
        <3>2. OpenRuns(j) = {} /\ \A q \in RunsOf(j, {"completed"}) \ {x} : q \in applied
            BY <2>1, <3>1
        <3> QED BY <1>2, <3>2 DEF OpenRuns, RunsOf
    <2>4. ASSUME NEW r \in Runs, run[r].item = j, buyer'[r] # NoRow, r \notin applied'
          PROVE  buyer'[r].learned = rows'[j].learned
        <3>1. buyer'[r] = buyer[r] /\ r \notin applied /\ run[r].state \in {"notified", "completed"}
            BY <1>2, <2>4 DEF RunInv
        <3>2. buyer[r].learned = rows[j].learned
            BY <2>4, <3>1 DEF PendingInv
        <3>3. j # i \/ x \in applied
            BY <2>3, <2>4, <3>1
        <3> QED BY <1>13, <3>1, <3>2, <3>3
    <2>5. ASSUME NEW s \in Scanners, scan'[s].at = "learn", run[scan'[s].run].item = j,
                 scan'[s].run \notin applied'
          PROVE  scan'[s].row.learned = rows'[j].learned
        <3>1. scan'[s] = scan[s] /\ scan[s].run \notin applied
            BY <1>2, <2>5
        <3>2. scan[s].run \in Runs /\ run[scan[s].run].state = "completed"
            BY <2>5, <3>1 DEF ReplayInv, At
        <3>3. scan[s].row.learned = rows[j].learned
            BY <2>5, <3>1 DEF PendingInv, At
        <3>4. j # i \/ x \in applied
            BY <2>3, <2>5, <3>1, <3>2
        <3> QED BY <1>13, <3>1, <3>3, <3>4
    <2> QED BY <2>2, <2>4, <2>5
<1>15. LearnsInOrder'
    <2>1. SUFFICES ASSUME NEW j \in Items \ (Renewals \cup slipped), NEW l, l = rows'[j].learned
                   PROVE /\ {l[k] : k \in 1 .. Len(l)} = {r \in applied' : run[r].item = j}
                         /\ \A k \in 1 .. Len(l) : \A m \in 1 .. k - 1 : Before(l[m], l[k])'
        BY <1>2 DEF LearnsInOrder
    <2>2. PICK o \in Seq(Runs) : o = rows[j].learned
        BY DEF ScanTypeOK, Row
    <2>3. /\ {o[k] : k \in 1 .. Len(o)} = {r \in applied : run[r].item = j}
          /\ \A k \in 1 .. Len(o) : \A m \in 1 .. k - 1 : Before(o[m], o[k])
        BY <2>2 DEF LearnsInOrder
    <2>4. CASE j # i \/ x \in applied
        <3>1. l = o
            BY <1>13, <2>1, <2>2, <2>4
        <3>2. {r \in applied' : run[r].item = j} = {r \in applied : run[r].item = j}
            BY <1>1, <1>2, <2>4
        <3>3. ASSUME NEW k \in 1 .. Len(l), NEW m \in 1 .. k - 1 PROVE Before(l[m], l[k])'
            BY <1>2, <2>3, <3>1, BeforeStays
        <3> QED BY <2>3, <3>1, <3>2, <3>3
    <2>5. CASE j = i /\ x \notin applied
        <3>1. l = Append(o, x)
            BY <1>2, <2>1, <2>2, <2>5
        <3>2. /\ Len(o) \in Nat /\ Len(l) = Len(o) + 1
              /\ \A k \in 1 .. Len(o) : l[k] = o[k]
              /\ l[Len(o) + 1] = x
            BY <3>1
        <3>3. {r \in applied' : run[r].item = j} = {r \in applied : run[r].item = j} \cup {x}
            BY <1>1, <1>2, <2>5
        <3>4. {l[k] : k \in 1 .. Len(l)} = {o[k] : k \in 1 .. Len(o)} \cup {x}
            BY <3>2
        <3>5. \A k \in 1 .. Len(o) : o[k] \in applied /\ run[o[k]].item = j
            BY <2>3
        <3>6. ASSUME NEW q \in applied, run[q].item = j PROVE Before(q, x)
            <4>1. x \in RunsOf(j, {"completed"}) \ applied
                BY <1>1, <1>2, <2>5 DEF RunsOf
            <4>2. q \in RunsOf(j, {"completed"}) \ {x}
                BY <2>5, <3>6 DEF RunsOf, RunInv, ScanTypeOK
            <4> QED BY <4>1, <4>2 DEF PendingInv
        <3>7. ASSUME NEW k \in 1 .. Len(l), NEW m \in 1 .. k - 1 PROVE Before(l[m], l[k])'
            <4>0. SUFFICES Before(l[m], l[k])
                BY <1>2, BeforeStays
            <4>1. CASE k \in 1 .. Len(o)
                <5>1. m \in 1 .. Len(o)
                    BY <3>2, <4>1
                <5> QED BY <2>3, <3>2, <4>1, <5>1
            <4>2. CASE k = Len(o) + 1
                <5>1. m \in 1 .. Len(o)
                    BY <3>2, <4>2
                <5> QED BY <3>2, <3>5, <3>6, <4>2, <5>1
            <4> QED BY <3>2, <4>1, <4>2
        <3> QED BY <2>3, <3>3, <3>4, <3>7
    <2> QED BY <2>4, <2>5
<1> QED BY <1>6, <1>8, <1>9, <1>10, <1>11, <1>12, <1>14, <1>15

LEMMA InsertKeeps ==
    ASSUME ScanTypeOK, ScanInv, NEW s \in Scanners, Insert(s)
    PROVE  ScanTypeOK' /\ ScanInv'
<1> USE DEF ScanInv
<1>0. PICK i : i = scan[s].item
    OBVIOUS
<1>1. /\ i \in Items /\ At(s, "insert") /\ OpenRuns(i) = {}
      /\ run' \in [Runs -> Run]
      /\ scan' \in [Scanners -> Scan] /\ \A t \in Scanners : t # s => scan'[t] = scan[t]
      /\ scan'[s].at = "quote" /\ scan'[s].item = i /\ scan'[s].row = NoRow /\ scan'[s].todo = {}
      /\ slipped' = IF \E q \in scan[s].unpaid : run[q].item = i /\ IsPending(q)
                    THEN slipped \cup {i} ELSE slipped
      /\ cooling' \subseteq Items
      /\ UNCHANGED <<day, rows, history, applied, buyer, lease>>
    BY <1>0, InsertAt
<1>2. PICK x \in Runs : /\ run[x].state = "none" /\ scan'[s].run = x
                        /\ run'[x].state = "triggered" /\ run'[x].item = i
                        /\ \A q \in Runs : q # x => run'[q] = run[q]
    BY <1>0, InsertAt
<1>3. ScanTypeOK'
    <2>1. slipped' \subseteq Items
        BY <1>1 DEF ScanTypeOK
    <2> QED BY <1>1, <2>1 DEF ScanTypeOK
<1>4. /\ \A r \in Runs : run[r].state # "none" => r # x /\ run'[r] = run[r]
      /\ x \notin applied /\ buyer[x] = NoRow /\ \A r \in applied : r \in Runs /\ run'[r] = run[r]
    BY <1>2 DEF RunInv, ScanTypeOK
<1>5. RunInv'
    <2>1. \A r \in Runs : run'[r].state # "none" => run'[r].item \in Items
        BY <1>1, <1>2 DEF RunInv
    <2>2. \A r \in Runs : run'[r].state = "completed" <=> \E k \in 1 .. Len(history) : history[k] = r
        <3>1. \A r \in Runs : run'[r].state = "completed" <=> run[r].state = "completed"
            BY <1>2
        <3> QED BY <3>1 DEF RunInv
    <2>3. \A r \in applied : run'[r].state = "completed"
        BY <1>4 DEF RunInv
    <2>4. \A r \in Runs : buyer[r] # NoRow => run'[r].state \in {"notified", "completed"}
        BY <1>2, <1>4 DEF RunInv
    <2>5. ASSUME NEW j \in Items, NEW q \in OpenRuns(j)', NEW r \in OpenRuns(j)' PROVE q = r
        <3>1. CASE j = i
            BY <1>1, <1>2, <3>1 DEF OpenRuns, RunsOf
        <3>2. CASE j # i
            <4>1. q \in OpenRuns(j) /\ r \in OpenRuns(j)
                BY <1>2, <3>2 DEF OpenRuns, RunsOf
            <4> QED BY <4>1 DEF RunInv
        <3> QED BY <3>1, <3>2
    <2> QED BY <1>1, <2>1, <2>2, <2>3, <2>4, <2>5 DEF RunInv
<1>6. RowInv'
    BY <1>1 DEF RowInv
<1>7. \A r \in Runs : run[r].state = "completed" => run'[r] = run[r] /\ run'[r].state = "completed"
    BY <1>2
<1>8. ReplayInv'
    <2>1. \A t \in Scanners : \/ scan'[t] = scan[t]
                              \/ scan'[t].at # "learn" /\ scan'[t].todo \subseteq scan[t].todo \cup Pending
        BY <1>1
    <2> QED BY <1>7, <2>1, ReplayStays
<1>9. AskInv'
    <2>1. \A t \in Scanners : scan'[t] = scan[t] \/ scan'[t].at \notin {"begin", "check", "insert"}
        BY <1>1
    <2> QED BY <1>1, <1>7, <2>1, AskStays
<1>10. QuoteInv'
    <2>1. \A t \in Scanners : t # s /\ scan'[t].at = "quote" =>
             /\ scan'[t] = scan[t] /\ scan[t].run # x /\ scan[t].item \in Items /\ scan[t].run \in Runs
             /\ run'[scan[t].run].state = "triggered" /\ run'[scan[t].run].item = scan[t].item
        BY <1>1, <1>2 DEF QuoteInv, At
    <2>2. \A t, u \in Scanners : t # s /\ u # s /\ scan[t].at = "quote" /\ scan[u].at = "quote"
                                 /\ scan[u].run = scan[t].run => u = t
        BY DEF QuoteInv, At
    <2> QED BY <1>1, <1>2, <2>1, <2>2 DEF QuoteInv, At
\* The purchases of the item that begin had not seen are not pending either.
<1>11. i \notin slipped' => RunsOf(i, {"completed"}) \subseteq applied
    <2>1. \A r \in Runs \ scan[s].unpaid : run[r].item = i => r \in applied
        BY <1>0, <1>1 DEF AskInv
    <2> QED BY <1>1, <2>1 DEF RunsOf, IsPending
<1>12. PendingInv'
    <2>1. slipped \subseteq slipped'
        BY <1>1
    <2>2. \A j \in Items \ (Renewals \cup slipped') :
             OpenRuns(j)' \subseteq OpenRuns(j) \/ RunsOf(j, {"completed"}) \subseteq applied
        <3>1. ASSUME NEW j \in Items, j # i PROVE OpenRuns(j)' \subseteq OpenRuns(j)
            BY <1>2, <3>1 DEF OpenRuns, RunsOf
        <3> QED BY <1>11, <3>1
    <2>3. \A r \in Runs : /\ run[r].state = "completed" <=> run'[r].state = "completed"
                          /\ run[r].state \in {"notified", "completed"} => run'[r].item = run[r].item
                          /\ buyer'[r] \in {buyer[r], NoRow}
        BY <1>1, <1>2
    <2>4. \A t \in Scanners : scan'[t] = scan[t] \/ scan'[t].at # "learn"
        BY <1>1
    <2> QED BY <1>1, <2>1, <2>2, <2>3, <2>4, PendingStays
<1>13. LearnsInOrder'
    <2>1. slipped \subseteq slipped'
        BY <1>1
    <2> QED BY <1>1, <1>4, <2>1, OrderStays
<1> QED BY <1>3, <1>5, <1>6, <1>8, <1>9, <1>10, <1>12, <1>13

-----------------------------------------------------------------------------
(* The trigger scan: theorems                                              *)

LEMMA ScanInitKeeps == ScanInit => ScanTypeOK /\ ScanInv
<1> SUFFICES ASSUME ScanInit PROVE ScanTypeOK /\ ScanInv
    OBVIOUS
<1>1. ScanTypeOK
    <2>1. 0 \in Days /\ Never \in Days \cup {Never}
        BY NumbersAssumption DEF Days
    <2>2. << >> \in Seq(Runs) /\ Cadence \in Nat
        BY NumbersAssumption
    <2>3. rows \in [Items -> Row]
        <3>1. \A i \in Items : [last |-> IF i \in ColdItems THEN Never ELSE 0,
                                cadence |-> Cadence, learned |-> << >>] \in Row
            BY <2>1, <2>2 DEF Row
        <3> QED BY <3>1 DEF ScanInit
    <2>4. run \in [Runs -> Run]
        <3>1. [state |-> "none", item |-> NoItem, bought |-> 0] \in Run
            BY <2>1 DEF Run
        <3> QED BY <3>1 DEF ScanInit
    <2>5. Idle \in Scan
        BY DEF Idle, Scan
    <2>6. scan \in [Scanners -> Scan] /\ buyer \in [Runs -> Row \cup {NoRow}]
        BY <2>5 DEF ScanInit
    <2>7. day \in Days /\ history \in Seq(Runs) /\ applied \subseteq Runs /\ cooling \subseteq Items
          /\ lease \in Scanners \cup {NoOwner, Gone} /\ slipped \subseteq Items
        BY <2>1, <2>2 DEF ScanInit
    <2> QED BY <2>3, <2>4, <2>6, <2>7 DEF ScanTypeOK
<1>2. /\ \A i \in Items : rows[i].learned = << >>
      /\ \A r \in Runs : run[r].state = "none" /\ buyer[r] = NoRow
      /\ \A s \in Scanners : scan[s].at = "idle" /\ scan[s].row = NoRow /\ scan[s].todo = {}
      /\ history = << >> /\ applied = {} /\ Len(history) = 0
    BY DEF ScanInit, Idle
<1>3. RunInv
    BY <1>2 DEF RunInv, OpenRuns, RunsOf
<1>4. RowInv
    <2>1. \A i \in Items : Len(rows[i].learned) = 0
        BY <1>2
    <2> QED BY <1>2, <2>1 DEF RowInv, HasLearned
<1>5. ReplayInv /\ AskInv /\ QuoteInv
    BY <1>2 DEF ReplayInv, AskInv, QuoteInv, At
<1>6. PendingInv
    BY <1>2 DEF PendingInv, RunsOf, At
<1>7. LearnsInOrder
    <2> SUFFICES ASSUME NEW i \in Items, NEW l, l = rows[i].learned
                 PROVE  /\ {l[k] : k \in 1 .. Len(l)} = {r \in applied : run[r].item = i}
                        /\ \A k \in 1 .. Len(l) : \A j \in 1 .. k - 1 : Before(l[j], l[k])
        BY DEF LearnsInOrder
    <2>1. Len(l) = 0
        BY <1>2
    <2>2. 1 .. Len(l) = {}
        BY <2>1
    <2>3. {r \in applied : run[r].item = i} = {}
        BY <1>2
    <2> QED BY <2>2, <2>3
<1> QED BY <1>1, <1>3, <1>4, <1>5, <1>6, <1>7 DEF ScanInv

LEMMA ScanStepKeeps ==
    ASSUME ScanTypeOK, ScanInv, [ScanNext]_scanVars
    PROVE  ScanTypeOK' /\ ScanInv'
<1>1. ScanTypeOK /\ RunInv /\ QuoteInv
    BY DEF ScanInv
<1>2. CASE Outside
    BY <1>2, OutsideKeeps
<1>3. CASE \E r \in Runs : Complete(r)
    BY <1>3, CompleteKeeps
<1>4. CASE \E r \in Runs : EndRun(r)
    BY <1>4, EndRunKeeps
<1>5. CASE (\E r \in Runs : Apply(r)) \/ (\E s \in Scanners : ReplayWrites(s))
    BY <1>5, LearnsAt, LearnsKeeps
<1>6. CASE \E s \in Scanners : Plain(s)
    BY <1>6, PlainKeeps
<1>7. CASE \E s \in Scanners : Reads(s) \/ Asks(s) \/ Passes(s)
    BY <1>7, ReadsKeeps
<1>8. CASE \E s \in Scanners : WriteBack(s)
    BY <1>8, WriteBackKeeps
<1>9. CASE \E s \in Scanners : Insert(s)
    BY <1>9, InsertKeeps
<1> QED BY <1>1, <1>2, <1>3, <1>4, <1>5, <1>6, <1>7, <1>8, <1>9, ScanStepIs

\* The types of the scan's state, for every number of items, runs and scanners.
THEOREM ScanTyping == ScanSpec => []ScanTypeOK
<1>1. ScanInit => ScanTypeOK /\ ScanInv
    BY ScanInitKeeps
<1>2. (ScanTypeOK /\ ScanInv) /\ [ScanNext]_scanVars => (ScanTypeOK /\ ScanInv)'
    BY ScanStepKeeps
<1> QED BY <1>1, <1>2, PTL DEF ScanSpec

\* The invariant of the scan: what is in the history, who has read which row, and
\* that the one purchase of an item that is pending is its last.
THEOREM ScanInvariant == ScanSpec => []ScanInv
<1>1. ScanInit => ScanTypeOK /\ ScanInv
    BY ScanInitKeeps
<1>2. (ScanTypeOK /\ ScanInv) /\ [ScanNext]_scanVars => (ScanTypeOK /\ ScanInv)'
    BY ScanStepKeeps
<1> QED BY <1>1, <1>2, PTL DEF ScanSpec

\* A row has learned the purchases whose effects are applied (service.py:186-214),
\* once and in their order, unless a trigger wrote an older row back or opened a run
\* on effects it had not seen.
THEOREM LearnedInOrder == ScanSpec => []LearnsInOrder
<1>1. ScanInv => LearnsInOrder
    BY DEF ScanInv
<1> QED BY <1>1, ScanInvariant, PTL

\* begin opens a run for an item that is due (service.py:541-616), whatever was
\* bought or written back since the scan listed it.
THEOREM OpenedDue == ScanSpec => OpenedWhenDue
<1>1. ScanTypeOK /\ ScanInv /\ [ScanNext]_scanVars =>
      [\A s \in Scanners, r \in Runs :
         LET i == scan[s].item IN
         At(s, "insert") /\ run[r].state = "none" /\ run'[r].item = i /\ scan'[s].run = r
           => \/ Due(i, rows[i])
              \/ \E q \in Runs : HasLearned(rows[i], q) /\ ~HasLearned(scan[s].row, q)]_scanVars
    BY DEF ScanInv, AskInv, At
<1>2. ScanSpec => []ScanTypeOK /\ []ScanInv
    BY ScanTyping, ScanInvariant
<1> QED BY <1>1, <1>2, PTL DEF ScanSpec, OpenedWhenDue
=============================================================================
