----------------------------- MODULE TriggerScan ------------------------------
(***************************************************************************)
(* The trigger scan: what opens a run for a tracked item, and what the     *)
(* item learns when the run has bought it.                                 *)
(*                                                                         *)
(* A scanner is one caller of POST /scan or, if in Workers, the worker     *)
(* process.  Under the lease "trigger-scan" it replays the completion      *)
(* effects that are pending, lists the items that are due and asks for     *)
(* each one's trigger: the item is read again, and WorkflowService.begin   *)
(* writes it back, opens the run and quotes it.  The user's requests       *)
(* (module Workflow) meanwhile buy: the request that pays a run has read   *)
(* the item before and writes the learned row after the run is completed.  *)
(*                                                                         *)
(* Days are whole; a cadence is in tenths of a day.  What a run does       *)
(* between its notification and its end is not told apart here.            *)
(***************************************************************************)
EXTENDS Integers, Sequences

CONSTANTS
    Items, Runs, Scanners,
    Workers,        \* the scanners that are worker processes
    Renewals,       \* the items with a renewal date, which is inside the window
    PriceMet,       \* the items whose observed price meets the user's threshold
    ColdItems,      \* the items tracked before they were ever bought
    Cadence,        \* the user's cadence estimate, in tenths of a day
    TriggerWindow,  \* TRIGGER_WINDOW_DAYS
    MaxDay,         \* the last day of the run
    Mortal,         \* the scanners that may die, or meet an error of Prava
    NoOwner, Gone, NoItem, NoRun, NoRow

ASSUME KindsAssumption ==
    /\ Workers \subseteq Scanners /\ Mortal \subseteq Scanners
    /\ Renewals \subseteq Items /\ PriceMet \subseteq Items /\ ColdItems \subseteq Items
    /\ (PriceMet \cup ColdItems) \cap Renewals = {}
ASSUME NumbersAssumption ==
    Cadence \in Nat /\ TriggerWindow \in Nat /\ MaxDay \in Nat
ASSUME NamesAssumption ==
    /\ NoOwner \notin Scanners /\ Gone \notin Scanners /\ NoOwner # Gone
    /\ NoItem \notin Items /\ NoRun \notin Runs

VARIABLES
    day,       \* date.today()
    rows,      \* the tracked_items rows
    run,       \* the workflow_runs rows
    history,   \* the completion_effects rows, oldest first
    applied,   \* those of them that are completed
    buyer,     \* the item as the request that pays a run has read it
    cooling,   \* items whose latest run failed for want of a quote, lately
    lease,     \* the owner of the lease "trigger-scan"
    scan,      \* where each scanner is
    slipped    \* items whose row was written over, or that were bought again
               \* before the row had learned, in one of the windows named below

effects == <<history, applied>>
purchase == <<run, effects, buyer>>
scanVars == <<day, rows, purchase, cooling, lease, scan, slipped>>

-----------------------------------------------------------------------------

Days == 0 .. MaxDay
Never == -1

\* "learned": the purchases the row has taken in, in that order.
Row == [last : Days \cup {Never}, cadence : Nat, learned : Seq(Runs)]
Run == [state : {"none", "triggered", "notified", "completed", "ended"},
        item : Items \cup {NoItem}, bought : Days]

\* "unpaid": the runs that were not completed when begin looked for pending effects.
Scan == [at : {"idle", "replay", "learn", "items", "begin", "check", "insert", "quote"},
         todo : SUBSET Runs, due : SUBSET Items, item : Items \cup {NoItem},
         row : Row \cup {NoRow}, run : Runs \cup {NoRun}, unpaid : SUBSET Runs]
Idle == [at |-> "idle", todo |-> {}, due |-> {}, item |-> NoItem, row |-> NoRow,
         run |-> NoRun, unpaid |-> {}]

ASSUME RowAssumption == NoRow \notin Row

ScanTypeOK ==
    /\ day \in Days
    /\ rows \in [Items -> Row]
    /\ run \in [Runs -> Run]
    /\ history \in Seq(Runs) /\ applied \subseteq Runs
    /\ buyer \in [Runs -> Row \cup {NoRow}]
    /\ cooling \subseteq Items
    /\ lease \in Scanners \cup {NoOwner, Gone}
    /\ scan \in [Scanners -> Scan]
    /\ slipped \subseteq Items

ScanInit ==
    /\ day = 0
    /\ rows = [i \in Items |-> [last |-> IF i \in ColdItems THEN Never ELSE 0,
                                cadence |-> Cadence, learned |-> << >>]]
    /\ run = [r \in Runs |-> [state |-> "none", item |-> NoItem, bought |-> 0]]
    /\ history = << >> /\ applied = {}
    /\ buyer = [r \in Runs |-> NoRow]
    /\ cooling = {}
    /\ lease = NoOwner
    /\ scan = [s \in Scanners |-> Idle]
    /\ slipped = {}

RunsOf(i, states) == {r \in Runs : run[r].item = i /\ run[r].state \in states}
OpenRuns(i) == RunsOf(i, {"triggered", "notified"})
Unused == {r \in Runs : run[r].state = "none"}
Unpaid == {r \in Runs : run[r].state # "completed"}
IsPending(r) == run[r].state = "completed" /\ r \notin applied
Pending == {r \in Runs : IsPending(r)}

\* q was completed before r.
Before(q, r) ==
    \E k \in 1 .. Len(history) : \E j \in 1 .. k - 1 : history[j] = q /\ history[k] = r

-----------------------------------------------------------------------------
(* The trigger and what a purchase teaches                                 *)

\* should_fire of consumption_model and renewal_model.  A renewal keeps its date
\* and a price its threshold when the item is bought.
Due(i, row) ==
    \/ i \in Renewals \cup PriceMet
    \/ row.last # Never /\ (row.last + row.cadence \div 10) - day <= TriggerWindow

Interval(row, bought) == IF bought > row.last THEN bought - row.last ELSE 1

\* The cadence moves by three tenths of the way towards the observed interval.
Learned(row, r) ==
    [last |-> run[r].bought,
     cadence |-> (30 * Interval(row, run[r].bought) + 7 * row.cadence) \div 10,
     learned |-> Append(row.learned, r)]

\* _apply_completion_effects begins with the assertion that the item was bought before.
Teachable(i, row) == i \in Renewals \/ row.last # Never

\* Effects are applied once; the row is written whole, a renewal's not at all.
Learn(r, row) ==
    /\ applied' = applied \cup {r}
    /\ rows' = IF ~IsPending(r) \/ run[r].item \in Renewals THEN rows
               ELSE [rows EXCEPT ![run[r].item] = Learned(row, r)]

-----------------------------------------------------------------------------
(* The requests of the user                                                *)

\* A request that is about to pay the run has read the item ...
ReadItem(r) ==
    /\ run[r].state = "notified" /\ buyer[r] = NoRow
    /\ buyer' = [buyer EXCEPT ![r] = rows[run[r].item]]
    /\ UNCHANGED <<day, rows, run, effects, cooling, lease, scan, slipped>>

\* ... pays, and completes the run with its effects pending ...
Complete(r) ==
    /\ run[r].state = "notified" /\ buyer[r] # NoRow
    /\ run' = [run EXCEPT ![r].state = "completed", ![r].bought = day]
    /\ history' = Append(history, r)
    /\ UNCHANGED <<day, rows, applied, buyer, cooling, lease, scan, slipped>>

\* ... and writes what the item it has read learns by that.
Apply(r) ==
    /\ run[r].state = "completed" /\ buyer[r] # NoRow
    /\ Teachable(run[r].item, buyer[r])
    /\ Learn(r, buyer[r])
    /\ buyer' = [buyer EXCEPT ![r] = NoRow]
    /\ UNCHANGED <<day, run, history, cooling, lease, scan, slipped>>

\* The request dies, or fails the assertion.
BuyerEnds(r) ==
    /\ buyer[r] # NoRow
    /\ buyer' = [buyer EXCEPT ![r] = NoRow]
    /\ UNCHANGED <<day, rows, run, effects, cooling, lease, scan, slipped>>

\* Skipped, rejected, expired or failed.
EndRun(r) ==
    /\ run[r].state = "notified"
    /\ run' = [run EXCEPT ![r].state = "ended"]
    /\ buyer' = [buyer EXCEPT ![r] = NoRow]
    /\ UNCHANGED <<day, rows, effects, cooling, lease, scan, slipped>>

NextDay ==
    /\ day < MaxDay
    /\ day' = day + 1
    /\ UNCHANGED <<rows, purchase, cooling, lease, scan, slipped>>

\* RESTOCK_QUOTE_FAILURE_COOLDOWN_SECONDS have passed.
CooldownEnds(i) ==
    /\ i \in cooling
    /\ cooling' = cooling \ {i}
    /\ UNCHANGED <<day, rows, purchase, lease, scan, slipped>>

-----------------------------------------------------------------------------
(* The scan                                                                *)

At(s, label) == scan[s].at = label
Goto(s, label) == scan' = [scan EXCEPT ![s].at = label]
NextItem(s) ==
    scan' = [scan EXCEPT ![s] = [Idle EXCEPT !.at = "items", !.due = scan[s].due]]

\* The process ends.  It starts again under another owner name.
Die(s) ==
    /\ scan' = [scan EXCEPT ![s] = Idle]
    /\ lease' = IF lease = s THEN Gone ELSE lease

\* release_lease deletes the caller's own claim only; the worker keeps its claim
\* until it runs out.
Release(s) ==
    /\ scan' = [scan EXCEPT ![s] = Idle]
    /\ lease' = IF lease = s /\ s \notin Workers THEN NoOwner ELSE lease

\* Neither main nor the requests it makes catch anything; the route releases
\* the lease on its way out.
Raise(s) == IF s \in Workers THEN Die(s) ELSE Release(s)

\* Mutant: the first refusal ends the scan.
RefuseAll(s) == Raise(s)

\* A refusal is a line of the route's answer, and an HTTPError in the worker.
Refuse(s) == IF s \in Workers THEN Die(s) ELSE NextItem(s) /\ UNCHANGED lease

\* Mutant: the scan does not look for pending effects.
AcquireOnly(s) ==
    /\ At(s, "idle") /\ lease \in {NoOwner, s}
    /\ lease' = s
    /\ Goto(s, "replay")
    /\ UNCHANGED <<day, rows, purchase, cooling, slipped>>

Acquire(s) ==
    /\ At(s, "idle") /\ lease \in {NoOwner, s}
    /\ lease' = s
    /\ scan' = [scan EXCEPT ![s].at = "replay", ![s].todo = Pending]
    /\ UNCHANGED <<day, rows, purchase, cooling, slipped>>

\* The lease is not renewed during a scan.
LeaseRunsOut ==
    /\ lease # NoOwner
    /\ lease' = NoOwner
    /\ UNCHANGED <<day, rows, purchase, cooling, scan, slipped>>

\* repair_pending_completion_effects, the oldest run first: read the item ...
Replay(s) ==
    /\ At(s, "replay")
    /\ \E r \in scan[s].todo :
         LET i == run[r].item IN
         /\ \A q \in scan[s].todo \ {r} : Before(r, q)
         /\ IF Teachable(i, rows[i])
            THEN /\ scan' = [scan EXCEPT ![s].at = "learn", ![s].run = r, ![s].row = rows[i]]
                 /\ UNCHANGED lease
            ELSE Raise(s)
    /\ UNCHANGED <<day, rows, purchase, cooling, slipped>>

\* ... and write what it has learned.
ReplayWrites(s) ==
    /\ At(s, "learn")
    /\ Learn(scan[s].run, scan[s].row)
    /\ scan' = [scan EXCEPT ![s].at = "replay", ![s].todo = @ \ {scan[s].run},
                            ![s].run = NoRun, ![s].row = NoRow]
    /\ UNCHANGED <<day, run, history, buyer, cooling, lease, slipped>>

List(s) ==
    /\ At(s, "replay") /\ scan[s].todo = {}
    /\ scan' = [scan EXCEPT ![s].at = "items", ![s].due = {i \in Items : Due(i, rows[i])}]
    /\ UNCHANGED <<day, rows, purchase, cooling, lease, slipped>>

Finish(s) ==
    /\ At(s, "items") /\ scan[s].due = {}
    /\ Release(s)
    /\ UNCHANGED <<day, rows, purchase, cooling, slipped>>

-----------------------------------------------------------------------------
(* trigger_item and begin                                                  *)

\* Mutant: the trigger trusts the list of the scan.
AskListed(s, i) ==
    /\ At(s, "items") /\ i \in scan[s].due
    /\ scan' = [scan EXCEPT ![s].due = @ \ {i}, ![s].at = "begin",
                            ![s].item = i, ![s].row = rows[i]]
    /\ UNCHANGED <<day, rows, purchase, cooling, lease, slipped>>

\* The item is read again, is still due, and was not just refused a quote.
Ask(s, i) ==
    /\ At(s, "items") /\ i \in scan[s].due
    /\ IF i \in cooling \/ ~Due(i, rows[i])
       THEN IF Due(i, rows[i]) \/ s \notin Workers
            THEN scan' = [scan EXCEPT ![s].due = @ \ {i}] /\ UNCHANGED lease
            ELSE Die(s)
       ELSE /\ scan' = [scan EXCEPT ![s].due = @ \ {i}, ![s].at = "begin",
                                    ![s].item = i, ![s].row = rows[i]]
            /\ UNCHANGED lease
    /\ UNCHANGED <<day, rows, purchase, cooling, slipped>>

\* Over a cap, the budget lease is taken, or there is no proposal.
BeginRefuses(s) ==
    /\ At(s, "begin") /\ Refuse(s)
    /\ UNCHANGED <<day, rows, purchase, cooling, slipped>>

\* begin stores the item it was given.  First window: what the row has learned
\* since the trigger read it is gone.
WriteBack(s) ==
    LET i == scan[s].item IN
    /\ At(s, "begin")
    /\ rows' = [rows EXCEPT ![i] = scan[s].row]
    /\ slipped' = IF scan[s].row.learned # rows[i].learned THEN slipped \cup {i} ELSE slipped
    /\ Goto(s, "check")
    /\ UNCHANGED <<day, purchase, cooling, lease>>

\* Mutant: effects that are pending do not keep a run from being opened.
CheckNothing(s) ==
    /\ At(s, "check")
    /\ scan' = [scan EXCEPT ![s].at = "insert", ![s].unpaid = Unpaid]
    /\ UNCHANGED <<day, rows, purchase, cooling, lease, slipped>>

\* create_workflow looks for pending effects of the item ...
Check(s) ==
    LET i == scan[s].item IN
    /\ At(s, "check")
    /\ IF \E r \in Runs : run[r].item = i /\ IsPending(r)
       THEN Refuse(s)
       ELSE /\ scan' = [scan EXCEPT ![s].at = "insert", ![s].unpaid = Unpaid]
            /\ UNCHANGED lease
    /\ UNCHANGED <<day, rows, purchase, cooling, slipped>>

\* ... and inserts the run, the only open one of its item.  Second window: one of
\* its runs has been completed since, and its effects are pending.
Insert(s) ==
    LET i == scan[s].item IN
    /\ At(s, "insert") /\ OpenRuns(i) = {}
    /\ Unused # {}
    /\ LET r == CHOOSE q \in Unused : TRUE IN
         /\ run' = [run EXCEPT ![r].state = "triggered", ![r].item = i]
         /\ scan' = [scan EXCEPT ![s] = [Idle EXCEPT !.at = "quote", !.due = scan[s].due,
                                                !.item = i, !.run = r]]
    /\ slipped' = IF \E q \in scan[s].unpaid : run[q].item = i /\ IsPending(q)
                  THEN slipped \cup {i} ELSE slipped
    /\ cooling' = cooling \ {i}
    /\ UNCHANGED <<day, rows, effects, buyer, lease>>

\* duplicate_suppressed; also where the model has no run left.
Suppress(s) ==
    /\ At(s, "insert")
    /\ OpenRuns(scan[s].item) # {} \/ Unused = {}
    /\ NextItem(s)
    /\ UNCHANGED <<day, rows, purchase, cooling, lease, slipped>>

Moved(s, state) == run' = [run EXCEPT ![scan[s].run].state = state]

\* Quote, intent and notification.
Announce(s) ==
    /\ At(s, "quote") /\ Moved(s, "notified") /\ NextItem(s)
    /\ UNCHANGED <<day, rows, effects, buyer, cooling, lease, slipped>>

QuoteFails(s) ==
    /\ At(s, "quote") /\ scan[s].item \notin Renewals
    /\ Moved(s, "ended") /\ cooling' = cooling \cup {scan[s].item}
    /\ Refuse(s)
    /\ UNCHANGED <<day, rows, effects, buyer, slipped>>

\* The budget lease ran out, or another commitment filled the cap.
BudgetLost(s) ==
    /\ At(s, "quote") /\ Moved(s, "ended") /\ Refuse(s)
    /\ UNCHANGED <<day, rows, effects, buyer, cooling, slipped>>

\* The error of Prava is none of those the route expects.
IntentFails(s) ==
    /\ At(s, "quote") /\ s \in Mortal
    /\ Moved(s, "ended") /\ Raise(s)
    /\ UNCHANGED <<day, rows, effects, buyer, cooling, slipped>>

\* The process dies anywhere in a scan.  (A trigger that outlives its worker is a
\* scanner whose lease ran out.)
Crash(s) ==
    /\ ~At(s, "idle") /\ s \in Mortal
    /\ Die(s)
    /\ UNCHANGED <<day, rows, purchase, cooling, slipped>>

-----------------------------------------------------------------------------

Step(s) ==
    \/ Replay(s) \/ ReplayWrites(s) \/ List(s) \/ Finish(s)
    \/ \E i \in Items : Ask(s, i)
    \/ BeginRefuses(s) \/ WriteBack(s) \/ Check(s) \/ Insert(s) \/ Suppress(s)
    \/ Announce(s) \/ QuoteFails(s) \/ BudgetLost(s) \/ IntentFails(s)

ScanNext ==
    \/ \E r \in Runs : ReadItem(r) \/ Complete(r) \/ Apply(r) \/ BuyerEnds(r) \/ EndRun(r)
    \/ NextDay
    \/ \E i \in Items : CooldownEnds(i)
    \/ \E s \in Scanners : Acquire(s) \/ Step(s) \/ Crash(s)
    \/ LeaseRunsOut

ScanSpec == ScanInit /\ [][ScanNext]_scanVars

\* The route is called again and again and does not always find the lease taken, a
\* started scan goes on, a lease whose owner is done or gone runs out.  Nothing is
\* asked of the worker's supervisor, or of the user's requests.
FairScanSpec ==
    /\ ScanSpec
    /\ \A s \in Scanners \ Workers : SF_scanVars(Acquire(s))
    /\ \A s \in Scanners : WF_scanVars(Step(s))
    /\ WF_scanVars((lease = Gone \/ \E s \in Scanners : lease = s /\ At(s, "idle")) /\ LeaseRunsOut)

-----------------------------------------------------------------------------
(* The inductive invariant behind the properties                           *)

HasLearned(row, r) == \E k \in 1 .. Len(row.learned) : row.learned[k] = r

\* The history has the completed runs, each once, and an item has one open run.
RunInv ==
    /\ \A r \in Runs : run[r].state # "none" => run[r].item \in Items
    /\ \A r \in Runs : run[r].state = "completed" <=> \E k \in 1 .. Len(history) : history[k] = r
    /\ \A j, k \in 1 .. Len(history) : history[j] = history[k] => j = k
    /\ \A r \in applied : run[r].state = "completed"
    /\ \A r \in Runs : buyer[r] # NoRow => run[r].state \in {"notified", "completed"}
    /\ \A i \in Items : \A q, r \in OpenRuns(i) : q = r

\* A row, wherever it was read, has learned what was applied.
RowInv ==
    \A q \in Runs \ applied :
        /\ \A i \in Items : ~HasLearned(rows[i], q)
        /\ \A r \in Runs : buyer[r] # NoRow => ~HasLearned(buyer[r], q)
        /\ \A s \in Scanners : scan[s].row # NoRow => ~HasLearned(scan[s].row, q)

\* What a scanner that replays has in hand.
ReplayInv ==
    \A s \in Scanners :
        /\ \A r \in scan[s].todo : run[r].state = "completed"
        /\ At(s, "learn") => /\ scan[s].run \in Runs /\ run[scan[s].run].state = "completed"
                             /\ scan[s].row \in Row

\* What a scanner that asks for a trigger has in hand.
AskInv ==
    \A s \in Scanners :
        LET i == scan[s].item IN
        /\ scan[s].at \in {"begin", "check", "insert"} =>
             i \in Items /\ scan[s].row \in Row /\ Due(i, scan[s].row)
        /\ scan[s].at \in {"check", "insert"} =>
             \/ Due(i, rows[i])
             \/ \E q \in Runs : HasLearned(rows[i], q) /\ ~HasLearned(scan[s].row, q)
        /\ At(s, "insert") => \A r \in Runs \ scan[s].unpaid :
             run[r].state = "completed" /\ (run[r].item = i => r \in applied)

\* The run a scanner has opened is its own until it is notified.
QuoteInv ==
    \A s \in Scanners : At(s, "quote") =>
        /\ scan[s].item \in Items /\ scan[s].run \in Runs
        /\ run[scan[s].run].state = "triggered" /\ run[scan[s].run].item = scan[s].item
        /\ \A t \in Scanners : At(t, "quote") /\ scan[t].run = scan[s].run => t = s

\* One purchase of an item is pending, the last one, and whoever will write what
\* it teaches has read the row as it is.
PendingInv ==
    \A i \in Items \ (Renewals \cup slipped) :
        /\ \A r \in RunsOf(i, {"completed"}) \ applied :
             /\ OpenRuns(i) = {}
             /\ \A q \in RunsOf(i, {"completed"}) \ {r} : q \in applied /\ Before(q, r)
        /\ \A r \in Runs : run[r].item = i /\ buyer[r] # NoRow /\ r \notin applied =>
             buyer[r].learned = rows[i].learned
        /\ \A s \in Scanners :
             At(s, "learn") /\ run[scan[s].run].item = i /\ scan[s].run \notin applied =>
             scan[s].row.learned = rows[i].learned

-----------------------------------------------------------------------------
(* Properties                                                              *)

\* A purchase whose effects are applied has reached the row of its item, once and
\* in the order of the purchases, although the row is read and written in separate
\* transactions by paying requests, replays and triggers - unless one of the two
\* windows was hit: a trigger stored the item as it was before
\* (service.py:616), or opened a run on effects that became pending after it had
\* looked (repository.py:1300-1327).
LearnsInOrder ==
    \A i \in Items \ (Renewals \cup slipped) :
        LET learned == rows[i].learned IN
        /\ {learned[k] : k \in 1 .. Len(learned)} = {r \in applied : run[r].item = i}
        /\ \A k \in 1 .. Len(learned) : \A j \in 1 .. k - 1 : Before(learned[j], learned[k])

ScanInv == RunInv /\ RowInv /\ ReplayInv /\ AskInv /\ QuoteInv /\ PendingInv /\ LearnsInOrder

\* A run is opened for an item whose row says it is due at that moment, whatever
\* was bought since the scan listed it and however triggers write rows back -
\* unless the row has learned a purchase since this trigger read it.
OpenedWhenDue ==
    [][\A s \in Scanners, r \in Runs :
         LET i == scan[s].item IN
         At(s, "insert") /\ run[r].state = "none" /\ run'[r].item = i /\ scan'[s].run = r
           => \/ Due(i, rows[i])
              \/ \E q \in Runs : HasLearned(rows[i], q) /\ ~HasLearned(scan[s].row, q)]_scanVars

\* Purchases that cannot be replayed: the item was not bought before.
Unteachable(r) == IsPending(r) /\ ~Teachable(run[r].item, rows[run[r].item])

\* "Completion work is database-only and safe to replay before new triggers,
\* including after a process or deployment restart" (worker.py:98-99): what a dead
\* request has left pending is applied by a scan - unless these effects, or older
\* ones, fail the assertion of service.py:188, which ends every replay.
EffectsAreReplayed ==
    \A r \in Runs : IsPending(r) ~>
        \/ ~IsPending(r)
        \/ \E k \in 1 .. Len(history) : \E j \in 1 .. k :
              history[k] = r /\ Unteachable(history[j])

\* An item that is due is asked for, however the items before it fared, as long as
\* scans are not ended early for ever: by errors of Prava, or by effects that
\* cannot be replayed.
EveryDueItemIsAsked ==
    \A i \in Items :
        []<>(\/ ~Due(i, rows[i]) \/ i \in cooling
             \/ \E s \in Scanners : At(s, "begin") /\ scan[s].item = i
             \/ \E r \in Runs : Unteachable(r))
=============================================================================
