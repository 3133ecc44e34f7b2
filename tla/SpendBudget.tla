----------------------------- MODULE SpendBudget -----------------------------
(***************************************************************************)
(* The monthly spend cap of one user: the "spend-budget" lease, the cap    *)
(* checks of workflow/service.py (begin, adjust, reapproval) and the       *)
(* workflow_runs and transactions rows they count.                         *)
(*                                                                         *)
(* A cap check is two queries in two database sessions; between them, and  *)
(* between the check and the write it allows, runs of the same user go on. *)
(* Everything a run does after the approval is reduced to what it does to  *)
(* the sums (module Workflow has the rest).                                *)
(***************************************************************************)
EXTENDS Integers, FiniteSetsExt

CONSTANTS
    Callers,     \* requests of the user
    Runs,        \* workflow runs that can be created, each for its own item
    NoRun,       \* "no run yet"
    Nobody,      \* the lease row is absent
    Dead,        \* the lease belongs to a process that died
    Amounts,     \* amounts within the per-item cap, in minor units
    Cap,         \* monthly_cap
    MaxExpiries, \* bound on the leases that run out
    MaxCrashes   \* bound on the requests that die

ASSUME RunsAssumption == IsFiniteSet(Runs) /\ NoRun \notin Runs
ASSUME OwnersAssumption == Nobody \notin Callers /\ Dead \notin Callers
ASSUME AmountsAssumption == Amounts \subseteq Nat \ {0}
ASSUME CapAssumption == Cap \in Nat
ASSUME LimitsAssumption == MaxExpiries \in Nat /\ MaxCrashes \in Nat

VARIABLES
    run,         \* the workflow_runs rows
    spent,       \* the sum of this month's transactions
    lease,       \* the scheduler_leases row of the budget
    pc,          \* where each request is
    job,         \* what each request does, for which run and amount
    spend,       \* the monthly spend each request read
    slipped,     \* did an update fall into a window of a check?
    expiries, crashes

budgetVars == <<run, spent, lease, pc, job, spend, slipped, expiries, crashes>>

-----------------------------------------------------------------------------
\* "approved" stands for passkey_pending up to checkout_pending, "closed" for
\* failed, skipped, rejected and expired.
Active == {"triggered", "quote_pending", "intent_created", "notified", "approved",
           "reapproval_required"}
RunState == Active \cup {"none", "completed", "closed"}

Op == {"none", "begin", "adjust", "reapprove", "approve"}
Stage == {"first", "quote", "final"}
PC == {"idle", "acquire", "quote", "fence", "spend", "commitments", "create",
       "restate", "intent", "write", "notify", "fail", "release"}

\* "from" is the state of the run an adjustment read when it came in.
Job == [op : Op, run : Runs \cup {NoRun}, amount : Amounts \cup {0},
        from : RunState, stage : Stage]
NoJob == [op |-> "none", run |-> NoRun, amount |-> 0, from |-> "none",
          stage |-> "first"]

BudgetTypeOK ==
    /\ run \in [Runs -> [state : RunState, amount : Amounts \cup {0}]]
    /\ spent \in Nat
    /\ lease \in [owner : Callers \cup {Nobody, Dead}, live : BOOLEAN]
    /\ pc \in [Callers -> PC]
    /\ job \in [Callers -> Job]
    /\ spend \in [Callers -> Nat]
    /\ slipped \in BOOLEAN
    /\ expiries \in 0 .. MaxExpiries /\ crashes \in 0 .. MaxCrashes

BudgetInit ==
    /\ run = [r \in Runs |-> [state |-> "none", amount |-> 0]]
    /\ spent = 0
    /\ lease = [owner |-> Nobody, live |-> FALSE]
    /\ pc = [c \in Callers |-> "idle"]
    /\ job = [c \in Callers |-> NoJob]
    /\ spend = [c \in Callers |-> 0]
    /\ slipped = FALSE
    /\ expiries = 0 /\ crashes = 0

-----------------------------------------------------------------------------
Goto(c, label) == pc' = [pc EXCEPT ![c] = label]

End(c) ==
    /\ Goto(c, "idle")
    /\ job' = [job EXCEPT ![c] = NoJob]
    /\ spend' = [spend EXCEPT ![c] = 0]

\* An exception: begin first fails the run it created; the lease is released.
Raise(c) ==
    Goto(c, IF job[c].op = "begin" /\ job[c].run # NoRun THEN "fail" ELSE "release")

\* The amounts of some runs, and of those in the states S, but not of run r.
Due == [q \in Runs |-> run[q].amount]
Total(R) == SumFunctionOnSet(Due, R)
Sum(S, r) == Total({q \in Runs \ {r} : run[q].state \in S})

-----------------------------------------------------------------------------
(* begin, act: how a request comes in                                      *)

Begin(c) ==
    /\ pc[c] = "idle"
    /\ \E a \in Amounts :
          job' = [job EXCEPT ![c] = [NoJob EXCEPT !.op = "begin", !.amount = a]]
    /\ Goto(c, "acquire")
    /\ UNCHANGED <<run, spent, lease, spend, slipped, expiries, crashes>>

\* A request for a terminal run is refused at the latest by its transition.
Act(c, r) ==
    LET ask(op, a, stage) ==
            job' = [job EXCEPT ![c] = [op |-> op, run |-> r, amount |-> a,
                                       from |-> IF op = "adjust" THEN run[r].state ELSE "none",
                                       stage |-> stage]]
    IN /\ pc[c] = "idle" /\ run[r].state \in Active
       /\ \/ \E a \in Amounts : ask("adjust", a, "final") /\ Goto(c, "acquire")
          \/ /\ run[r].state = "reapproval_required"
             /\ ask("reapprove", run[r].amount, "quote") /\ Goto(c, "acquire")
          \/ /\ run[r].state # "reapproval_required"
             /\ ask("approve", 0, "final") /\ Goto(c, "write")
       /\ UNCHANGED <<run, spent, lease, spend, slipped, expiries, crashes>>

-----------------------------------------------------------------------------
(* _budget_scope                                                           *)

\* acquire_lease: a live lease of another owner turns the request away.
Acquire(c) ==
    /\ pc[c] = "acquire"
    /\ \/ /\ lease.owner = Nobody \/ ~lease.live
          /\ lease' = [owner |-> c, live |-> TRUE]
          /\ \/ Goto(c, "spend")
             \/ job[c].op = "reapprove" /\ Goto(c, "quote")
          /\ UNCHANGED <<job, spend>>
       \/ lease.owner # Nobody /\ lease.live /\ End(c) /\ UNCHANGED lease
    /\ UNCHANGED <<run, spent, slipped, expiries, crashes>>

\* renew_fence: only a live lease still held is renewed.
Fence(c) ==
    /\ pc[c] = "fence"
    /\ IF lease.owner = c /\ lease.live
       THEN Goto(c, IF job[c].op = "adjust" THEN "write" ELSE "spend")
       ELSE Raise(c)
    /\ UNCHANGED <<run, spent, lease, job, spend, slipped, expiries, crashes>>

Release(c) ==
    /\ pc[c] = "release"
    /\ lease' = IF lease.owner = c THEN [owner |-> Nobody, live |-> FALSE] ELSE lease
    /\ End(c)
    /\ UNCHANGED <<run, spent, slipped, expiries, crashes>>

-----------------------------------------------------------------------------
(* _enforce_caps: monthly_spend, then active_workflow_commitments           *)

ReadSpend(c) ==
    /\ pc[c] = "spend"
    /\ spend' = [spend EXCEPT ![c] = spent]
    /\ Goto(c, "commitments")
    /\ UNCHANGED <<run, spent, lease, job, slipped, expiries, crashes>>

\* What a request does once its amount fits.
Passed(c) ==
    CASE job[c].op = "adjust" -> "fence"
      [] job[c].stage = "first" -> "create"
      [] job[c].stage = "quote" -> IF job[c].op = "begin" THEN "restate" ELSE "intent"
      [] OTHER -> "write"

\* Mutant: runs that are not yet approved are not counted.
EnforceApprovedOnly(c) ==
    /\ pc[c] = "commitments"
    /\ IF spend[c] + Sum({"approved"}, job[c].run) + job[c].amount <= Cap
       THEN Goto(c, Passed(c)) ELSE Raise(c)
    /\ spend' = [spend EXCEPT ![c] = 0]
    /\ UNCHANGED <<run, spent, lease, job, slipped, expiries, crashes>>

EnforceCaps(c) ==
    /\ pc[c] = "commitments"
    /\ IF spend[c] + Sum(Active, job[c].run) + job[c].amount <= Cap
       THEN Goto(c, Passed(c)) ELSE Raise(c)
    /\ spend' = [spend EXCEPT ![c] = 0]
    /\ UNCHANGED <<run, spent, lease, job, slipped, expiries, crashes>>

-----------------------------------------------------------------------------
(* What the checks allow                                                   *)

\* create_workflow reserves the amount; it refuses an item that has an active
\* run or pending completion effects.
Create(c) ==
    /\ pc[c] = "create"
    /\ \/ \E r \in Runs, ahead \in {"quote", "intent"} :
             /\ run[r].state = "none"
             /\ run' = [run EXCEPT ![r] =
                   [state |-> IF ahead = "quote" THEN "quote_pending" ELSE "triggered",
                    amount |-> job[c].amount]]
             /\ job' = [job EXCEPT ![c].run = r, ![c].stage = "quote"]
             /\ Goto(c, ahead)
       \/ Goto(c, "release") /\ UNCHANGED <<run, job>>
    /\ UNCHANGED <<spent, lease, spend, slipped, expiries, crashes>>

\* The merchant's exact quote replaces the amount, or there is none.
Quote(c) ==
    /\ pc[c] = "quote"
    /\ \/ /\ \E a \in Amounts : job' = [job EXCEPT ![c].amount = a]
          /\ Goto(c, "fence")
       \/ Raise(c) /\ UNCHANGED job
    /\ UNCHANGED <<run, spent, lease, spend, slipped, expiries, crashes>>

Restate(c) ==
    /\ pc[c] = "restate"
    /\ run' = [run EXCEPT ![job[c].run] = [state |-> "triggered", amount |-> job[c].amount]]
    /\ Goto(c, "intent")
    /\ UNCHANGED <<spent, lease, job, spend, slipped, expiries, crashes>>

\* prava.create_intent succeeds or raises.
OpenIntent(c) ==
    /\ pc[c] = "intent"
    /\ \/ Goto(c, "fence") /\ job' = [job EXCEPT ![c].stage = "final"]
       \/ Raise(c) /\ UNCHANGED job
    /\ UNCHANGED <<run, spent, lease, spend, slipped, expiries, crashes>>

\* The transition a request was checked for; its guard is on the run as it is
\* now, not as it was read.
Write(c) ==
    LET j == job[c]
        from == CASE j.op = "begin" -> {"triggered"}
                  [] j.op = "reapprove" -> {"reapproval_required"}
                  [] OTHER -> {"notified", "reapproval_required"}
        to == CASE j.op = "begin" -> "intent_created"
                [] j.op = "adjust" -> IF j.from = "reapproval_required"
                                      THEN "reapproval_required" ELSE "notified"
                [] OTHER -> "approved"
    IN /\ pc[c] = "write"
       /\ IF run[j.run].state \in from
          THEN /\ run' = [run EXCEPT ![j.run].state = to,
                                     ![j.run].amount = IF j.op = "approve" THEN @ ELSE j.amount]
               /\ slipped' = (slipped \/ (j.op = "approve"
                                          /\ run[j.run].state = "reapproval_required"))
          ELSE UNCHANGED <<run, slipped>>
       /\ IF j.op = "approve" THEN End(c)
          ELSE /\ Goto(c, IF j.op = "begin" THEN "notify" ELSE "release")
               /\ UNCHANGED <<job, spend>>
       /\ UNCHANGED <<spent, lease, expiries, crashes>>

Notify(c) ==
    /\ pc[c] = "notify"
    /\ run' = [run EXCEPT ![job[c].run].state = "notified"]
    /\ Goto(c, "release")
    /\ UNCHANGED <<spent, lease, job, spend, slipped, expiries, crashes>>

Fail(c) ==
    /\ pc[c] = "fail"
    /\ run' = [run EXCEPT ![job[c].run].state = "closed"]
    /\ Goto(c, "release")
    /\ UNCHANGED <<spent, lease, job, spend, slipped, expiries, crashes>>

-----------------------------------------------------------------------------
(* What goes on besides                                                    *)

\* complete_checkout_atomically turns a commitment into spend.
Complete(r) ==
    /\ run[r].state = "approved"
    /\ run' = [run EXCEPT ![r].state = "completed"]
    /\ spent' = spent + run[r].amount
    /\ slipped' = (slipped \/ \E c \in Callers :
                       pc[c] = "commitments" /\ job[c].stage = "final" /\ job[c].run # r)
    /\ UNCHANGED <<lease, pc, job, spend, expiries, crashes>>

\* A changed price sends the run back with the fresh amount, without a check;
\* a small decrease is paid as it is.
Revalidate(r) ==
    /\ run[r].state = "approved"
    /\ \E a \in Amounts :
          run' = [run EXCEPT ![r] =
             [state |-> IF a <= run[r].amount /\ 100 * (run[r].amount - a) <= 15 * run[r].amount
                        THEN "approved" ELSE "reapproval_required",
              amount |-> a]]
    /\ UNCHANGED <<spent, lease, pc, job, spend, slipped, expiries, crashes>>

\* The run is skipped, rejected, expired or failed.
Close(r) ==
    /\ run[r].state \in {"notified", "reapproval_required", "approved"}
    /\ run' = [run EXCEPT ![r].state = "closed"]
    /\ UNCHANGED <<spent, lease, pc, job, spend, slipped, expiries, crashes>>

\* RESTOCK_BUDGET_LEASE_SECONDS pass since the lease was last renewed.
Expire ==
    /\ lease.live /\ expiries < MaxExpiries
    /\ lease' = [lease EXCEPT !.live = FALSE]
    /\ expiries' = expiries + 1
    /\ slipped' = (slipped \/ \E c \in Callers :
                       /\ lease.owner = c /\ job[c].op \in {"adjust", "reapprove"}
                       /\ job[c].stage = "final"
                       /\ \/ pc[c] = "write"
                          \/ job[c].op = "reapprove" /\ pc[c] \in {"spend", "commitments"})
    /\ UNCHANGED <<run, spent, pc, job, spend, crashes>>

Crash(c) ==
    /\ pc[c] # "idle" /\ crashes < MaxCrashes
    /\ crashes' = crashes + 1
    /\ lease' = IF lease.owner = c THEN [lease EXCEPT !.owner = Dead] ELSE lease
    /\ End(c)
    /\ UNCHANGED <<run, spent, slipped, expiries>>

Serve(c) ==
    \/ Acquire(c) \/ Fence(c) \/ Release(c) \/ ReadSpend(c) \/ EnforceCaps(c)
    \/ Create(c) \/ Quote(c) \/ Restate(c) \/ OpenIntent(c) \/ Write(c)
    \/ Notify(c) \/ Fail(c)

BudgetNext ==
    \/ \E c \in Callers :
          Begin(c) \/ (\E r \in Runs : Act(c, r)) \/ Serve(c) \/ Crash(c)
    \/ \E r \in Runs : Complete(r) \/ Revalidate(r) \/ Close(r)
    \/ Expire

BudgetSpec == BudgetInit /\ [][BudgetNext]_budgetVars

-----------------------------------------------------------------------------
(* The inductive invariant behind the property                             *)

\* What the user may approve or has approved.
Committed == {"intent_created", "notified", "approved"}

\* A request that has created the run it begins; a request whose lease is good.
Begins(c) == job[c].op = "begin" /\ job[c].run # NoRun
Holds(c) == lease.owner = c /\ lease.live

\* Where a request can be, by what it does.
Place(c) ==
    /\ job[c].op = "none" <=> pc[c] = "idle"
    /\ job[c].op # "begin" => (job[c].run = NoRun <=> job[c].op = "none")
    /\ job[c].op = "begin" /\ job[c].run = NoRun =>
         /\ pc[c] \in {"acquire", "spend", "commitments", "create", "release"}
         /\ job[c].stage = "first"
    /\ Begins(c) =>
         \/ /\ job[c].stage = "quote"
            /\ pc[c] \in {"quote", "fence", "spend", "commitments", "restate",
                          "intent", "fail", "release"}
         \/ /\ job[c].stage = "final"
            /\ pc[c] \in {"fence", "spend", "commitments", "write", "notify",
                          "fail", "release"}
    /\ job[c].op = "adjust" =>
         /\ job[c].stage = "final"
         /\ pc[c] \in {"acquire", "spend", "commitments", "fence", "write", "release"}
    /\ job[c].op = "reapprove" =>
         \/ /\ job[c].stage = "quote"
            /\ pc[c] \in {"acquire", "quote", "fence", "spend", "commitments",
                          "intent", "release"}
         \/ /\ job[c].stage = "final"
            /\ pc[c] \in {"fence", "spend", "commitments", "write", "release"}
    /\ job[c].op = "approve" => pc[c] = "write"
PlaceInv == \A c \in Callers : Place(c)

\* Until begin is done with its run nobody else touches it.
OwnRun(c) ==
    LET r == run[job[c].run] IN
    Begins(c) =>
        /\ r.state # "none"
        /\ \/ pc[c] \in {"quote", "restate"}
           \/ job[c].stage = "quote" /\ pc[c] \in {"fence", "spend", "commitments"}
           => r.state = "quote_pending"
        /\ \/ pc[c] \in {"intent", "write"}
           \/ job[c].stage = "final" /\ pc[c] \in {"fence", "spend", "commitments"}
           => r.state = "triggered" /\ r.amount = job[c].amount
        /\ pc[c] = "notify" => r.state = "intent_created"
        /\ pc[c] = "fail" => r.state \in {"quote_pending", "triggered"}
OwnRunInv ==
    /\ \A c \in Callers : OwnRun(c)
    /\ \A c, d \in Callers :
         Begins(c) /\ Begins(d) /\ job[c].run = job[d].run => c = d

\* A deciding check knows what is spent, unless its own run was paid meanwhile.
ReadInv ==
    ~slipped => \A c \in Callers :
        pc[c] = "commitments" /\ job[c].stage = "final" =>
            spend[c] = spent \/ run[job[c].run].state = "completed"

\* An adjustment is written, a reapproval decided and written, under the lease.
HeldInv ==
    ~slipped => \A c \in Callers :
        /\ job[c].op = "adjust" /\ pc[c] = "write" => Holds(c)
        /\ job[c].op = "reapprove" /\ job[c].stage = "final"
           /\ pc[c] \in {"spend", "commitments", "write"} => Holds(c)

\* The runs whose begin has come past its last fence, and those it was allowed.
Fenced ==
    {r \in Runs : \/ run[r].state \in Committed
                  \/ \E c \in Callers :
                       /\ Begins(c) /\ job[c].run = r /\ job[c].stage = "final"
                       /\ pc[c] \in {"spend", "commitments", "write"}}
Allowed ==
    {r \in Runs : \/ run[r].state \in Committed
                  \/ \E c \in Callers :
                       Begins(c) /\ job[c].run = r /\ pc[c] = "write"}

\* An adjustment or a reapproval that was allowed, under the lease.
Entitled(c) ==
    /\ \/ job[c].op = "adjust" /\ pc[c] \in {"fence", "write"}
       \/ job[c].op = "reapprove" /\ pc[c] = "write"
    /\ Holds(c)
    /\ run[job[c].run].state # "completed"

\* What an adjustment or a reapproval was allowed has room beside everything that
\* can be committed while it holds the lease.
RoomInv ==
    ~slipped => \A c \in Callers :
        Entitled(c) => spent + Total(Fenced \ {job[c].run}) + job[c].amount <= Cap

\* What was allowed fits.
FitInv == ~slipped => spent + Total(Allowed) <= Cap

BudgetInv == PlaceInv /\ OwnRunInv /\ ReadInv /\ HeldInv /\ RoomInv /\ FitInv

-----------------------------------------------------------------------------
(* Properties                                                              *)

\* Spend and every commitment the user may still approve or has approved stay
\* within the cap, unless (a) a checkout completed between the two queries of a
\* deciding check, (b) the lease ran out between the last fence and the write
\* of an adjustment or a reapproval, or (c) an approval read before a price
\* change was written after it.
CapHoldsUnlessSlipped ==
    ~slipped => spent + Sum({"intent_created", "notified", "approved"}, NoRun) <= Cap
=============================================================================
