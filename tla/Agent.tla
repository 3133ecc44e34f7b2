-------------------------------- MODULE Agent --------------------------------
(***************************************************************************)
(* agent/orchestrator.py: the tools of the agent, which its model calls in *)
(* any order and more than once, over the Prava client of module           *)
(* PravaClient and the disclosed checkout of merchant/mock_checkout.py,    *)
(* whose store is a file.  The context of the agent is in memory.          *)
(*                                                                         *)
(* An intent is known by its Prava session.  A checkout names the item of  *)
(* its intent, as run_cycle does.                                          *)
(***************************************************************************)
EXTENDS PravaClient, FiniteSetsExt

CONSTANTS
    Items,
    NoItem,
    Price,      \* [Items -> Nat]: what is proposed for an item
    MonthlyCap

ASSUME SessionsAssumption == IsFiniteSet(Sessions)
ASSUME NoItemAssumption == NoItem \notin Items
ASSUME PriceAssumption == Price \in [Items -> Nat \ {0}]
ASSUME MonthlyCapAssumption == MonthlyCap \in Nat

VARIABLES
    intent,   \* context.intents and context.mandates, by session
    booked,   \* context.transactions, by session
    orders,   \* orders the merchant's store was given for each intent
    crowded   \* history: a cap was checked beside an open intent or after the
              \* context was lost
agentVars == <<intent, booked, orders, crowded>>
vars == <<clientVars, agentVars>>

AgentIntent ==
    [item : Items \cup {NoItem},
     status : {"none", "asking", "pending_approval", "approved", "rejected", "expired"},
     mandate : References \cup {NoReference}]
NoAgentIntent == [item |-> NoItem, status |-> "none", mandate |-> NoReference]

TypeOK ==
    /\ ClientTypeOK
    /\ intent \in [Sessions -> AgentIntent]
    /\ booked \in [Sessions -> Nat]
    /\ orders \in [Sessions -> Nat]
    /\ crowded \in BOOLEAN

Init ==
    /\ ClientInit
    /\ intent = [s \in Sessions |-> NoAgentIntent]
    /\ booked = [s \in Sessions |-> 0]
    /\ orders = [s \in Sessions |-> 0]
    /\ crowded = FALSE

\* monthly_spend counts what was booked, not what is open.
MonthlySpend == SumFunction([s \in Sessions |-> IF booked[s] = 0 THEN 0
                                                ELSE booked[s] * Price[intent[s].item]])

\* Mutant: the cap is compared with the proposal alone.
AffordableAlone(amount) == amount <= MonthlyCap

\* enforce_spend_caps.
Affordable(amount) == MonthlySpend + amount <= MonthlyCap

Open(s) == intent[s].status # "none" /\ booked[s] = 0

-----------------------------------------------------------------------------
(* The tools                                                               *)

\* request_prava_intent checks the caps ...
RequestIntent(s, i) ==
    /\ intent[s].status = "none" /\ prava[s] = "none"
    /\ Affordable(Price[i])
    /\ intent' = [intent EXCEPT ![s].item = i, ![s].status = "asking"]
    /\ crowded' = (crowded \/ \E r \in Sessions : Open(r))
    /\ UNCHANGED <<clientVars, booked, orders>>

\* ... and creates the session, or raises when it is not told of it.
IntentCreated(s) ==
    /\ intent[s].status = "asking"
    /\ CreateIntent(s)
    /\ intent' = [intent EXCEPT ![s] = IF intents'[s].known
                     THEN [@ EXCEPT !.status = "pending_approval"] ELSE NoAgentIntent]
    /\ UNCHANGED <<booked, orders, crowded>>

AwaitPasskey(t, s) ==
    /\ intent[s].status \notin {"none", "asking"}
    /\ Await(t, s)
    /\ UNCHANGED agentVars

\* await_passkey_approval: the intent takes the answer; a mandate stays.
Mandated(t) ==
    LET s == thread[t].session IN
    /\ thread[t].pc = "answered"
    /\ intent' = [intent EXCEPT
            ![s].status = thread[t].outcome,
            ![s].mandate = IF thread[t].outcome = "approved" THEN thread[t].ref ELSE @]
    /\ Leaves(t)
    /\ UNCHANGED <<prava, intents, credentials, leases, shared, faults,
                   booked, orders, crowded>>

Books(s) == booked' = [booked EXCEPT ![s] = @ + 1]

\* complete_merchant_checkout with a mandate: the price may have moved too far,
\* which raises; the store knows the intent, or the checkout goes on.
CompleteCheckout(t, s) ==
    /\ thread[t] = Idle
    /\ intent[s].mandate # NoReference /\ booked[s] < 2
    /\ IF orders[s] > 0
       THEN Books(s) /\ UNCHANGED thread
       ELSE /\ thread' = [thread EXCEPT ![t].pc = "order", ![t].session = s]
            /\ UNCHANGED booked
    /\ UNCHANGED <<prava, intents, credentials, leases, shared, faults,
                   intent, orders, crowded>>

\* Mutant: the store is not looked at again.
StoredBlindly(s) == orders' = [orders EXCEPT ![s] = @ + 1]

\* The store is read again under its lock, and written.
Stored(s) == orders' = [orders EXCEPT ![s] = IF @ = 0 THEN 1 ELSE @]

\* The order is stored, or refused as out of stock, and booked.
PlaceOrder(t) ==
    LET s == thread[t].session IN
    /\ thread[t].pc = "order"
    /\ \/ Stored(s) /\ Books(s)
       \/ UNCHANGED <<orders, booked>>
    /\ Leaves(t)
    /\ UNCHANGED <<prava, intents, credentials, leases, shared, faults,
                   intent, crowded>>

\* A restart takes the context with it; the store stays.
AgentRestart ==
    /\ Restart
    /\ intent' = [s \in Sessions |-> NoAgentIntent]
    /\ booked' = [s \in Sessions |-> 0]
    /\ crowded' = (crowded \/ \E s \in Sessions : intent[s].status # "none")
    /\ UNCHANGED orders

Next ==
    \/ \E s \in Sessions : (\E i \in Items : RequestIntent(s, i)) \/ IntentCreated(s)
    \/ \E t \in Threads :
         \/ \E s \in Sessions : AwaitPasskey(t, s) \/ CompleteCheckout(t, s)
         \/ Mandated(t) \/ PlaceOrder(t)
    \/ AgentRestart
    \/ (PollNext \/ CardNext \/ SessionNext) /\ UNCHANGED agentVars

Spec == Init /\ [][Next]_vars

-----------------------------------------------------------------------------
(* The inductive invariant behind the properties                           *)

\* An intent the agent made and has the session of.
Made(s) == intent[s].status \notin {"none", "asking"}

\* What the agent was told to do, and what the store was, is of such an intent.
IntentInv ==
    \A s \in Sessions :
        /\ intent[s].status # "none" => intent[s].item \in Items
        /\ intent[s].mandate # NoReference => Made(s) /\ Decided(s)
        /\ booked[s] > 0 => Made(s)
        /\ orders[s] > 0 => Decided(s)
        /\ orders[s] <= 1

\* So is what a thread is about.
CallInv ==
    \A t \in Threads :
        /\ thread[t].pc \in {"poll", "publish", "answered", "order"} =>
             Made(thread[t].session)
        /\ thread[t].pc = "order" => Decided(thread[t].session)

\* What was asked for fits, ordered or not, while no request was crowded.
Asked == [s \in Sessions |-> IF intent[s].status = "none" THEN 0
                             ELSE Price[intent[s].item]]
AskedInv ==
    ~crowded => /\ SumFunction(Asked) <= MonthlyCap
                /\ \A s \in Sessions : orders[s] > 0 => intent[s].status # "none"

AgentInv == ClientInv /\ IntentInv /\ CallInv /\ AskedInv

-----------------------------------------------------------------------------
(* Properties                                                              *)

\* The intent's id is the idempotency key of its checkout: however often and
\* from however many threads it is completed, the merchant has one order of it,
\* and none of an intent the user has not approved at Prava.
OneApprovedOrder ==
    \A s \in Sessions :
        /\ orders[s] <= 1
        /\ orders[s] > 0 => prava[s] \notin {"none", "pending", "failed"}

\* What was ordered stays within the cap the requests were checked against,
\* unless one was checked while another intent was open: the cap counts what was
\* booked (system_prompt.md: "Never spend outside the user's ... caps").
CapHoldsUnlessCrowded ==
    ~crowded => SumFunction([s \in Sessions |-> IF orders[s] = 0 THEN 0
                                                ELSE Price[intent[s].item]])
                <= MonthlyCap
=============================================================================
