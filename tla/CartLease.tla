------------------------------ MODULE CartLease ------------------------------
(***************************************************************************)
(* The Zepto cart of one user, which the quotes and the checkouts of all   *)
(* the user's runs share, and the lease that serialises them               *)
(* (merchant/quote_provider.py, merchant/zepto_checkout.py and the parts   *)
(* of workflow/service.py that open and close the lease's scope).          *)
(*                                                                         *)
(* A basket is known by the run whose exact SKU and quantity it holds.     *)
(* Every call of the merchant's tools is a step of its own: each may last  *)
(* 45 seconds, the lease lasts 300 and is not renewed.  What module        *)
(* Checkout says of crashes, credentials and reports is left to it, and    *)
(* what ends a run unpaid (a skip, a refused mandate, no stock) to module  *)
(* Workflow.                                                               *)
(***************************************************************************)
EXTENDS Naturals

CONSTANTS
    Runs,       \* workflow runs of one user, each of its own exact SKU
    NoRun,      \* "no basket", "no order"
    Requests,   \* requests and scan passes that may run at the same time
    NoOwner,    \* "nobody holds the lease"
    Prices,     \* what the merchant may ask for a basket
    MaxFaults   \* bound: price changes, leases that run out, requests that die and
                \* answers of the user that meet a run moved on since it was loaded

ASSUME NoRunAssumption == NoRun \notin Runs
ASSUME OwnersAssumption == Runs \cap Requests = {} /\ NoOwner \notin Runs \cup Requests
ASSUME PricesAssumption == Prices \subseteq Nat \ {0}
ASSUME MaxFaultsAssumption == MaxFaults \in Nat

VARIABLES
    price,    \* what each basket costs
    cart,     \* the basket in the user's cart at the merchant
    lease,    \* the row merchant-cart:zepto:<user>
    run,      \* the runs, with their merchant attempts
    request,  \* where each request is
    slips,    \* history: a lease that ended under a request relying on it, and a
              \* transition that wrote over what another had made of the run
    faults
vars == <<price, cart, lease, run, request, slips, faults>>

\* _owner_id: a quote draws a fresh name, a checkout has its run's.
Owners == Requests \cup Runs
Lease == [owner : Owners \cup {NoOwner}, lapsed : BOOLEAN]
NoLease == [owner |-> NoOwner, lapsed |-> FALSE]

Run == [stage : {"new", "quoted", "passkey", "approved", "revalidated",
                 "reapproval", "pending", "completed", "failed"},
        quoted : Runs \cup {NoRun},      \* the basket the quote was made of
        quote : Prices \cup {0},         \* the total of the stored quote
        amount : Prices \cup {0},        \* proposed_amount
        agreed : Prices \cup {0},        \* history: the amount of the payment intent,
                                         \* or what the user made of it since
        attempt : {"absent", "creating", "ordered", "ambiguous", "changed",
                   "exposed", "paid", "declined", "mismatch"},
        order : Runs \cup {NoRun},       \* the basket the merchant sold ...
        total : Prices \cup {0}]         \* ... and for how much

Quoting == {"replace", "inspect", "preview", "unlock"}
Paying == {"examine", "revalue", "revalidate", "reserve", "check", "order",
           "pay", "finish"}
Request == [pc : {"idle", "approve", "lock"} \cup Quoting \cup Paying,
            run : Runs \cup {NoRun}, seen : Runs \cup {NoRun},
            fresh : Prices \cup {0},
            result : {"none", "quoted", "pending", "reapproval", "completed",
                      "failed", "raised"}]
Idle == [pc |-> "idle", run |-> NoRun, seen |-> NoRun, fresh |-> 0,
         result |-> "none"]

TypeOK ==
    /\ price \in [Runs -> Prices]
    /\ cart \in Runs \cup {NoRun}
    /\ lease \in Lease
    /\ run \in [Runs -> Run]
    /\ request \in [Requests -> Request]
    /\ slips \subseteq {"lapse", "release", "overwrite"}
    /\ faults \in 0 .. MaxFaults

Init ==
    /\ price \in [Runs -> Prices]
    /\ cart = NoRun
    /\ lease = NoLease
    /\ run = [r \in Runs |-> [stage |-> "new", quoted |-> NoRun, quote |-> 0,
                              amount |-> 0, agreed |-> 0,
                              attempt |-> "absent", order |-> NoRun, total |-> 0]]
    /\ request = [q \in Requests |-> Idle]
    /\ slips = {}
    /\ faults = 0

Goes(q, pc) == request' = [request EXCEPT ![q].pc = pc]
Gives(q, pc, result) ==
    request' = [request EXCEPT ![q].pc = pc, ![q].result = result]
Ends(q) == request' = [request EXCEPT ![q] = Idle]

Stage(r, stage) == run' = [run EXCEPT ![r].stage = stage]
Attempt(r, state) == run' = [run EXCEPT ![r].attempt = state]

-----------------------------------------------------------------------------
(* The lease                                                               *)

OwnerOf(q) == IF request[q].pc \in Quoting THEN q ELSE request[q].run
InScope(q) == request[q].pc \in Quoting \cup Paying

\* Mutant: a lease that is there is taken over.
GrantedAlways(owner) == TRUE

\* acquire_lease: a missing or expired row, or the caller's own.
Granted(owner) == lease = NoLease \/ lease.lapsed \/ lease.owner = owner

Taken(owner) == [owner |-> owner, lapsed |-> FALSE]

\* Mutant: the row is deleted whoever owns it.
ReleasedByAny(owner) == NoLease

\* release_lease deletes the row of this owner only, expired or not.
Released(owner) == IF lease.owner = owner THEN NoLease ELSE lease

\* Requests that would be left in the scope without the lease of their owner.
Stranded(q) ==
    \E p \in Requests \ {q} :
        InScope(p) /\ OwnerOf(p) = OwnerOf(q) /\ lease.owner = OwnerOf(q)

-----------------------------------------------------------------------------
(* Quoting: begin and the approval of a changed price, quote_provider(item) *)

\* checkout_scope without an owner key.  A busy cart fails the new run; a run
\* that waits for reapproval stays so.
BeginQuote(q, r) ==
    /\ request[q] = Idle
    /\ \/ run[r].stage = "new" /\ \A p \in Requests : request[p].run # r
       \/ run[r].stage = "reapproval"
    /\ IF Granted(q)
       THEN /\ lease' = Taken(q)
            /\ request' = [request EXCEPT ![q].pc = "replace", ![q].run = r]
            /\ UNCHANGED run
       ELSE /\ IF run[r].stage = "new" THEN Stage(r, "failed") ELSE UNCHANGED run
            /\ UNCHANGED <<lease, request>>
    /\ UNCHANGED <<price, cart, slips, faults>>

\* update_cart with replaceCart is sent once; its answer may be lost.
ReplaceCart(q) ==
    /\ request[q].pc = "replace"
    /\ \/ /\ cart' = request[q].run
          /\ Goes(q, "inspect") \/ Gives(q, "unlock", "raised")
       \/ Gives(q, "unlock", "raised") /\ UNCHANGED cart
    /\ UNCHANGED <<price, lease, run, slips, faults>>

\* view_cart, _require_exact_cart and the payment methods.
InspectCart(q) ==
    /\ request[q].pc = "inspect"
    /\ \/ cart = request[q].run /\ Goes(q, "preview")
       \/ Gives(q, "unlock", "raised")
    /\ UNCHANGED <<price, cart, lease, run, slips, faults>>

\* preview_order prices the cart, whatever is in it by now.
PreviewOrder(q) ==
    /\ request[q].pc = "preview"
    /\ \/ request' = [request EXCEPT ![q].pc = "unlock", ![q].seen = cart,
                          ![q].fresh = price[cart], ![q].result = "quoted"]
       \/ Gives(q, "unlock", "raised")
    /\ UNCHANGED <<price, cart, lease, run, slips, faults>>

\* The scope ends, the run takes the quote and its payment intent is created;
\* a failed quote fails a new run and leaves one in reapproval.
Unlock(q) ==
    LET r == request[q].run
        fresh == request[q].fresh IN
    /\ request[q].pc = "unlock"
    /\ lease' = Released(q)
    /\ IF request[q].result = "quoted" /\ run[r].stage \in {"new", "reapproval"}
       THEN run' = [run EXCEPT
                ![r].stage = IF run[r].stage = "new" THEN "quoted" ELSE "passkey",
                ![r].quoted = request[q].seen, ![r].quote = fresh,
                ![r].amount = fresh, ![r].agreed = fresh]
       ELSE IF run[r].stage = "new" THEN Stage(r, "failed") ELSE UNCHANGED run
    /\ Ends(q)
    /\ UNCHANGED <<price, cart, slips, faults>>

\* act("approve"): the user approves what they were notified of.
Approve(r) ==
    /\ run[r].stage = "quoted"
    /\ Stage(r, "passkey")
    /\ UNCHANGED <<price, cart, lease, request, slips, faults>>

\* act("adjust"): the run takes the user's own amount; the payment intent and the
\* stored quote stay what they were.
Adjust(r, a) ==
    /\ run[r].stage \in {"quoted", "reapproval"}
    /\ run' = [run EXCEPT ![r].amount = a, ![r].agreed = a]
    /\ UNCHANGED <<price, cart, lease, request, slips, faults>>

-----------------------------------------------------------------------------
(* Checkout: resume_after_passkey                                          *)

\* The run is loaded, the mandate awaited and the run loaded again by the first
\* transition, which writes without another look: two requests may both do so.
Resume(q, r) ==
    /\ request[q] = Idle
    /\ run[r].stage = "passkey"
    /\ request' = [request EXCEPT ![q].pc = "approve", ![q].run = r]
    /\ UNCHANGED <<price, cart, lease, run, slips, faults>>

MandateApproved(q) ==
    /\ request[q].pc = "approve"
    /\ Stage(request[q].run, "approved")
    /\ Goes(q, "lock")
    /\ slips' = IF run[request[q].run].stage = "passkey" THEN slips
                ELSE slips \cup {"overwrite"}
    /\ UNCHANGED <<price, cart, lease, faults>>

\* _post_mandate_failure_guard, by the stage the run is in when something raises.
Guarded(stage) ==
    CASE stage \in {"passkey", "approved"} -> "failed"
      [] stage = "revalidated" -> "pending"
      [] OTHER -> stage

\* checkout_scope under the run's own key.  A busy cart raises before the scope.
Lock(q) ==
    LET r == request[q].run IN
    /\ request[q].pc = "lock"
    /\ IF Granted(r)
       THEN lease' = Taken(r) /\ Goes(q, "examine") /\ UNCHANGED run
       ELSE Stage(r, Guarded(run[r].stage)) /\ Ends(q) /\ UNCHANGED lease
    /\ UNCHANGED <<price, cart, slips, faults>>

\* revalidate_locked looks at the cart; whatever fails in it is swallowed and
\* the stored quote stands, unless it is older than a minute by now.
StoredQuote(q) ==
    \/ request' = [request EXCEPT ![q].pc = "revalidate",
                                  ![q].fresh = run[request[q].run].quote]
    \/ Gives(q, "finish", "raised")

Examine(q) ==
    /\ request[q].pc = "examine"
    /\ \/ cart = request[q].run /\ Goes(q, "revalue")
       \/ StoredQuote(q)
    /\ UNCHANGED <<price, cart, lease, run, slips, faults>>

Revalue(q) ==
    /\ request[q].pc = "revalue"
    /\ \/ request' = [request EXCEPT ![q].pc = "revalidate",
                                     ![q].fresh = price[cart]]
       \/ StoredQuote(q)
    /\ UNCHANGED <<price, cart, lease, run, slips, faults>>

\* Mutant: the total may rise as far as it may fall.
WithinToleranceEitherWay(fresh, amount) ==
    100 * fresh <= 115 * amount /\ 100 * fresh >= 85 * amount

\* A higher total, or one lower by more than 15 per cent, is not paid.
WithinTolerance(fresh, amount) ==
    fresh <= amount /\ 100 * fresh >= 85 * amount

\* The run takes the fresh total, or asks for another approval of it.
Revalidate(q) ==
    LET r == request[q].run
        fresh == request[q].fresh
        taken == WithinTolerance(fresh, run[r].amount) IN
    /\ request[q].pc = "revalidate"
    /\ IF run[r].stage # "approved"
       THEN Gives(q, "finish", "raised") /\ UNCHANGED run
       ELSE /\ run' = [run EXCEPT ![r].amount = fresh, ![r].quote = fresh,
                    ![r].stage = IF taken THEN "revalidated" ELSE "reapproval"]
            /\ request' = [request EXCEPT ![q].fresh = 0,
                              ![q].pc = IF taken THEN "reserve" ELSE "finish"]
    /\ UNCHANGED <<price, cart, lease, slips, faults>>

\* _resume_existing_attempt: what an attempt is answered, and what it becomes
\* once the merchant was asked about its order.
Answers(r) ==
    LET now == run[r].attempt
        says(result, states) == [result : {result}, attempt : states] IN
    CASE now = "paid" -> says("completed", {now})
      [] now \in {"declined", "mismatch"} -> says("failed", {now})
      [] now = "changed" -> says("reapproval", {now})
      [] now = "ordered" -> says("pending", {now}) \cup says("failed", {"declined"})
      [] now = "exposed" -> says("pending", {now}) \cup says("failed", {"declined"})
                            \cup says("completed", {"paid"})
      [] OTHER -> says("pending", {now})

\* complete_checkout reserves the run's one attempt; a run that comes back with
\* another amount than it was reserved for raises.
Reserve(q) ==
    LET r == request[q].run IN
    /\ request[q].pc = "reserve"
    /\ IF run[r].attempt = "absent"
       THEN Attempt(r, "creating") /\ Goes(q, "check")
       ELSE \/ Gives(q, "finish", "raised") /\ UNCHANGED run
            \/ \E answer \in Answers(r) :
                 Attempt(r, answer.attempt) /\ Gives(q, "finish", answer.result)
    /\ UNCHANGED <<price, cart, lease, slips, faults>>

\* Mutant: the cart is taken to be as it was quoted.
CheckCartTrusted(q) ==
    /\ request[q].pc = "check"
    /\ Goes(q, "order")
    /\ UNCHANGED <<price, cart, lease, run, slips, faults>>

\* _require_exact_cart, once more, before anything is ordered.
CheckCart(q) ==
    /\ request[q].pc = "check"
    /\ \/ cart = request[q].run /\ Goes(q, "order") /\ UNCHANGED run
       \/ Attempt(request[q].run, "mismatch") /\ Gives(q, "finish", "failed")
    /\ UNCHANGED <<price, cart, lease, slips, faults>>

\* create_payment_link orders whatever is in the cart; its answer may be lost, or
\* be one that cannot be read, which raises.
CreateOrder(q) ==
    LET r == request[q].run
        same == price[cart] = run[r].amount IN
    /\ request[q].pc = "order"
    /\ \/ /\ run' = [run EXCEPT ![r].order = cart, ![r].total = price[cart],
                          ![r].attempt = IF same THEN "ordered" ELSE "changed"]
          /\ IF same THEN Goes(q, "pay") ELSE Gives(q, "finish", "reapproval")
       \/ /\ run' = [run EXCEPT ![r].order = cart, ![r].total = price[cart],
                          ![r].attempt = "ambiguous"]
          /\ Gives(q, "finish", "pending") \/ Gives(q, "finish", "raised")
       \/ Attempt(r, "ambiguous") /\ Gives(q, "finish", "pending")
    /\ UNCHANGED <<price, cart, lease, slips, faults>>

\* The executor pays the order and the merchant is asked about it; an attempt
\* another request has decided meanwhile is not paid.
Pay(q) ==
    LET r == request[q].run IN
    /\ request[q].pc = "pay"
    /\ \/ /\ run[r].attempt = "ordered"
          /\ \/ Attempt(r, "paid") /\ Gives(q, "finish", "completed")
             \/ Attempt(r, "declined") /\ Gives(q, "finish", "failed")
             \/ Attempt(r, "exposed") /\ Gives(q, "finish", "pending")
       \/ /\ run[r].attempt # "ordered"
          /\ Gives(q, "finish", "raised")
          /\ UNCHANGED run
    /\ UNCHANGED <<price, cart, lease, slips, faults>>

\* A pending checkout keeps the lease until reconciliation or its expiry.
Preserved(result) == result = "pending"

\* _finish_checkout moves a revalidated run on, the guard takes what raised, and
\* the scope closes; the run of a reapproval or an earlier end is left alone.
Finish(q) ==
    LET r == request[q].run
        result == request[q].result
        next == IF run[r].stage = "revalidated" /\ result # "raised"
                THEN result ELSE Guarded(run[r].stage) IN
    /\ request[q].pc = "finish"
    /\ IF result = "none" THEN UNCHANGED run ELSE Stage(r, next)
    /\ IF Preserved(result) THEN UNCHANGED <<lease, slips>>
       ELSE /\ lease' = Released(r)
            /\ slips' = IF Stranded(q) THEN slips \cup {"release"} ELSE slips
    /\ Ends(q)
    /\ UNCHANGED <<price, cart, faults>>

\* reconcile_checkout of a pending run: a decided one moves on and gives back
\* the lease its checkout kept.
Reconcile(r) ==
    /\ run[r].stage = "pending" /\ run[r].attempt # "absent"
    /\ \E answer \in Answers(r) :
         /\ answer.result # "pending"
         /\ run' = [run EXCEPT ![r].stage = answer.result,
                               ![r].attempt = answer.attempt]
    /\ lease' = Released(r)
    /\ slips' = IF lease.owner = r /\ \E p \in Requests :
                                         InScope(p) /\ OwnerOf(p) = r
                THEN slips \cup {"release"} ELSE slips
    /\ UNCHANGED <<price, cart, request, faults>>

-----------------------------------------------------------------------------
(* The environment                                                         *)

Fault == faults < MaxFaults /\ faults' = faults + 1

\* act chooses its branch by the run loaded before.  One that waits for reapproval
\* by now is approved as it is, without a new quote and intent ...
ApproveLate(r) ==
    /\ run[r].stage = "reapproval"
    /\ Fault
    /\ Stage(r, "passkey")
    /\ slips' = slips \cup {"overwrite"}
    /\ UNCHANGED <<price, cart, lease, request>>

\* ... or is notified once more, adjusted.
AdjustLate(r, a) ==
    /\ run[r].stage = "reapproval"
    /\ Fault
    /\ run' = [run EXCEPT ![r].stage = "quoted", ![r].amount = a, ![r].agreed = a]
    /\ UNCHANGED <<price, cart, lease, request, slips>>

\* The merchant changes a price.
Reprice(r, p) ==
    /\ p # price[r]
    /\ Fault
    /\ price' = [price EXCEPT ![r] = p]
    /\ UNCHANGED <<cart, lease, run, request, slips>>

\* Five minutes pass since the lease was taken.
Lapse ==
    /\ lease # NoLease /\ ~lease.lapsed
    /\ Fault
    /\ lease' = [lease EXCEPT !.lapsed = TRUE]
    /\ slips' = IF \E q \in Requests : InScope(q) /\ OwnerOf(q) = lease.owner
                THEN slips \cup {"lapse"} ELSE slips
    /\ UNCHANGED <<price, cart, run, request>>

\* A process dies; its lease stays until it runs out.
Die(q) ==
    /\ request[q] # Idle
    /\ Fault
    /\ Ends(q)
    /\ UNCHANGED <<price, cart, lease, run, slips>>

Next ==
    \/ \E q \in Requests :
         \/ \E r \in Runs : BeginQuote(q, r) \/ Resume(q, r)
         \/ ReplaceCart(q) \/ InspectCart(q) \/ PreviewOrder(q) \/ Unlock(q)
         \/ MandateApproved(q) \/ Lock(q) \/ Examine(q) \/ Revalue(q)
         \/ Revalidate(q) \/ Reserve(q) \/ CheckCart(q) \/ CreateOrder(q)
         \/ Pay(q) \/ Finish(q) \/ Die(q)
    \/ \E r \in Runs :
         \/ Approve(r) \/ ApproveLate(r) \/ Reconcile(r)
         \/ \E p \in Prices : Adjust(r, p) \/ AdjustLate(r, p) \/ Reprice(r, p)
    \/ Lapse

Spec == Init /\ [][Next]_vars

-----------------------------------------------------------------------------
(* The inductive invariant behind the properties.                          *)

\* No lease ran out under its request, and no request gave back the lease of
\* another one of its run.
LeaseRespected == slips \subseteq {"overwrite"}

\* A request works for a run and answers once; there is a cart to be priced.
RequestInv ==
    \A q \in Requests :
        /\ request[q].pc # "idle" => request[q].run \in Runs
        /\ request[q].pc \notin {"unlock", "finish"} => request[q].result = "none"
        /\ request[q].pc = "finish" => request[q].result # "quoted"
        /\ request[q].pc \in {"preview", "revalue", "order"} => cart \in Runs

\* The one request that reserved the run's attempt, until it has an outcome.
Attempting(q) == request[q].pc \in {"check", "order", "pay"}

AttemptInv ==
    /\ \A p, q \in Requests :
          Attempting(p) /\ Attempting(q) /\ request[p].run = request[q].run => p = q
    /\ \A q \in Requests :
        LET attempt == run[request[q].run].attempt IN
        /\ request[q].pc \in {"check", "order"} => attempt = "creating"
        /\ request[q].pc = "pay" => attempt \in {"ordered", "exposed", "paid", "declined"}
        /\ request[q].pc = "finish" =>
               /\ request[q].result \notin {"none", "raised"} => attempt # "absent"
               /\ request[q].result = "reapproval" => attempt = "changed"

\* Whoever is in the scope is there under a lease of its own that has not run out.
LeaseInv ==
    LeaseRespected => \A q \in Requests :
        InScope(q) => lease = Taken(OwnerOf(q))

\* From the look at the cart to its use the cart is that of the run, and so is what
\* came of it.
BasketInv ==
    LeaseRespected =>
        /\ \A q \in Requests :
            /\ request[q].pc \in {"preview", "revalue", "order"} => cart = request[q].run
            /\ request[q].result = "quoted" => request[q].seen = request[q].run
        /\ \A r \in Runs : {run[r].quoted, run[r].order} \subseteq {r, NoRun}

\* A run past its revalidation takes no other quote or amount.
Settled == {"revalidated", "pending", "completed", "failed"}

\* The amount of a run is agreed to unless it waits for another approval, and an
\* attempt is made, and its order stands, for an amount that was.
ApprovalInv ==
    "overwrite" \notin slips =>
        /\ \A r \in Runs :
            /\ run[r].stage # "reapproval" => run[r].amount <= run[r].agreed
            /\ run[r].attempt \notin {"absent", "changed"} => run[r].stage \in Settled
            /\ run[r].attempt \in {"ordered", "exposed", "paid"} =>
                   run[r].total <= run[r].agreed
        /\ \A q \in Requests :
            LET r == request[q].run IN
            request[q].pc = "reserve" /\ run[r].attempt = "absent" => run[r].stage \in Settled

CartInv == RequestInv /\ AttemptInv /\ LeaseInv /\ BasketInv /\ ApprovalInv

-----------------------------------------------------------------------------
(* Properties                                                              *)

\* quote_provider.py: "two workflows for the same user must never prepare or
\* charge different carts concurrently".  They do not while leases are respected.
OneCartAtATime ==
    LeaseRespected => \A p, q \in Requests :
        InScope(p) /\ InScope(q) => request[p].run = request[q].run

\* As long, no run is quoted or sold the basket of another.
OwnBasket ==
    LeaseRespected => \A r \in Runs : {run[r].quoted, run[r].order} \subseteq {r, NoRun}

\* Whatever happened to the lease and the cart, the user is not charged more
\* than they agreed to: the amount their payment intent was created for or, when
\* they adjusted the run after that, their own amount, which may exceed the
\* intent's.  Only a transition decided on an older look at the run, which turned
\* one that had to be approved again back into an approved one, may break this.
PaidWithinApproval ==
    "overwrite" \notin slips => \A r \in Runs :
        run[r].attempt = "paid" => run[r].total <= run[r].agreed

\* While a checkout is pending with a live lease nobody replaces its cart.
PendingKeepsCart ==
    [][\A r \in Runs :
         /\ run[r].stage = "pending" /\ lease = Taken(r) /\ LeaseRespected
         => cart' = cart]_vars
=============================================================================
