------------------------------ MODULE CartProofs ------------------------------
(***************************************************************************)
(* Theorems of module CartLease, for any number of runs and requests of a  *)
(* user, any prices and any number of faults.                              *)
(***************************************************************************)
EXTENDS CartLease, TLAPS

-----------------------------------------------------------------------------
(* What the primitives do to a request and to a run.                        *)

LEMMA MoneyIsCounted == ASSUME NEW m \in Prices \cup {0} PROVE m \in Nat
BY PricesAssumption

Labels == {"idle", "approve", "lock"} \cup Quoting \cup Paying

OthersKept(q) == \A p \in Requests \ {q} : request'[p] = request[p]

LEMMA FaultCounted == ASSUME TypeOK, Fault PROVE faults' \in 0 .. MaxFaults
BY MaxFaultsAssumption DEF TypeOK, Fault

LEMMA GoesDoes ==
    ASSUME TypeOK, NEW q \in Requests, NEW pc \in Labels, Goes(q, pc)
    PROVE  /\ request' \in [Requests -> Request] /\ OthersKept(q)
           /\ request'[q].pc = pc /\ request'[q].run = request[q].run
           /\ request'[q].seen = request[q].seen /\ request'[q].fresh = request[q].fresh
           /\ request'[q].result = request[q].result
BY DEF TypeOK, Goes, OthersKept, Request, Labels

LEMMA GivesDoes ==
    ASSUME TypeOK, NEW q \in Requests, NEW pc \in Labels,
           NEW result \in {"none", "quoted", "pending", "reapproval", "completed", "failed", "raised"},
           Gives(q, pc, result)
    PROVE  /\ request' \in [Requests -> Request] /\ OthersKept(q)
           /\ request'[q].pc = pc /\ request'[q].run = request[q].run
           /\ request'[q].seen = request[q].seen /\ request'[q].fresh = request[q].fresh
           /\ request'[q].result = result
BY DEF TypeOK, Gives, OthersKept, Request, Labels

LEMMA EndsDoes ==
    ASSUME TypeOK, NEW q \in Requests, Ends(q)
    PROVE  /\ request' \in [Requests -> Request] /\ OthersKept(q) /\ request'[q] = Idle
           /\ request'[q].pc = "idle" /\ request'[q].result = "none"
BY DEF TypeOK, Ends, OthersKept, Request, Idle

OtherRunsKept(r) == \A s \in Runs \ {r} : run'[s] = run[s]

LEMMA StageDoes ==
    ASSUME TypeOK, NEW r \in Runs,
           NEW stage \in {"new", "quoted", "passkey", "approved", "revalidated", "reapproval",
                          "pending", "completed", "failed"},
           Stage(r, stage)
    PROVE  /\ run' \in [Runs -> Run] /\ OtherRunsKept(r)
           /\ run'[r].stage = stage /\ run'[r].quoted = run[r].quoted
           /\ run'[r].amount = run[r].amount /\ run'[r].agreed = run[r].agreed
           /\ run'[r].attempt = run[r].attempt /\ run'[r].order = run[r].order
           /\ run'[r].total = run[r].total
BY DEF TypeOK, Stage, OtherRunsKept, Run

LEMMA AttemptDoes ==
    ASSUME TypeOK, NEW r \in Runs,
           NEW state \in {"absent", "creating", "ordered", "ambiguous", "changed", "exposed",
                          "paid", "declined", "mismatch"},
           Attempt(r, state)
    PROVE  /\ run' \in [Runs -> Run] /\ OtherRunsKept(r)
           /\ run'[r].stage = run[r].stage /\ run'[r].quoted = run[r].quoted
           /\ run'[r].amount = run[r].amount /\ run'[r].agreed = run[r].agreed
           /\ run'[r].attempt = state /\ run'[r].order = run[r].order
           /\ run'[r].total = run[r].total
BY DEF TypeOK, Attempt, OtherRunsKept, Run

-----------------------------------------------------------------------------
(* The lease.                                                               *)

\* Two requests in the scope work for one run, and a request that quotes is alone.
LEMMA OneRunInScope ==
    ASSUME TypeOK, RequestInv, LeaseInv, LeaseRespected,
           NEW p \in Requests, NEW q \in Requests, InScope(p), InScope(q)
    PROVE  /\ request[p].run = request[q].run
           /\ request[p].pc \in Quoting => p = q
<1>1. OwnerOf(p) = OwnerOf(q)
  BY DEF LeaseInv, Taken
<1>2. request[p].run \in Runs /\ request[q].run \in Runs
  BY DEF RequestInv, InScope, Quoting, Paying
<1>3. QED
  BY <1>1, <1>2, OwnersAssumption DEF OwnerOf, InScope

\* What the scope and the owner of a request depend on.
LEMMA SameScope ==
    ASSUME NEW p, request'[p] = request[p]
    PROVE  (InScope(p)' <=> InScope(p)) /\ OwnerOf(p)' = OwnerOf(p)
           /\ (Attempting(p)' <=> Attempting(p))
BY DEF InScope, OwnerOf, Attempting

\* A grant for q leaves nobody in the scope but requests under the same owner.
LEMMA GrantExcludes ==
    ASSUME TypeOK, RequestInv, LeaseInv, LeaseRespected, NEW owner \in Owners, Granted(owner),
           NEW p \in Requests, InScope(p)
    PROVE  OwnerOf(p) = owner
<1>1. request[p].run \in Runs
  BY DEF RequestInv, InScope, Quoting, Paying
<1>2. lease = Taken(OwnerOf(p)) /\ OwnerOf(p) \in Owners
  BY <1>1 DEF LeaseInv, OwnerOf, Owners
<1>3. QED
  BY <1>2, OwnersAssumption DEF Granted, Taken, NoLease, Owners

-----------------------------------------------------------------------------
(* Steps that only move a request, and perhaps replace the cart.            *)

LEMMA RequestMoves ==
    ASSUME TypeOK, CartInv, NEW q \in Requests, NEW n, n = request'[q],
           UNCHANGED <<lease, run, slips>>, OthersKept(q), request' \in [Requests -> Request],
           price' = price, cart' \in {cart, request[q].run}, faults' \in 0 .. MaxFaults,
           cart' # cart => request[q].pc = "replace",
           n.pc \notin Paying \ {"examine", "revalue", "revalidate", "finish"},
           n.pc # "idle" => n.run \in Runs,
           n.pc \notin {"unlock", "finish"} => n.result = "none",
           n.pc = "finish" => n.result \in {"none", "raised"},
           n.pc \in {"preview", "revalue"} => cart' = n.run,
           LeaseRespected /\ n.result = "quoted" => n.seen = n.run,
           InScope(q)' => InScope(q) /\ OwnerOf(q)' = OwnerOf(q)
    PROVE  TypeOK' /\ CartInv'
<1> USE DEF CartInv
<1>1. \A p \in Requests \ {q} : request'[p] = request[p]
  BY DEF OthersKept
<1>2. ~Attempting(q)' /\ n.pc \notin {"order", "reserve", "check", "pay"}
  BY DEF Attempting, Paying
<1>3. cart' # cart => InScope(q) /\ request[q].run \in Runs /\ request[q].pc \in Quoting
  BY DEF InScope, Quoting, RequestInv
<1>4. TypeOK'
  BY <1>3 DEF TypeOK
<1>5. RequestInv'
  <2> SUFFICES ASSUME NEW p \in Requests
               PROVE  /\ request'[p].pc # "idle" => request'[p].run \in Runs
                      /\ request'[p].pc \notin {"unlock", "finish"} => request'[p].result = "none"
                      /\ request'[p].pc = "finish" => request'[p].result # "quoted"
                      /\ request'[p].pc \in {"preview", "revalue", "order"} => cart' \in Runs
    BY DEF RequestInv
  <2>1. CASE p = q
    BY <2>1, <1>2
  <2>2. CASE p # q
    BY <2>2, <1>1, <1>3 DEF RequestInv
  <2>3. QED
    BY <2>1, <2>2
<1>6. AttemptInv'
  BY <1>1, <1>2, SameScope DEF AttemptInv
<1>7. LeaseInv'
  BY <1>1, SameScope DEF LeaseInv, LeaseRespected
<1>8. BasketInv'
  <2> SUFFICES ASSUME LeaseRespected PROVE BasketInv'
    BY DEF BasketInv, LeaseRespected
  <2>1. ASSUME NEW p \in Requests \ {q}, request[p].pc \in {"preview", "revalue", "order"}
        PROVE  cart' = request[p].run
    <3>1. InScope(p) /\ cart = request[p].run
      BY <2>1 DEF InScope, Quoting, Paying, BasketInv
    <3>2. QED
      BY <1>3, <3>1, OneRunInScope
  <2>2. QED
    BY <1>1, <1>2, <2>1 DEF BasketInv
<1>9. ApprovalInv'
  BY <1>1, <1>2 DEF ApprovalInv
<1>10. QED
  BY <1>4, <1>5, <1>6, <1>7, <1>8, <1>9

LEMMA ReplaceKeeps ==
    ASSUME TypeOK, CartInv, NEW q \in Requests, ReplaceCart(q)
    PROVE  TypeOK' /\ CartInv'
<1>1. request[q].pc = "replace" /\ request[q].run \in Runs /\ request[q].result = "none"
  BY DEF ReplaceCart, CartInv, RequestInv
<1>2. CASE Goes(q, "inspect")
  BY <1>1, <1>2, GoesDoes, RequestMoves
     DEF ReplaceCart, Labels, Quoting, Paying, InScope, OwnerOf, TypeOK
<1>3. CASE Gives(q, "unlock", "raised")
  BY <1>1, <1>3, GivesDoes, RequestMoves
     DEF ReplaceCart, Labels, Quoting, Paying, InScope, OwnerOf, TypeOK
<1>4. QED
  BY <1>2, <1>3 DEF ReplaceCart

LEMMA InspectKeeps ==
    ASSUME TypeOK, CartInv, NEW q \in Requests, InspectCart(q)
    PROVE  TypeOK' /\ CartInv'
<1>1. request[q].pc = "inspect" /\ request[q].run \in Runs /\ request[q].result = "none"
  BY DEF InspectCart, CartInv, RequestInv
<1>2. CASE Goes(q, "preview") /\ cart = request[q].run
  BY <1>1, <1>2, GoesDoes, RequestMoves
     DEF InspectCart, Labels, Quoting, Paying, InScope, OwnerOf, TypeOK
<1>3. CASE Gives(q, "unlock", "raised")
  BY <1>1, <1>3, GivesDoes, RequestMoves
     DEF InspectCart, Labels, Quoting, Paying, InScope, OwnerOf, TypeOK
<1>4. QED
  BY <1>2, <1>3 DEF InspectCart

LEMMA PreviewKeeps ==
    ASSUME TypeOK, CartInv, NEW q \in Requests, PreviewOrder(q)
    PROVE  TypeOK' /\ CartInv'
<1>1. /\ request[q].pc = "preview" /\ request[q].run \in Runs /\ request[q].result = "none"
      /\ cart \in Runs /\ (LeaseRespected => cart = request[q].run)
  BY DEF PreviewOrder, CartInv, RequestInv, BasketInv
<1>2. CASE request' = [request EXCEPT ![q].pc = "unlock", ![q].seen = cart,
                          ![q].fresh = price[cart], ![q].result = "quoted"]
  <2>1. /\ request' \in [Requests -> Request] /\ OthersKept(q)
        /\ request'[q].pc = "unlock" /\ request'[q].run = request[q].run
        /\ request'[q].seen = cart /\ request'[q].result = "quoted"
    <3> DEFINE n == [request[q] EXCEPT !.pc = "unlock", !.seen = cart,
                                       !.fresh = price[cart], !.result = "quoted"]
    <3>1. request' = [request EXCEPT ![q] = n]
      BY <1>2
    <3>2. price[cart] \in Prices
      BY <1>1 DEF TypeOK
    <3>3. /\ n \in Request /\ n.pc = "unlock" /\ n.run = request[q].run
          /\ n.seen = cart /\ n.result = "quoted"
      BY <1>1, <3>2 DEF TypeOK, Request, Quoting
    <3> HIDE DEF n
    <3>4. QED
      BY <3>1, <3>3 DEF TypeOK, OthersKept
  <2>2. QED
    BY <1>1, <2>1, RequestMoves DEF PreviewOrder, Quoting, Paying, InScope, OwnerOf, TypeOK
<1>3. CASE Gives(q, "unlock", "raised")
  <2>1. /\ request' \in [Requests -> Request] /\ OthersKept(q)
        /\ request'[q].pc = "unlock" /\ request'[q].run = request[q].run
        /\ request'[q].result = "raised"
    BY <1>3, GivesDoes DEF Labels, Quoting
  <2>2. QED
    BY <1>1, <2>1, RequestMoves DEF PreviewOrder, Quoting, Paying, InScope, OwnerOf, TypeOK
<1>4. QED
  BY <1>2, <1>3 DEF PreviewOrder

LEMMA ResumeKeeps ==
    ASSUME TypeOK, CartInv, NEW q \in Requests, NEW r \in Runs, Resume(q, r)
    PROVE  TypeOK' /\ CartInv'
<1>1. request \in [Requests -> Request] /\ request[q].result = "none" /\ request[q].pc = "idle"
  BY DEF Resume, TypeOK, Idle
<1>2. request' = [request EXCEPT ![q] = [request[q] EXCEPT !.pc = "approve", !.run = r]]
  BY <1>1 DEF Resume, Request
<1>3. /\ request' \in [Requests -> Request] /\ OthersKept(q)
      /\ request'[q].pc = "approve" /\ request'[q].run = r /\ request'[q].result = "none"
  BY <1>1, <1>2 DEF OthersKept, Request
<1>4. /\ UNCHANGED <<price, cart, lease, run, slips>> /\ faults' \in 0 .. MaxFaults
      /\ ~InScope(q)' /\ "approve" \notin Paying
  BY <1>3 DEF Resume, Quoting, Paying, InScope, TypeOK
<1>5. QED
  BY <1>3, <1>4, RequestMoves

\* The stored quote stands in for one that could not be had.
LEMMA ExamineKeeps ==
    ASSUME TypeOK, CartInv, NEW q \in Requests, Examine(q) \/ Revalue(q)
    PROVE  TypeOK' /\ CartInv'
<1>1. /\ request[q].pc \in {"examine", "revalue"} /\ request[q].run \in Runs
      /\ request[q].result = "none" /\ UNCHANGED <<price, cart, lease, run, slips, faults>>
      /\ request[q].pc = "revalue" => cart \in Runs
  BY DEF Examine, Revalue, CartInv, RequestInv
<1>2. ASSUME NEW fresh \in Prices \cup {0},
             request' = [request EXCEPT ![q].pc = "revalidate", ![q].fresh = fresh]
      PROVE  TypeOK' /\ CartInv'
  <2>1. request \in [Requests -> Request]
    BY DEF TypeOK
  <2>2. request' = [request EXCEPT ![q] = [request[q] EXCEPT !.pc = "revalidate", !.fresh = fresh]]
    BY <1>2, <2>1 DEF Request
  <2>3. /\ request' \in [Requests -> Request] /\ OthersKept(q)
        /\ request'[q].pc = "revalidate" /\ request'[q].run = request[q].run
        /\ request'[q].result = "none"
    BY <1>1, <2>1, <2>2 DEF OthersKept, Request, Paying
  <2>4. QED
    BY <1>1, <2>3, RequestMoves DEF Quoting, Paying, InScope, OwnerOf, TypeOK
<1>3. CASE Gives(q, "finish", "raised")
  BY <1>1, <1>3, GivesDoes, RequestMoves DEF Labels, Quoting, Paying, InScope, OwnerOf, TypeOK
<1>4. CASE Goes(q, "revalue") /\ cart = request[q].run
  BY <1>1, <1>4, GoesDoes, RequestMoves DEF Labels, Quoting, Paying, InScope, OwnerOf, TypeOK
<1>5. run[request[q].run].quote \in Prices \cup {0} /\ (cart \in Runs => price[cart] \in Prices)
  BY <1>1 DEF TypeOK, Run
<1>6. QED
  BY <1>1, <1>2, <1>3, <1>4, <1>5 DEF Examine, Revalue, StoredQuote

LEMMA DieKeeps ==
    ASSUME TypeOK, CartInv, NEW q \in Requests, Die(q)
    PROVE  TypeOK' /\ CartInv'
<1>1. faults' \in 0 .. MaxFaults
  BY MaxFaultsAssumption DEF Die, Fault, TypeOK
<1>2. QED
  BY <1>1, EndsDoes, RequestMoves DEF Die, Quoting, Paying, InScope

-----------------------------------------------------------------------------
(* What keeps each part of the invariant.                                   *)

LEMMA RequestsKept ==
    ASSUME RequestInv, NEW q \in Requests, OthersKept(q), cart' = cart,
           request'[q].pc # "idle" => request'[q].run \in Runs,
           request'[q].pc \notin {"unlock", "finish"} => request'[q].result = "none",
           request'[q].pc = "finish" => request'[q].result # "quoted",
           request'[q].pc \in {"preview", "revalue", "order"} => cart \in Runs
    PROVE  RequestInv'
BY DEF RequestInv, OthersKept

\* Attempts stay as they are.
LEMMA AttemptsKept ==
    ASSUME RequestInv, AttemptInv, NEW q \in Requests, OthersKept(q),
           \A r \in Runs : run'[r].attempt = run[r].attempt,
           ~Attempting(q)',
           request'[q].pc = "finish" => request'[q].result \in {"none", "raised"}
    PROVE  AttemptInv'
<1>1. \A p \in Requests : request[p].pc # "idle" => request[p].run \in Runs
  BY DEF RequestInv
<1>2. \A p \in Requests \ {q} : request'[p] = request[p] /\ (Attempting(p)' <=> Attempting(p))
  BY SameScope DEF OthersKept
<1>3. request'[q].pc \notin {"check", "order", "pay"}
  BY DEF Attempting
<1>4. QED
  BY <1>1, <1>2, <1>3 DEF AttemptInv

\* The lease stays as it is.
LEMMA LeaseKept ==
    ASSUME LeaseInv, NEW q \in Requests, OthersKept(q), lease' = lease, slips \subseteq slips',
           InScope(q)' => InScope(q) /\ OwnerOf(q)' = OwnerOf(q)
    PROVE  LeaseInv'
BY SameScope DEF LeaseInv, OthersKept, LeaseRespected

\* It is taken ...
LEMMA LeaseTaken ==
    ASSUME TypeOK, RequestInv, LeaseInv, NEW q \in Requests, OthersKept(q), slips' = slips,
           NEW owner \in Owners, Granted(owner), lease' = Taken(owner), OwnerOf(q)' = owner
    PROVE  LeaseInv'
<1> SUFFICES ASSUME LeaseRespected, NEW p \in Requests, InScope(p)' PROVE lease' = Taken(OwnerOf(p)')
  BY DEF LeaseInv, LeaseRespected
<1>1. CASE p = q
  BY <1>1
<1>2. CASE p # q
  BY <1>2, SameScope, GrantExcludes DEF OthersKept
<1>3. QED
  BY <1>1, <1>2

\* ... or given back, by a request that leaves the scope or by nobody in it.
LEMMA LeaseGiven ==
    ASSUME TypeOK, RequestInv, LeaseInv, slips \subseteq slips', NEW owner \in Owners,
           lease' = Released(owner),
           NEW S \in SUBSET Requests, \A p \in S : request'[p] = request[p],
           \A p \in Requests \ S : ~InScope(p)',
           LeaseRespected' => \A p \in S : InScope(p) /\ lease.owner = owner => OwnerOf(p) # owner
    PROVE  LeaseInv'
<1> SUFFICES ASSUME LeaseRespected', NEW p \in S, InScope(p)' PROVE lease' = Taken(OwnerOf(p)')
  BY DEF LeaseInv
<1>1. InScope(p) /\ OwnerOf(p)' = OwnerOf(p) /\ LeaseRespected
  BY SameScope DEF LeaseRespected
<1>2. lease = Taken(OwnerOf(p))
  BY <1>1 DEF LeaseInv
<1>3. lease.owner # owner
  BY <1>1, <1>2 DEF Taken
<1>4. QED
  BY <1>1, <1>2, <1>3 DEF Released

\* The cart and what runs know of baskets stay as they are.
LEMMA BasketsKept ==
    ASSUME BasketInv, NEW q \in Requests, OthersKept(q), cart' = cart, slips \subseteq slips',
           \A r \in Runs : run'[r].quoted = run[r].quoted /\ run'[r].order = run[r].order,
           LeaseRespected /\ request'[q].pc \in {"preview", "revalue", "order"} =>
               cart = request'[q].run,
           request'[q].result # "quoted"
    PROVE  BasketInv'
BY DEF BasketInv, OthersKept, LeaseRespected

\* One run is moved on.
LEMMA ApprovalsKept ==
    ASSUME ApprovalInv, NEW r \in Runs, OtherRunsKept(r), slips \subseteq slips',
           RequestInv,
           "overwrite" \notin slips' =>
               /\ run'[r].stage # "reapproval" => run'[r].amount <= run'[r].agreed
               /\ run'[r].attempt \notin {"absent", "changed"} => run'[r].stage \in Settled
               /\ run'[r].attempt \in {"ordered", "exposed", "paid"} =>
                      run'[r].total <= run'[r].agreed
               /\ \A q \in Requests :
                      /\ request'[q].pc = "reserve" /\ request'[q].run = r
                      /\ run'[r].attempt = "absent"
                      => run'[r].stage \in Settled,
           \A q \in Requests : request'[q].pc = "reserve" /\ request'[q].run # r =>
               request[q].pc = "reserve" /\ request'[q].run = request[q].run
    PROVE  ApprovalInv'
<1> SUFFICES ASSUME "overwrite" \notin slips'
             PROVE  /\ \A s \in Runs :
                        /\ run'[s].stage # "reapproval" => run'[s].amount <= run'[s].agreed
                        /\ run'[s].attempt \notin {"absent", "changed"} => run'[s].stage \in Settled
                        /\ run'[s].attempt \in {"ordered", "exposed", "paid"} =>
                               run'[s].total <= run'[s].agreed
                    /\ \A q \in Requests :
                        request'[q].pc = "reserve" /\ run'[request'[q].run].attempt = "absent"
                        => run'[request'[q].run].stage \in Settled
  BY DEF ApprovalInv
<1>1. "overwrite" \notin slips
  OBVIOUS
<1>2. \A s \in Runs \ {r} : run'[s] = run[s]
  BY DEF OtherRunsKept
<1>3. \A q \in Requests : request[q].pc = "reserve" => request[q].run \in Runs
  BY DEF RequestInv
<1>4. QED
  BY <1>1, <1>2, <1>3 DEF ApprovalInv

LEMMA ApprovalsUntouched ==
    ASSUME ApprovalInv, run' = run, slips \subseteq slips',
           \A q \in Requests : request'[q].pc = "reserve" =>
               request[q].pc = "reserve" /\ request'[q].run = request[q].run
    PROVE  ApprovalInv'
BY DEF ApprovalInv

-----------------------------------------------------------------------------
(* Quoting.                                                                 *)

\* A stage that changes leaves quotes, orders, amounts and attempts alone.
LEMMA StageIsAll ==
    ASSUME TypeOK, NEW r \in Runs, NEW stage \in {"new", "quoted", "passkey", "approved",
               "revalidated", "reapproval", "pending", "completed", "failed"}, Stage(r, stage)
    PROVE  \A s \in Runs : /\ run'[s].quoted = run[s].quoted /\ run'[s].order = run[s].order
                           /\ run'[s].attempt = run[s].attempt
BY StageDoes DEF OtherRunsKept

LEMMA BeginKeeps ==
    ASSUME TypeOK, CartInv, NEW q \in Requests, NEW r \in Runs, BeginQuote(q, r)
    PROVE  TypeOK' /\ CartInv'
<1> USE DEF CartInv
<1>1. /\ request \in [Requests -> Request] /\ request[q].pc = "idle" /\ request[q].result = "none"
      /\ UNCHANGED <<price, cart, slips, faults>>
      /\ run[r].stage \in {"new", "reapproval"}
  BY DEF BeginQuote, TypeOK, Idle
<1>2. CASE Granted(q)
  <2>1. /\ lease' = Taken(q) /\ run' = run
        /\ request' = [request EXCEPT ![q] = [request[q] EXCEPT !.pc = "replace", !.run = r]]
    BY <1>1, <1>2 DEF BeginQuote, Request
  <2>2. /\ request' \in [Requests -> Request] /\ OthersKept(q)
        /\ request'[q].pc = "replace" /\ request'[q].run = r /\ request'[q].result = "none"
    BY <1>1, <2>1 DEF OthersKept, Request, Quoting
  <2>3. lease' \in Lease /\ q \in Owners /\ OwnerOf(q)' = q
    BY <2>1, <2>2 DEF Lease, Taken, Owners, OwnerOf, Quoting
  <2>4. TypeOK'
    BY <1>1, <2>1, <2>2, <2>3 DEF TypeOK
  <2>5. RequestInv'
    BY <1>1, <2>2, RequestsKept
  <2>6. AttemptInv'
    BY <2>1, <2>2, AttemptsKept DEF Attempting
  <2>7. LeaseInv'
    BY <1>1, <1>2, <2>1, <2>2, <2>3, LeaseTaken
  <2>8. BasketInv'
    BY <1>1, <2>1, <2>2, BasketsKept
  <2>9. ApprovalInv'
    BY <1>1, <2>1, <2>2, ApprovalsUntouched DEF OthersKept
  <2>10. QED
    BY <2>4, <2>5, <2>6, <2>7, <2>8, <2>9
<1>3. CASE ~Granted(q)
  <2>1. request' = request /\ lease' = lease /\ OthersKept(q)
    BY <1>3 DEF BeginQuote, OthersKept
  <2>2. CASE run' = run
    <3>1. TypeOK'
      BY <1>1, <2>1, <2>2 DEF TypeOK
    <3>2. RequestInv' /\ AttemptInv' /\ LeaseInv' /\ BasketInv' /\ ApprovalInv'
      BY <1>1, <2>1, <2>2 DEF RequestInv, AttemptInv, Attempting, LeaseInv, InScope, OwnerOf,
                              LeaseRespected, BasketInv, ApprovalInv
    <3>3. QED
      BY <3>1, <3>2
  <2>3. CASE run[r].stage = "new" /\ Stage(r, "failed")
    <3>1. /\ run' \in [Runs -> Run] /\ OtherRunsKept(r) /\ run'[r].stage = "failed"
          /\ run'[r].amount = run[r].amount /\ run'[r].agreed = run[r].agreed
          /\ run'[r].attempt = run[r].attempt /\ run'[r].total = run[r].total
          /\ \A s \in Runs : /\ run'[s].quoted = run[s].quoted /\ run'[s].order = run[s].order
                             /\ run'[s].attempt = run[s].attempt
      BY <2>3, StageDoes, StageIsAll
    <3>2. TypeOK'
      BY <1>1, <2>1, <3>1 DEF TypeOK
    <3>3. RequestInv' /\ AttemptInv' /\ LeaseInv' /\ BasketInv'
      BY <1>1, <2>1, <3>1 DEF RequestInv, AttemptInv, Attempting, LeaseInv, InScope, OwnerOf,
                              LeaseRespected, BasketInv
    <3>4. ApprovalInv'
      BY <1>1, <2>1, <2>3, <3>1, ApprovalsKept DEF ApprovalInv, Settled
    <3>5. QED
      BY <3>2, <3>3, <3>4
  <2>4. QED
    BY <1>3, <2>2, <2>3 DEF BeginQuote
<1>4. QED
  BY <1>2, <1>3

LEMMA UnlockKeeps ==
    ASSUME TypeOK, CartInv, NEW q \in Requests, Unlock(q)
    PROVE  TypeOK' /\ CartInv'
<1> USE DEF CartInv
<1>0. PICK r \in Runs : r = request[q].run
  BY DEF Unlock, RequestInv
<1>1. /\ request[q].pc = "unlock" /\ r \in Runs /\ lease' = Released(q)
      /\ UNCHANGED <<price, cart, slips, faults>> /\ request[q].run = r
  BY <1>0 DEF Unlock
<1>2. /\ request' \in [Requests -> Request] /\ OthersKept(q) /\ request'[q].pc = "idle"
      /\ request'[q].result = "none"
  BY EndsDoes DEF Unlock
<1>3. lease' \in Lease
  BY <1>1 DEF Released, NoLease, Lease, TypeOK
<1>4. RequestInv'
  BY <1>1, <1>2, RequestsKept
<1>5. LeaseInv'
  <2>1. ASSUME NEW p \in Requests \ {q}, InScope(p) PROVE OwnerOf(p) # q
    BY <2>1, OwnersAssumption DEF OwnerOf, InScope, RequestInv, Paying
  <2>2. ~InScope(q)'
    BY <1>2 DEF InScope, Quoting, Paying
  <2>3. \A p \in Requests \ {q} : request'[p] = request[p]
    BY <1>2 DEF OthersKept
  <2>4. q \in Owners /\ slips \subseteq slips'
    BY <1>1 DEF Owners
  <2>5. \A p \in Requests \ (Requests \ {q}) : ~InScope(p)'
    BY <2>2
  <2> DEFINE S == Requests \ {q}
  <2>6. S \in SUBSET Requests
    OBVIOUS
  <2> HIDE DEF S
  <2>7. QED
    BY <1>1, <2>1, <2>3, <2>4, <2>5, <2>6, LeaseGiven DEF S
<1>6. CASE run' = run
  <2>1. TypeOK'
    BY <1>1, <1>2, <1>3, <1>6 DEF TypeOK
  <2>2. AttemptInv'
    BY <1>2, <1>6, AttemptsKept DEF Attempting
  <2>3. BasketInv'
    BY <1>1, <1>2, <1>6, BasketsKept
  <2>4. ApprovalInv'
    BY <1>1, <1>2, <1>6, ApprovalsUntouched DEF OthersKept
  <2>5. QED
    BY <1>4, <1>5, <2>1, <2>2, <2>3, <2>4
<1>7. CASE run[r].stage = "new" /\ Stage(r, "failed")
  <2>1. /\ run' \in [Runs -> Run] /\ OtherRunsKept(r) /\ run'[r].stage = "failed"
        /\ run'[r].amount = run[r].amount /\ run'[r].agreed = run[r].agreed
        /\ run'[r].attempt = run[r].attempt /\ run'[r].total = run[r].total
        /\ \A s \in Runs : /\ run'[s].quoted = run[s].quoted /\ run'[s].order = run[s].order
                           /\ run'[s].attempt = run[s].attempt
    BY <1>1, <1>7, StageDoes, StageIsAll
  <2>2. TypeOK'
    BY <1>1, <1>2, <1>3, <2>1 DEF TypeOK
  <2>3. AttemptInv'
    BY <1>2, <2>1, AttemptsKept DEF Attempting
  <2>4. BasketInv'
    BY <1>1, <1>2, <2>1, BasketsKept
  <2>5. ApprovalInv'
    BY <1>1, <1>2, <1>7, <2>1, ApprovalsKept DEF ApprovalInv, Settled, OthersKept
  <2>6. QED
    BY <1>4, <1>5, <2>2, <2>3, <2>4, <2>5
<1>8. CASE /\ request[q].result = "quoted" /\ run[r].stage \in {"new", "reapproval"}
           /\ run' = [run EXCEPT
                  ![r].stage = IF run[r].stage = "new" THEN "quoted" ELSE "passkey",
                  ![r].quoted = request[q].seen, ![r].quote = request[q].fresh,
                  ![r].amount = request[q].fresh, ![r].agreed = request[q].fresh]
  <2> DEFINE stage == IF run[r].stage = "new" THEN "quoted" ELSE "passkey"
             n == [run[r] EXCEPT !.stage = stage, !.quoted = request[q].seen,
                       !.quote = request[q].fresh, !.amount = request[q].fresh, !.agreed = request[q].fresh]
  <2>1. run' = [run EXCEPT ![r] = n]
    BY <1>1, <1>8 DEF TypeOK, Run
  <2>2. /\ request[q].seen \in Runs \cup {NoRun} /\ request[q].fresh \in Prices \cup {0}
        /\ LeaseRespected => request[q].seen = r
    BY <1>1, <1>8 DEF TypeOK, Request, BasketInv
  <2>3. run \in [Runs -> Run]
    BY DEF TypeOK
  <2>4. /\ run' \in [Runs -> Run] /\ OtherRunsKept(r)
        /\ run'[r].stage \in {"quoted", "passkey"} /\ run'[r].quoted = request[q].seen
        /\ run'[r].amount = request[q].fresh /\ run'[r].agreed = request[q].fresh
        /\ run'[r].attempt = run[r].attempt /\ run'[r].total = run[r].total
        /\ run'[r].order = run[r].order
    <3>1. stage \in {"quoted", "passkey"} /\ run[r] \in Run
      BY <2>3
    <3> HIDE DEF stage
    <3>2. /\ n \in Run /\ n.stage = stage /\ n.quoted = request[q].seen
          /\ n.amount = request[q].fresh /\ n.agreed = request[q].fresh
          /\ n.attempt = run[r].attempt /\ n.total = run[r].total /\ n.order = run[r].order
      BY <2>2, <3>1 DEF Run
    <3> HIDE DEF n
    <3>3. QED
      BY <2>1, <2>3, <3>1, <3>2 DEF OtherRunsKept
  <2>5. TypeOK'
    BY <1>1, <1>2, <1>3, <2>4 DEF TypeOK
  <2>6. AttemptInv'
    BY <1>2, <2>4, AttemptsKept DEF Attempting, OtherRunsKept
  <2>7. BasketInv'
    BY <1>1, <1>2, <2>2, <2>4 DEF BasketInv, OthersKept, OtherRunsKept, LeaseRespected
  <2>8. request[q].fresh \in Nat
    BY <2>2, MoneyIsCounted
  <2>9. "overwrite" \notin slips => run[r].attempt \in {"absent", "changed"}
    BY <1>1, <1>8 DEF ApprovalInv, Settled
  <2>10. \A p \in Requests : request'[p].pc = "reserve" => request[p] = request'[p]
    BY <1>2 DEF OthersKept
  <2>11. ASSUME "overwrite" \notin slips, NEW p \in Requests, request[p].pc = "reserve",
                request[p].run = r, run[r].attempt = "absent"
         PROVE  FALSE
    BY <1>1, <1>8, <2>11 DEF ApprovalInv, Settled
  <2>12. ApprovalInv'
    BY <1>1, <2>4, <2>8, <2>9, <2>10, <2>11, ApprovalsKept
  <2>13. QED
    BY <1>4, <1>5, <2>5, <2>6, <2>7, <2>12
<1>9. QED
  BY <1>1, <1>6, <1>7, <1>8 DEF Unlock

LEMMA ApproveKeeps ==
    ASSUME TypeOK, CartInv, NEW r \in Runs, Approve(r) \/ ApproveLate(r)
    PROVE  TypeOK' /\ CartInv'
<1> USE DEF CartInv
<1>1. /\ run[r].stage \in {"quoted", "reapproval"} /\ UNCHANGED <<price, cart, lease, request>>
      /\ slips \subseteq slips' /\ slips' \subseteq slips \cup {"overwrite"}
      /\ "overwrite" \notin slips' => run[r].stage = "quoted"
      /\ faults' \in 0 .. MaxFaults
  BY FaultCounted DEF Approve, ApproveLate, TypeOK
<1>2. /\ run' \in [Runs -> Run] /\ OtherRunsKept(r) /\ run'[r].stage = "passkey"
      /\ run'[r].amount = run[r].amount /\ run'[r].agreed = run[r].agreed
      /\ run'[r].attempt = run[r].attempt /\ run'[r].total = run[r].total
      /\ \A s \in Runs : /\ run'[s].quoted = run[s].quoted /\ run'[s].order = run[s].order
                         /\ run'[s].attempt = run[s].attempt
  BY StageDoes, StageIsAll DEF Approve, ApproveLate
<1>3. TypeOK'
  BY <1>1, <1>2 DEF TypeOK
<1>4. RequestInv' /\ AttemptInv' /\ LeaseInv' /\ BasketInv'
  BY <1>1, <1>2 DEF RequestInv, AttemptInv, Attempting, LeaseInv, InScope, OwnerOf,
                    LeaseRespected, BasketInv
<1>5. ApprovalInv'
  BY <1>1, <1>2, ApprovalsKept DEF ApprovalInv, Settled
<1>6. QED
  BY <1>3, <1>4, <1>5

\* The user's own amount is what they agreed to by then.
LEMMA AdjustKeeps ==
    ASSUME TypeOK, CartInv, NEW r \in Runs, NEW a \in Prices, Adjust(r, a) \/ AdjustLate(r, a)
    PROVE  TypeOK' /\ CartInv'
<1> USE DEF CartInv
<1>1. /\ run[r].stage \in {"quoted", "reapproval"}
      /\ UNCHANGED <<price, cart, lease, request, slips>> /\ faults' \in 0 .. MaxFaults
  BY FaultCounted DEF Adjust, AdjustLate, TypeOK
<1>2. run \in [Runs -> Run] /\ run[r] \in Run /\ a \in Nat
  BY MoneyIsCounted DEF TypeOK
<1>3. PICK stage \in {"quoted", "reapproval"} :
          run' = [run EXCEPT ![r] = [run[r] EXCEPT !.stage = stage, !.amount = a, !.agreed = a]]
  <2>1. CASE Adjust(r, a)
    <3>1. [run[r] EXCEPT !.stage = run[r].stage, !.amount = a, !.agreed = a] =
              [run[r] EXCEPT !.amount = a, !.agreed = a]
      BY <1>2 DEF Run
    <3>2. QED
      BY <1>1, <1>2, <2>1, <3>1 DEF Adjust
  <2>2. CASE AdjustLate(r, a)
    BY <1>2, <2>2 DEF AdjustLate
  <2>3. QED
    BY <2>1, <2>2
<1> DEFINE n == [run[r] EXCEPT !.stage = stage, !.amount = a, !.agreed = a]
<1>4. /\ n \in Run /\ n.stage = stage /\ n.amount = a /\ n.agreed = a
      /\ n.quoted = run[r].quoted /\ n.order = run[r].order
      /\ n.attempt = run[r].attempt /\ n.total = run[r].total
  BY <1>2 DEF Run
<1>5. run' = [run EXCEPT ![r] = n]
  BY <1>3
<1> HIDE DEF n
<1>6. /\ run' \in [Runs -> Run] /\ OtherRunsKept(r) /\ run'[r] = n
      /\ \A s \in Runs : /\ run'[s].quoted = run[s].quoted /\ run'[s].order = run[s].order
                         /\ run'[s].attempt = run[s].attempt
  BY <1>2, <1>4, <1>5 DEF OtherRunsKept
<1>7. TypeOK'
  BY <1>1, <1>6 DEF TypeOK
<1>8. RequestInv' /\ AttemptInv' /\ LeaseInv' /\ BasketInv'
  BY <1>1, <1>6 DEF RequestInv, AttemptInv, Attempting, LeaseInv, InScope, OwnerOf,
                    LeaseRespected, BasketInv
<1>9. ApprovalInv'
  <2>1. "overwrite" \notin slips =>
            /\ run[r].attempt \in {"absent", "changed"}
            /\ \A p \in Requests :
                   request[p].pc = "reserve" /\ request[p].run = r => run[r].attempt # "absent"
    BY <1>1 DEF ApprovalInv, Settled
  <2>2. QED
    BY <1>1, <1>2, <1>4, <1>6, <2>1, ApprovalsKept
<1>10. QED
  BY <1>7, <1>8, <1>9

-----------------------------------------------------------------------------
(* Checkout.                                                                *)

LEMMA MandateKeeps ==
    ASSUME TypeOK, CartInv, NEW q \in Requests, MandateApproved(q)
    PROVE  TypeOK' /\ CartInv'
<1> USE DEF CartInv
<1>0. PICK r \in Runs : r = request[q].run
  BY DEF MandateApproved, RequestInv
<1>1. /\ request[q].pc = "approve" /\ request[q].run = r /\ request[q].result = "none"
      /\ Stage(r, "approved") /\ Goes(q, "lock")
      /\ UNCHANGED <<price, cart, lease, faults>>
      /\ slips \subseteq slips' /\ slips' \subseteq slips \cup {"overwrite"}
      /\ "overwrite" \notin slips' => run[r].stage = "passkey"
  BY <1>0 DEF MandateApproved, RequestInv
<1>2. /\ run' \in [Runs -> Run] /\ OtherRunsKept(r) /\ run'[r].stage = "approved"
      /\ run'[r].amount = run[r].amount /\ run'[r].agreed = run[r].agreed
      /\ run'[r].attempt = run[r].attempt /\ run'[r].total = run[r].total
      /\ \A s \in Runs : /\ run'[s].quoted = run[s].quoted /\ run'[s].order = run[s].order
                         /\ run'[s].attempt = run[s].attempt
  BY <1>1, StageDoes, StageIsAll
<1>3. /\ request' \in [Requests -> Request] /\ OthersKept(q) /\ request'[q].pc = "lock"
      /\ request'[q].run = r /\ request'[q].result = "none"
  BY <1>1, GoesDoes DEF Labels
<1>4. TypeOK'
  BY <1>1, <1>2, <1>3 DEF TypeOK
<1>5. RequestInv' /\ AttemptInv'
  BY <1>1, <1>2, <1>3, RequestsKept, AttemptsKept DEF Attempting
<1>6. LeaseInv' /\ BasketInv'
  BY <1>1, <1>2, <1>3, LeaseKept, BasketsKept DEF InScope, Quoting, Paying
<1>7. ApprovalInv'
  <2>1. \A p \in Requests : request'[p].pc = "reserve" => request'[p] = request[p]
    BY <1>3 DEF OthersKept
  <2>2. "overwrite" \notin slips' =>
            /\ run[r].amount <= run[r].agreed /\ run[r].attempt \in {"absent", "changed"}
            /\ \A p \in Requests :
                   request[p].pc = "reserve" /\ request[p].run = r => run[r].attempt # "absent"
    BY <1>1 DEF ApprovalInv, Settled
  <2>3. QED
    BY <1>1, <1>2, <2>1, <2>2, ApprovalsKept
<1>8. QED
  BY <1>4, <1>5, <1>6, <1>7

LEMMA GuardedStage ==
    ASSUME NEW stage \in {"new", "quoted", "passkey", "approved", "revalidated", "reapproval",
                          "pending", "completed", "failed"}
    PROVE  /\ Guarded(stage) \in {"new", "quoted", "passkey", "approved", "revalidated",
                                  "reapproval", "pending", "completed", "failed"}
           /\ Guarded(stage) = "reapproval" <=> stage = "reapproval"
           /\ stage \in Settled => Guarded(stage) \in Settled
BY DEF Guarded, Settled

LEMMA LeaseTypes == ASSUME TypeOK PROVE lease \in Lease /\ NoLease \in Lease
BY DEF TypeOK, Lease, NoLease

LEMMA LockKeeps ==
    ASSUME TypeOK, CartInv, NEW q \in Requests, Lock(q)
    PROVE  TypeOK' /\ CartInv'
<1> USE DEF CartInv
<1>0. PICK r \in Runs : r = request[q].run
  BY DEF Lock, RequestInv
<1>1. /\ request[q].pc = "lock" /\ request[q].run = r /\ request[q].result = "none"
      /\ UNCHANGED <<price, cart, slips, faults>>
  BY <1>0 DEF Lock, RequestInv
<1>2. CASE Granted(r)
  <2>1. lease' = Taken(r) /\ Goes(q, "examine") /\ run' = run
    BY <1>0, <1>2 DEF Lock
  <2>2. /\ request' \in [Requests -> Request] /\ OthersKept(q) /\ request'[q].pc = "examine"
        /\ request'[q].run = r /\ request'[q].result = "none"
    BY <1>1, <2>1, GoesDoes DEF Labels, Paying
  <2>3. lease' \in Lease /\ r \in Owners /\ OwnerOf(q)' = r
    BY <2>1, <2>2 DEF Lease, Taken, Owners, OwnerOf, Quoting
  <2>4. TypeOK'
    BY <1>1, <2>1, <2>2, <2>3 DEF TypeOK
  <2>5. RequestInv' /\ AttemptInv'
    BY <1>1, <2>1, <2>2, RequestsKept, AttemptsKept DEF Attempting
  <2>6. LeaseInv'
    BY <1>1, <1>2, <2>1, <2>2, <2>3, LeaseTaken
  <2>7. BasketInv'
    BY <1>1, <2>1, <2>2, BasketsKept
  <2>8. ApprovalInv'
    BY <1>1, <2>1, <2>2, ApprovalsUntouched DEF OthersKept
  <2>9. QED
    BY <2>4, <2>5, <2>6, <2>7, <2>8
<1>3. CASE ~Granted(r)
  <2>1. Stage(r, Guarded(run[r].stage)) /\ Ends(q) /\ lease' = lease
    BY <1>0, <1>3 DEF Lock
  <2>2. PICK stage \in {"new", "quoted", "passkey", "approved", "revalidated", "reapproval",
                        "pending", "completed", "failed"} :
            stage = Guarded(run[r].stage)
    BY GuardedStage DEF TypeOK, Run
  <2>3. /\ run' \in [Runs -> Run] /\ OtherRunsKept(r) /\ run'[r].stage = stage
        /\ run'[r].amount = run[r].amount /\ run'[r].agreed = run[r].agreed
        /\ run'[r].attempt = run[r].attempt /\ run'[r].total = run[r].total
        /\ \A s \in Runs : /\ run'[s].quoted = run[s].quoted /\ run'[s].order = run[s].order
                           /\ run'[s].attempt = run[s].attempt
    BY <2>1, <2>2, StageDoes, StageIsAll
  <2>4. /\ request' \in [Requests -> Request] /\ OthersKept(q) /\ request'[q].pc = "idle"
        /\ request'[q].result = "none"
    BY <2>1, EndsDoes
  <2>5. TypeOK'
    BY <1>1, <2>1, <2>3, <2>4 DEF TypeOK
  <2>6. RequestInv' /\ AttemptInv'
    BY <1>1, <2>3, <2>4, RequestsKept, AttemptsKept DEF Attempting
  <2>7. LeaseInv' /\ BasketInv'
    BY <1>1, <2>1, <2>3, <2>4, LeaseKept, BasketsKept DEF InScope, Quoting, Paying
  <2>8. ApprovalInv'
    <3>1. \A p \in Requests : request'[p].pc = "reserve" => request'[p] = request[p]
      BY <2>4 DEF OthersKept
    <3>2. /\ stage = "reapproval" <=> run[r].stage = "reapproval"
          /\ run[r].stage \in Settled => stage \in Settled
      BY <2>2, GuardedStage DEF TypeOK, Run
    <3>3. QED
      BY <1>1, <2>3, <3>1, <3>2, ApprovalsKept DEF ApprovalInv
  <2>9. QED
    BY <2>5, <2>6, <2>7, <2>8
<1>4. QED
  BY <1>2, <1>3

\* A total that is taken is covered by the approval of the amount before.
LEMMA RevalidateKeeps ==
    ASSUME TypeOK, CartInv, NEW q \in Requests, Revalidate(q)
    PROVE  TypeOK' /\ CartInv'
<1> USE DEF CartInv
<1>0. PICK r \in Runs, fresh \in Prices \cup {0} : r = request[q].run /\ fresh = request[q].fresh
  BY DEF Revalidate, RequestInv, TypeOK, Request
<1>1. /\ request[q].pc = "revalidate" /\ request[q].run = r /\ request[q].result = "none"
      /\ UNCHANGED <<price, cart, lease, slips, faults>>
  BY <1>0 DEF Revalidate, RequestInv
<1>2. CASE run[r].stage # "approved"
  <2>1. Gives(q, "finish", "raised") /\ UNCHANGED <<price, cart, lease, run, slips, faults>>
    BY <1>0, <1>2 DEF Revalidate
  <2>2. QED
    BY <1>1, <2>1, GivesDoes, RequestMoves DEF Labels, Quoting, Paying, InScope, OwnerOf, TypeOK
<1>3. CASE run[r].stage = "approved"
  <2> DEFINE taken == WithinTolerance(fresh, run[r].amount)
             stage == IF taken THEN "revalidated" ELSE "reapproval"
             label == IF taken THEN "reserve" ELSE "finish"
             n == [run[r] EXCEPT !.amount = fresh, !.quote = fresh, !.stage = stage]
             m == [request[q] EXCEPT !.fresh = 0, !.pc = label]
  <2>1. run \in [Runs -> Run] /\ request \in [Requests -> Request]
    BY DEF TypeOK
  <2>2. run' = [run EXCEPT ![r].amount = fresh, ![r].quote = fresh, ![r].stage = stage]
    BY <1>0, <1>3 DEF Revalidate
  <2>3. request' = [request EXCEPT ![q].fresh = 0, ![q].pc = label]
    BY <1>0, <1>3 DEF Revalidate
  <2>4. run' = [run EXCEPT ![r] = n] /\ request' = [request EXCEPT ![q] = m]
    BY <2>1, <2>2, <2>3 DEF Run, Request
  <2>5. /\ \/ stage = "revalidated" /\ label = "reserve" /\ fresh <= run[r].amount
           \/ stage = "reapproval" /\ label = "finish"
        /\ run[r] \in Run /\ request[q] \in Request
    BY <2>1 DEF WithinTolerance
  <2> HIDE DEF taken, stage, label
  <2>6. /\ n \in Run /\ n.stage = stage /\ n.amount = fresh /\ n.agreed = run[r].agreed
        /\ n.quoted = run[r].quoted /\ n.order = run[r].order
        /\ n.attempt = run[r].attempt /\ n.total = run[r].total
    BY <2>5 DEF Run
  <2>7. /\ m \in Request /\ m.pc = label /\ m.run = r /\ m.result = "none"
    BY <1>1, <2>5 DEF Request, Paying
  <2> HIDE DEF n, m
  <2>8. /\ run' \in [Runs -> Run] /\ OtherRunsKept(r) /\ run'[r] = n
        /\ request' \in [Requests -> Request] /\ OthersKept(q) /\ request'[q] = m
    BY <2>1, <2>4, <2>6, <2>7 DEF OtherRunsKept, OthersKept
  <2>9. TypeOK'
    BY <1>1, <2>8 DEF TypeOK
  <2>10. \A s \in Runs : /\ run'[s].quoted = run[s].quoted /\ run'[s].order = run[s].order
                         /\ run'[s].attempt = run[s].attempt
    BY <2>6, <2>8 DEF OtherRunsKept
  <2>11. RequestInv' /\ AttemptInv'
    BY <1>1, <2>5, <2>7, <2>8, <2>10, RequestsKept, AttemptsKept DEF Attempting
  <2>12. LeaseInv'
    BY <1>1, <2>5, <2>7, <2>8, LeaseKept DEF InScope, OwnerOf, Quoting, Paying
  <2>13. BasketInv'
    BY <1>1, <2>5, <2>7, <2>8, <2>10, BasketsKept
  <2>14. ApprovalInv'
    <3>1. "overwrite" \notin slips =>
              /\ run[r].amount <= run[r].agreed /\ run[r].attempt \in {"absent", "changed"}
              /\ \A p \in Requests :
                     request[p].pc = "reserve" /\ request[p].run = r => run[r].attempt # "absent"
      BY <1>3 DEF ApprovalInv, Settled
    <3>2. fresh \in Nat /\ run[r].amount \in Nat /\ run[r].agreed \in Nat
      BY <2>5, MoneyIsCounted DEF Run
    <3>3. stage = "revalidated" /\ "overwrite" \notin slips => fresh <= run[r].agreed
      BY <2>5, <3>1, <3>2
    <3>4. \A p \in Requests \ {q} : request'[p] = request[p]
      BY <2>8 DEF OthersKept
    <3>5. "overwrite" \notin slips' =>
               /\ run'[r].stage # "reapproval" => run'[r].amount <= run'[r].agreed
               /\ run'[r].attempt \notin {"absent", "changed"} => run'[r].stage \in Settled
               /\ run'[r].attempt \in {"ordered", "exposed", "paid"} =>
                      run'[r].total <= run'[r].agreed
               /\ \A p \in Requests :
                      /\ request'[p].pc = "reserve" /\ request'[p].run = r
                      /\ run'[r].attempt = "absent"
                      => run'[r].stage \in Settled
      BY <1>1, <2>5, <2>6, <2>7, <2>8, <3>1, <3>3, <3>4 DEF Settled
    <3>6. QED
      BY <1>1, <2>7, <2>8, <3>4, <3>5, ApprovalsKept
  <2>15. QED
    BY <2>9, <2>11, <2>12, <2>13, <2>14
<1>4. QED
  BY <1>2, <1>3

-----------------------------------------------------------------------------
(* The attempt.                                                             *)

Attempts == {"absent", "creating", "ordered", "ambiguous", "changed", "exposed", "paid",
             "declined", "mismatch"}

\* One request moves on, and the attempt of its run with it.
LEMMA AttemptMoves ==
    ASSUME RequestInv, AttemptInv, NEW q \in Requests, NEW r \in Runs, request[q].run = r,
           request'[q].run = r, OthersKept(q), OtherRunsKept(r),
           \A p \in Requests \ {q} : request[p].run = r =>
               /\ request[p].pc \in {"check", "order"} => run'[r].attempt = "creating"
               /\ request[p].pc = "pay" =>
                      run'[r].attempt \in {"ordered", "exposed", "paid", "declined"},
           run[r].attempt # "absent" => run'[r].attempt # "absent",
           run[r].attempt = "changed" => run'[r].attempt = "changed",
           request'[q].pc \in {"check", "order"} => run'[r].attempt = "creating",
           request'[q].pc = "pay" => run'[r].attempt \in {"ordered", "exposed", "paid", "declined"},
           request'[q].pc = "finish" =>
               /\ request'[q].result \notin {"none", "raised"} => run'[r].attempt # "absent"
               /\ request'[q].result = "reapproval" => run'[r].attempt = "changed",
           Attempting(q)' => \A p \in Requests \ {q} : request[p].run = r => ~Attempting(p)
    PROVE  AttemptInv'
<1>1. \A p \in Requests : request[p].pc # "idle" => request[p].run \in Runs
  BY DEF RequestInv
<1>2. \A p \in Requests \ {q} : request'[p] = request[p] /\ (Attempting(p)' <=> Attempting(p))
  BY SameScope DEF OthersKept
<1>3. \A s \in Runs \ {r} : run'[s] = run[s]
  BY DEF OtherRunsKept
<1>4. ASSUME NEW p \in Requests
      PROVE  /\ request'[p].pc \in {"check", "order"} => run'[request'[p].run].attempt = "creating"
             /\ request'[p].pc = "pay" =>
                    run'[request'[p].run].attempt \in {"ordered", "exposed", "paid", "declined"}
             /\ request'[p].pc = "finish" =>
                    /\ request'[p].result \notin {"none", "raised"} =>
                           run'[request'[p].run].attempt # "absent"
                    /\ request'[p].result = "reapproval" =>
                           run'[request'[p].run].attempt = "changed"
  <2>1. CASE p = q
    BY <2>1
  <2>2. CASE p # q /\ request[p].run = r
    BY <1>2, <2>2 DEF AttemptInv
  <2>3. CASE p # q /\ request[p].run # r
    BY <1>1, <1>2, <1>3, <2>3 DEF AttemptInv
  <2>4. QED
    BY <2>1, <2>2, <2>3
<1>5. \A p, s \in Requests :
          Attempting(p)' /\ Attempting(s)' /\ request'[p].run = request'[s].run => p = s
  BY <1>2 DEF AttemptInv
<1>6. QED
  BY <1>4, <1>5 DEF AttemptInv

\* What the answer to an existing attempt can make of it.
LEMMA AnswersAre ==
    ASSUME NEW r \in Runs, run[r].attempt \in Attempts, NEW answer \in Answers(r)
    PROVE  LET now == run[r].attempt
               new == answer.attempt IN
           /\ answer.result \in {"completed", "failed", "pending", "reapproval"} /\ new \in Attempts
           /\ answer.result = "reapproval" => now = "changed"
           /\ answer.result # "pending" => now \notin {"absent", "creating"}
           /\ now \in {"absent", "creating", "ambiguous", "changed", "paid", "declined", "mismatch"}
                  => new = now
           /\ now = "ordered" => new \in {"ordered", "declined"}
           /\ now = "exposed" => new \in {"exposed", "declined", "paid"}
BY DEF Answers, Attempts

LEMMA ReserveKeeps ==
    ASSUME TypeOK, CartInv, NEW q \in Requests, Reserve(q)
    PROVE  TypeOK' /\ CartInv'
<1> USE DEF CartInv
<1>0. PICK r \in Runs : r = request[q].run
  BY DEF Reserve, RequestInv
<1>1. /\ request[q].pc = "reserve" /\ request[q].run = r /\ request[q].result = "none"
      /\ UNCHANGED <<price, cart, lease, slips, faults>> /\ run[r].attempt \in Attempts
  BY <1>0 DEF Reserve, RequestInv, TypeOK, Run, Attempts
<1>2. CASE run[r].attempt = "absent"
  <2>1. Attempt(r, "creating") /\ Goes(q, "check")
    BY <1>0, <1>2 DEF Reserve
  <2>2. /\ run' \in [Runs -> Run] /\ OtherRunsKept(r)
        /\ run'[r].stage = run[r].stage /\ run'[r].quoted = run[r].quoted
        /\ run'[r].amount = run[r].amount /\ run'[r].agreed = run[r].agreed
        /\ run'[r].attempt = "creating" /\ run'[r].order = run[r].order
        /\ run'[r].total = run[r].total
    BY <2>1, AttemptDoes
  <2>3. /\ request' \in [Requests -> Request] /\ OthersKept(q) /\ request'[q].pc = "check"
        /\ request'[q].run = r /\ request'[q].result = "none"
    BY <1>1, <2>1, GoesDoes DEF Labels, Paying
  <2>4. TypeOK'
    BY <1>1, <2>2, <2>3 DEF TypeOK
  <2>5. RequestInv'
    BY <1>1, <2>3, RequestsKept
  <2>6. \A p \in Requests : request[p].run = r => ~Attempting(p)
    BY <1>2 DEF AttemptInv, Attempting
  <2>7. AttemptInv'
    BY <1>1, <1>2, <2>2, <2>3, <2>6, AttemptMoves DEF Attempting
  <2>8. LeaseInv'
    BY <1>1, <2>3, LeaseKept DEF InScope, OwnerOf, Quoting, Paying
  <2>9. BasketInv'
    BY <1>1, <2>2, <2>3, BasketsKept DEF OtherRunsKept
  <2>10. ApprovalInv'
    <3>1. \A p \in Requests : request'[p].pc = "reserve" => request'[p] = request[p]
      BY <2>3 DEF OthersKept
    <3>2. "overwrite" \notin slips =>
              /\ run[r].stage # "reapproval" => run[r].amount <= run[r].agreed
              /\ run[r].stage \in Settled
      BY <1>1, <1>2 DEF ApprovalInv
    <3>3. QED
      BY <1>1, <2>2, <3>1, <3>2, ApprovalsKept
  <2>11. QED
    BY <2>4, <2>5, <2>7, <2>8, <2>9, <2>10
<1>3. CASE run[r].attempt # "absent"
  <2>1. CASE Gives(q, "finish", "raised") /\ run' = run
    BY <1>1, <2>1, GivesDoes, RequestMoves DEF Labels, Quoting, Paying, InScope, OwnerOf, TypeOK
  <2>2. ASSUME NEW answer \in Answers(r), Attempt(r, answer.attempt),
               Gives(q, "finish", answer.result)
        PROVE  TypeOK' /\ CartInv'
    <3>1. PICK new \in Attempts, result \in {"completed", "failed", "pending", "reapproval"} :
            /\ new = answer.attempt /\ result = answer.result
            /\ result = "reapproval" => run[r].attempt = "changed"
            /\ run[r].attempt \in {"absent", "creating", "ambiguous", "changed", "paid",
                                   "declined", "mismatch"} => new = run[r].attempt
            /\ run[r].attempt = "ordered" => new \in {"ordered", "declined"}
            /\ run[r].attempt = "exposed" => new \in {"exposed", "declined", "paid"}
      BY <1>1, <2>2, AnswersAre
    <3>2. /\ run' \in [Runs -> Run] /\ OtherRunsKept(r)
          /\ run'[r].stage = run[r].stage /\ run'[r].quoted = run[r].quoted
          /\ run'[r].amount = run[r].amount /\ run'[r].agreed = run[r].agreed
          /\ run'[r].attempt = new /\ run'[r].order = run[r].order
          /\ run'[r].total = run[r].total
      BY <2>2, <3>1, AttemptDoes DEF Attempts
    <3>3. /\ request' \in [Requests -> Request] /\ OthersKept(q) /\ request'[q].pc = "finish"
          /\ request'[q].run = r /\ request'[q].result = result
      BY <1>1, <2>2, <3>1, GivesDoes DEF Labels, Paying
    <3>4. TypeOK'
      BY <1>1, <3>2, <3>3 DEF TypeOK
    <3>5. RequestInv'
      BY <1>1, <3>3, RequestsKept
    <3>6. \A p \in Requests : request[p].run = r =>
               /\ request[p].pc \in {"check", "order"} => run[r].attempt = "creating"
               /\ request[p].pc = "pay" =>
                      run[r].attempt \in {"ordered", "exposed", "paid", "declined"}
      BY DEF AttemptInv
    <3>7. AttemptInv'
      BY <1>1, <1>3, <3>1, <3>2, <3>3, <3>6, AttemptMoves DEF Attempting, Attempts
    <3>8. LeaseInv'
      BY <1>1, <3>3, LeaseKept DEF InScope, OwnerOf, Quoting, Paying
    <3>9. BasketInv'
      BY <1>1, <3>2, <3>3, BasketsKept DEF OtherRunsKept
    <3>10. ApprovalInv'
      <4>1. \A p \in Requests : request'[p].pc = "reserve" => request'[p] = request[p]
        BY <3>3 DEF OthersKept
      <4>2. "overwrite" \notin slips =>
                /\ run[r].stage # "reapproval" => run[r].amount <= run[r].agreed
                /\ run[r].attempt \notin {"absent", "changed"} => run[r].stage \in Settled
                /\ run[r].attempt \in {"ordered", "exposed", "paid"} =>
                       run[r].total <= run[r].agreed
        BY DEF ApprovalInv
      <4>3. QED
        BY <1>1, <1>3, <3>1, <3>2, <4>1, <4>2, ApprovalsKept DEF Attempts
    <3>11. QED
      BY <3>4, <3>5, <3>7, <3>8, <3>9, <3>10
  <2>3. QED
    BY <1>0, <1>3, <2>1, <2>2 DEF Reserve
<1>4. QED
  BY <1>2, <1>3

\* The request with the attempt ends it: what all outcomes of the cart check, of
\* the order and of the payment share.
LEMMA OutcomeKeeps ==
    ASSUME TypeOK, CartInv, NEW q \in Requests, NEW r \in Runs, request[q].run = r,
           Attempting(q), UNCHANGED <<price, cart, lease, slips, faults>>,
           NEW new \in Attempts \ {"absent"}, NEW label \in {"order", "pay", "finish"},
           NEW result \in {"none", "pending", "completed", "failed", "reapproval", "raised"},
           run' \in [Runs -> Run], OtherRunsKept(r),
           run'[r].stage = run[r].stage, run'[r].quoted = run[r].quoted,
           run'[r].amount = run[r].amount, run'[r].agreed = run[r].agreed,
           run'[r].attempt = new, LeaseRespected => run'[r].order \in {r, NoRun},
           request' \in [Requests -> Request], OthersKept(q), request'[q].pc = label,
           request'[q].run = r, request'[q].result = result,
           label # "finish" => result = "none",
           result = "reapproval" => new = "changed",
           label = "order" => new = "creating" /\ cart = r,
           label = "pay" => new = "ordered",
           run[r].attempt # "changed",
           new \in {"ordered", "exposed", "paid"} =>
               \/ run[r].attempt = "ordered" /\ run'[r].total = run[r].total
               \/ run[r].attempt = "creating" /\ run'[r].total = run[r].amount
    PROVE  TypeOK' /\ CartInv'
<1> USE DEF CartInv
<1>1. TypeOK'
  BY DEF TypeOK
<1>2. RequestInv'
  BY RequestsKept
<1>3. \A p \in Requests \ {q} : request[p].run = r => ~Attempting(p)
  BY DEF AttemptInv
<1>4. run[r].attempt # "absent"
  BY DEF AttemptInv, Attempting
<1>5. AttemptInv'
  BY <1>3, <1>4, AttemptMoves DEF Attempting
<1>6. LeaseInv'
  BY LeaseKept DEF InScope, OwnerOf, Quoting, Paying, Attempting
<1>7. BasketInv'
  BY DEF BasketInv, OthersKept, OtherRunsKept, LeaseRespected
<1>8. ApprovalInv'
  <2>1. \A p \in Requests : request'[p].pc = "reserve" => request'[p] = request[p]
    BY DEF OthersKept
  <2>2. "overwrite" \notin slips =>
            /\ run[r].stage # "reapproval" => run[r].amount <= run[r].agreed
            /\ run[r].stage \in Settled
            /\ run[r].attempt = "ordered" => run[r].total <= run[r].agreed
    BY <1>4 DEF ApprovalInv
  <2>3. "reapproval" \notin Settled
    BY DEF Settled
  <2>4. QED
    BY <2>1, <2>2, <2>3, ApprovalsKept
<1>9. QED
  BY <1>1, <1>2, <1>5, <1>6, <1>7, <1>8

LEMMA CheckKeeps ==
    ASSUME TypeOK, CartInv, NEW q \in Requests, CheckCart(q)
    PROVE  TypeOK' /\ CartInv'
<1>0. PICK r \in Runs : r = request[q].run
  BY DEF CheckCart, CartInv, RequestInv
<1>1. /\ request[q].pc = "check" /\ request[q].run = r /\ request[q].result = "none"
      /\ UNCHANGED <<price, cart, lease, slips, faults>> /\ Attempting(q)
      /\ run[r].attempt = "creating"
  BY <1>0 DEF CheckCart, CartInv, RequestInv, AttemptInv, Attempting
<1>2. LeaseRespected => run[r].order \in {r, NoRun}
  BY DEF CartInv, BasketInv
<1>3. CASE cart = r /\ Goes(q, "order") /\ run' = run
  <2>1. /\ request' \in [Requests -> Request] /\ OthersKept(q) /\ request'[q].pc = "order"
        /\ request'[q].run = r /\ request'[q].result = "none"
    BY <1>1, <1>3, GoesDoes DEF Labels, Paying
  <2>2. run' \in [Runs -> Run] /\ OtherRunsKept(r)
    BY <1>3 DEF TypeOK, OtherRunsKept
  <2>3. QED
    BY <1>1, <1>2, <1>3, <2>1, <2>2, OutcomeKeeps DEF Attempts
<1>4. CASE Attempt(r, "mismatch") /\ Gives(q, "finish", "failed")
  <2>1. /\ request' \in [Requests -> Request] /\ OthersKept(q) /\ request'[q].pc = "finish"
        /\ request'[q].run = r /\ request'[q].result = "failed"
    BY <1>1, <1>4, GivesDoes DEF Labels, Paying
  <2>2. /\ run' \in [Runs -> Run] /\ OtherRunsKept(r)
        /\ run'[r].stage = run[r].stage /\ run'[r].quoted = run[r].quoted
        /\ run'[r].amount = run[r].amount /\ run'[r].agreed = run[r].agreed
        /\ run'[r].attempt = "mismatch" /\ run'[r].order = run[r].order
    BY <1>4, AttemptDoes
  <2>3. QED
    BY <1>1, <1>2, <2>1, <2>2, OutcomeKeeps DEF Attempts
<1>5. QED
  BY <1>0, <1>3, <1>4 DEF CheckCart

LEMMA OrderKeeps ==
    ASSUME TypeOK, CartInv, NEW q \in Requests, CreateOrder(q)
    PROVE  TypeOK' /\ CartInv'
<1>0. PICK r \in Runs : r = request[q].run
  BY DEF CreateOrder, CartInv, RequestInv
<1>1. /\ request[q].pc = "order" /\ request[q].run = r /\ cart \in Runs
      /\ UNCHANGED <<price, cart, lease, slips, faults>> /\ Attempting(q)
      /\ run[r].attempt = "creating" /\ (LeaseRespected => cart = r)
      /\ LeaseRespected => run[r].order \in {r, NoRun}
  BY <1>0 DEF CreateOrder, CartInv, RequestInv, AttemptInv, BasketInv, Attempting
<1>2. price[cart] \in Prices /\ run \in [Runs -> Run]
  BY <1>1 DEF TypeOK
<1>3. ASSUME NEW new \in {"ordered", "changed", "ambiguous"},
             run' = [run EXCEPT ![r].order = cart, ![r].total = price[cart], ![r].attempt = new]
      PROVE  /\ run' \in [Runs -> Run] /\ OtherRunsKept(r)
             /\ run'[r].stage = run[r].stage /\ run'[r].quoted = run[r].quoted
             /\ run'[r].amount = run[r].amount /\ run'[r].agreed = run[r].agreed
             /\ run'[r].attempt = new /\ run'[r].order = cart /\ run'[r].total = price[cart]
  <2> DEFINE n == [run[r] EXCEPT !.order = cart, !.total = price[cart], !.attempt = new]
  <2>1. run' = [run EXCEPT ![r] = n]
    BY <1>2, <1>3 DEF Run
  <2>2. run[r] \in Run
    BY <1>2
  <2>3. /\ n \in Run /\ n.stage = run[r].stage /\ n.quoted = run[r].quoted
        /\ n.amount = run[r].amount /\ n.agreed = run[r].agreed
        /\ n.attempt = new /\ n.order = cart /\ n.total = price[cart]
    BY <1>1, <1>2, <2>2 DEF Run
  <2> HIDE DEF n
  <2>4. QED
    BY <1>2, <2>1, <2>3 DEF OtherRunsKept
<1>4. ASSUME NEW result \in {"pending", "reapproval", "raised"}, Gives(q, "finish", result)
      PROVE  /\ request' \in [Requests -> Request] /\ OthersKept(q) /\ request'[q].pc = "finish"
             /\ request'[q].run = r /\ request'[q].result = result
  BY <1>1, <1>4, GivesDoes DEF Labels, Paying
<1>5. CASE /\ price[cart] = run[r].amount /\ Goes(q, "pay")
           /\ run' = [run EXCEPT ![r].order = cart, ![r].total = price[cart],
                                 ![r].attempt = "ordered"]
  <2>1. /\ request' \in [Requests -> Request] /\ OthersKept(q) /\ request'[q].pc = "pay"
        /\ request'[q].run = r /\ request'[q].result = "none"
    BY <1>1, <1>5, GoesDoes DEF Labels, Paying, CartInv, RequestInv
  <2>2. /\ run' \in [Runs -> Run] /\ OtherRunsKept(r)
        /\ run'[r].stage = run[r].stage /\ run'[r].quoted = run[r].quoted
        /\ run'[r].amount = run[r].amount /\ run'[r].agreed = run[r].agreed
        /\ run'[r].attempt = "ordered" /\ run'[r].order = cart /\ run'[r].total = price[cart]
    BY <1>3, <1>5
  <2>3. QED
    BY <1>1, <1>5, <2>1, <2>2, OutcomeKeeps DEF Attempts
<1>6. CASE /\ Gives(q, "finish", "reapproval")
           /\ run' = [run EXCEPT ![r].order = cart, ![r].total = price[cart],
                                 ![r].attempt = "changed"]
  <2>1. /\ run' \in [Runs -> Run] /\ OtherRunsKept(r)
        /\ run'[r].stage = run[r].stage /\ run'[r].quoted = run[r].quoted
        /\ run'[r].amount = run[r].amount /\ run'[r].agreed = run[r].agreed
        /\ run'[r].attempt = "changed" /\ run'[r].order = cart /\ run'[r].total = price[cart]
    BY <1>3, <1>6
  <2>2. /\ request' \in [Requests -> Request] /\ OthersKept(q) /\ request'[q].pc = "finish"
        /\ request'[q].run = r /\ request'[q].result = "reapproval"
    BY <1>4, <1>6
  <2>3. QED
    BY <1>1, <2>1, <2>2, OutcomeKeeps DEF Attempts
<1>7. ASSUME NEW result \in {"pending", "raised"}, Gives(q, "finish", result),
             run' = [run EXCEPT ![r].order = cart, ![r].total = price[cart],
                                ![r].attempt = "ambiguous"]
      PROVE  TypeOK' /\ CartInv'
  <2>1. /\ run' \in [Runs -> Run] /\ OtherRunsKept(r)
        /\ run'[r].stage = run[r].stage /\ run'[r].quoted = run[r].quoted
        /\ run'[r].amount = run[r].amount /\ run'[r].agreed = run[r].agreed
        /\ run'[r].attempt = "ambiguous" /\ run'[r].order = cart /\ run'[r].total = price[cart]
    BY <1>3, <1>7
  <2>2. /\ request' \in [Requests -> Request] /\ OthersKept(q) /\ request'[q].pc = "finish"
        /\ request'[q].run = r /\ request'[q].result = result
    BY <1>4, <1>7
  <2>3. QED
    BY <1>1, <2>1, <2>2, OutcomeKeeps DEF Attempts
<1>8. CASE Attempt(r, "ambiguous") /\ Gives(q, "finish", "pending")
  <2>1. /\ run' \in [Runs -> Run] /\ OtherRunsKept(r)
        /\ run'[r].stage = run[r].stage /\ run'[r].quoted = run[r].quoted
        /\ run'[r].amount = run[r].amount /\ run'[r].agreed = run[r].agreed
        /\ run'[r].attempt = "ambiguous" /\ run'[r].order = run[r].order
    BY <1>8, AttemptDoes
  <2>2. /\ request' \in [Requests -> Request] /\ OthersKept(q) /\ request'[q].pc = "finish"
        /\ request'[q].run = r /\ request'[q].result = "pending"
    BY <1>4, <1>8
  <2>3. QED
    BY <1>1, <2>1, <2>2, OutcomeKeeps DEF Attempts
<1>9. QED
  BY <1>0, <1>5, <1>6, <1>7, <1>8 DEF CreateOrder

LEMMA PayKeeps ==
    ASSUME TypeOK, CartInv, NEW q \in Requests, Pay(q)
    PROVE  TypeOK' /\ CartInv'
<1>0. PICK r \in Runs : r = request[q].run
  BY DEF Pay, CartInv, RequestInv
<1>1. /\ request[q].pc = "pay" /\ request[q].run = r
      /\ UNCHANGED <<price, cart, lease, slips, faults>> /\ Attempting(q)
      /\ LeaseRespected => run[r].order \in {r, NoRun}
  BY <1>0 DEF Pay, CartInv, BasketInv, Attempting
<1>2. ASSUME NEW new \in {"paid", "declined", "exposed"}, run[r].attempt = "ordered",
             NEW result \in {"completed", "failed", "pending"},
             Attempt(r, new), Gives(q, "finish", result)
      PROVE  TypeOK' /\ CartInv'
  <2>1. /\ request' \in [Requests -> Request] /\ OthersKept(q) /\ request'[q].pc = "finish"
        /\ request'[q].run = r /\ request'[q].result = result
    BY <1>1, <1>2, GivesDoes DEF Labels, Paying
  <2>2. /\ run' \in [Runs -> Run] /\ OtherRunsKept(r)
        /\ run'[r].stage = run[r].stage /\ run'[r].quoted = run[r].quoted
        /\ run'[r].amount = run[r].amount /\ run'[r].agreed = run[r].agreed
        /\ run'[r].attempt = new /\ run'[r].order = run[r].order /\ run'[r].total = run[r].total
    BY <1>2, AttemptDoes
  <2>3. QED
    BY <1>1, <1>2, <2>1, <2>2, OutcomeKeeps DEF Attempts
<1>3. CASE Gives(q, "finish", "raised") /\ run' = run
  BY <1>0, <1>1, <1>3, GivesDoes, RequestMoves DEF Labels, Quoting, Paying, InScope, OwnerOf, TypeOK
<1>4. QED
  BY <1>0, <1>2, <1>3 DEF Pay

\* A run is settled, or asked to be approved again, by what its own attempt answered.
LEMMA FinishKeeps ==
    ASSUME TypeOK, CartInv, NEW q \in Requests, Finish(q)
    PROVE  TypeOK' /\ CartInv'
<1> USE DEF CartInv
<1>0. PICK r \in Runs : r = request[q].run
  BY DEF Finish, RequestInv
<1> DEFINE Stages == {"new", "quoted", "passkey", "approved", "revalidated", "reapproval",
                      "pending", "completed", "failed"}
           result == request[q].result
           next == IF run[r].stage = "revalidated" /\ result # "raised"
                   THEN result ELSE Guarded(run[r].stage)
<1>1. /\ request[q].pc = "finish" /\ request[q].run = r
      /\ UNCHANGED <<price, cart, faults>> /\ slips \subseteq slips' /\ Ends(q)
      /\ slips' \subseteq slips \cup {"release"}
      /\ IF result = "none" THEN run' = run ELSE Stage(r, next)
  BY <1>0 DEF Finish
<1>2. result \in {"none", "pending", "reapproval", "completed", "failed", "raised"}
  BY <1>1 DEF RequestInv, TypeOK, Request
<1>3. /\ result \notin {"none", "raised"} => run[r].attempt # "absent"
      /\ result = "reapproval" => run[r].attempt = "changed"
  BY <1>1 DEF AttemptInv
<1>4. /\ request' \in [Requests -> Request] /\ OthersKept(q) /\ request'[q].pc = "idle"
      /\ request'[q].result = "none"
  BY <1>1, EndsDoes
<1>5. PICK stage \in Stages : stage = IF result = "none" THEN run[r].stage ELSE next
  BY <1>2, GuardedStage DEF TypeOK, Run
<1>6. /\ stage = "reapproval" => run[r].stage = "reapproval" \/ result = "reapproval"
      /\ run[r].stage = "reapproval" => stage = "reapproval"
      /\ run[r].stage \in Settled => stage \in Settled \/ result = "reapproval"
  BY <1>2, <1>5, GuardedStage DEF TypeOK, Run, Settled
<1>7. /\ run' \in [Runs -> Run] /\ OtherRunsKept(r) /\ run'[r].stage = stage
      /\ run'[r].amount = run[r].amount /\ run'[r].agreed = run[r].agreed
      /\ run'[r].attempt = run[r].attempt /\ run'[r].total = run[r].total
      /\ \A s \in Runs : /\ run'[s].quoted = run[s].quoted /\ run'[s].order = run[s].order
                         /\ run'[s].attempt = run[s].attempt
  <2>1. CASE result = "none"
    BY <1>1, <1>5, <2>1 DEF TypeOK, OtherRunsKept
  <2>2. CASE result # "none"
    BY <1>1, <1>5, <2>2, StageDoes, StageIsAll
  <2>3. QED
    BY <2>1, <2>2
<1>8. lease' \in {lease, NoLease}
  BY DEF Finish, Released
<1>9. TypeOK'
  <2>1. lease' \in Lease
    BY <1>8, LeaseTypes
  <2>2. slips' \subseteq {"lapse", "release", "overwrite"} /\ UNCHANGED <<price, cart, faults>>
    BY <1>1 DEF TypeOK
  <2>3. QED
    BY <1>4, <1>7, <2>1, <2>2 DEF TypeOK
<1>10. RequestInv' /\ AttemptInv'
  BY <1>1, <1>4, <1>7, RequestsKept, AttemptsKept DEF Attempting
<1>11. LeaseInv'
  <2>1. CASE lease' = lease
    BY <1>1, <1>4, <2>1, LeaseKept DEF InScope, Quoting, Paying
  <2>2. CASE lease' = Released(r)
    <3>1. LeaseRespected' => ~Stranded(q) \/ lease' = lease
      BY <1>0 DEF Finish, LeaseRespected
    <3>2. OwnerOf(q) = r
      BY <1>1 DEF OwnerOf, Quoting
    <3>3. ASSUME LeaseRespected', lease' # lease, NEW p \in Requests \ {q}, InScope(p),
                 lease.owner = r
          PROVE  OwnerOf(p) # r
      BY <3>1, <3>2, <3>3 DEF Stranded
    <3> DEFINE S == Requests \ {q}
    <3>4. /\ S \in SUBSET Requests /\ \A p \in S : request'[p] = request[p]
          /\ \A p \in Requests \ S : ~InScope(p)'
      BY <1>4 DEF OthersKept, InScope, Quoting, Paying
    <3>5. lease' # lease /\ LeaseRespected' =>
              \A p \in S : InScope(p) /\ lease.owner = r => OwnerOf(p) # r
      BY <3>3
    <3>6. r \in Owners
      BY DEF Owners
    <3> HIDE DEF S
    <3>7. CASE lease' # lease
      BY <1>1, <2>2, <3>4, <3>5, <3>6, <3>7, LeaseGiven
    <3>8. QED
      BY <2>1, <3>7
  <2>3. QED
    BY <1>0, <2>1, <2>2 DEF Finish
<1>12. BasketInv'
  BY <1>1, <1>4, <1>7, BasketsKept
<1>13. ApprovalInv'
  <2>1. \A p \in Requests : request'[p].pc = "reserve" => request'[p] = request[p]
    BY <1>4 DEF OthersKept
  <2>2. "overwrite" \notin slips =>
            /\ run[r].stage # "reapproval" => run[r].amount <= run[r].agreed
            /\ run[r].attempt \notin {"absent", "changed"} => run[r].stage \in Settled
            /\ run[r].attempt \in {"ordered", "exposed", "paid"} =>
                   run[r].total <= run[r].agreed
            /\ \A p \in Requests :
                   request[p].pc = "reserve" /\ request[p].run = r /\ run[r].attempt = "absent"
                   => run[r].stage \in Settled
    BY DEF ApprovalInv
  <2>3. QED
    BY <1>1, <1>3, <1>6, <1>7, <2>1, <2>2, ApprovalsKept
<1>14. QED
  BY <1>9, <1>10, <1>11, <1>12, <1>13

\* A decided attempt settles its pending run, and gives back the lease it kept.
LEMMA ReconcileKeeps ==
    ASSUME TypeOK, CartInv, NEW r \in Runs, Reconcile(r)
    PROVE  TypeOK' /\ CartInv'
<1> USE DEF CartInv
<1>0. PICK answer \in Answers(r) :
        /\ answer.result # "pending"
        /\ run' = [run EXCEPT ![r].stage = answer.result, ![r].attempt = answer.attempt]
  BY DEF Reconcile
<1>1. /\ run[r].stage = "pending" /\ run[r].attempt \in Attempts
      /\ UNCHANGED <<price, cart, request, faults>>
      /\ lease' = Released(r) /\ slips \subseteq slips' /\ slips' \subseteq slips \cup {"release"}
  BY DEF Reconcile, TypeOK, Run, Attempts
<1>2. PICK new \in Attempts, result \in {"completed", "failed", "reapproval"} :
        /\ new = answer.attempt /\ result = answer.result
        /\ result = "reapproval" => run[r].attempt = "changed"
        /\ run[r].attempt \notin {"absent", "creating"}
        /\ run[r].attempt \in {"absent", "creating", "ambiguous", "changed", "paid",
                               "declined", "mismatch"} => new = run[r].attempt
        /\ run[r].attempt = "ordered" => new \in {"ordered", "declined"}
        /\ run[r].attempt = "exposed" => new \in {"exposed", "declined", "paid"}
  BY <1>0, <1>1, AnswersAre
<1> DEFINE n == [run[r] EXCEPT !.stage = result, !.attempt = new]
<1>3. run \in [Runs -> Run]
  BY DEF TypeOK
<1>4. run' = [run EXCEPT ![r] = n]
  BY <1>0, <1>2, <1>3 DEF Run
<1>5. /\ n \in Run /\ n.stage = result /\ n.quoted = run[r].quoted /\ n.order = run[r].order
      /\ n.amount = run[r].amount /\ n.agreed = run[r].agreed
      /\ n.attempt = new /\ n.total = run[r].total
  BY <1>2, <1>3 DEF Run, Attempts
<1> HIDE DEF n
<1>6. run' \in [Runs -> Run] /\ OtherRunsKept(r) /\ run'[r] = n
  BY <1>3, <1>4, <1>5 DEF OtherRunsKept
<1>7. TypeOK'
  <2>1. lease' \in Lease
    BY <1>1, LeaseTypes DEF Released
  <2>2. slips' \subseteq {"lapse", "release", "overwrite"}
    BY <1>1 DEF TypeOK
  <2>3. QED
    BY <1>1, <1>6, <2>1, <2>2 DEF TypeOK
<1>8. RequestInv'
  BY <1>1 DEF RequestInv
<1>9. AttemptInv'
  <2>1. ASSUME NEW p \in Requests
        PROVE  LET now == run[request[p].run].attempt
                   next == run'[request[p].run].attempt IN
               /\ request[p].pc \in {"check", "order"} => next = "creating"
               /\ request[p].pc = "pay" => next \in {"ordered", "exposed", "paid", "declined"}
               /\ request[p].pc = "finish" =>
                      /\ request[p].result \notin {"none", "raised"} => next # "absent"
                      /\ request[p].result = "reapproval" => next = "changed"
    <3>1. request[p].pc # "idle" => request[p].run \in Runs
      BY DEF RequestInv
    <3>2. CASE request[p].run = r
      <4>1. /\ request[p].pc \notin {"check", "order"}
            /\ request[p].pc = "pay" => run[r].attempt \in {"ordered", "exposed", "paid", "declined"}
            /\ request[p].pc = "finish" /\ request[p].result = "reapproval" =>
                   run[r].attempt = "changed"
        BY <1>2, <3>2 DEF AttemptInv
      <4>2. run'[r].attempt = new /\ new # "absent"
        BY <1>1, <1>2, <1>5, <1>6 DEF Attempts
      <4>3. QED
        BY <1>2, <3>2, <4>1, <4>2
    <3>3. CASE request[p].run # r
      BY <1>6, <3>1, <3>3 DEF AttemptInv, OtherRunsKept
    <3>4. QED
      BY <3>2, <3>3
  <2>2. QED
    BY <1>1, <2>1 DEF AttemptInv, Attempting
<1>10. LeaseInv'
  <2>1. LeaseRespected' => \A p \in Requests : InScope(p) /\ lease.owner = r => OwnerOf(p) # r
    BY DEF Reconcile, LeaseRespected
  <2>2. r \in Owners
    BY DEF Owners
  <2> DEFINE S == Requests
  <2>3. /\ S \in SUBSET Requests /\ \A p \in S : request'[p] = request[p]
        /\ \A p \in Requests \ S : ~InScope(p)'
    BY <1>1
  <2>4. LeaseRespected' => \A p \in S : InScope(p) /\ lease.owner = r => OwnerOf(p) # r
    BY <2>1
  <2> HIDE DEF S
  <2>5. QED
    BY <1>1, <2>2, <2>3, <2>4, LeaseGiven
<1>11. BasketInv'
  BY <1>1, <1>5, <1>6 DEF BasketInv, OtherRunsKept, LeaseRespected
<1>12. ApprovalInv'
  <2>1. "overwrite" \notin slips =>
            /\ run[r].amount <= run[r].agreed
            /\ run[r].attempt \in {"ordered", "exposed", "paid"} =>
                   run[r].total <= run[r].agreed
    BY <1>1 DEF ApprovalInv
  <2>2. QED
    BY <1>1, <1>2, <1>5, <1>6, <2>1, ApprovalsKept DEF Settled, Attempts
<1>13. QED
  BY <1>7, <1>8, <1>9, <1>10, <1>11, <1>12

-----------------------------------------------------------------------------
(* The environment, and every step.                                         *)

LEMMA RepriceKeeps ==
    ASSUME TypeOK, CartInv, NEW r \in Runs, NEW p \in Prices, Reprice(r, p)
    PROVE  TypeOK' /\ CartInv'
<1>1. TypeOK'
  BY FaultCounted DEF Reprice, TypeOK
<1>2. CartInv'
  BY DEF Reprice, CartInv, RequestInv, AttemptInv, Attempting, LeaseInv, InScope, OwnerOf,
         LeaseRespected, BasketInv, ApprovalInv
<1>3. QED
  BY <1>1, <1>2

LEMMA LapseKeeps ==
    ASSUME TypeOK, CartInv, Lapse
    PROVE  TypeOK' /\ CartInv'
<1> USE DEF CartInv
<1>1. /\ lease' = [lease EXCEPT !.lapsed = TRUE]
      /\ UNCHANGED <<price, cart, run, request>>
      /\ slips \subseteq slips' /\ slips' \subseteq slips \cup {"lapse"}
      /\ LeaseRespected' => \A q \in Requests : InScope(q) => OwnerOf(q) # lease.owner
  BY DEF Lapse, LeaseRespected
<1>2. TypeOK'
  <2>1. lease' \in Lease
    BY <1>1 DEF TypeOK, Lease
  <2>2. slips' \subseteq {"lapse", "release", "overwrite"} /\ faults' \in 0 .. MaxFaults
    BY <1>1, FaultCounted DEF TypeOK, Lapse
  <2>3. QED
    BY <1>1, <2>1, <2>2 DEF TypeOK
<1>3. LeaseInv'
  <2> SUFFICES ASSUME LeaseRespected', NEW q \in Requests, InScope(q) PROVE FALSE
    BY <1>1 DEF LeaseInv, InScope, OwnerOf
  <2>1. lease = Taken(OwnerOf(q))
    BY <1>1 DEF LeaseInv, LeaseRespected
  <2>2. QED
    BY <1>1, <2>1 DEF Taken
<1>4. RequestInv' /\ AttemptInv' /\ BasketInv' /\ ApprovalInv'
  BY <1>1 DEF RequestInv, AttemptInv, Attempting, BasketInv, LeaseRespected, ApprovalInv
<1>5. QED
  BY <1>2, <1>3, <1>4

LEMMA StepKeeps ==
    ASSUME TypeOK, CartInv, [Next]_vars
    PROVE  TypeOK' /\ CartInv'
<1>1. ASSUME NEW q \in Requests, NEW r \in Runs, BeginQuote(q, r) \/ Resume(q, r)
      PROVE  TypeOK' /\ CartInv'
  BY <1>1, BeginKeeps, ResumeKeeps
<1>2. ASSUME NEW q \in Requests,
             ReplaceCart(q) \/ InspectCart(q) \/ PreviewOrder(q) \/ Unlock(q)
      PROVE  TypeOK' /\ CartInv'
  BY <1>2, ReplaceKeeps, InspectKeeps, PreviewKeeps, UnlockKeeps
<1>3. ASSUME NEW q \in Requests,
             MandateApproved(q) \/ Lock(q) \/ Examine(q) \/ Revalue(q) \/ Revalidate(q)
      PROVE  TypeOK' /\ CartInv'
  BY <1>3, MandateKeeps, LockKeeps, ExamineKeeps, RevalidateKeeps
<1>4. ASSUME NEW q \in Requests,
             Reserve(q) \/ CheckCart(q) \/ CreateOrder(q) \/ Pay(q) \/ Finish(q) \/ Die(q)
      PROVE  TypeOK' /\ CartInv'
  BY <1>4, ReserveKeeps, CheckKeeps, OrderKeeps, PayKeeps, FinishKeeps, DieKeeps
<1>5. ASSUME NEW r \in Runs,
             \/ Approve(r) \/ ApproveLate(r) \/ Reconcile(r)
             \/ \E p \in Prices : Adjust(r, p) \/ AdjustLate(r, p) \/ Reprice(r, p)
      PROVE  TypeOK' /\ CartInv'
  BY <1>5, ApproveKeeps, ReconcileKeeps, AdjustKeeps, RepriceKeeps
<1>6. CASE Lapse
  BY <1>6, LapseKeeps
<1>7. CASE UNCHANGED vars
  <2>1. TypeOK'
    BY <1>7 DEF TypeOK, vars
  <2>2. CartInv'
    BY <1>7 DEF vars, CartInv, RequestInv, AttemptInv, Attempting, LeaseInv, InScope, OwnerOf,
                LeaseRespected, BasketInv, ApprovalInv
  <2>3. QED
    BY <2>1, <2>2
<1>8. QED
  BY <1>1, <1>2, <1>3, <1>4, <1>5, <1>6, <1>7 DEF Next

-----------------------------------------------------------------------------
(* Theorems                                                                 *)

\* Carts, leases, runs and requests keep their types and the inductive invariant:
\* the request is served, the attempt is owned, the lease is held, the basket is the
\* run's and the amount is agreed to.
THEOREM Invariance == Spec => [](TypeOK /\ CartInv)
<1>1. Init => TypeOK
  <2> SUFFICES ASSUME Init PROVE TypeOK
    OBVIOUS
  <2>1. NoLease \in Lease /\ Idle \in Request
    BY DEF NoLease, Lease, Idle, Request
  <2>2. run \in [Runs -> Run]
    BY DEF Init, Run
  <2>3. QED
    BY <2>1, <2>2, MaxFaultsAssumption DEF Init, TypeOK
<1>2. Init => CartInv
  BY DEF Init, Idle, CartInv, RequestInv, AttemptInv, Attempting, LeaseInv, InScope, Quoting,
         Paying, BasketInv, ApprovalInv
<1>3. TypeOK /\ CartInv /\ [Next]_vars => (TypeOK /\ CartInv)'
  BY StepKeeps
<1>4. QED
  BY <1>1, <1>2, <1>3, PTL DEF Spec

\* The rows of the lease, the runs and the requests keep their types.
THEOREM Typing == Spec => []TypeOK
BY Invariance, PTL

\* quote_provider.py's promise: while leases are respected, no two requests work on
\* the user's cart for different runs.
THEOREM OneCart == Spec => []OneCartAtATime
<1>1. TypeOK /\ CartInv => OneCartAtATime
  BY OneRunInScope DEF CartInv, OneCartAtATime
<1>2. QED
  BY <1>1, Invariance, PTL

\* No run is quoted, or sold, the basket of another (_require_exact_cart before the
\* preview and before the order, under the lease).
THEOREM Own == Spec => []OwnBasket
<1>1. CartInv => OwnBasket
  BY DEF CartInv, BasketInv, OwnBasket
<1>2. QED
  BY <1>1, Invariance, PTL

\* Whatever became of lease and cart, what is paid was agreed to, in the intent or by
\* an adjustment made after it: a total may only fall between the user's answer and
\* the order (act, revalidate_locked, complete_checkout).
THEOREM WithinApproval == Spec => []PaidWithinApproval
<1>1. CartInv => PaidWithinApproval
  BY DEF CartInv, ApprovalInv, PaidWithinApproval
<1>2. QED
  BY <1>1, Invariance, PTL

\* A pending checkout that keeps its lease keeps its cart: nobody else's quote can
\* replace it.
THEOREM PendingCart == Spec => PendingKeepsCart
<1>1. ASSUME TypeOK, CartInv, [Next]_vars, NEW r \in Runs, lease = Taken(r), LeaseRespected
      PROVE  cart' = cart
  <2>1. ASSUME NEW q \in Requests, ReplaceCart(q) PROVE FALSE
    <3>1. InScope(q) /\ OwnerOf(q) = q
      BY <2>1 DEF ReplaceCart, InScope, OwnerOf, Quoting
    <3>2. QED
      BY <1>1, <3>1, OwnersAssumption DEF CartInv, LeaseInv, Taken
  <2>2. ASSUME NEW q \in Requests, NEW s \in Runs, BeginQuote(q, s) \/ Resume(q, s)
        PROVE  cart' = cart
    BY <2>2 DEF BeginQuote, Resume
  <2>3. ASSUME NEW q \in Requests,
               InspectCart(q) \/ PreviewOrder(q) \/ Unlock(q) \/ MandateApproved(q) \/ Lock(q)
        PROVE  cart' = cart
    BY <2>3 DEF InspectCart, PreviewOrder, Unlock, MandateApproved, Lock
  <2>4. ASSUME NEW q \in Requests,
               Examine(q) \/ Revalue(q) \/ Revalidate(q) \/ Reserve(q) \/ CheckCart(q)
        PROVE  cart' = cart
    BY <2>4 DEF Examine, Revalue, Revalidate, Reserve, CheckCart
  <2>5. ASSUME NEW q \in Requests, CreateOrder(q) \/ Pay(q) \/ Finish(q) \/ Die(q)
        PROVE  cart' = cart
    BY <2>5 DEF CreateOrder, Pay, Finish, Die
  <2>6. ASSUME NEW s \in Runs,
               \/ Approve(s) \/ ApproveLate(s) \/ Reconcile(s)
               \/ \E p \in Prices : Adjust(s, p) \/ AdjustLate(s, p) \/ Reprice(s, p)
        PROVE  cart' = cart
    BY <2>6 DEF Approve, ApproveLate, Reconcile, Adjust, AdjustLate, Reprice
  <2>7. CASE Lapse \/ UNCHANGED vars
    BY <2>7 DEF Lapse, vars
  <2>8. QED
    BY <1>1, <2>1, <2>2, <2>3, <2>4, <2>5, <2>6, <2>7 DEF Next
<1>2. TypeOK /\ CartInv /\ [Next]_vars =>
          [\A r \in Runs :
             /\ run[r].stage = "pending" /\ lease = Taken(r) /\ LeaseRespected
             => cart' = cart]_vars
  BY <1>1
<1>3. QED
  BY <1>2, Invariance, PTL DEF Spec, PendingKeepsCart
=============================================================================
