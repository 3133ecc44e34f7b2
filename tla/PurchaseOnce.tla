----------------------------- MODULE PurchaseOnce -----------------------------
(***************************************************************************)
(* What one idempotency key promises the user, whatever number of requests,*)
(* retries and crashes work on it: one order, one payment, one outcome that*)
(* is the merchant's, one truthful word to Prava.                          *)
(***************************************************************************)

VARIABLES
    payment,     \* what the merchant holds: an order, then its payment
    submitted,   \* was the payment page submitted?
    outcome,     \* what the attempt concluded
    told         \* what Prava was told

vars == <<payment, submitted, outcome, told>>

Decided == {"paid", "declined"}

TypeOK ==
    /\ payment \in {"none", "open", "processing"} \cup Decided
    /\ submitted \in BOOLEAN
    /\ outcome \in {"undecided", "refused"} \cup Decided
    /\ told \in {"nothing"} \cup Decided

Init ==
    /\ payment = "none" /\ submitted = FALSE
    /\ outcome = "undecided" /\ told = "nothing"

PlaceOrder ==
    /\ payment = "none" /\ outcome = "undecided"
    /\ payment' = "open"
    /\ UNCHANGED <<submitted, outcome, told>>

\* Only once, on an existing order, and after the attempt concluded only to no
\* effect, on an order the merchant had given up.
Submit ==
    /\ ~submitted /\ payment # "none"
    /\ outcome = "undecided" \/ (outcome = "declined" /\ payment = "declined")
    /\ submitted' = TRUE
    /\ payment' = IF payment = "open" THEN "processing" ELSE payment
    /\ UNCHANGED <<outcome, told>>

\* The merchant decides a payment, or gives up on an order nobody paid.
Settle ==
    /\ \/ payment = "processing" /\ payment' \in Decided
       \/ payment = "open" /\ payment' = "declined"
    /\ UNCHANGED <<submitted, outcome, told>>

\* The attempt is given up before any payment, or concludes as the merchant did.
Conclude ==
    /\ outcome = "undecided"
    /\ \/ ~submitted /\ outcome' = "refused"
       \/ payment \in Decided /\ outcome' = payment
    /\ UNCHANGED <<payment, submitted, told>>

Tell ==
    /\ told = "nothing" /\ outcome \in Decided
    /\ told' = outcome
    /\ UNCHANGED <<payment, submitted, outcome>>

Next == PlaceOrder \/ Submit \/ Settle \/ Conclude \/ Tell

Spec == Init /\ [][Next]_vars
=============================================================================
