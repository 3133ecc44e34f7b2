----------------------------- MODULE MCCheckout -----------------------------
(* Checkout on two concurrent callers. *)
EXTENDS Checkout, TLC

Symmetry == Permutations(Callers) \cup Permutations(Sessions)
=============================================================================
