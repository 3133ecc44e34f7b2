----------------------------- MODULE MCCartLease -----------------------------
(* Two runs of one user and two requests that quote or pay them. *)
EXTENDS CartLease, TLC

Symmetry == Permutations(Requests) \cup Permutations(Runs)
=============================================================================
