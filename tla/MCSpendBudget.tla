---------------------------- MODULE MCSpendBudget ----------------------------
(* SpendBudget on two requests and a few runs of one user. *)
EXTENDS SpendBudget, TLC

Symmetry == Permutations(Callers) \cup Permutations(Runs)
=============================================================================
