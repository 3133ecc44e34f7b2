----------------------------- MODULE MCWorkflow -----------------------------
EXTENDS Workflow, TLC
Symmetry == Permutations(Callers) \cup Permutations(Sessions)
=============================================================================
