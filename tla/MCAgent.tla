------------------------------- MODULE MCAgent -------------------------------
(* Two threads, two intents for one item whose price is the monthly cap. *)
EXTENDS Agent, TLC

CONSTANT i1

MCPrice == [i \in {i1} |-> 1]

Symmetry == Permutations(Sessions) \cup Permutations(References) \cup Permutations(Threads)
=============================================================================
