------------------------ MODULE MCMerchantConnection ------------------------
(* Three requests of one user at the same time; two consents are begun.     *)
EXTENDS MerchantConnection, TLC

Symmetry == Permutations(Requests) \cup Permutations(Flows)
=============================================================================
