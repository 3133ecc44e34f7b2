--------------------------- MODULE MCPravaPayments ---------------------------
(* The NANDA plugin with two tasks on one payment reference. *)
EXTENDS PravaPayments
=============================================================================
