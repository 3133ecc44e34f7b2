-------------------------- MODULE MCInvoiceCheckout --------------------------
(* Two callers of one invoice, each with its own amount and session. *)
EXTENDS InvoiceCheckout
=============================================================================
