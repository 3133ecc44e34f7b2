----------------------------- MODULE MCOutboxes -----------------------------
(* The outboxes on a small instance: two dispatchers for one notice, and two *)
(* delivery passes that can lose one lead's row to each other three times.   *)
EXTENDS Outboxes
=============================================================================
