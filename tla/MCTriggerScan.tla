---------------------------- MODULE MCTriggerScan -----------------------------
(* TriggerScan on an item bought before and one that was not, with the scan
   route and the worker. *)
EXTENDS TriggerScan
=============================================================================
