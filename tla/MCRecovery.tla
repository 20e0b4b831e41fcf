----------------------------- MODULE MCRecovery -----------------------------
(* Instances of Recovery for TLC, with the requests MCScheduler offers. *)
EXTENDS Recovery, MCScheduler
=============================================================================
