--------------------------- MODULE MCControlPlane ---------------------------
(* Instances of ControlPlane for TLC, with the requests MCScheduler offers. *)
EXTENDS ControlPlane, MCScheduler
=============================================================================
