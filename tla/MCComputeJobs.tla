---------------------------- MODULE MCComputeJobs ----------------------------
(* Instances of ComputeJobs and ComputeTakeover for TLC. *)
EXTENDS ComputeTakeover
=============================================================================
