----------------------- MODULE MC_SB_QPS_Availability -----------------------
(* Instances of SB_QPS_Availability for TLC.  Ports are interchangeable.   *)
EXTENDS SB_QPS_Availability, TLC

PortSymmetry == Permutations(Inputs) \cup Permutations(Outputs)
=============================================================================
