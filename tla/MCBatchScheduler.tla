-------------------------- MODULE MCBatchScheduler --------------------------
(* Instances of BatchScheduler for TLC.  Ports are interchangeable: no      *)
(* definition compares two of them other than by equality.                  *)
EXTENDS BatchScheduler, TLC

PortSymmetry == Permutations(Inputs) \cup Permutations(Outputs)
=============================================================================
