---------------------- MODULE MCRandomizedEdgeColoring ----------------------
(***************************************************************************)
(* Instances of RandomizedEdgeColoring for TLC.                            *)
(***************************************************************************)
EXTENDS RandomizedEdgeColoring

(* The loop of the simulator makes the call that is due (SwitchFairness)   *)
(* until an assertion ends the program: a behaviour that aborts is fair.    *)
FairUntilAborted == WF_phase(~aborted /\ phase' = NextPhase)

MCSpec == Spec /\ FairUntilAborted
=============================================================================
